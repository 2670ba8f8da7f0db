------------------------------ MODULE Screens -------------------------------
(***************************************************************************)
(* The shell: it registers the modules of the build, then answers the page *)
(* requests of a visit ([...module]/page.tsx): a form, a list and its      *)
(* Graph mode, a property with its receipts, or the print page of a report *)
(* (print/report/[name]/[id]/page.tsx).  One page per behaviour.           *)
(***************************************************************************)
EXTENDS EditScreen, GraphBoard, RentReceipts, PrintReport

CONSTANTS
    Requested(_), \* the paths asked for in a build
    Printed(_),   \* the names of the reports asked for in a build
    Deactivated,  \* the sets of modules that may be off
    RowsOf(_)     \* the rows an entity may have on the server

VARIABLE screen   \* none, error, missing, blocks, list, board, form, property, print

vars == <<registryVars, screenVars, boardVars, receiptVars, printVars, screen>>

Init == RegistryInit /\ ScreenInit /\ BoardInit /\ ReceiptsInit /\ PrintInit /\ screen = "none"

\* activeModuleNames: the App Store is not in the list, and always active.
Active(m, off) == m = "appstore" \/ m \notin off

Register == register /\ UNCHANGED <<screenVars, boardVars, receiptVars, printVars, screen>>

\* The page of a route: a read that fails shows the error instead.
loadView(route, path) ==
    LET d == route.descriptor
    IN \/ /\ d.viewType = "form" /\ d.entity # "property_management" /\ screen' = "form"
          /\ IF IdIn(route.path, path) = "new" THEN OpenForm(d, Nothing)
             ELSE \E row \in RowsOf(d.entity) : OpenForm(d, row)
       \/ /\ d.viewType = "form" /\ d.entity = "property_management" /\ screen' = "property"
          /\ UNCHANGED screenVars
       \/ d.viewType = "tree" /\ screen' = "list" /\ UNCHANGED screenVars
       \/ d.viewType \notin {"form", "tree"} /\ screen' = "blocks" /\ UNCHANGED screenVars
       \/ screen' = "error" /\ UNCHANGED screenVars

\* The manifest is evaluated by the page's module: its error fails every page.
ModulePage ==
    /\ Booted /\ screen = "none"
    /\ \E path \in Requested(found), off \in Deactivated :
          IF "server" \in threw THEN screen' = "error" /\ UNCHANGED screenVars
          ELSE IF match(path) = 0 \/ ~Active(routes[match(path)].module, off)
          THEN screen' = "missing" /\ UNCHANGED screenVars
          ELSE loadView(routes[match(path)], path)
    /\ UNCHANGED <<registryVars, boardVars, receiptVars, printVars>>

\* No session is asked for: the token in the address is what reads the data.
PrintReportPage ==
    /\ Booted /\ screen = "none"
    /\ \E name \in Printed(found) :
          LET named == Sift(reports, {r \in ToSet(reports) : r.name = name})
          IN \/ "server" \in threw /\ screen' = "error" /\ UNCHANGED printVars
             \/ "server" \notin threw /\ named = <<>> /\ screen' = "missing" /\ UNCHANGED printVars
             \/ "server" \notin threw /\ named # <<>> /\ screen' = "print" /\ OpenPrint(named[1])
    /\ UNCHANGED <<registryVars, screenVars, boardVars, receiptVars>>
PrintStep ==
    screen = "print" /\ PrintNext /\ UNCHANGED <<registryVars, screenVars, boardVars, receiptVars, screen>>

FormStep == screen = "form" /\ ScreenNext /\ UNCHANGED <<registryVars, boardVars, receiptVars, printVars, screen>>

GraphMode ==
    /\ screen = "list" /\ OpenBoard /\ screen' = "board"
    /\ UNCHANGED <<registryVars, screenVars, receiptVars, printVars>>
BoardStep == screen = "board" /\ BoardNext /\ UNCHANGED <<registryVars, screenVars, receiptVars, printVars, screen>>

PropertyStep ==
    screen = "property" /\ ReceiptsNext /\ UNCHANGED <<registryVars, screenVars, boardVars, printVars, screen>>

Next == Register \/ ModulePage \/ FormStep \/ GraphMode \/ BoardStep \/ PropertyStep \/ PrintReportPage \/ PrintStep
Spec == Init /\ [][Next]_vars

-----------------------------------------------------------------------------

Registered == Booted /\ threw = {} /\ screen = "none"

\* The reports that are well formed are printed as PrintReport expects.
ReportsDeclared ==
    \A m \in DOMAIN Catalog :
        /\ IsList(Catalog[m].reports)
        /\ \A r \in ToSet(Catalog[m].reports) : ReportOK(r) => ReportDeclared(r)

\* What the modules registered declare, in order: the last owner of a path, and
\* what extends it from there on.
Declarations == [i \in DOMAIN entries |-> Catalog[entries[i]]]
OwnerAt(modules, path) == Max({i \in DOMAIN modules : At(modules[i].routes, path) # {}})
Operations(modules, path) ==
    UNION {UNION {ToSet(ext.operations) : ext \in {x \in ToSet(modules[i].extends) : x.path = path}} :
              i \in OwnerAt(modules, path)..Len(modules)}
Expected(modules, path) ==
    LET operations == Operations(modules, path)
    IN (FieldNames(RouteAt(modules[OwnerAt(modules, path)].routes, path).descriptor)
            \union {op.field.name : op \in {o \in operations : o.op = "addField"}})
       \ {op.name : op \in {o \in operations : o.op = "removeField"}}

\* The view of a route is whole: see below.
Whole(d, fieldNames) ==
    LET normal == normalizeLayout(d)
        order == layoutFieldOrder(normal)
    IN /\ FieldNames(d) = fieldNames
       /\ WellFormed(normal, fieldNames)
       /\ ToSet(order) = fieldNames /\ Len(order) = Len(d.fields)
AllWhole(modules) ==
    \A route \in ToSet(routes) : Whole(route.descriptor, Expected(modules, route.path))

(***************************************************************************)
(* When every module has registered, each view has the fields its last     *)
(* owner declares and those that the extensions since then add and do not  *)
(* remove, and a well-formed layout that places each of them once, however *)
(* modules extend, replace and depend on each other's views (registry.ts,  *)
(* extensions.ts).                                                         *)
(***************************************************************************)
WholeViews == Registered => AllWhole(Declarations)

\* Where the menus of a top bar lead a caller.
Offered(menus, may) ==
    UNION {LET button == HeaderMenuButton(h, may)
           IN {button.leads} \union {line.path : line \in ToSet(button.opens)} :
             h \in ToSet(visibleMenus(menus, may))} \ {NoPath}

\* The lines that the modules register for the bar of m and a caller may follow.
Registrations(menuCalls, m, may) ==
    {line \in UNION {ToSet(renderMenuEntries(call.entries)) : call \in {c \in ToSet(menuCalls) : c.module = m}} :
        line.permission \in may \union {NoPermission}}

Lands(path) == match(path) # 0 /\ routes[match(path)].path = path

\* The bar leads to views (or the settings), and shows what was registered for it.
BarLands(m, may, offered) ==
    /\ \A path \in offered : path[1] = "settings" \/ Lands(path)
    /\ {line.path : line \in Registrations(MenuCalls(entries), m, may)} \subseteq offered

\* The page of a row: a form of its entity, with its id.
FormLands(entity, id, hit, path) ==
    hit # 0 /\ IdIn(routes[hit].path, path) = id /\ <<routes[hit]>> = formDescriptorFor(entity)
RowLands(entity, id, pattern) ==
    pattern = NoPath \/ FormLands(entity, id, match(RecordPath(pattern, id)), RecordPath(pattern, id))

(***************************************************************************)
(* Every link leads where it says: a tile of the landing page, a line of a *)
(* header menu and a block of a dashboard to their own view, and a row or  *)
(* Create button to the form of that entity with the id it names, although *)
(* a pattern registered earlier may fit the same path; and every line that *)
(* a module registered for a top bar is offered there to a caller who may  *)
(* follow it (registry.ts, header-menu-registry.ts).                       *)
(***************************************************************************)
LinksLand ==
    Registered =>
        /\ \A tile \in ToSet(menu) : \A r \in ToSet(tile.routes) : Lands(r.path)
        /\ \A m \in ToSet(entries), may \in {{}, {"read"}} : BarLands(m, may, Offered(headerMenus(m), may))
        /\ \A m \in ToSet(entries) : \A r \in ToSet(listViews(m)) : Lands(r.path)
        /\ \A r \in ToSet(routes), id \in {"new", "1"} :
              RowLands(r.descriptor.entity, id, formPathFor(r.descriptor.entity))
=============================================================================
