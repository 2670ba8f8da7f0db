---------------------------- MODULE ViewRegistry ----------------------------
(***************************************************************************)
(* The registry of views (registry.ts) and the extensions it applies       *)
(* (extensions.ts): the generated manifests register every module found,   *)
(* dependencies first; a module brings routes, reports and operations on   *)
(* views that are registered already, its own or another module's.         *)
(***************************************************************************)
EXTENDS LayoutTree, FieldBehaviors, HeaderMenus, ReportDescriptor

CONSTANTS
    MenuActions,   \* name -> entity: the actions of options menus that are registered
    HeaderButtons, \* name -> entity: the handlers of header buttons that are registered
    Discoveries,   \* what a build may find: sequences of module names, sorted
    Catalog        \* name -> [routes, extends, reports, depends, appMode,
                   \*          menuCalls: its calls of registerHeaderMenu]

\* A build finds modules that are there; a module lists its routes, each with a
\* descriptor, what it extends and what it depends on.
IsList(s) == s \in Seq(ToSet(s))
ASSUME CatalogAssumption ==
    /\ \A names \in Discoveries : IsList(names) /\ ToSet(names) \subseteq DOMAIN Catalog
    /\ \A m \in DOMAIN Catalog :
          /\ IsList(Catalog[m].routes) /\ IsList(Catalog[m].extends) /\ IsList(Catalog[m].depends)
          /\ \A route \in ToSet(Catalog[m].routes) : "descriptor" \in DOMAIN route

Param == ":id"
NoPath == <<>>
Manifests == <<"server", "client">>   \* in server rendering both are evaluated

VARIABLES
    found,     \* the modules this build has found
    entries,   \* the names registered, in order
    routes,    \* path, module, descriptor, permission: a Map, in order of insertion
    reports,   \* the reports by name
    calls,     \* the register() calls still to come: [manifest, module]
    threw      \* the manifests whose evaluation ended in an error

registryVars == <<found, entries, routes, reports, calls, threw>>

-----------------------------------------------------------------------------
(* Operations of an extension. *)

HasField(d, name) == name \in FieldNames(d)
HasNodeId(t, id) == First(t, LAMBDA n : IsContainerIdMatch(n, id)) # 0

FieldTarget(d, op) ==
    IF op.target = NoAnchor /\ IsLong(op.field) /\ HasNodeId(d.layout, PAGE_SETTINGS_ID)
    THEN PAGE_SETTINGS_ID ELSE op.target
FieldPosition(op) ==
    IF op.position # Omitted THEN op.position ELSE IF op.target = NoAnchor THEN "last" ELSE "after"

\* What a move takes out: a field by its name or a container by its id.
MovedAt(d, op) == First(d.layout, LAMBDA n : n.id = op.name /\ IsLeaf(n) = op.isField /\ n.id # NoAnchor)

\* The layout without the fields that the new node gathers.
Gathered(d, op) == FoldLeft(ExtractField, d.layout, layoutFieldOrder(op.branch))

\* The operation throws unless this holds.
Applicable(d, op) ==
    CASE op.op = "addField" ->
            ~HasField(d, op.field.name) /\ CanInsert(d.layout, FieldTarget(d, op), FieldPosition(op))
      [] op.op = "removeField" ->
            HasField(d, op.name) /\ op.name \in ToSet(layoutFieldOrder(d.layout))
      [] op.op = "setField" ->   \* a patch renames no field
            HasField(d, op.name) /\ ("name" \in DOMAIN op.patch => op.patch.name = op.name)
      [] op.op = "move" ->
            MovedAt(d, op) # 0 /\ CanInsert(Without(d.layout, MovedAt(d, op)), op.target, op.position)
      [] op.op = "addNode" ->
            /\ ToSet(layoutFieldOrder(op.branch)) \subseteq FieldNames(d)
            /\ CanInsert(Gathered(d, op), op.target, op.position)
      [] op.op = "setDescriptor" -> TRUE

addField(d, op) ==
    [d EXCEPT !.fields = Append(@, op.field),
              !.layout = InsertNode(@, <<Leaf(op.field.name, 0)>>, FieldTarget(d, op), FieldPosition(op))]
removeField(d, op) ==
    [d EXCEPT !.fields = SelectSeq(@, LAMBDA f : f.name # op.name), !.layout = ExtractField(@, op.name)]
setField_(d, op) ==
    [d EXCEPT !.fields = [i \in DOMAIN @ |-> IF @[i].name = op.name THEN op.patch @@ @[i] ELSE @[i]]]
move(d, op) ==
    LET i == MovedAt(d, op)
    IN [d EXCEPT !.layout = InsertNode(Without(@, i), Branch(@, i), op.target, op.position)]
addNode(d, op) ==
    [d EXCEPT !.layout = InsertNode(Gathered(d, op), op.branch, op.target, op.position)]
setDescriptor(d, op) == [d EXCEPT !.formPath = op.formPath]

Apply(d, op) ==
    CASE op.op = "addField" -> addField(d, op)
      [] op.op = "removeField" -> removeField(d, op)
      [] op.op = "setField" -> setField_(d, op)
      [] op.op = "move" -> move(d, op)
      [] op.op = "addNode" -> addNode(d, op)
      [] op.op = "setDescriptor" -> setDescriptor(d, op)

applyExtension(d, operations) ==
    FoldLeft(LAMBDA acc, op : IF acc.ok /\ Applicable(acc.d, op) THEN [ok |-> TRUE, d |-> Apply(acc.d, op)]
                              ELSE [acc EXCEPT !.ok = FALSE],
             [ok |-> TRUE, d |-> [d EXCEPT !.layout = normalizeLayout(d)]], operations)

-----------------------------------------------------------------------------
(* Registration. *)

\* Every leaf of the options menu, every button, has a handler of the view's entity.
HasHandler(handlers, name, d) == name \in DOMAIN handlers /\ handlers[name] = d.entity
MenuActionsOK(d) == \A name \in d.actions : HasHandler(MenuActions, name, d)
HeaderButtonsOK(d) == \A name \in d.headerButtons : HasHandler(HeaderButtons, name, d)

\* validateDescriptor throws unless this holds.
DescriptorOK(d) ==
    /\ \A i \in DOMAIN d.fields : WidgetOK(d.fields[i])
    /\ BlocksOK(d) /\ PlanOK(d) /\ LayoutOK(d)
    /\ MenuActionsOK(d) /\ HeaderButtonsOK(d)

At(rs, path) == {i \in DOMAIN rs : rs[i].path = path}
RouteAt(rs, path) == rs[CHOOSE i \in At(rs, path) : TRUE]

\* Map.set: a path keeps its place.
Put(rs, route) ==
    IF At(rs, route.path) = {} THEN Append(rs, route)
    ELSE [i \in DOMAIN rs |-> IF rs[i].path = route.path THEN route ELSE rs[i]]

\* A route of the module itself: the last one wins, extensions and all.
AddRoute(acc, route) ==
    IF acc.ok /\ DescriptorOK(route.descriptor) THEN [acc EXCEPT !.routes = Put(@, route)]
    ELSE [acc EXCEPT !.ok = FALSE]

\* What an extension works on: the view as it resolves now, not as declared.
DeclaredRoute(rs, path) ==
    LET owner == Catalog[RouteAt(rs, path).module] IN RouteAt(owner.routes, path)
Current(rs, path) == RouteAt(rs, path)

\* An extension: the owner and the permission stay.
AddExtension(acc, ext) ==
    IF ~acc.ok \/ At(acc.routes, ext.path) = {} THEN [acc EXCEPT !.ok = FALSE]
    ELSE LET current == Current(acc.routes, ext.path)
             merged == applyExtension(current.descriptor, ext.operations)
         IN IF merged.ok /\ DescriptorOK(merged.d)
            THEN [acc EXCEPT !.routes = Put(@, [current EXCEPT !.descriptor = merged.d])]
            ELSE [acc EXCEPT !.ok = FALSE]

AddReport(rs, report) ==
    IF \E i \in DOMAIN rs : rs[i].name = report.name
    THEN [i \in DOMAIN rs |-> IF rs[i].name = report.name THEN report ELSE rs[i]]
    ELSE Append(rs, report)

\* The reports in front of the first one that validateReportDescriptor refuses.
ValidReports(rs) ==
    LET bad == {i \in DOMAIN rs : ~ReportOK(rs[i])}
    IN IF bad = {} THEN rs ELSE SubSeq(rs, 1, Min(bad) - 1)
ReportsOK(rs) == \A i \in DOMAIN rs : ReportOK(rs[i])

\* A module is discovered in the order of its dependencies, those that are there.
topoSortModules(names) ==
    PostOrder(names, LAMBDA m : Sift(Catalog[m].depends, ToSet(names)))

\* The calls of a generated manifest, the server's before the client's.
ManifestCalls(manifest, order) == [i \in DOMAIN order |-> [manifest |-> manifest, module |-> order[i]]]
RegisterCalls(names) ==
    FlattenSeq([k \in DOMAIN Manifests |-> ManifestCalls(Manifests[k], topoSortModules(names))])

\* A manifest imports the files of the modules first, once for both: they bring the menus.
MenuCalls(order) == FlattenSeq([i \in DOMAIN order |-> Catalog[order[i]].menuCalls])
Headers == registerHeaderMenus(MenuCalls(topoSortModules(found)))

RegistryInit ==
    /\ found \in Discoveries
    /\ entries = <<>> /\ routes = <<>> /\ reports = <<>>
    /\ \/ Headers.ok /\ threw = {} /\ calls = RegisterCalls(found)
       \/ ~Headers.ok /\ threw = ToSet(Manifests) /\ calls = <<>>

\* An error ends the evaluation of its manifest, not of the other one.
Throw ==
    /\ threw' = threw \union {Head(calls).manifest}
    /\ calls' = Sift(calls, {c \in ToSet(calls) : c.manifest # Head(calls).manifest})

\* The routes of a module that is new, then what it extends: a throw leaves
\* what was set before it.
Routed(mod) == FoldLeft(AddRoute, [ok |-> TRUE, routes |-> routes], mod.routes)
Extended(mod) == FoldLeft(AddExtension, Routed(mod), mod.extends)

Enter(m, mod) ==
    \/ /\ ~(Routed(mod).ok /\ ReportsOK(mod.reports))
       /\ routes' = Routed(mod).routes
       /\ reports' = IF Routed(mod).ok THEN FoldLeft(AddReport, reports, ValidReports(mod.reports)) ELSE reports
       /\ Throw
       /\ UNCHANGED entries
    \/ /\ Routed(mod).ok /\ ReportsOK(mod.reports)
       /\ routes' = Extended(mod).routes
       /\ reports' = FoldLeft(AddReport, reports, mod.reports)
       /\ entries' = Append(entries, m)
       /\ IF Extended(mod).ok THEN calls' = Tail(calls) /\ UNCHANGED threw ELSE Throw

register ==
    /\ calls # <<>>
    /\ UNCHANGED found
    /\ LET m == Head(calls).module
       IN \/ /\ Contains(entries, m)   \* a name seen before: skipped
             /\ calls' = Tail(calls)
             /\ UNCHANGED <<entries, routes, reports, threw>>
          \/ ~Contains(entries, m) /\ Enter(m, Catalog[m])

Booted == calls = <<>>

-----------------------------------------------------------------------------
(* What the shell asks of it. *)

hasParam(path) == Contains(path, Param)

\* The value of :id in a concrete path (NULL: the pattern has none).
IdIn(pattern, path) ==
    IF hasParam(pattern) THEN path[CHOOSE i \in DOMAIN pattern : pattern[i] = Param] ELSE NULL

Fits(pattern, path) ==
    Len(pattern) = Len(path) /\ \A i \in DOMAIN path : pattern[i] \in {path[i], Param}

\* Mutant: the patterns in order of registration.
FirstFit(path) ==
    LET fit == {i \in DOMAIN routes : Fits(routes[i].path, path)} IN IF fit # {} THEN Min(fit) ELSE 0

\* match: the exact path wins, then the first pattern that fits (0: not found).
match(path) ==
    LET fit == {i \in DOMAIN routes : Fits(routes[i].path, path)}
        exact == {i \in fit : routes[i].path = path}
    IN IF exact # {} THEN Min(exact) ELSE IF fit # {} THEN Min(fit) ELSE 0

\* A module's routes, in its order, as they resolve now.
Resolve(declared) == [i \in DOMAIN declared |-> RouteAt(routes, declared[i].path)]
ResolvedRoutes(m) == Resolve(Catalog[m].routes)
ResolvedAll == FlattenSeq([i \in DOMAIN entries |-> ResolvedRoutes(entries[i])])

\* The tiles of the landing page: applications with a view that needs no id.
navigable(views) == SelectSeq(views, LAMBDA r : ~hasParam(r.path))
menu ==
    SelectSeq([i \in DOMAIN entries |-> [name |-> entries[i], routes |-> navigable(ResolvedRoutes(entries[i]))]],
              LAMBDA tile : Catalog[tile.name].appMode /\ tile.routes # <<>>)

\* A module's top bar: its views, the menus registered for it, and Configuration.
HEADER_MENU_VIEW_TYPES == {"tree", "catalog", "dashboard"}
CONFIGURATION == <<"configuration">>
browsable(r) == r.descriptor.viewType \in HEADER_MENU_VIEW_TYPES /\ ~r.descriptor.hideFromTopBar
TopBar(m, views, own) ==
    LET auto == [i \in DOMAIN views |->
                    [module |-> m, name |-> views[i].path,
                     entries |-> <<Line(views[i].descriptor.entity, views[i].path, views[i].permission)>>]]
        taken == {CONFIGURATION} \union {views[i].path : i \in DOMAIN views}
        others == SelectSeq(own, LAMBDA h : h.name \notin taken)
        more == SelectSeq(own, LAMBDA h : h.name = CONFIGURATION)
        settings == <<Line("Settings", <<"settings", "apps", m>>, NoPermission)>>
    IN auto \o others
       \o <<[module |-> m, name |-> CONFIGURATION,
             entries |-> IF more = <<>> THEN settings ELSE settings \o more[1].entries]>>
headerMenus(m) == TopBar(m, SelectSeq(ResolvedRoutes(m), browsable), forModule(Headers.menus, m))

listViews(m) ==
    IF ~Contains(entries, m) THEN <<>>
    ELSE SelectSeq(ResolvedRoutes(m), LAMBDA r : r.descriptor.viewType = "tree")

formDescriptorFor(entity) ==
    LET forms == SelectSeq(ResolvedAll, LAMBDA r : r.descriptor.viewType = "form" /\ r.descriptor.entity = entity)
    IN UpToOne(forms)
FirstFormPath(views) == IF views = <<>> THEN NoPath ELSE views[1].descriptor.formPath
formPathFor(entity) ==
    FirstFormPath(SelectSeq(ResolvedAll, LAMBDA r : r.descriptor.entity = entity /\ r.descriptor.formPath # NoPath))
reportForEntity(entity) == UpToOne(SelectSeq(reports, LAMBDA r : r.entity = entity))
extendedPaths(m) == {ext.path : ext \in ToSet(Catalog[m].extends)}

\* The path of a record's form (id may be "new").
RecordPath(pattern, id) == [i \in DOMAIN pattern |-> IF pattern[i] = Param THEN id ELSE pattern[i]]
=============================================================================
