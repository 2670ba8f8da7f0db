----------------------------- MODULE MCScreens ------------------------------
(* The modules of the repository with their own declarations, and seven that *)
(* its tests have the like of: a chain of computed fields, a view replaced,  *)
(* an extension, a report, a header menu and an action that are refused.     *)
EXTENDS Screens, PropertyViews

CONSTANTS v1, v2

-----------------------------------------------------------------------------
(* Modules like those of the tests. *)

NameFields == <<Text("name")>>
Board(m) == Module(<<Route(m, <<m>>, Dashboard(m, NameFields))>>)
MenuCall(m, name, lines) == [module |-> m, name |-> name, entries |-> lines]

\* behaviors.test.ts: a computed field declared before the one it depends on;
\* and one field of each kind that writes more than its own column.
OrderForm ==
    Form("order", <<Num("qty", "float"), [Text("total") EXCEPT !.compute = "order.total"],
                    ComputedBy(Text("subtotal"), "order.subtotal")>>)
PartyForm ==
    Form("party", <<Text("name"), FieldOf("ship", "address", "form"), Num("deals", "int"), Flag("paid", Omitted)>>)
Order ==
    Module(<<Route("order", <<"order", Param>>, OrderForm),
             Route("order", <<"order", "party", Param>>, PartyForm)>>)

\* The page of a property, without the other views of its module: the fewer
\* routes a state has to carry, the further the receipts of a page are followed.
Lots == Module(<<Route("lots", <<"lots", Param>>, Form("property_management", NameFields))>>)

\* A module that replaces a list of crm's, and drops what extended it so far.
Crmlist ==
    [Module(<<Route("crmlist", <<"crm", "list">>,
                    Tree("crm", <<Text("name"), Text("status"), Text("email")>>, <<"crm", Param>>))>>)
        EXCEPT !.extends = <<Extend(<<"crm", "list">>, <<[op |-> "removeField", name |-> "email"],
                                                         [op |-> "setDescriptor", formPath |-> <<"crm", Param>>]>>)>>,
               !.depends = <<"crm", "crminheritdemo">>,
               !.menuCalls =
                  <<MenuCall("crm", <<"more">>, <<Line("List", <<"crm", "list">>, NoPermission),
                                                  Group("Sales", <<Line("Board", <<"crm">>, "read")>>)>>),
                    MenuCall("crm", <<"more">>, <<Group("Sales", <<Line("All", <<"crm", "list">>, "read")>>)>>)>>]

Broken ==
    [Board("broken")
        EXCEPT !.extends = <<Extend(<<"crm", "list">>, <<[op |-> "removeField", name |-> "company"]>>),
                             Extend(<<"crm", "list">>, <<AddField(Text("more"), "company", "after")>>)>>,
               !.depends = <<"crm">>]

\* A report without content.
Badreport ==
    [Board("badreport")
        EXCEPT !.reports = <<[name |-> "r1", entity |-> "badreport", layout |-> <<PageBreak>>],
                             [name |-> "r2", entity |-> "badreport",
                              layout |-> <<PageBreak, TableNode(<<"lines">>, <<>>, NoName, NoName)>>]>>]

\* header-menu-registry.test.ts: two lines with one label.
Badmenu ==
    [Board("badmenu")
        EXCEPT !.menuCalls = <<MenuCall("badmenu", CONFIGURATION, <<Line("A", <<"badmenu">>, "read")>>),
                               MenuCall("badmenu", CONFIGURATION, <<Line("A", <<"nowhere">>, "read")>>)>>]

\* menu-actions.test.ts: an action of another entity.
Badaction ==
    Module(<<Route("badaction", <<"badaction">>, Dashboard("badaction", NameFields)),
             Route("badaction", <<"badaction", Param>>,
                   [Form("badaction", NameFields) EXCEPT !.actions = {"sale.printInvoice"}])>>)

MCCatalog ==
    "appstore" :> Appstore @@ "contact" :> Contact @@ "crm" :> Crm @@ "crminheritdemo" :> Crminheritdemo
    @@ "cron" :> Cron @@ "propertymanagement" :> Propertymanagement @@ "sale" :> Sale @@ "warehouse" :> Warehouse
    @@ "order" :> Order @@ "lots" :> Lots @@ "crmlist" :> Crmlist @@ "broken" :> Broken
    @@ "badreport" :> Badreport @@ "badmenu" :> Badmenu @@ "badaction" :> Badaction
Repository == <<"appstore", "contact", "crm", "crminheritdemo", "cron", "propertymanagement", "sale", "warehouse">>
MCDiscoveries ==
    {Repository, <<"sale">>, <<"lots">>, <<"order">>, <<"crm", "crminheritdemo", "crmlist">>,
     <<"broken", "crm">>, <<"badreport">>, <<"badmenu", "crm">>, <<"badaction">>}

-----------------------------------------------------------------------------
(* Functions, handlers, values. *)

MCMenuActions == CronMenuActions @@ SaleMenuActions
MCHeaderButtons == SaleHeaderButtons @@ PropertyHeaderButtons
MCFunctions ==
    CrmFunctions @@ SaleFunctions @@ EquipmentFunctions
    @@ "order.total" :> [entity |-> "order", depends |-> <<"subtotal">>]
    @@ "order.subtotal" :> [entity |-> "order", depends |-> <<"qty">>]
MCResult(f, d) ==
    CASE f = "crm.displayName" -> crmDisplayName(d)
      [] f = "crm.defaultSatisfaction" -> crmDefaultSatisfaction
      [] f \in DOMAIN SaleFunctions -> "2025-01-01"
      [] f \in DOMAIN EquipmentFunctions -> equipmentAge(d, "2025-01-01" :> "1 year")
      [] f = "order.total" -> Said(d, "subtotal") \o " incl"
      [] f = "order.subtotal" -> "sum of " \o Said(d, "qty")

MCHandlers == CrmHandlers
MCPatch(h, d) == IF h = "crm.scoreFromStatus" THEN crmScoreFromStatus(d) ELSE crmSuggestEmail(d)
MCSlug(company) == IF company = "B" THEN "b" ELSE ""

MCNumber(raw) == IF raw \in {"7", "7.5"} THEN raw ELSE NULL
MCRound(v) == IF v = "7.5" THEN "8" ELSE v

MCRows(entity) ==
    CASE entity = "crm" ->
            {"id" :> "1" @@ "name" :> "ann" @@ "email" :> "a" @@ "company" :> "" @@ "status" :> "won"
             @@ "score" :> "0" @@ "deals" :> "7" @@ "phone" :> "+331" @@ "satisfaction" :> NULL @@ "notes" :> ""}
      [] OTHER -> {"id" :> "1" @@ "name" :> "ann" @@ "qty" :> "7"}

-----------------------------------------------------------------------------
(* The board. *)

\* A date is its day; a month has two of them.
MCBucket(date, granularity) ==
    IF granularity = "month" /\ date \in {"d1", "d2"} THEN "m1" ELSE date
Record(label, date, value) == [label |-> label, date |-> date, value |-> value]
MCRecordLists ==
    {[rows |-> <<Record("a", "d1", 3), Record("b", "d2", 4), Record("b", "d3", NoNumber), Record("c", "", 1),
                 Record("", "d1", 2), Record("d", "d3", 5)>>, total |-> 9]}
Tile(id, type, picks, aggregate_, y) ==
    [id |-> id, type |-> type, hidden |-> FALSE, y |-> y, h |-> DEFAULT_TILE_H,
     config |-> [picks |-> picks, aggregate |-> aggregate_, bucket |-> "month", mode |-> "grouped"]]
MCStored ==
    {<<>>, <<Tile("t1", "bar", {"x", "y", "series"}, "count", 0), Tile("t2", "pie", {"group"}, "none", 6)>>}

-----------------------------------------------------------------------------
(* The print page. *)

AddressParts ==
    {"name", "address_number", "address_street", "address_complement", "address_zip_code", "address_city",
     "address_country"}
Particulars == AddressParts \union {"phone", "email"}
Columns ==
    {n.name : n \in {m \in UNION {Nodes(r) : r \in {statementReport, invoiceReport, quoteReport, rentReceiptReport}} :
                        m.kind = "field"}}
Invoice_(blank, logo) ==
    [name \in Columns |-> IF name \in blank THEN Blank ELSE "own"] @@ <<"logo">> :> logo
Issuer == {n.name : n \in ToSet(reportCompanyFallbackFields(invoiceReport))}
MCDocuments ==
    {Invoice_({}, "true"), Invoice_({<<"issuer", "name">>, <<"issuer_phone">>}, "true"), Invoice_(Issuer, Blank)}
MCRowLists == {<<>>, <<3, 4>>, <<3, 4, 5>>}
MCCompanies ==
    {[part \in Particulars |-> "company"], [part \in Particulars |-> IF part = "name" THEN "company" ELSE Blank]}
MCSubtotal == <<"subtotal">>
ASSUME MCReportsDeclared == ReportsDeclared
ASSUME MCBoardDeclared == BoardDeclared

Symmetry == Permutations(Visits)
MCTenants == <<"ann", "bob">>
MCLines == <<3>>
\* Every page is asked for in the smallest build that has it.
MCRequested(build) ==
    CASE build = Repository ->
            {<<"crm">>, <<"crm", "new">>, <<"sale", "taxes", "new">>, <<"propertymanagement", "equipment", "1">>,
             <<"nowhere">>}
      [] build = <<"lots">> -> {<<"lots", "1">>}
      [] build = <<"sale">> -> {<<"sale", "taxes">>}
      [] OTHER -> {<<"crm", "1">>, <<"crm", "list">>, <<"order", "1">>, <<"order", "party", "1">>}
MCPrinted(build) ==
    CASE build = <<"sale">> -> {"sale.invoice", "sale.quote"}
      [] build = <<"badreport">> -> {"r1", "r2"}
      [] OTHER -> {"crm.statement"}
=============================================================================
