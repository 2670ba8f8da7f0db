---------------------------- MODULE RecordViews -----------------------------
(***************************************************************************)
(* What the modules contact, crm, crminheritdemo, cron and appstore hand   *)
(* to the registry: the fields, views, routes, extensions and reports of   *)
(* their views/*_views.ts, and crm's functions and handlers.  Labels,      *)
(* widget options, the effects of actions and permissions by name are left *)
(* out.                                                                    *)
(***************************************************************************)
EXTENDS ViewRegistry

CONSTANTS
    Slug(_)   \* the letters and digits of a text, in lower case

-----------------------------------------------------------------------------
(* Words of a declaration. *)

Text(name) == FieldOf(name, "text", Omitted)
Long(name) == FieldOf(name, "text", "long")
Num(name, widget) == FieldOf(name, "number", widget)
Day(name) == FieldOf(name, "date", Omitted)
Flag(name, widget) == FieldOf(name, "boolean", widget)
Selection(name, options) == [FieldOf(name, "selection", Omitted) EXCEPT !.options = options]
Relation(name, kind) ==
    [FieldOf(name, "relation", Omitted) EXCEPT !.relation = kind, !.through = (kind # "many2one")]
Totals(name) == [FieldOf(name, "totals", Omitted) EXCEPT !.relation = "one2many", !.store = FALSE]
Needed(f) == [f EXCEPT !.requiredIf = Always]
ReadOnly(f) == [f EXCEPT !.readOnlyIf = Always]
Default(f, value) == [f EXCEPT !.default = value]
ComputedBy(f, function) == [f EXCEPT !.compute = function, !.store = FALSE]
When(name, op, value) == {{[field |-> name, op |-> op, value |-> value]}}

View(entity, type, fields) ==
    [entity |-> entity, viewType |-> type, fields |-> fields, layout |-> NoLayout, formPath |-> NoPath,
     hideFromTopBar |-> FALSE, titleOf |-> Omitted, searched |-> {}, statusBar |-> Omitted,
     actions |-> {}, headerButtons |-> {}]
Form(entity, fields) == View(entity, "form", fields)
Tree(entity, fields, formPath) == [View(entity, "tree", fields) EXCEPT !.formPath = formPath]
Dashboard(entity, fields) == View(entity, "dashboard", fields)

Route(m, path, descriptor) == [path |-> path, module |-> m, descriptor |-> descriptor, permission |-> "read"]
Public(route) == [route EXCEPT !.permission = NoPermission]
Module(ownRoutes) ==
    [routes |-> ownRoutes, extends |-> <<>>, reports |-> <<>>, depends |-> <<>>, appMode |-> TRUE, menuCalls |-> <<>>]
Extend(path, operations) == [path |-> path, operations |-> operations]
AddField(field, target, position) == [op |-> "addField", field |-> field, target |-> target, position |-> position]
AddNode(branch, target, position) == [op |-> "addNode", branch |-> branch, target |-> target, position |-> position]
Page(id, names) == <<Container("page", id, 0)>> \o Leaves(names, 1)
FirstPage(names) == AddNode(Page(NoAnchor, names), FORM_NOTEBOOK_ID, "first")

\* A field printed as it is in the record, a section of them, the recap of the totals.
Printed_(name) == FieldNode(<<name>>, NoFallback)
Section(names) == <<SectionNode>> \o [i \in DOMAIN names |-> Printed_(names[i])]
Labelled(label, name) == <<SectionNode, TextNode(label), Printed_(name)>>
TotalsRecap ==
    <<SectionNode>> \o Labelled("Subtotal (excl. tax)", "subtotal") \o Labelled("Tax", "tax_amount")
    \o Labelled("Total (incl. tax)", "total")

-----------------------------------------------------------------------------
(* contact *)

ContactFields == <<Needed(Text("name")), Needed(Text("email")), Text("company"), Text("status")>>
Contact ==
    Module(<<Public(Route("contact", <<"contacts">>, Dashboard("contact", ContactFields))),
             Public(Route("contact", <<"contacts", "list">>, Tree("contact", ContactFields, <<"contacts", Param>>))),
             Public(Route("contact", <<"contacts", Param>>,
                        Form("contact", Append(ContactFields, Relation("crm_records", "one2many")))))>>)

-----------------------------------------------------------------------------
(* crm *)

CrmFields ==
    <<Needed(Text("name")), Needed(Text("email")), Text("company"),
      Selection("status", <<"incoming", "running", "won", "lost", "closed">>), Num("score", "stars")>>
CrmFormFields ==
    <<Flag("picture", "picture")>> \o CrmFields
    \o <<FieldOf("phone", "text", "phone"),
         Default(Num("satisfaction", "percent"), "crm.defaultSatisfaction"),
         Num("deals", "int"),
         Long("notes"),
         ComputedBy(Text("display_name"), "crm.displayName"),
         Relation("contact_id", "many2one"),
         Relation("tags", "many2many")>>

\* The field first goes to the columns; the page that names it takes it from there.
signaturePageOperations ==
    <<AddField(Flag("signature", "signature"), NoAnchor, Omitted),
      AddNode(Page(NoAnchor, <<"signature">>), FORM_NOTEBOOK_ID, "last")>>

statementReport ==
    [name |-> "crm.statement", entity |-> "crm",
     layout |-> <<Printed_("name")>> \o Section(<<"company", "status">>) \o Section(<<"email", "phone">>)
                \o Section(<<"satisfaction", "deals", "score">>) \o <<PageBreak>> \o Section(<<"notes">>)]

Crm ==
    [Module(<<Route("crm", <<"crm">>, Dashboard("crm", CrmFields)),
              Route("crm", <<"crm", "list">>, Tree("crm", CrmFields, <<"crm", Param>>)),
              Route("crm", <<"crm", Param>>, Form("crm", CrmFormFields))>>)
        EXCEPT !.extends = <<Extend(<<"crm", Param>>, signaturePageOperations)>>,
               !.reports = <<statementReport>>]

CrmFunctions ==
    "crm.displayName" :> [entity |-> "crm", depends |-> <<"name", "company">>]
    @@ "crm.defaultSatisfaction" :> [entity |-> "crm", depends |-> <<>>]
Said(draft, key) == LET v == Value(draft, key) IN IF isUnset(v) THEN "" ELSE v
crmDisplayName(draft) ==
    Said(draft, "name") \o (IF Said(draft, "company") = "" THEN "" ELSE " (" \o Said(draft, "company") \o ")")
crmDefaultSatisfaction == "0.5"

STATUS_SCORE(status) ==
    CASE status = "incoming" -> "1" [] status = "running" -> "2" [] status = "won" -> "3" [] OTHER -> "0"
CrmHandlers ==
    <<[entity |-> "crm", name |-> "crm.scoreFromStatus", onChange |-> {"status"}],
      [entity |-> "crm", name |-> "crm.suggestEmail", onChange |-> {"company"}]>>
crmScoreFromStatus(draft) == "score" :> STATUS_SCORE(Said(draft, "status"))

\* Never over an address that is there already.
crmSuggestEmail(draft) ==
    LET slug == Slug(Said(draft, "company"))
    IN IF Said(draft, "email") # "" \/ slug = "" THEN Nothing ELSE "email" :> "contact@" \o slug \o ".com"

-----------------------------------------------------------------------------
(* crminheritdemo: no route of its own, both views of crm extended. *)

inheritOperations ==
    <<AddField(Day("date"), "status", "after"),
      AddField(Long("comment"), NoAnchor, Omitted),
      [op |-> "move", name |-> "email", isField |-> TRUE, target |-> "date", position |-> "after"],
      [op |-> "setField", name |-> "comment", patch |-> "visibleIf" :> When("status", "ne", "incoming")]>>
Crminheritdemo ==
    [Module(<<>>)
        EXCEPT !.extends = <<Extend(<<"crm", Param>>, inheritOperations),
                             Extend(<<"crm", "list">>, inheritOperations)>>,
               !.depends = <<"crm">>, !.appMode = FALSE]

-----------------------------------------------------------------------------
(* cron *)

CronListFields ==
    <<Needed(Text("name")), Needed(Text("action_id")), Day("execution_date"),
      Selection("status", <<"deactivated", "active", "archived">>)>>
CronFormFields ==
    CronListFields
    \o <<Relation("run_as_user_id", "many2one"), Num("history_retention_years", "int"),
         ReadOnly(Long("action_code")), Relation("history", "one2many")>>
CronHistoryFields ==
    <<ReadOnly(Relation("cron_id", "many2one")), ReadOnly(Day("created_at")), ReadOnly(Flag("failed", Omitted)),
      ReadOnly(Text("logs_filepath"))>>
CronMenuActions == "cron_history.downloadLog" :> "cron_history"
cronHistoryRoutes ==
    <<Route("cron", <<"cron_history">>, Tree("cron_history", CronHistoryFields, <<"cron_history", Param>>)),
      Route("cron", <<"cron_history", Param>>,
            [Form("cron_history", CronHistoryFields) EXCEPT !.actions = DOMAIN CronMenuActions])>>
Cron ==
    [Module(<<Route("cron", <<"cron">>, Tree("cron", CronListFields, <<"cron", Param>>)),
              Route("cron", <<"cron", Param>>, Form("cron", CronFormFields))>> \o cronHistoryRoutes)
        EXCEPT !.appMode = FALSE]

-----------------------------------------------------------------------------
(* appstore: read-only, with two pages of tables. *)

VIEWS_PAGE_ID == "appstore_views_page"
CatalogFields == <<Text("icon"), Text("display_name"), Text("description")>>
AppStoreFields ==
    [i \in 1..7 |-> ReadOnly(Text(<<"display_name", "name", "description", "version", "author", "type", "icon">>[i]))]
    \o <<ReadOnly(Flag("active", Omitted)), ReadOnly(Flag("app_mode", Omitted))>>
TableField(name) == [FieldOf(name, "text", "table") EXCEPT !.store = FALSE]
notebookOperations ==
    <<AddField(TableField("views"), NoAnchor, Omitted),
      AddField(TableField("reports"), NoAnchor, Omitted),
      AddNode(Page(VIEWS_PAGE_ID, <<"views">>), FORM_NOTEBOOK_ID, "first"),
      AddNode(Page(NoAnchor, <<"reports">>), VIEWS_PAGE_ID, "after")>>
Appstore ==
    [Module(<<Route("appstore", <<"appstore">>,
                    [View("modules", "catalog", CatalogFields)
                        EXCEPT !.titleOf = "display_name", !.formPath = <<"appstore", Param>>]),
              Route("appstore", <<"appstore", Param>>, Form("modules", AppStoreFields))>>)
        EXCEPT !.extends = <<Extend(<<"appstore", Param>>, notebookOperations)>>]
=============================================================================
