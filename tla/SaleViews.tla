----------------------------- MODULE SaleViews ------------------------------
(***************************************************************************)
(* What the modules sale and warehouse hand to the registry: quotes,       *)
(* invoices, their lines and taxes, products and variants, with the two    *)
(* printed documents (views/*_views.ts, reports/*_report.ts).              *)
(***************************************************************************)
EXTENDS RecordViews

\* The fields quotes and invoices have in common, around the lists of their own.
DocumentFields(statuses, defaultDate) ==
    <<Needed(Text("number")), Needed(Text("customer_name")), Selection("status", statuses),
      Default(Day("issue_date"), defaultDate), Day("due_date"), ReadOnly(Num("total", "float"))>>
Addressed ==
    <<Text("subject"), Relation("customer_id", "many2one"), Text("customer_email"),
      FieldOf("customer_address", "address", "form"), Text("reference")>>
Payment == <<Text("payment_method"), Long("payment_terms"), Long("legal_notice")>>
LineItems(lines, totals) == <<Relation(lines, "one2many"), Totals(totals)>>
DocumentForm(entity, fields) ==
    [Form(entity, <<Flag("logo", "picture")>> \o fields) EXCEPT !.statusBar = "status"]

\* The total leaves the columns; the lines and the recap get the first page.
LinesPage(lines, totals) == <<[op |-> "removeField", name |-> "total"], FirstPage(<<lines, totals>>)>>

-----------------------------------------------------------------------------
(* invoice *)

InvoiceFields == DocumentFields(<<"draft", "sent", "paid", "overdue", "cancelled">>, "sale.defaultIssueDate")
InvoiceFormFields ==
    InvoiceFields \o Addressed \o <<ReadOnly(Relation("quote_id", "many2one"))>>
    \o LineItems("sale_lines", "sale_totals") \o Payment
orderLinesPageOperations == LinesPage("sale_lines", "sale_totals")
saleDashboardRoute == Route("sale", <<"sale">>, Dashboard("invoice", InvoiceFields))
SaleMenuActions == "sale.printInvoice" :> "invoice"
invoiceRoutes ==
    <<Route("sale", <<"sale", "list">>, Tree("invoice", InvoiceFields, <<"sale", Param>>)),
      Route("sale", <<"sale", Param>>,
            [DocumentForm("invoice", InvoiceFormFields) EXCEPT !.actions = DOMAIN SaleMenuActions])>>

-----------------------------------------------------------------------------
(* quote *)

QuoteFields ==
    DocumentFields(<<"draft", "confirmed", "sent", "accepted", "declined", "expired">>, "sale.defaultQuoteIssueDate")
QuoteFormFields == QuoteFields \o Addressed \o LineItems("quote_lines", "quote_totals") \o Payment
quoteLinesPageOperations == LinesPage("quote_lines", "quote_totals")
SaleHeaderButtons ==
    [name \in {"sale.confirmQuote", "sale.sendQuote", "sale.acceptQuote", "sale.declineQuote"} |-> "quote"]
quoteRoutes ==
    <<Route("sale", <<"sale", "quote", "list">>, Tree("quote", QuoteFields, <<"sale", "quote", Param>>)),
      Route("sale", <<"sale", "quote", Param>>,
            [DocumentForm("quote", QuoteFormFields) EXCEPT !.headerButtons = DOMAIN SaleHeaderButtons])>>

\* Both are dated today.
SaleFunctions ==
    "sale.defaultIssueDate" :> [entity |-> "invoice", depends |-> <<>>]
    @@ "sale.defaultQuoteIssueDate" :> [entity |-> "quote", depends |-> <<>>]

-----------------------------------------------------------------------------
(* Lines and taxes. *)

LineFields(document) ==
    <<Needed(Relation(document, "many2one")), Needed(Relation("variant_id", "many2one")),
      Needed(Num("quantity", Omitted)), ReadOnly(Text("unit")), ReadOnly(Num("tax_rate", "percent")),
      ReadOnly(Num("unit_price", "float"))>>
SaleLineFields ==
    LineFields("invoice_id") \o <<Relation("taxes", "many2many"), ReadOnly(Num("total", "monetary"))>>
saleLineRoutes == <<Route("sale", <<"sale", "lines", Param>>, Form("sale_line", SaleLineFields))>>
quoteLineRoutes ==
    <<Route("sale", <<"sale", "quote", "lines", Param>>, Form("quote_line", LineFields("quote_id")))>>

SaleTaxFields ==
    <<Needed(Text("name")), Selection("kind", <<"percentage", "fixed">>),
      [Num("rate", "percent") EXCEPT !.visibleIf = When("kind", "eq", "percentage")],
      [Num("amount", "monetary") EXCEPT !.visibleIf = When("kind", "eq", "fixed")]>>
saleTaxRoutes ==
    <<Route("sale", <<"sale", "taxes">>,
            [Tree("sale_tax", SaleTaxFields, <<"sale", "taxes", Param>>) EXCEPT !.hideFromTopBar = TRUE]),
      Route("sale", <<"sale", "taxes", Param>>, Form("sale_tax", SaleTaxFields))>>
saleMenuCalls ==
    <<[module |-> "sale", name |-> CONFIGURATION, entries |-> <<Line("Taxes", <<"sale", "taxes">>, "read")>>]>>

-----------------------------------------------------------------------------
(* The printed documents. *)

Letterhead ==
    <<SectionNode, ImageNode(<<"logo">>)>> \o Section(<<"issue_date", "number">>)
    \o <<SectionNode, SectionNode>> \o reportPartyAddressFields("issuer", TRUE)
    \o <<FieldNode(<<"issuer_phone">>, "phone"), FieldNode(<<"issuer_email">>, "email"), SectionNode>>
    \o reportPartyAddressFields("customer", FALSE) \o <<Printed_("customer_email"), Printed_("subject")>>
SmallPrint(dueLabel) ==
    Labelled("Payment method:", "payment_method") \o Labelled("Payment terms:", "payment_terms")
    \o Labelled(dueLabel, "due_date") \o Section(<<"legal_notice">>)
PrintedColumns == <<<<"variant_name">>, <<"unit">>, <<"quantity">>, <<"unit_price">>, <<"tax_rate">>>>
invoiceReport ==
    [name |-> "sale.invoice", entity |-> "invoice",
     layout |-> Letterhead \o Labelled("Reference:", "reference")
                \o <<TableNode(<<"lines">>, Append(PrintedColumns, <<"total">>), <<"sale_line">>, <<"invoice_id">>)>>
                \o TotalsRecap \o SmallPrint("Due date:")]
quoteReport ==
    [name |-> "sale.quote", entity |-> "quote",
     layout |-> Letterhead \o <<TableNode(<<"lines">>, PrintedColumns, <<"quote_line">>, <<"quote_id">>)>>
                \o TotalsRecap \o SmallPrint("Valid until:")]

\* The dashboard comes first, and quotes in front of invoices: the order of the tiles.
Sale ==
    [Module(<<saleDashboardRoute>> \o quoteRoutes \o quoteLineRoutes \o invoiceRoutes \o saleLineRoutes
            \o saleTaxRoutes)
        EXCEPT !.reports = <<invoiceReport, quoteReport>>,
               !.extends = <<Extend(<<"sale", Param>>, orderLinesPageOperations),
                             Extend(<<"sale", "quote", Param>>, quoteLinesPageOperations)>>,
               !.menuCalls = saleMenuCalls]

-----------------------------------------------------------------------------
(* warehouse *)

ProductFields ==
    <<Needed(Text("name")), Text("reference"), Text("unit"), Num("unit_price", "float"), Num("tax_rate", "percent")>>
ProductFormView ==
    [Form("product", Append(ProductFields, Relation("variants", "one2many")))
        EXCEPT !.layout = <<Container("row", FORM_HEADER_ID, 0), Title("name", 1),
                            Container("group", FORM_COLUMNS_ID, 0)>>
                          \o Leaves(<<"reference", "unit", "unit_price", "tax_rate">>, 1)
                          \o <<Container("group", "variants_group", 0), Leaf("variants", 1)>>]

\* A price or a rate left blank is the product's: not the zero of a number.
VariantFields ==
    <<Needed(Relation("product_id", "many2one")), Text("name"), Default(Num("unit_price", "float"), NULL),
      Default(Num("tax_rate", "percent"), NULL)>>
productVariantRoutes ==
    <<Route("warehouse", <<"warehouse", "variants", "list">>,
            Tree("product_variant", VariantFields, <<"warehouse", "variants", Param>>)),
      Route("warehouse", <<"warehouse", "variants", Param>>, Form("product_variant", VariantFields))>>
Warehouse ==
    Module(<<Route("warehouse", <<"warehouse">>, Dashboard("product", ProductFields)),
             Route("warehouse", <<"warehouse", "products", "list">>,
                   Tree("product", ProductFields, <<"warehouse", "products", Param>>)),
             Route("warehouse", <<"warehouse", "products", Param>>, ProductFormView)>>
           \o productVariantRoutes)
=============================================================================
