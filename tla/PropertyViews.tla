--------------------------- MODULE PropertyViews ----------------------------
(***************************************************************************)
(* What the module propertymanagement hands to the registry: properties,   *)
(* their equipment with its history, rent receipts and billing lines, and  *)
(* the printed receipt (views/*_views.ts, reports/rent_receipt_report.ts). *)
(***************************************************************************)
EXTENDS SaleViews

-----------------------------------------------------------------------------
(* The property. *)

PropertyFields ==
    <<Needed(Text("name")), FieldOf("address", "address", "form"), Num("floor_area", "float"),
      Num("loan_amount", "monetary"), Num("rent_price", "monetary")>>
PropertyFormFields ==
    PropertyFields
    \o <<Relation("current_tenant", "many2many"),
         [Relation("photos", "one2many") EXCEPT !.widget = "carousel"],
         Relation("equipment", "one2many"),
         ReadOnly(Relation("rent_receipts", "one2many")),
         Relation("billing_lines", "one2many"), Totals("billing_totals")>>

\* Each goes in front of the others: the lines, added last, are the first page.
propertyExtendOperations ==
    <<FirstPage(<<"photos">>), FirstPage(<<"equipment">>), FirstPage(<<"rent_receipts">>),
      FirstPage(<<"billing_lines", "billing_totals">>)>>
PropertyHeaderButtons ==
    "propertymanagement.generateRentReceipt" :> "property_management"
    @@ "propertymanagement.regenerateReceiptPdf" :> "property_management_rent_receipt"
propertyRoutes ==
    <<Route("propertymanagement", <<"propertymanagement", "list">>,
            Tree("property_management", PropertyFields, <<"propertymanagement", Param>>)),
      Route("propertymanagement", <<"propertymanagement", Param>>,
            [Form("property_management", PropertyFormFields)
                EXCEPT !.headerButtons = {"propertymanagement.generateRentReceipt"}])>>

-----------------------------------------------------------------------------
(* Equipment and its history. *)

EquipmentFields ==
    <<Flag("global_picture", "picture"), Needed(Text("name")), Num("quantity", "int"),
      ReadOnly(Text("current_state")), Flag("billing_of_buy", "file"), Num("buying_price", "monetary"),
      Day("buying_date"), ComputedBy(Text("buying_age"), "propertymanagement.equipmentAge"),
      Needed([Relation("property_management_id", "many2one") EXCEPT !.widget = "summary"]),
      Relation("statuses", "one2many"), [Relation("photos", "one2many") EXCEPT !.widget = "carousel"]>>
equipmentExtendOperations ==
    <<AddNode(<<Container("row", NoAnchor, 0)>> \o Leaves(<<"buying_date", "buying_age">>, 1), FORM_COLUMNS_ID, "last"),
      FirstPage(<<"photos">>), FirstPage(<<"statuses">>), FirstPage(<<"property_management_id">>)>>
equipmentRoutes ==
    <<Route("propertymanagement", <<"propertymanagement", "equipment", Param>>,
            Form("property_management_equipment", EquipmentFields))>>
EquipmentFunctions ==
    "propertymanagement.equipmentAge" :> [entity |-> "property_management_equipment", depends |-> <<"buying_date">>]

\* A text for what the date says of today (Ages: of the dates that may be typed).
equipmentAge(draft, Ages) ==
    IF Said(draft, "buying_date") \in DOMAIN Ages THEN Ages[Said(draft, "buying_date")] ELSE ""

EquipmentStatusFields ==
    <<Needed(Relation("property_management_equipment_id", "many2one")), Needed(Day("date")),
      Selection("state", <<"good", "damaged", "under_repair", "out_of_service">>)>>
equipmentStatusRoutes ==
    <<Route("propertymanagement", <<"propertymanagement", "equipment", "statuses", Param>>,
            Form("property_management_equipment_status", EquipmentStatusFields))>>

-----------------------------------------------------------------------------
(* Receipts and billing lines. *)

RentReceiptFields ==
    [i \in 1..4 |-> ReadOnly(Text(<<"period", "generated_at", "property_name", "property_address">>[i]))]
    \o <<ReadOnly(Num("floor_area", "float"))>>
    \o [i \in 1..4 |-> ReadOnly(Num(<<"rent_price", "subtotal", "tax_amount", "total">>[i], "monetary"))]
    \o <<ReadOnly(Text("tenant_names")), ReadOnly(Flag("receipt_file", "file"))>>
RentReceiptFormFields == Append(RentReceiptFields, ReadOnly(Relation("children", "one2many")))
receiptExtendOperations == <<FirstPage(<<"children">>)>>
rentReceiptRoutes ==
    <<Route("propertymanagement", <<"propertymanagement", "receipts">>,
            Tree("property_management_rent_receipt", RentReceiptFields, <<"propertymanagement", "receipts", Param>>)),
      Route("propertymanagement", <<"propertymanagement", "receipts", Param>>,
            [Form("property_management_rent_receipt", RentReceiptFormFields)
                EXCEPT !.headerButtons = {"propertymanagement.regenerateReceiptPdf"}])>>

BillingLineFields ==
    <<Needed(Relation("property_management_id", "many2one")), Needed(Text("name")), Num("unit_price", "float"),
      Num("tax_rate", "percent"), Relation("taxes", "many2many"), ReadOnly(Num("total", "monetary"))>>
billingLineRoutes ==
    <<Route("propertymanagement", <<"propertymanagement", "billing-lines", Param>>,
            Form("property_management_billing_line", BillingLineFields))>>

\* Its issuer is the company of the caller: a receipt has no such columns.
rentReceiptReport ==
    [name |-> "propertymanagement.rentReceipt", entity |-> "property_management_rent_receipt",
     layout |-> <<SectionNode, SectionNode>> \o reportPartyAddressFields("issuer", TRUE)
                \o Labelled("Tenant(s):", "tenant_names")
                \o <<TextNode("Property:"), Printed_("property_name"), Printed_("property_address"),
                     Printed_("floor_area"), TextNode("Rent receipt")>>
                \o Section(<<"period", "generated_at">>) \o Labelled("Rent price:", "rent_price")
                \o <<TableNode(<<"lines">>, <<<<"name">>, <<"unit_price">>, <<"tax_rate">>, <<"total">>>>,
                               <<"property_management_rent_receipt_line">>, <<"rent_receipt_id">>)>>
                \o TotalsRecap]

Propertymanagement ==
    [Module(<<Route("propertymanagement", <<"propertymanagement">>, Dashboard("property_management", PropertyFields))>>
            \o propertyRoutes \o equipmentRoutes \o equipmentStatusRoutes \o rentReceiptRoutes \o billingLineRoutes)
        EXCEPT !.reports = <<rentReceiptReport>>,
               !.extends = <<Extend(<<"propertymanagement", Param>>, propertyExtendOperations),
                             Extend(<<"propertymanagement", "equipment", Param>>, equipmentExtendOperations),
                             Extend(<<"propertymanagement", "receipts", Param>>, receiptExtendOperations)>>,
               !.depends = <<"sale">>]
=============================================================================
