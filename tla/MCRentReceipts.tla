--------------------------- MODULE MCRentReceipts ---------------------------
(* Two tenants, two billing lines, two pages on the property. *)
EXTENDS RentReceipts

MCTenants == <<"ann", "bob">>
MCLines == <<3, 5>>
Spec == ReceiptsInit /\ [][ReceiptsNext]_receiptVars
=============================================================================
