--------------------------- MODULE MCSaleDocuments ---------------------------
(* One line is enough for a total to miss or keep it and for an invoice to  *)
(* be raised without it; two requests, two tabs and the sweep give every    *)
(* pair of writers; two invoices tell a quote that was invoiced twice.      *)
EXTENDS SaleDocuments, FiniteSets, TLC

CONSTANTS l1, l2, r1, r2, t1, t2, i1, i2

Symmetry == Permutations({r1, r2}) \cup Permutations({t1, t2})
              \cup Permutations({i1, i2})

\* Followed further are histories of two tabs with one line request and no
\* status picked by hand, and those of one tab with one invoice and no failure.
Scope ==
  \/ ops <= 1 /\ picks = 0
  \/ Cardinality(Opened) <= 1 /\ Cardinality(DOMAIN invoices) <= 1 /\ faults = 0
=============================================================================
