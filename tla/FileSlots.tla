----------------------------- MODULE FileSlots -----------------------------
(* What the attachment and picture services promise: every anchor (a field  *)
(* of a record of a tenant) is a slot that holds one readable file or none, *)
(* and each step of the service changes at most one slot.                   *)
CONSTANTS Anchors, Files, None

VARIABLE file   \* [Anchors -> Files or None]

Init == file = [a \in Anchors |-> None]

\* A file becomes the anchor's; no other anchor has it.
Store(a, f) ==
  /\ \A b \in Anchors : file[b] # f
  /\ file' = [file EXCEPT ![a] = f]

Remove(a) == file' = [file EXCEPT ![a] = None]

Next == \E a \in Anchors : Remove(a) \/ \E f \in Files : Store(a, f)

Spec == Init /\ [][Next]_file
=============================================================================
