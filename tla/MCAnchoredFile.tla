--------------------------- MODULE MCAnchoredFile ---------------------------
(* Three concurrent requests on two anchors.  Three fresh keys are enough   *)
(* for a replacement to race a delete or another replacement, two row ids   *)
(* for an anchor to lose its row and get a new one.                         *)
EXTENDS AnchoredFile

CONSTANTS r1, r2, r3, a1, a2, k1, k2, k3, i1, i2
=============================================================================
