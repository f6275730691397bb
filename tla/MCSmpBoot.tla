----------------------------- MODULE MCSmpBoot -----------------------------
(* Instances of SmpBoot for TLC. *)
EXTENDS SmpBoot, TLC

\* Four processors, listed by the firmware in another order than their ids.
FourIds == 0 :> 0 @@ 1 :> 2 @@ 2 :> 3 @@ 3 :> 1
ThreeIds == 0 :> 0 @@ 1 :> 1 @@ 2 :> 2
FewOrEnough == {1, 2, 4}
Enough == {4}
=============================================================================
