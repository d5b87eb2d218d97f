-------------------------- MODULE MCDualStageCache --------------------------
(***************************************************************************)
(* Instances of DualStageCache for TLC.  Keys hash to themselves; with two *)
(* lines the even keys compete for one line and the odd ones for another.  *)
(***************************************************************************)
EXTENDS DualStageCache

Keys == 1 .. 5
HashKeys == [k \in Keys |-> k]
OneEach == [k \in Keys |-> 1]
SmallAndLarge == [k \in Keys |-> IF k <= 3 THEN 1 ELSE 3]
Missing == {5}
=============================================================================
