-------------------------------- MODULE Deeds --------------------------------
(***************************************************************************)
(* What the server is promised about the deeds it asks for: each one        *)
(* changes the world at most once, one verdict is given on it at most, no   *)
(* verdict is changed, "succeeded" is said only of what was done, and       *)
(* "cancelled" and "rejected" only of what was not and never will be.       *)
(* "failed" promises nothing: the check after a change may have failed.     *)
(***************************************************************************)
EXTENDS Naturals

CONSTANT Ids

VARIABLES done, said   \* how often each deed was done, the verdict given on it
vars == <<done, said>>

Verdicts == {"succeeded", "failed", "cancelled", "rejected"}

Init == done = [i \in Ids |-> 0] /\ said = [i \in Ids |-> "nothing"]

Do(i) ==
  /\ done[i] = 0 /\ said[i] = "nothing"
  /\ done' = [done EXCEPT ![i] = 1]
  /\ UNCHANGED said

Say(i, v) ==
  /\ said[i] = "nothing"
  /\ v = "succeeded" => done[i] = 1
  /\ v \in {"cancelled", "rejected"} => done[i] = 0
  /\ said' = [said EXCEPT ![i] = v]
  /\ UNCHANGED done

Next == \E i \in Ids : Do(i) \/ \E v \in Verdicts : Say(i, v)
Spec == Init /\ [][Next]_vars
================================================================================
