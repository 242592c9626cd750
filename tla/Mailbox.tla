------------------------------- MODULE Mailbox -------------------------------
(***************************************************************************)
(* What the GLOBAL lane is promised about the results of its requests:     *)
(* within one generation a result that has arrived is handed to the lane   *)
(* in the order of arrival, none is overtaken, dropped or repeated, except *)
(* that whoever waits for a result of a pumped kind may take it out of     *)
(* turn.  Only the end of a generation forgets results.                    *)
(***************************************************************************)
EXTENDS Naturals, Sequences, SequencesExt, FiniteSets, FiniteSetsExt

CONSTANT Pumped(_)

VARIABLES box, epoch   \* what has arrived in this generation, and its number
vars == <<box, epoch>>

Init == box = <<>> /\ epoch = 1

Arrive == IsPrefix(box, box') /\ UNCHANGED epoch
Handle == IsSuffix(box', box) /\ UNCHANGED epoch
Settle ==
  /\ \E S \in SUBSET {i \in 1..Len(box) : Pumped(box[i])} :
       LET kept == SetToSortSeq((1..Len(box)) \ S, <) IN
       box' = [i \in 1..Len(kept) |-> box[kept[i]]]
  /\ UNCHANGED epoch
Forget == box' = <<>> /\ epoch' = epoch + 1

Next == Arrive \/ Handle \/ Settle \/ Forget
Spec == Init /\ [][Next]_vars
================================================================================
