----------------------------- MODULE BoundedQueue -----------------------------
(***************************************************************************)
(* The operations of lorkhan::BoundedQueue<T> (queues.hpp) on a sequence.  *)
(* Each one is a single critical section of the queue's own mutex, so it   *)
(* is one indivisible step of the thread that calls it.  A queue has       *)
(* `capacity' slots, the last `reserved' of which only a control item may  *)
(* take; control items go to the front.                                    *)
(***************************************************************************)
EXTENDS Integers, Sequences, FiniteSets

(* tryPush's test: a normal item sees the capacity less the reservation.   *)
HasRoom(q, capacity, reserved, control) ==
  Len(q) < (IF control THEN capacity ELSE capacity - reserved)

(* tryPush's insertion: control items overtake everything already queued.  *)
Insert(q, item, control) ==
  IF control THEN <<item>> \o q ELSE Append(q, item)

(* The items of q that are not of generation g, in their order.            *)
Survivors(q, g) == {i \in DOMAIN q : q[i].generation # g}

(***************************************************************************)
(* eraseIf with the predicate the bridge uses: drop every item of          *)
(* generation g.  The result is the order-preserving renumbering of the    *)
(* survivors.  It is written as the (singleton) set of sequences that some *)
(* increasing numbering produces, so that proofs need no induction.        *)
(***************************************************************************)
EraseGeneration(q, g) ==
  LET kept == Survivors(q, g)
      n    == Cardinality(kept)
  IN {[i \in 1..n |-> q[f[i]]] :
        f \in {h \in [1..n -> kept] : \A i, j \in 1..n : i < j => h[i] < h[j]}}

(* drain(maximum): what is taken off the front, and what stays.            *)
Drained(q, maximum) ==
  SubSeq(q, 1, IF maximum < Len(q) THEN maximum ELSE Len(q))

Undrained(q, maximum) ==
  SubSeq(q, (IF maximum < Len(q) THEN maximum ELSE Len(q)) + 1, Len(q))
===============================================================================
