------------------------- MODULE NativeTransferProofs -------------------------
(***************************************************************************)
(* Proofs about NativeTransfer for every set of actions and turns and every *)
(* capacity and bound.                                                      *)
(***************************************************************************)
EXTENDS NativeTransfer, SequenceTheorems, FiniteSetTheorems, TLAPS

Open == {"awaiting_confirmation", "pending"}
Records == [status : Terminal \union Open, gate : {"fresh", "pending", "executing", "terminal"},
            spellHook : BOOLEAN, spellStarted : BOOLEAN,
            receiptStatus : {"not_submitted", "pending", "accepted", "failed"},
            receipt : Terminal \union {"none"}]
RetainedSet == {a \in Actions : Retained(a)}

(* The commit gate follows the status of an action.                        *)
Gated(r) ==
  /\ r.gate = "executing" => r.spellHook /\ r.status = "pending"
  /\ r.status = "awaiting_confirmation" => r.gate = "fresh" /\ ~r.spellHook
  /\ r.status = "pending" => r.gate = IF r.spellHook THEN "executing" ELSE "pending"
Sound(r) == r = NoRec \/ (r \in Records /\ Gated(r))

Types ==
  /\ gen \in 1..MaxGenerations /\ ready \in BOOLEAN /\ scope \in 1..gen
  /\ order \in Seq(Turns) /\ Len(order) <= SnapCap
  /\ cancelled \subseteq Turns
  /\ recs \in [Actions -> Records \union {NoRec}] /\ \A a \in Actions : Sound(recs[a])
  /\ IsFiniteSet(RetainedSet) /\ Cardinality(RetainedSet) <= RecordCap
  /\ turnGen \in [Turns -> 0..gen]
  /\ asked \in [Actions -> {"no", "yes", "handed", "rejecting", "over"}]
  /\ pend \in [Actions -> {"none", "running"} \union Terminal]
  /\ net \in [Actions -> Terminal \union {"none"}]
  /\ done \in [Actions -> {0, 1}] /\ told \in [Actions -> SUBSET Terminal]
  /\ stopped \subseteq Turns

(* Which generation the turns, the tables and the closures belong to.      *)
Scoping ==
  /\ \A t \in Turns : turnGen[t] = gen => scope = gen
  /\ \A a \in Actions : Retained(a) => turnGen[TurnOf[a]] = scope
  /\ \A q \in queue : q[1] \in Actions /\ q[2] = turnGen[TurnOf[q[1]]] /\ q[2] # 0
  /\ \A a \in Actions : turnGen[TurnOf[a]] = 0 => asked[a] = "no"

(* No record of a turn that was stopped is open, unless it finds the       *)
(* observation of its turn cancelled when it is run.                       *)
Stops ==
  /\ \A t \in stopped : turnGen[t] = gen /\ (t \in Range(order) => t \in cancelled)
  /\ \A a \in Actions : TurnOf[a] \in stopped /\ Retained(a) /\ recs[a].status \in Open =>
                          TurnOf[a] \in cancelled

(* What has been, is being or will be said of an action.                   *)
Words(a) == told[a] \union ({net[a]} \ {"none"})
              \union (IF Retained(a) THEN {recs[a].receipt} \ {"none"} ELSE {})
IsTrue(a, v) == /\ v = "succeeded" => done[a] = 1
                /\ v \in {"cancelled", "rejected"} \union Open => done[a] = 0

OneWord(a) == \A v \in Words(a) : IsTrue(a, v) /\ \A w \in Words(a) : w = v
(* A record says what its action has come to.                              *)
StatusTrue(a) == IsTrue(a, recs[a].status)
Recorded(a) ==
  Retained(a) => /\ Words(a) \subseteq {recs[a].status} /\ StatusTrue(a)
                 /\ recs[a].status = "pending" => asked[a] \in {"handed", "over"}
(* Of an action that GLOBAL has not taken on nothing is known.             *)
Untaken(a) ==
  /\ asked[a] \in {"no", "yes", "rejecting"} => pend[a] = "none" /\ done[a] = 0 /\ Words(a) = {}
  /\ asked[a] = "no" => ~Retained(a)
(* GLOBAL's list repeats what the record says, or reports its absence.     *)
Listed(a) ==
  Current(a) =>
    /\ pend[a] # "none" => asked[a] = "handed"
    /\ pend[a] \in Terminal /\ Retained(a) => recs[a].status = pend[a]
    /\ ~Retained(a) /\ asked[a] = "handed" =>
         pend[a] \in {"none", "running", "failed"} /\ Words(a) \subseteq {"failed"}
Truth(a) == OneWord(a) /\ Recorded(a) /\ Untaken(a) /\ Listed(a)

(* KeepsItsWord speaks of the world and of the server; what keeps it true  *)
(* is what the record, GLOBAL's list and the receipt on its way agree on.  *)
IInv == Types /\ Scoping /\ Stops /\ \A a \in Actions : Truth(a)

-------------------------------------------------------------------------------
(* What the operators do to one record                                     *)

(* The record stays sound and keeps its receipt.                           *)
Carries(r, s) == s \in Records /\ Gated(s) /\ s.receipt = r.receipt

LEMMA RecordParts ==
  /\ \A r \in Records : r # NoRec
  /\ \A a \in Actions : Sound(recs[a]) /\ Retained(a) => recs[a] \in Records /\ Gated(recs[a])
BY DEF Sound, Retained, Records, NoRec

(* An action that is cancelled is over; one that has ended stays as it is. *)
LEMMA CancelRecord ==
  ASSUME NEW r \in Records, Gated(r)
  PROVE  /\ Carries(r, cancelTransfer(r)) /\ cancelTransfer(r).status \notin Open
         /\ cancelTransfer(r).status = IF r.status \in Open THEN "cancelled" ELSE r.status
<1>1. r # NoRec
  BY RecordParts
<1>2. CASE r.spellHook /\ r.status = "pending"
  BY <1>1, <1>2 DEF cancelTransfer, Ended, finish, Carries, Gated, Records, Open, Terminal
<1>3. CASE ~(r.spellHook /\ r.status = "pending") /\ r.status \in Open
  BY <1>1, <1>3 DEF cancelTransfer, Cancellable, Carries, Gated, Records, Open, Terminal
<1>4. CASE r.status \notin Open
  BY <1>1, <1>4 DEF cancelTransfer, Carries, Gated, Records, Open, Terminal
<1> QED BY <1>2, <1>3, <1>4

(* executeTransfer queues an action, or ends a spell that will not come.   *)
LEMMA ExecuteRecord ==
  ASSUME NEW r \in Records, Gated(r), NEW late
  PROVE  LET s == Executed(r, late)
         IN /\ Carries(r, s)
            /\ \/ s.status = r.status
               \/ r.status = "pending" /\ s.status = "failed"
               \/ Queues(r) /\ s.status = "pending"
<1> DEFINE b == BrokenOff(r)
           e == Expired(b, late)
<1>1. Carries(r, b) /\ (b.status = r.status \/ (r.status = "pending" /\ b.status = "failed"))
      /\ (r.status = "awaiting_confirmation" => b = r)
  <2>1. CASE b = r
    <3>1. Carries(r, r)
      BY DEF Carries
    <3>2. b = r
      BY <2>1
    <3> HIDE DEF b
    <3> QED BY <3>1, <3>2
  <2>2. CASE b # r
    <3>1. r.spellHook /\ r.status = "pending" /\ r.gate = "executing"
      BY <2>2 DEF BrokenOff, Gated
    <3>2. b = [r EXCEPT !.status = "failed", !.gate = "terminal", !.spellHook = FALSE]
      BY <2>2, <3>1 DEF BrokenOff, Ended, finish, Records
    <3>3. b \in Records /\ b.status = "failed" /\ b.gate = "terminal" /\ b.receipt = r.receipt
      <4> HIDE DEF b
      <4> QED BY <3>2 DEF Records, Terminal
    <3> QED BY <3>1, <3>3 DEF Carries, Gated
  <2> QED BY <2>1, <2>2
<1>2. Carries(r, e) /\ (e.status = r.status \/ (r.status = "pending" /\ e.status = "failed"))
      /\ (r.status = "awaiting_confirmation" => e = r)
  <2>1. CASE e = b
    <3> HIDE DEF e
    <3> QED BY <1>1, <2>1
  <2>2. CASE e # b
    <3> HIDE DEF b
    <3>1. b.spellHook /\ b.status = "pending" /\ b.gate = "executing"
      BY <1>1, <2>2 DEF Expired, Gated, Carries
    <3>2. e = [b EXCEPT !.status = "failed", !.gate = "terminal"]
      BY <1>1, <2>2, <3>1 DEF Expired, Ended, finish, Carries, Records
    <3>3. e \in Records /\ e.status = "failed" /\ e.gate = "terminal" /\ e.receipt = b.receipt
      <4> HIDE DEF e
      <4> QED BY <1>1, <3>2 DEF Carries, Records, Terminal
    <3> QED BY <1>1, <3>1, <3>3 DEF Carries, Gated
  <2> QED BY <2>1, <2>2
<1>3. Executed(r, late) = IF Queues(e) THEN [e EXCEPT !.status = "pending", !.gate = "pending"] ELSE e
  BY RecordParts DEF Executed
<1>4. CASE Queues(e)
  <2> HIDE DEF b, e
  <2>1. e.status = "awaiting_confirmation" /\ e = r
    BY <1>2, <1>4 DEF Queues
  <2> QED BY <1>2, <1>3, <1>4, <2>1 DEF Carries, Gated, Records, Open
<1>5. CASE ~Queues(e)
  <2> HIDE DEF b, e
  <2> QED BY <1>2, <1>3, <1>5
<1> QED BY <1>4, <1>5

(* spellFinished ends a spell that is under way.                           *)
LEMMA FinishRecord ==
  ASSUME NEW r \in Records, Gated(r), NEW status \in Terminal
  PROVE  /\ Carries(r, Finished(r, status))
         /\ Finished(r, status).status = IF r.status = "pending" THEN status ELSE r.status
BY DEF Finished, Ended, finish, Carries, Gated, Records, Open, Terminal

(* submitActionResult freezes the first receipt, which is the record's own *)
(* result; only a refusal decides the status.                              *)
LEMMA SubmitRecord ==
  ASSUME NEW r \in Records, Gated(r), NEW status \in Terminal, NEW sent \in BOOLEAN
  PROVE  LET s == Submitted(r, status, sent)
         IN /\ s \in Records /\ Gated(s)
            /\ \/ s.status = r.status
               \/ s.status = status /\ status \in {"rejected", "cancelled"} /\ Cancellable(r)
            /\ \/ s.receipt = r.receipt
               \/ r.receipt = "none" /\ s.receipt = status /\ s.status = status
            /\ Submits(r, status) => s.status = status /\ s.receipt # "none"
<1>1. r # NoRec
  BY RecordParts
<1> DEFINE d == Decided(r, status)
           s == Submitted(r, status, sent)
<1>2. /\ d \in Records /\ Gated(d) /\ d.receipt = r.receipt
      /\ \/ d.status = r.status
         \/ d.status = status /\ status \in {"rejected", "cancelled"} /\ Cancellable(r)
  <2>1. CASE d = r
    BY <2>1
  <2>2. CASE d # r
    <3>1. status \in {"rejected", "cancelled"} /\ Cancellable(r)
          /\ d = [r EXCEPT !.status = status, !.gate = "terminal"]
      BY <2>2 DEF Decided
    <3>2. d \in Records /\ d.status = status /\ d.gate = "terminal" /\ d.receipt = r.receipt
      <4> HIDE DEF d
      <4> QED BY <3>1 DEF Records
    <3> QED BY <3>1, <3>2 DEF Gated
  <2> QED BY <2>1, <2>2
<1>3. CASE ~Submits(r, status)
  BY <1>1, <1>2, <1>3 DEF Submitted
<1>4. CASE Submits(r, status)
  <2>1. d.status = status
    BY <1>1, <1>4 DEF Submits, Mismatch
  <2>2. PICK v \in Terminal, w \in {"pending", d.receiptStatus} :
          /\ s = [d EXCEPT !.receipt = v, !.receiptStatus = w]
          /\ v = IF d.receipt = "none" THEN status ELSE d.receipt
    <3>1. s = [d EXCEPT !.receipt = IF @ = "none" THEN status ELSE @,
                        !.receiptStatus = IF sent THEN "pending" ELSE @]
      BY <1>1, <1>4 DEF Submitted
    <3> HIDE DEF d, s
    <3>2. d.receipt \in Terminal \union {"none"}
      BY <1>2 DEF Records
    <3> QED BY <1>2, <3>1, <3>2 DEF Records
  <2> HIDE DEF d, s
  <2>3. s \in Records /\ Gated(s) /\ s.status = status /\ s.receipt = v
    <3>1. w \in {"not_submitted", "pending", "accepted", "failed"}
      BY <1>2 DEF Records
    <3>2. /\ s \in Records /\ s.receipt = v
          /\ s.status = d.status /\ s.gate = d.gate /\ s.spellHook = d.spellHook
      BY <1>2, <2>2, <3>1 DEF Records
    <3> QED BY <1>2, <2>1, <3>2 DEF Gated
  <2>4. v # "none"
    BY DEF Terminal
  <2> QED BY <1>2, <2>1, <2>2, <2>3, <2>4 DEF s
<1> QED BY <1>3, <1>4

-------------------------------------------------------------------------------
(* Steps of one action                                                     *)

(* What is known of action a stays as it is.                               *)
Untouched(a) ==
  /\ recs'[a] = recs[a] /\ told'[a] = told[a] /\ net'[a] = net[a]
  /\ done'[a] = done[a] /\ pend'[a] = pend[a] /\ asked'[a] = asked[a]

LEMMA SameTruth ==
  ASSUME NEW a \in Actions, Truth(a), Untouched(a), Current(a)' => Current(a)
  PROVE  Truth(a)'
BY DEF Truth, OneWord, Recorded, Untaken, Listed, Words, IsTrue, StatusTrue, Untouched, Retained

LEMMA WordsOf ==
  ASSUME NEW a, NEW v
  PROVE  v \in Words(a) <=> \/ v \in told[a]
                            \/ v = net[a] /\ v # "none"
                            \/ Retained(a) /\ v = recs[a].receipt /\ v # "none"
BY DEF Words

(* Nothing has been said of an action whose record is open.                *)
LEMMA OpenUnsaid ==
  ASSUME Types, NEW a \in Actions, Truth(a), Retained(a), recs[a].status \in Open
  PROVE  Words(a) = {} /\ done[a] = 0 /\ (Current(a) => pend[a] \notin Terminal)
<1>1. recs[a] \in Records
  BY RecordParts DEF Types
<1>2. told[a] \subseteq Terminal /\ net[a] \in Terminal \union {"none"}
      /\ recs[a].receipt \in Terminal \union {"none"}
  BY <1>1 DEF Types, Records
<1>3. \A v \in Words(a) : v \in Terminal /\ v = recs[a].status
  BY <1>2, WordsOf DEF Truth, Recorded
<1> QED BY <1>3 DEF Open, Terminal, Truth, Recorded, IsTrue, StatusTrue, Listed

(* A record that moves without a receipt: an open one is opened further,   *)
(* or ends without having been carried out.                                *)
LEMMA MoveTruth ==
  ASSUME Types, NEW a \in Actions, Truth(a), Retained(a), recs'[a] \in Records,
         recs'[a].receipt = recs[a].receipt,
         \/ recs'[a].status = recs[a].status
         \/ recs[a].status \in Open /\ recs'[a].status \in {"failed", "cancelled"}
         \/ recs[a].status \in Open /\ recs'[a].status = "pending" /\ asked[a] = "handed",
         told'[a] = told[a], net'[a] = net[a], done'[a] = done[a], pend'[a] = pend[a],
         asked'[a] = asked[a], Current(a)' => Current(a)
  PROVE  Truth(a)'
<1>1. Retained(a)' /\ Words(a)' = Words(a)
  BY RecordParts DEF Words, Retained
<1>2. OneWord(a)' /\ Untaken(a)'
  BY <1>1 DEF Truth, OneWord, Untaken, IsTrue, StatusTrue
<1>3. CASE recs'[a].status = recs[a].status
  BY <1>1, <1>2, <1>3 DEF Truth, Recorded, Listed, IsTrue, StatusTrue
<1>4. CASE recs[a].status \in Open
  <2>1. Words(a) = {} /\ done[a] = 0 /\ (Current(a) => pend[a] \notin Terminal)
    BY <1>4, OpenUnsaid
  <2>2. recs'[a].status # recs[a].status => recs'[a].status # "succeeded"
                                            /\ (recs'[a].status = "pending" => asked[a] = "handed")
    OBVIOUS
  <2>3. Recorded(a)'
    BY <1>1, <1>3, <2>1, <2>2 DEF Truth, Recorded, IsTrue, StatusTrue
  <2>4. Listed(a)'
    BY <1>1, <2>1 DEF Truth, Listed
  <2> QED BY <1>2, <2>3, <2>4 DEF Truth
<1> QED BY <1>3, <1>4

(* A step that retains nothing, opens nothing and stays in its session.    *)
Frame == UNCHANGED <<gen, scope, order, cancelled, turnGen, stopped>> /\ ready' \in BOOLEAN
Typed ==
  /\ recs' \in [Actions -> Records \union {NoRec}] /\ \A a \in Actions : Sound(recs'[a])
  /\ asked' \in [Actions -> {"no", "yes", "handed", "rejecting", "over"}]
  /\ \A a \in Actions : asked[a] = "no" => asked'[a] = "no"
  /\ pend' \in [Actions -> {"none", "running"} \union Terminal]
  /\ net' \in [Actions -> Terminal \union {"none"}]
  /\ done' \in [Actions -> {0, 1}] /\ told' \in [Actions -> SUBSET Terminal]
OpensNothing == \A a \in Actions : Retained(a)' =>
                  Retained(a) /\ (recs'[a].status \in Open => recs[a].status \in Open)
QueuesRight == \A q \in queue' :
  q \in queue \/ (q[1] \in Actions /\ q[2] = turnGen[TurnOf[q[1]]] /\ q[2] # 0)

LEMMA FewerRetained ==
  ASSUME Types, \A a \in Actions : Retained(a)' => Retained(a)
  PROVE  IsFiniteSet(RetainedSet)' /\ (Cardinality(RetainedSet) <= RecordCap)'
<1>1. RetainedSet' \subseteq RetainedSet
  BY DEF RetainedSet
<1>2. IsFiniteSet(RetainedSet') /\ Cardinality(RetainedSet') <= Cardinality(RetainedSet)
  BY <1>1, FS_Subset DEF Types
<1>3. Cardinality(RetainedSet) \in Nat /\ Cardinality(RetainedSet') \in Nat
  BY <1>2, FS_CardinalityType DEF Types
<1> QED BY <1>2, <1>3, TransferAssumption DEF Types, RetainedSet, Retained

LEMMA FrameStep ==
  ASSUME IInv, Frame, Typed, OpensNothing, QueuesRight, \A a \in Actions : Truth(a)'
  PROVE  IInv'
<1>1. Types'
  BY FewerRetained DEF IInv, Types, Frame, Typed, OpensNothing
<1>2. Scoping'
  BY DEF IInv, Scoping, Frame, OpensNothing, QueuesRight, Typed
<1>3. Stops'
  BY DEF IInv, Stops, Frame, OpensNothing
<1> QED BY <1>1, <1>2, <1>3 DEF IInv

(* A turn of the present generation finds the tables synchronised.         *)
LEMMA CurrentSynced ==
  ASSUME Types, Scoping, NEW t \in Turns, turnGen[t] = gen
  PROVE  scope = gen /\ SyncedRecs = recs /\ SyncedOrder = order /\ SyncedCancelled = cancelled
BY DEF Scoping, SyncedRecs, SyncedOrder, SyncedCancelled, Synced
LEMMA TurnOfAction == \A a \in Actions : TurnOf[a] \in Turns
BY TransferAssumption

(* Everything but action a is left alone.                                  *)
LEMMA OneActionStep ==
  ASSUME IInv, Frame, Typed, QueuesRight, NEW a \in Actions, Truth(a)',
         Retained(a)' => Retained(a) /\ (recs'[a].status \in Open => recs[a].status \in Open),
         \A b \in Actions : b # a => Untouched(b)
  PROVE  IInv'
<1>1. \A b \in Actions : Truth(b)'
  BY SameTruth DEF IInv, Frame, Current
<1>2. OpensNothing
  BY DEF OpensNothing, Untouched, Retained
<1> QED BY <1>1, <1>2, FrameStep

(* M.cancel of an action.                                                  *)
LEMMA CancelStep == ASSUME IInv, NEW a \in Actions, Cancel(a) PROVE IInv'
<1>1. recs[a] \in Records /\ Gated(recs[a]) /\ Retained(a)
  BY RecordParts DEF Cancel, IInv, Types
<1> PICK s : s = cancelTransfer(recs[a])
  OBVIOUS
<1>2. /\ Carries(recs[a], s) /\ s.status \notin Open
      /\ s.status = IF recs[a].status \in Open THEN "cancelled" ELSE recs[a].status
  BY <1>1, CancelRecord
<1>3. recs' = [recs EXCEPT ![a] = s]
  BY DEF Cancel
<1>4. UNCHANGED <<told, net, done, pend, asked, queue>> /\ Frame
  BY DEF Cancel, engine, server, Frame, IInv, Types
<1>5. Typed
  BY <1>2, <1>3, <1>4 DEF Typed, IInv, Types, Carries, Sound
<1>6. recs'[a] = s
  BY <1>1, <1>3 DEF IInv, Types
<1>7. Truth(a)'
  BY <1>1, <1>2, <1>4, <1>6, MoveTruth DEF Carries, IInv, Current, Frame
<1>8. QueuesRight /\ \A b \in Actions : b # a => Untouched(b)
  BY <1>3, <1>4 DEF QueuesRight, Untouched, IInv, Types
<1> QED BY <1>1, <1>2, <1>4, <1>5, <1>6, <1>7, <1>8, OneActionStep

(* M.pump drops what belongs to another generation.                        *)
LEMMA DropStep == ASSUME IInv, Drop PROVE IInv'
<1>1. UNCHANGED <<told, net, done, asked, queue>> /\ Frame
  BY DEF Drop, engine, server, Frame, IInv, Types
<1>2. \A a \in Actions : a \notin Stale => Untouched(a)
  BY <1>1 DEF Drop, Untouched, IInv, Types
<1>3. ASSUME NEW a \in Stale
      PROVE  /\ a \in Actions /\ ~Current(a) /\ recs'[a] = cancelTransfer(recs[a]) /\ pend'[a] = "none"
             /\ asked[a] \notin {"no", "yes", "rejecting"}
  BY DEF Drop, Stale, IInv, Truth, Untaken
<1>4. ASSUME NEW a \in Stale, Retained(a)
      PROVE  /\ recs'[a] \in Records /\ Gated(recs'[a]) /\ Retained(a)' /\ recs'[a].status \notin Open
             /\ Truth(a)'
  <2>1. recs[a] \in Records /\ Gated(recs[a])
    BY <1>3, <1>4, RecordParts DEF IInv, Types
  <2>2. /\ Carries(recs[a], recs'[a]) /\ recs'[a].status \notin Open
        /\ recs'[a].status = IF recs[a].status \in Open THEN "cancelled" ELSE recs[a].status
    BY <1>3, <2>1, CancelRecord
  <2>3. recs'[a] \in Records /\ Retained(a)' /\ Words(a)' = Words(a)
    BY <1>1, <1>4, <2>2, RecordParts DEF Carries, Retained, Words
  <2>4. recs[a].status \in Open => Words(a) = {} /\ done[a] = 0
    BY <1>3, <1>4, OpenUnsaid DEF IInv
  <2>5. Truth(a)'
    BY <1>1, <1>3, <1>4, <2>2, <2>3, <2>4
       DEF IInv, Truth, OneWord, Recorded, Untaken, Listed, IsTrue, StatusTrue, Current, Frame
  <2> QED BY <2>2, <2>3, <2>5 DEF Carries
<1>5. ASSUME NEW a \in Stale, ~Retained(a)
      PROVE  recs'[a] = recs[a] /\ Truth(a)'
  <2>1. recs'[a] = recs[a] /\ ~Retained(a)'
    BY <1>3, <1>5 DEF cancelTransfer, Retained
  <2> QED BY <1>1, <1>3, <1>5, <2>1
             DEF IInv, Truth, OneWord, Recorded, Untaken, Listed, IsTrue, StatusTrue, Current, Frame, Words
<1>6. Stale \subseteq Actions /\ recs' = [a \in Actions |-> recs'[a]]
  BY DEF Stale, Drop
<1>7. \A a \in Actions : Sound(recs'[a]) /\ recs'[a] \in Records \union {NoRec}
  BY <1>2, <1>4, <1>5 DEF IInv, Types, Sound, Untouched
<1>8. Typed
  <2>1. pend' \in [Actions -> {"none", "running"} \union Terminal]
    BY DEF Drop, IInv, Types
  <2> QED BY <1>1, <1>6, <1>7, <2>1 DEF Typed, IInv, Types
<1>9. OpensNothing
  BY <1>2, <1>4, <1>5 DEF OpensNothing, Untouched, Retained
<1>10. \A a \in Actions : Truth(a)'
  BY <1>1, <1>2, <1>4, <1>5, SameTruth DEF IInv, Current, Frame
<1> QED BY <1>1, <1>8, <1>9, <1>10, FrameStep DEF QueuesRight

(* The server reads a receipt, and its result comes back.                  *)
LEMMA AnswerStep ==
  ASSUME IInv, NEW a \in Actions, NEW arrives \in BOOLEAN, NEW result \in {"accepted", "failed", "lost"},
         Answer(a, arrives, result)
  PROVE  IInv'
<1>1. /\ net[a] # "none" /\ net' = [net EXCEPT ![a] = "none"]
      /\ told' = IF arrives THEN [told EXCEPT ![a] = @ \union {net[a]}] ELSE told
      /\ UNCHANGED <<done, asked, pend, queue>> /\ Frame
  BY DEF Answer, engine, Frame, IInv, Types
<1>2. /\ recs' \in [Actions -> Records \union {NoRec}]
      /\ \A b \in Actions : b # a => recs'[b] = recs[b]
      /\ Retained(a)' <=> Retained(a)
      /\ Retained(a) => recs'[a] \in Records /\ Gated(recs'[a]) /\ recs'[a].receipt = recs[a].receipt
                        /\ recs'[a].status = recs[a].status
  <2>1. CASE recs' = recs
    BY <2>1, RecordParts DEF IInv, Types, Retained
  <2>2. CASE recs' # recs
    <3>1. Retained(a) /\ recs' = [recs EXCEPT ![a].receiptStatus = result] /\ result # "lost"
      BY <2>2 DEF Answer
    <3>2. recs[a] \in Records /\ Gated(recs[a])
      BY <3>1, RecordParts DEF IInv, Types
    <3> PICK s : s = [recs[a] EXCEPT !.receiptStatus = result]
      OBVIOUS
    <3>3. s \in Records /\ Gated(s) /\ s.receipt = recs[a].receipt /\ s.status = recs[a].status
      BY <3>1, <3>2 DEF Records, Gated
    <3>4. recs' = [recs EXCEPT ![a] = s]
      BY <3>1 DEF IInv, Types
    <3> QED BY <3>1, <3>3, <3>4, RecordParts DEF IInv, Types, Retained
  <2> QED BY <2>1, <2>2
<1>3. Typed
  BY <1>1, <1>2 DEF Typed, IInv, Types, Sound, Retained
<1>4. told'[a] \in {told[a], told[a] \union {net[a]}} /\ net'[a] = "none"
  BY <1>1 DEF IInv, Types
<1>5. \A v \in Words(a)' : v \in Words(a)
  BY <1>1, <1>2, <1>4 DEF Words
<1>6. Truth(a)'
  BY <1>1, <1>2, <1>5
     DEF IInv, Truth, OneWord, Recorded, Untaken, Listed, IsTrue, StatusTrue, Current, Frame
<1>7. QueuesRight /\ \A b \in Actions : b # a => Untouched(b)
  BY <1>1, <1>2 DEF QueuesRight, Untouched, IInv, Types
<1> QED BY <1>1, <1>2, <1>3, <1>6, <1>7, OneActionStep

(* What becomes of an action that is being carried out, with its record.   *)
LEMMA OutcomeTruth ==
  ASSUME Types, NEW a \in Actions, Truth(a), Retained(a), recs[a].status = "pending",
         recs'[a] \in Records, recs'[a].receipt = recs[a].receipt, StatusTrue(a)',
         told'[a] = told[a], net'[a] = net[a], pend'[a] = pend[a], asked'[a] = asked[a],
         Current(a)' => Current(a)
  PROVE  Truth(a)'
<1>1. Words(a) = {} /\ (Current(a) => pend[a] \notin Terminal) /\ asked[a] \in {"handed", "over"}
  BY OpenUnsaid DEF Open, Truth, Recorded
<1>2. Retained(a)' /\ Words(a)' = {}
  BY <1>1, RecordParts DEF Words, Retained
<1>3. OneWord(a)' /\ Recorded(a)' /\ Untaken(a)' /\ Listed(a)'
  BY <1>1, <1>2 DEF Truth, OneWord, Recorded, Untaken, Listed
<1> QED BY <1>3 DEF Truth

(* The closure in the engine's queue.                                      *)
Ran(r, outcome) ==
  IF outcome = "hook" THEN [r EXCEPT !.spellHook = TRUE, !.gate = "executing"]
  ELSE [r EXCEPT !.status = IF outcome = "readback_failed" THEN "failed" ELSE outcome, !.gate = "terminal"]
LEMMA RunParts ==
  ASSUME IInv, NEW a \in Actions, NEW g \in 1..gen,
         NEW outcome \in {"failed", "cancelled", "succeeded", "readback_failed", "hook"},
         RunAction(a, g, outcome), ~UNCHANGED <<recs, done>>
  PROVE  /\ ready /\ Current(a) /\ Retained(a) /\ recs[a].status = "pending" /\ recs[a].gate = "pending"
         /\ outcome \in Outcomes(a)
         /\ done' = IF outcome \in {"succeeded", "readback_failed"} THEN [done EXCEPT ![a] = @ + 1] ELSE done
         /\ recs' = [recs EXCEPT ![a] = Ran(recs[a], outcome)]
<1>1. InScope(g) /\ Retained(a) /\ recs[a].status = "pending" /\ recs[a].gate = "pending"
  BY DEF RunAction
<1>2. <<a, g>> \in queue /\ <<a, g>>[1] = a /\ <<a, g>>[2] = g
  BY DEF RunAction
<1>3. g = turnGen[TurnOf[a]]
  BY <1>2 DEF IInv, Scoping
<1>4. recs' = [recs EXCEPT ![a] = Ran(recs[a], outcome)]
  <2>1. CASE outcome = "hook"
    BY <1>1, <2>1 DEF RunAction, Ran
  <2>2. CASE outcome # "hook"
    BY <1>1, <2>2 DEF RunAction, Ran
  <2> QED BY <2>1, <2>2
<1> QED BY <1>1, <1>3, <1>4 DEF RunAction, InScope, Current

LEMMA RunStep ==
  ASSUME IInv, NEW a \in Actions, NEW g \in 1..gen,
         NEW outcome \in {"failed", "cancelled", "succeeded", "readback_failed", "hook"},
         RunAction(a, g, outcome)
  PROVE  IInv'
<1>1. UNCHANGED <<told, net, pend, asked>> /\ Frame /\ queue' \subseteq queue
  BY DEF RunAction, server, Frame, IInv, Types
<1>2. CASE UNCHANGED <<recs, done>>
  <2>1. Typed
    BY <1>1, <1>2 DEF Typed, IInv, Types
  <2>2. OpensNothing
    BY <1>2 DEF OpensNothing, Retained
  <2>3. \A b \in Actions : Truth(b)'
    BY <1>1, <1>2, SameTruth DEF IInv, Untouched, Current, Frame
  <2> QED BY <1>1, <2>1, <2>2, <2>3, FrameStep DEF QueuesRight
<1>3. CASE ~UNCHANGED <<recs, done>>
  <2> PICK s : s = Ran(recs[a], outcome)
    OBVIOUS
  <2>1. /\ Retained(a) /\ recs[a].status = "pending" /\ recs[a].gate = "pending"
        /\ done' = IF outcome \in {"succeeded", "readback_failed"} THEN [done EXCEPT ![a] = @ + 1] ELSE done
        /\ recs' = [recs EXCEPT ![a] = s]
    BY <1>3, RunParts
  <2>2. recs[a] \in Records /\ Gated(recs[a])
    BY <2>1, RecordParts DEF IInv, Types
  <2>3. /\ s \in Records /\ Gated(s) /\ s.receipt = recs[a].receipt
        /\ s.status = IF outcome = "hook" THEN "pending"
                      ELSE IF outcome = "readback_failed" THEN "failed" ELSE outcome
    <3>1. CASE outcome = "hook"
      BY <2>1, <2>2, <3>1 DEF Ran, Records, Gated
    <3>2. CASE outcome # "hook"
      <4>1. (IF outcome = "readback_failed" THEN "failed" ELSE outcome) \in Terminal
        BY <3>2 DEF Terminal
      <4> QED BY <2>1, <2>2, <3>2, <4>1 DEF Ran, Records, Gated, Terminal
    <3> QED BY <3>1, <3>2
  <2>4. done[a] = 0
    BY <2>1, OpenUnsaid DEF IInv, Open
  <2>5. /\ recs'[a] = s /\ recs' \in [Actions -> Records \union {NoRec}]
        /\ \A b \in Actions : b # a => recs'[b] = recs[b] /\ done'[b] = done[b]
    BY <2>1, <2>3 DEF IInv, Types
  <2>6. /\ done' \in [Actions -> {0, 1}]
        /\ done'[a] = IF outcome \in {"succeeded", "readback_failed"} THEN 1 ELSE 0
    BY <2>1, <2>4 DEF IInv, Types
  <2>7. StatusTrue(a)'
    BY <2>3, <2>5, <2>6 DEF IsTrue, StatusTrue, Open
  <2>8. Truth(a)'
    BY <1>1, <2>1, <2>3, <2>5, <2>7, OutcomeTruth DEF IInv, Current, Frame
  <2>9. Typed
    BY <1>1, <2>3, <2>5, <2>6 DEF Typed, IInv, Types, Sound
  <2>10. Retained(a)' => Retained(a) /\ (recs'[a].status \in Open => recs[a].status \in Open)
    BY <2>1 DEF Open
  <2>11. QueuesRight /\ \A b \in Actions : b # a => Untouched(b)
    BY <1>1, <2>5 DEF QueuesRight, Untouched
  <2> QED BY <1>1, <2>8, <2>9, <2>10, <2>11, OneActionStep
<1> QED BY <1>2, <1>3

(* The two points at which the engine asks about the hooked spell.         *)
LEMMA FinishStep ==
  ASSUME IInv, NEW h \in Actions, Retained(h), NEW status \in {"succeeded", "failed"}, Frame,
         recs' = [recs EXCEPT ![h] = Finished(@, status)],
         UNCHANGED <<told, net, pend, asked, queue>>,
         done' = IF status = "succeeded" THEN [done EXCEPT ![h] = @ + 1] ELSE done,
         status = "succeeded" => recs[h].status = "pending"
  PROVE  IInv'
<1>1. recs[h] \in Records /\ Gated(recs[h])
  BY RecordParts DEF IInv, Types
<1> PICK s : s = Finished(recs[h], status)
  OBVIOUS
<1>2. Carries(recs[h], s) /\ s.status = IF recs[h].status = "pending" THEN status ELSE recs[h].status
  BY <1>1, FinishRecord DEF Terminal
<1>3. /\ recs'[h] = s /\ recs' \in [Actions -> Records \union {NoRec}]
      /\ \A b \in Actions : b # h => recs'[b] = recs[b] /\ done'[b] = done[b]
  BY <1>2 DEF IInv, Types, Carries
<1>4. recs[h].status = "pending" => done[h] = 0
  BY OpenUnsaid DEF IInv, Open
<1>5. done' \in [Actions -> {0, 1}] /\ done'[h] = IF status = "succeeded" THEN 1 ELSE done[h]
  BY <1>4 DEF IInv, Types
<1>6. Truth(h)'
  <2>1. CASE recs[h].status = "pending"
    <3>1. StatusTrue(h)'
      BY <1>2, <1>3, <1>4, <1>5, <2>1 DEF IsTrue, StatusTrue, Open
    <3> QED BY <1>2, <1>3, <2>1, <3>1, OutcomeTruth DEF IInv, Current, Frame, Carries
  <2>2. CASE recs[h].status # "pending"
    BY <1>2, <1>3, <1>5, <2>2, MoveTruth DEF IInv, Current, Frame, Carries
  <2> QED BY <2>1, <2>2
<1>7. Typed
  BY <1>2, <1>3, <1>5 DEF Typed, IInv, Types, Sound, Carries
<1>8. Retained(h)' => Retained(h) /\ (recs'[h].status \in Open => recs[h].status \in Open)
  BY <1>2, <1>3 DEF Open
<1>9. QueuesRight /\ \A b \in Actions : b # h => Untouched(b)
  BY <1>3 DEF QueuesRight, Untouched
<1> QED BY <1>6, <1>7, <1>8, <1>9, OneActionStep

(* A step that concerns no action.                                         *)
LEMMA IdleStep ==
  ASSUME IInv, Frame, UNCHANGED <<recs, told, net, done, pend, asked>>, queue' \subseteq queue
  PROVE  IInv'
<1>1. Typed
  BY DEF Typed, IInv, Types
<1>2. OpensNothing
  BY DEF OpensNothing, Retained
<1>3. \A b \in Actions : Truth(b)'
  BY SameTruth DEF IInv, Untouched, Current, Frame
<1> QED BY <1>1, <1>2, <1>3, FrameStep DEF QueuesRight

LEMMA HookedFacts ==
  ASSUME IInv, Hooked # {}, NEW h, h = CHOOSE b \in Hooked : TRUE
  PROVE  h \in Actions /\ Retained(h) /\ recs[h] \in Records /\ Gated(recs[h]) /\ recs[h].spellHook
<1>1. h \in Hooked
  OBVIOUS
<1> QED BY <1>1, RecordParts DEF Hooked, IInv, Types

LEMMA CastStartStep ==
  ASSUME IInv, NEW other \in BOOLEAN, NEW able \in BOOLEAN, CastStart(other, able) PROVE IInv'
<1>1. UNCHANGED <<told, net, done, pend, asked, queue>> /\ Frame
  BY DEF CastStart, server, Frame, IInv, Types
<1>2. CASE recs' = recs
  BY <1>1, <1>2, IdleStep
<1>3. CASE recs' # recs
  <2>1. Hooked # {}
    BY <1>3 DEF CastStart
  <2> PICK h : h = CHOOSE b \in Hooked : TRUE
    OBVIOUS
  <2>2. h \in Actions /\ Retained(h) /\ recs[h] \in Records /\ Gated(recs[h])
    BY <2>1, HookedFacts
  <2>3. CASE recs' = [recs EXCEPT ![h] = Finished(@, "failed")]
    BY <1>1, <2>2, <2>3, FinishStep
  <2>4. CASE recs' = [recs EXCEPT ![h].spellStarted = TRUE]
    <3> PICK s : s = [recs[h] EXCEPT !.spellStarted = TRUE]
      OBVIOUS
    <3>1. s \in Records /\ Gated(s) /\ s.receipt = recs[h].receipt /\ s.status = recs[h].status
      BY <2>2 DEF Records, Gated
    <3>2. recs' = [recs EXCEPT ![h] = s]
      BY <2>2, <2>4 DEF IInv, Types
    <3>3. /\ recs'[h] = s /\ recs' \in [Actions -> Records \union {NoRec}]
          /\ \A b \in Actions : b # h => recs'[b] = recs[b]
      BY <2>2, <3>1, <3>2 DEF IInv, Types
    <3>4. Truth(h)'
      BY <1>1, <2>2, <3>1, <3>3, MoveTruth DEF IInv, Current, Frame
    <3>5. Typed
      BY <1>1, <3>1, <3>3 DEF Typed, IInv, Types, Sound
    <3>6. QueuesRight /\ \A b \in Actions : b # h => Untouched(b)
      BY <1>1, <3>3 DEF QueuesRight, Untouched
    <3> QED BY <1>1, <2>2, <3>1, <3>3, <3>4, <3>5, <3>6, OneActionStep
  <2> QED BY <1>3, <2>1, <2>3, <2>4 DEF CastStart
<1> QED BY <1>2, <1>3

(* The spell that may be launched at the end of an animation.              *)
Fine(h, other, succeeds) == TargetFixed(recs[h], other) /\ TurnOf[h] \notin cancelled /\ succeeds
LEMMA ReleaseParts ==
  ASSUME IInv, NEW other \in BOOLEAN, NEW succeeds \in BOOLEAN, CastRelease(other, succeeds),
         Hooked # {}, NEW h, h = CHOOSE b \in Hooked : TRUE
  PROVE  /\ h \in Actions /\ Retained(h)
         /\ Fine(h, other, succeeds) => ready /\ Current(h) /\ recs[h].status = "pending"
         /\ done' = IF Fine(h, other, succeeds) THEN [done EXCEPT ![h] = @ + 1] ELSE done
         /\ recs' = [recs EXCEPT ![h] = Finished(@, IF Fine(h, other, succeeds) THEN "succeeded" ELSE "failed")]
<1>1. h \in Actions /\ Retained(h)
  BY HookedFacts
<1>2. Fine(h, other, succeeds) => ready /\ Current(h) /\ recs[h].status = "pending"
  BY <1>1 DEF Fine, TargetFixed, Allowed, IInv, Scoping, Current
<1> QED BY <1>1, <1>2 DEF CastRelease, Fine

LEMMA CastReleaseStep ==
  ASSUME IInv, NEW other \in BOOLEAN, NEW succeeds \in BOOLEAN, CastRelease(other, succeeds) PROVE IInv'
<1>1. UNCHANGED <<told, net, pend, asked, queue>> /\ Frame
  BY DEF CastRelease, server, Frame, IInv, Types
<1>2. CASE Hooked = {}
  BY <1>1, <1>2, IdleStep DEF CastRelease
<1>3. CASE Hooked # {}
  <2> PICK h : h = CHOOSE b \in Hooked : TRUE
    OBVIOUS
  <2> PICK status \in {"succeeded", "failed"} :
        status = IF Fine(h, other, succeeds) THEN "succeeded" ELSE "failed"
    OBVIOUS
  <2>1. /\ h \in Actions /\ Retained(h)
        /\ Fine(h, other, succeeds) => recs[h].status = "pending"
        /\ done' = IF Fine(h, other, succeeds) THEN [done EXCEPT ![h] = @ + 1] ELSE done
        /\ recs' = [recs EXCEPT ![h] = Finished(@, IF Fine(h, other, succeeds) THEN "succeeded" ELSE "failed")]
    BY <1>3, ReleaseParts
  <2>2. /\ done' = IF status = "succeeded" THEN [done EXCEPT ![h] = @ + 1] ELSE done
        /\ recs' = [recs EXCEPT ![h] = Finished(@, status)]
        /\ status = "succeeded" => recs[h].status = "pending"
    BY <2>1
  <2> QED BY <1>1, <2>1, <2>2, FinishStep
<1> QED BY <1>2, <1>3

-------------------------------------------------------------------------------
(* Receipts and GLOBAL's list                                              *)

(* The record r of action a as the handler has left it before it reports.  *)
Handled(a, r) ==
  /\ r = NoRec <=> ~Retained(a)
  /\ Retained(a) => r \in Records /\ Gated(r) /\ r.receipt = recs[a].receipt

(* What goes out is the record's frozen receipt, which is the result that  *)
(* was submitted; without a record it is that result.                      *)
LEMMA RequestParts ==
  ASSUME IInv, NEW a \in Actions, NEW r, Handled(a, r), NEW v \in Terminal, NEW sent \in BOOLEAN
  PROVE  \E n \in Terminal \union {"none"} :
           /\ Request(a, r, v, sent) = [net EXCEPT ![a] = n]
           /\ \/ n = net[a]
              \/ r = NoRec /\ n = v
              \/ r # NoRec /\ n = Submitted(r, v, sent).receipt /\ Submitted(r, v, sent).status = v
                           /\ n # "none"
<1>1. CASE Submits(r, v) /\ sent /\ net[a] = "none"
  <2>1. CASE r = NoRec
    BY <1>1, <2>1 DEF Request
  <2>2. CASE r # NoRec
    <3> PICK s : s = Submitted(r, v, sent)
      OBVIOUS
    <3>1. s \in Records /\ s.status = v /\ s.receipt # "none"
      <4>1. r \in Records /\ Gated(r)
        BY <2>2 DEF Handled
      <4>2. Submits(r, v)
        BY <1>1
      <4> QED BY <4>1, <4>2, SubmitRecord
    <3>2. s.receipt \in Terminal
      BY <3>1 DEF Records
    <3>3. Request(a, r, v, sent) = [net EXCEPT ![a] = s.receipt]
      BY <1>1, <2>2 DEF Request
    <3> QED BY <2>2, <3>1, <3>2, <3>3
  <2> QED BY <2>1, <2>2
<1>2. CASE ~(Submits(r, v) /\ sent /\ net[a] = "none")
  <2>1. Request(a, r, v, sent) = [net EXCEPT ![a] = net[a]] /\ net[a] \in Terminal \union {"none"}
    BY <1>2 DEF Request, IInv, Types
  <2> QED BY <2>1
<1> QED BY <1>1, <1>2

(* A single report of an action that GLOBAL will not carry out.            *)
LEMMA ReportTruth ==
  ASSUME IInv, NEW a \in Actions, Untaken(a), asked[a] \in {"yes", "rejecting"}, asked'[a] = "over",
         told'[a] = told[a], done'[a] = done[a], pend'[a] = pend[a],
         NEW r, Handled(a, r), NEW v \in {"failed", "rejected", "cancelled"}, NEW sent \in BOOLEAN,
         Retained(a) => r.status \in {recs[a].status, "cancelled"},
         recs'[a] = Submitted(r, v, sent), net'[a] = Request(a, r, v, sent)[a]
  PROVE  /\ Truth(a)' /\ (Retained(a)' <=> Retained(a))
         /\ Sound(recs'[a]) /\ recs'[a] \in Records \union {NoRec} /\ net'[a] \in Terminal \union {"none"}
         /\ Retained(a)' => (recs'[a].status \in Open => recs[a].status \in Open)
<1>1. v \in Terminal /\ pend[a] = "none" /\ done[a] = 0 /\ Words(a) = {}
  BY DEF Terminal, Untaken
<1> PICK s : s = Submitted(r, v, sent)
  OBVIOUS
<1>2. PICK n \in Terminal \union {"none"} :
        /\ net'[a] = n
        /\ \/ n = net[a]
           \/ r = NoRec /\ n = v
           \/ r # NoRec /\ n = s.receipt /\ s.status = v /\ n # "none"
  <2>1. PICK n \in Terminal \union {"none"} :
          /\ Request(a, r, v, sent) = [net EXCEPT ![a] = n]
          /\ \/ n = net[a]
             \/ r = NoRec /\ n = v
             \/ r # NoRec /\ n = s.receipt /\ s.status = v /\ n # "none"
    BY <1>1, RequestParts
  <2>2. net'[a] = n
    BY <2>1 DEF IInv, Types
  <2> QED BY <2>1, <2>2
<1>3. Retained(a) => /\ s \in Records /\ Gated(s)
                     /\ s.status = r.status \/ s.status = v
                     /\ s.receipt = r.receipt \/ (s.receipt = v /\ s.status = v)
  BY <1>1, SubmitRecord DEF Handled
<1>4. ~Retained(a) => s = NoRec
  BY DEF Handled, Submitted
<1>5. recs'[a] = s /\ net'[a] = n
  BY <1>2
<1>6. Retained(a)' <=> Retained(a)
  BY <1>3, <1>4, <1>5, RecordParts DEF Retained
<1>7. told[a] = {} /\ net[a] = "none" /\ (Retained(a) => r.receipt = "none")
  <2>1. \A w \in Terminal : w \notin Words(a)
    BY <1>1
  <2>2. told[a] \subseteq Terminal /\ net[a] \in Terminal \union {"none"}
    BY DEF IInv, Types
  <2>3. Retained(a) => r.receipt \in Terminal \union {"none"} /\ r.receipt = recs[a].receipt
    BY DEF Handled, Records
  <2> QED BY <2>1, <2>2, <2>3, WordsOf DEF Terminal
<1>8. \A w \in Words(a)' : w = v /\ (Retained(a) => s.status = v)
  BY <1>1, <1>2, <1>3, <1>5, <1>6, <1>7 DEF Words, Handled
<1>9. Retained(a) => StatusTrue(a) /\ recs[a].status # "pending"
  BY DEF IInv, Truth, Recorded
<1>10. Truth(a)'
  <2>1. OneWord(a)'
    BY <1>1, <1>8 DEF OneWord, IsTrue
  <2>2. Recorded(a)'
    BY <1>1, <1>3, <1>5, <1>6, <1>8, <1>9 DEF Recorded, StatusTrue, IsTrue, Open
  <2>3. Untaken(a)' /\ Listed(a)'
    BY <1>1, <1>5 DEF Untaken, Listed, Terminal
  <2> QED BY <2>1, <2>2, <2>3 DEF Truth
<1>11. Sound(recs'[a]) /\ recs'[a] \in Records \union {NoRec}
  BY <1>3, <1>4, <1>5 DEF Sound
<1>12. Retained(a)' => (recs'[a].status \in Open => recs[a].status \in Open)
  BY <1>1, <1>3, <1>5, <1>6 DEF Open, Terminal
<1> QED BY <1>5, <1>6, <1>10, <1>11, <1>12

LEMMA RefusalStep ==
  ASSUME IInv, Frame, UNCHANGED <<told, done, pend>>, queue' \subseteq queue,
         NEW a \in Actions, Untaken(a), asked[a] \in {"yes", "rejecting"},
         asked' = [asked EXCEPT ![a] = "over"],
         NEW r, Handled(a, r), NEW v \in {"failed", "rejected"}, NEW sent \in BOOLEAN,
         Retained(a) => r.status \in {recs[a].status, "cancelled"},
         recs' = [recs EXCEPT ![a] = Submitted(r, v, sent)],
         net' = Request(a, r, v, sent)
  PROVE  IInv'
<1>1. \E n \in Terminal \union {"none"} : net' = [net EXCEPT ![a] = n] /\ net'[a] = n
  <2>1. v \in Terminal
    BY DEF Terminal
  <2>2. \E n \in Terminal \union {"none"} : Request(a, r, v, sent) = [net EXCEPT ![a] = n]
    BY <2>1, RequestParts
  <2> QED BY <2>2 DEF IInv, Types
<1>2. /\ recs'[a] = Submitted(r, v, sent) /\ asked'[a] = "over"
      /\ net'[a] = Request(a, r, v, sent)[a]
      /\ asked' \in [Actions -> {"no", "yes", "handed", "rejecting", "over"}]
      /\ \A b \in Actions : b # a => Untouched(b)
  BY <1>1 DEF IInv, Types, Untouched
<1>3. /\ Truth(a)' /\ (Retained(a)' <=> Retained(a))
      /\ Sound(recs'[a]) /\ recs'[a] \in Records \union {NoRec} /\ net'[a] \in Terminal \union {"none"}
      /\ Retained(a)' => (recs'[a].status \in Open => recs[a].status \in Open)
  BY <1>2, ReportTruth
<1>4. Typed
  BY <1>1, <1>2, <1>3 DEF Typed, IInv, Types, Untouched
<1> QED BY <1>2, <1>3, <1>4, OneActionStep DEF QueuesRight

(* An action that GLOBAL takes on.                                         *)
LEMMA HandedStep ==
  ASSUME IInv, Frame, UNCHANGED <<told, done, net>>, queue' \subseteq queue,
         NEW a \in Actions, asked[a] = "yes", HandedOver(a),
         NEW r, Handled(a, r),
         Retained(a) => r.status \in {recs[a].status, "cancelled"},
         recs' = [recs EXCEPT ![a] = r]
  PROVE  IInv'
<1>1. pend[a] = "none" /\ done[a] = 0 /\ Words(a) = {} /\ Recorded(a)
  BY DEF IInv, Truth, Untaken
<1>2. /\ recs'[a] = r /\ recs' \in [Actions -> Records \union {NoRec}]
      /\ asked'[a] = "handed" /\ pend'[a] = "running"
      /\ asked' \in [Actions -> {"no", "yes", "handed", "rejecting", "over"}]
      /\ pend' \in [Actions -> {"none", "running"} \union Terminal]
      /\ \A b \in Actions : b # a => Untouched(b)
  BY DEF IInv, Types, Untouched, Handled, HandedOver
<1>3. Retained(a)' <=> Retained(a)
  BY <1>2 DEF Handled, Retained
<1>4. Words(a)' = {}
  BY <1>1, <1>2, <1>3 DEF Words, Handled
<1>5. Truth(a)'
  <2>1. Recorded(a)'
    BY <1>1, <1>2, <1>3, <1>4 DEF Recorded, StatusTrue, IsTrue
  <2>2. OneWord(a)' /\ Untaken(a)' /\ Listed(a)'
    BY <1>2, <1>4 DEF OneWord, Untaken, Listed, Terminal
  <2> QED BY <2>1, <2>2 DEF Truth
<1>6. Typed
  BY <1>2 DEF Typed, IInv, Types, Sound, Untouched, Handled
<1>7. Retained(a)' => Retained(a) /\ (recs'[a].status \in Open => recs[a].status \in Open)
  BY <1>2, <1>3 DEF Open
<1> QED BY <1>2, <1>5, <1>6, <1>7, OneActionStep DEF QueuesRight

(* The record as it is, or cancelled.                                      *)
LEMMA HandledRecord ==
  ASSUME IInv, NEW a \in Actions
  PROVE  /\ Handled(a, recs[a])
         /\ Handled(a, cancelTransfer(recs[a]))
         /\ Retained(a) => cancelTransfer(recs[a]).status \in {recs[a].status, "cancelled"}
<1>1. CASE Retained(a)
  <2>1. recs[a] \in Records /\ Gated(recs[a]) /\ recs[a] # NoRec
    BY <1>1, RecordParts DEF IInv, Types
  <2> QED BY <1>1, <2>1, CancelRecord, RecordParts DEF Handled, Carries
<1>2. CASE ~Retained(a)
  BY <1>2 DEF Handled, Retained, cancelTransfer
<1> QED BY <1>1, <1>2

(* The lane cancels a record or leaves it; what waits in it is over.       *)
LEMMA LaneRecord ==
  ASSUME IInv, NEW a \in Actions
  PROVE  /\ Handled(a, LaneRecs[a])
         /\ Retained(a) => \/ LaneRecs[a].status = recs[a].status
                           \/ LaneRecs[a].status = "cancelled" /\ recs[a].status \in Open
<1>1. LaneRecs[a] = recs[a] \/ LaneRecs[a] = cancelTransfer(recs[a])
  BY DEF LaneRecs
<1>2. Retained(a) => cancelTransfer(recs[a]).status =
                       IF recs[a].status \in Open THEN "cancelled" ELSE recs[a].status
  BY RecordParts, CancelRecord DEF IInv, Types
<1> QED BY <1>1, <1>2, HandledRecord

LEMMA LaneTruth ==
  ASSUME IInv, NEW a \in Actions, recs'[a] = LaneRecs[a],
         \/ asked'[a] = asked[a]
         \/ asked'[a] = "over" /\ (asked[a] = "yes" \/ ~Current(a)'),
         told'[a] = told[a], net'[a] \in {net[a], "none"}, done'[a] = done[a], pend'[a] = pend[a],
         Current(a)' => Current(a)
  PROVE  /\ Truth(a)' /\ (Retained(a)' <=> Retained(a))
         /\ Sound(recs'[a]) /\ recs'[a] \in Records \union {NoRec}
         /\ Retained(a)' => (recs'[a].status \in Open => recs[a].status \in Open)
<1>1. /\ Handled(a, recs'[a]) /\ (Retained(a)' <=> Retained(a))
      /\ Retained(a) => \/ recs'[a].status = recs[a].status
                        \/ recs'[a].status = "cancelled" /\ recs[a].status \in Open
  BY LaneRecord DEF Handled, Retained
<1>2. \A v \in Words(a)' : v \in Words(a)
  BY <1>1 DEF Words, Handled
<1>3. Retained(a) /\ recs[a].status \in Open =>
        Words(a) = {} /\ done[a] = 0 /\ (Current(a) => pend[a] \notin Terminal)
  BY OpenUnsaid DEF IInv
<1>4. OneWord(a)' /\ Untaken(a)'
  BY <1>1, <1>2 DEF IInv, Truth, OneWord, Untaken, IsTrue
<1>5. Recorded(a)'
  BY <1>1, <1>2, <1>3 DEF IInv, Truth, Recorded, StatusTrue, IsTrue, Open
<1>6. Listed(a)'
  BY <1>1, <1>2, <1>3 DEF IInv, Truth, Listed, Untaken
<1>7. Sound(recs'[a]) /\ recs'[a] \in Records \union {NoRec}
  BY <1>1 DEF Handled, Sound
<1>8. Retained(a)' => (recs'[a].status \in Open => recs[a].status \in Open)
  BY <1>1 DEF Open
<1> QED BY <1>1, <1>4, <1>5, <1>6, <1>7, <1>8 DEF Truth

(* The lane empties, with or without a report of what waited in it.        *)
LEMMA LaneStep ==
  ASSUME IInv, Frame, LaneEmptied, UNCHANGED <<told, done, pend, queue>>,
         recs' = [a \in Actions |-> recs'[a]], net' = [a \in Actions |-> net'[a]],
         \A a \in Actions :
           \/ recs'[a] = LaneRecs[a] /\ net'[a] = net[a]
           \/ a \in Waiting /\ \E sent \in BOOLEAN :
                /\ recs'[a] = Submitted(LaneRecs[a], "cancelled", sent)
                /\ net'[a] = Request(a, LaneRecs[a], "cancelled", sent)[a]
  PROVE  IInv'
<1>1. \A a \in Actions : asked'[a] = IF asked[a] = "yes" /\ a \in Waiting THEN "over" ELSE asked[a]
  BY DEF LaneEmptied, Waiting
<1>2. ASSUME NEW a \in Actions
      PROVE  /\ Truth(a)' /\ (Retained(a)' <=> Retained(a))
             /\ Sound(recs'[a]) /\ recs'[a] \in Records \union {NoRec}
             /\ net'[a] \in Terminal \union {"none"}
             /\ Retained(a)' => (recs'[a].status \in Open => recs[a].status \in Open)
  <2>1. Current(a)' <=> Current(a)
    BY DEF Current, Frame
  <2>2. CASE recs'[a] = LaneRecs[a] /\ net'[a] = net[a]
    <3>1. net'[a] \in Terminal \union {"none"}
      BY <2>2 DEF IInv, Types
    <3> QED BY <1>1, <2>1, <2>2, <3>1, LaneTruth
  <2>3. ASSUME a \in Waiting, NEW sent \in BOOLEAN,
               recs'[a] = Submitted(LaneRecs[a], "cancelled", sent),
               net'[a] = Request(a, LaneRecs[a], "cancelled", sent)[a]
        PROVE  /\ Truth(a)' /\ (Retained(a)' <=> Retained(a))
               /\ Sound(recs'[a]) /\ recs'[a] \in Records \union {NoRec}
               /\ net'[a] \in Terminal \union {"none"}
               /\ Retained(a)' => (recs'[a].status \in Open => recs[a].status \in Open)
    <3>1. asked[a] = "yes" /\ asked'[a] = "over" /\ Untaken(a)
      BY <1>1, <2>3 DEF Waiting, IInv, Truth
    <3>2. /\ Handled(a, LaneRecs[a])
          /\ Retained(a) => LaneRecs[a].status \in {recs[a].status, "cancelled"}
      BY LaneRecord
    <3> QED BY <2>3, <3>1, <3>2, ReportTruth
  <2> QED BY <2>2, <2>3
<1>3. Typed
  <2>1. asked' \in [Actions -> {"no", "yes", "handed", "rejecting", "over"}]
    BY <1>1 DEF LaneEmptied, IInv, Types
  <2> QED BY <1>1, <1>2, <2>1 DEF Typed, IInv, Types
<1>4. OpensNothing
  BY <1>2 DEF OpensNothing
<1> QED BY <1>2, <1>3, <1>4, FrameStep DEF QueuesRight

LEMMA HaltActionsStep == ASSUME IInv, NEW taken, haltActions(taken) PROVE IInv'
<1>1. UNCHANGED <<told, done, pend, queue>> /\ Frame /\ LaneEmptied
  BY DEF haltActions, engine, Frame, IInv, Types
<1>2. /\ recs' = [a \in Actions |-> recs'[a]] /\ net' = [a \in Actions |-> net'[a]]
      /\ \A a \in Actions :
           \/ recs'[a] = LaneRecs[a] /\ net'[a] = net[a]
           \/ a \in Waiting /\ \E sent \in BOOLEAN :
                /\ recs'[a] = Submitted(LaneRecs[a], "cancelled", sent)
                /\ net'[a] = Request(a, LaneRecs[a], "cancelled", sent)[a]
  <2>1. /\ recs' = [a \in Actions |->
            IF a \in Waiting THEN Submitted(LaneRecs[a], "cancelled", a \in taken) ELSE LaneRecs[a]]
        /\ net' = [a \in Actions |->
            IF a \in Waiting THEN Request(a, LaneRecs[a], "cancelled", a \in taken)[a] ELSE net[a]]
    BY DEF haltActions
  <2>2. recs' = [a \in Actions |-> recs'[a]] /\ net' = [a \in Actions |-> net'[a]]
    BY <2>1, Zenon
  <2>3. ASSUME NEW a \in Actions, a \in Waiting
        PROVE  \E sent \in BOOLEAN : /\ recs'[a] = Submitted(LaneRecs[a], "cancelled", sent)
                                     /\ net'[a] = Request(a, LaneRecs[a], "cancelled", sent)[a]
    <3>1. (a \in taken) \in BOOLEAN
      OBVIOUS
    <3>2. /\ recs'[a] = Submitted(LaneRecs[a], "cancelled", a \in taken)
          /\ net'[a] = Request(a, LaneRecs[a], "cancelled", a \in taken)[a]
      BY <2>1, <2>3, Zenon
    <3> QED BY <3>1, <3>2, Zenon
  <2>4. ASSUME NEW a \in Actions, a \notin Waiting PROVE recs'[a] = LaneRecs[a] /\ net'[a] = net[a]
    BY <2>1, <2>4, Zenon
  <2> QED BY <2>2, <2>3, <2>4, Zenon
<1> QED BY <1>1, <1>2, LaneStep

LEMMA CancelLaneStep == ASSUME IInv, cancelResponseLane PROVE IInv'
<1>1. UNCHANGED <<told, done, pend, queue, net>> /\ Frame /\ LaneEmptied
  BY DEF cancelResponseLane, engine, server, Frame, IInv, Types
<1>2. recs' = [a \in Actions |-> recs'[a]] /\ net' = [a \in Actions |-> net'[a]]
      /\ \A a \in Actions : recs'[a] = LaneRecs[a] /\ net'[a] = net[a]
  BY <1>1 DEF cancelResponseLane, LaneRecs, IInv, Types
<1> QED BY <1>1, <1>2, LaneStep

LEMMA EnqueueStep ==
  ASSUME IInv, Frame, UNCHANGED <<told, done>>, queue' \subseteq queue,
         NEW a \in Actions, asked[a] = "yes", NEW r, Handled(a, r), NEW sent \in BOOLEAN,
         Retained(a) => r.status \in {recs[a].status, "cancelled"}, Enqueue(a, r, sent)
  PROVE  IInv'
<1>1. Untaken(a)
  BY DEF IInv, Truth
<1>2. CASE PendingCount < PendingCap
  BY <1>2, HandedStep DEF Enqueue
<1>3. CASE ~(PendingCount < PendingCap)
  BY <1>1, <1>3, RefusalStep DEF Enqueue
<1> QED BY <1>2, <1>3

LEMMA HandStep == ASSUME IInv, NEW a \in Actions, NEW sent \in BOOLEAN, Hand(a, sent) PROVE IInv'
<1>1. UNCHANGED <<told, done, queue>> /\ Frame /\ asked[a] = "yes" /\ Enqueue(a, recs[a], sent)
  BY DEF Hand, engine, Frame, IInv, Types
<1> QED BY <1>1, HandledRecord, EnqueueStep

LEMMA RefuseStep == ASSUME IInv, NEW a \in Actions, NEW sent \in BOOLEAN, Refuse(a, sent) PROVE IInv'
<1>1. UNCHANGED <<told, done, queue>> /\ Frame /\ asked[a] = "yes"
  BY DEF Refuse, engine, Frame, IInv, Types
<1>2. CASE Enqueue(a, cancelTransfer(recs[a]), sent)
  BY <1>1, <1>2, HandledRecord, EnqueueStep
<1>3. CASE asked' = [asked EXCEPT ![a] = "rejecting"] /\ UNCHANGED <<recs, pend, net>>
  <2>1. asked'[a] = "rejecting" /\ \A b \in Actions : b # a => Untouched(b)
    BY <1>1, <1>3 DEF IInv, Types, Untouched
  <2>2. Truth(a)'
    BY <1>1, <1>3, <2>1
       DEF IInv, Truth, OneWord, Recorded, Untaken, Listed, Words, StatusTrue, IsTrue, Retained, Terminal
  <2>3. Typed
    BY <1>1, <1>3 DEF Typed, IInv, Types
  <2> QED BY <1>1, <1>3, <2>1, <2>2, <2>3, OneActionStep DEF QueuesRight, Retained
<1> QED BY <1>2, <1>3 DEF Refuse

LEMMA RejectsStep == ASSUME IInv, NEW a \in Actions, NEW sent \in BOOLEAN, ActorRejects(a, sent) PROVE IInv'
<1>1. UNCHANGED <<told, done, queue, pend>> /\ Frame /\ asked[a] = "rejecting"
      /\ asked' = [asked EXCEPT ![a] = "over"]
  BY DEF ActorRejects, engine, Frame, IInv, Types
<1>2. CASE ready
  BY <1>1, <1>2, HandledRecord, RefusalStep DEF ActorRejects, IInv, Truth
<1>3. CASE ~ready
  <2>1. UNCHANGED <<recs, net>>
    BY <1>3 DEF ActorRejects
  <2>2. asked'[a] = "over" /\ \A b \in Actions : b # a => Untouched(b)
    BY <1>1, <2>1 DEF IInv, Types, Untouched
  <2>3. Truth(a)'
    BY <1>1, <2>1, <2>2
       DEF IInv, Truth, OneWord, Recorded, Untaken, Listed, Words, StatusTrue, IsTrue, Retained, Terminal
  <2>4. Typed
    BY <1>1, <2>1 DEF Typed, IInv, Types
  <2> QED BY <1>1, <2>1, <2>2, <2>3, <2>4, OneActionStep DEF QueuesRight, Retained
<1> QED BY <1>2, <1>3

-------------------------------------------------------------------------------
(* M.pump for one action                                                   *)

(* The record after executeTransfer, and the result that GLOBAL keeps.     *)
Worked(a, late) == IF pend[a] = "running" THEN Executed(recs[a], late) ELSE recs[a]
Result(a, r) == IF pend[a] # "running" THEN pend[a]
                ELSE IF r = NoRec THEN "failed"
                ELSE IF r.status \in {"succeeded", "failed", "cancelled"} THEN r.status
                ELSE "running"

LEMMA WorkedRecord ==
  ASSUME IInv, NEW a \in Actions, Current(a), pend[a] # "none", NEW late
  PROVE  LET r == Worked(a, late)
         IN /\ Handled(a, r)
            /\ Retained(a) => \/ r.status = recs[a].status
                              \/ recs[a].status \in Open /\ r.status \in {"failed", "pending"}
            /\ Result(a, r) \in Terminal \union {"running"}
            /\ Result(a, r) # "running" => Result(a, r) = IF Retained(a) THEN r.status ELSE "failed"
            /\ Result(a, r) = "running" => pend[a] = "running" /\ Retained(a)
<1> PICK r : r = Worked(a, late)
  OBVIOUS
<1>1. pend[a] \in Terminal \union {"running"} /\ asked[a] = "handed"
  BY DEF IInv, Types, Truth, Listed
<1>2. /\ Retained(a) /\ pend[a] \in Terminal => recs[a].status = pend[a]
      /\ ~Retained(a) => pend[a] \in {"running", "failed"}
  BY <1>1 DEF IInv, Truth, Listed
<1>3. CASE Retained(a)
  <2>1. recs[a] \in Records /\ Gated(recs[a]) /\ recs[a] # NoRec
    BY <1>3, RecordParts DEF IInv, Types
  <2>2. r \in Records /\ Gated(r) /\ r.receipt = recs[a].receipt
        /\ (r.status = recs[a].status \/ (recs[a].status \in Open /\ r.status \in {"failed", "pending"}))
    <3>1. CASE pend[a] = "running"
      BY <2>1, <3>1, ExecuteRecord DEF Worked, Carries, Queues, Open
    <3>2. CASE pend[a] # "running"
      BY <2>1, <3>2 DEF Worked
    <3> QED BY <3>1, <3>2
  <2>3. r # NoRec /\ Handled(a, r)
    BY <1>3, <2>2, RecordParts DEF Handled
  <2>4. pend[a] # "running" => r = recs[a]
    BY DEF Worked
  <2>5. /\ Result(a, r) \in Terminal \union {"running"}
        /\ Result(a, r) # "running" => Result(a, r) = r.status
        /\ Result(a, r) = "running" => pend[a] = "running"
    BY <1>1, <1>2, <1>3, <2>3, <2>4 DEF Result, Terminal
  <2> QED BY <1>3, <2>2, <2>3, <2>5
<1>4. CASE ~Retained(a)
  <2>1. r = NoRec
    BY <1>4 DEF Worked, Executed, Retained
  <2> QED BY <1>1, <1>2, <1>4, <2>1 DEF Handled, Result, Terminal
<1> QED BY <1>3, <1>4

(* The handler, with its record and its result.                            *)
LEMMA PumpParts ==
  ASSUME IInv, NEW a \in Actions, NEW late \in BOOLEAN, NEW receipt \in {"later", "refused", "sent"},
         Pump(a, late, receipt), NEW r, r = Worked(a, late), NEW v, v = Result(a, r)
  PROVE  /\ pend[a] # "none" /\ Current(a) /\ Frame
         /\ UNCHANGED <<told, done, asked>>
         /\ queue' \subseteq queue \union {<<a, gen>>}
         /\ \/ pend' = [pend EXCEPT ![a] = v]
            \/ v # "running" /\ pend' = [pend EXCEPT ![a] = "none"]
         /\ \/ recs' = [recs EXCEPT ![a] = r] /\ net' = net
            \/ /\ v # "running" /\ recs' = [recs EXCEPT ![a] = Submitted(r, v, receipt = "sent")]
               /\ net' = Request(a, r, v, receipt = "sent")
<1>1. pend[a] # "none" /\ Current(a)
  BY DEF Pump
<1>2. scope = gen /\ SyncedRecs = recs /\ SyncedOrder = order /\ SyncedCancelled = cancelled
  BY <1>1, TurnOfAction, CurrentSynced DEF Current, IInv
<1>3. Frame /\ UNCHANGED <<told, done, asked>>
  BY <1>2 DEF Pump, Frame, IInv, Types
<1> DEFINE accepted == r # NoRec /\ r.receiptStatus = "accepted"
           due == /\ ready /\ receipt # "later" /\ v # "running"
                  /\ r # NoRec => r.receiptStatus \in {"not_submitted", "failed"}
<1>4. /\ queue' = IF r # NoRec /\ Queues(recs[a]) THEN queue \union {<<a, gen>>} ELSE queue
      /\ pend' = [pend EXCEPT ![a] = IF v # "running" /\ accepted THEN "none" ELSE v]
      /\ recs' = [recs EXCEPT ![a] = IF due THEN Submitted(r, v, receipt = "sent") ELSE r]
      /\ net' = IF due THEN Request(a, r, v, receipt = "sent") ELSE net
  BY <1>2 DEF Pump, Worked, Result
<1>5. due => v # "running"
  OBVIOUS
<1> HIDE DEF accepted, due
<1>6. \/ recs' = [recs EXCEPT ![a] = r] /\ net' = net
      \/ /\ v # "running" /\ recs' = [recs EXCEPT ![a] = Submitted(r, v, receipt = "sent")]
         /\ net' = Request(a, r, v, receipt = "sent")
  <2>1. CASE due
    BY <1>4, <1>5, <2>1
  <2>2. CASE ~due
    BY <1>4, <2>2
  <2> QED BY <2>1, <2>2
<1>7. \/ pend' = [pend EXCEPT ![a] = v]
      \/ v # "running" /\ pend' = [pend EXCEPT ![a] = "none"]
  BY <1>4
<1>8. queue' \subseteq queue \union {<<a, gen>>}
  BY <1>4
<1> QED BY <1>1, <1>3, <1>6, <1>7, <1>8

(* What remains of action a is record s, with receipt n on its way: both   *)
(* repeat the result v, if there is one.                                   *)
Leaves(a, r, v, s, n) ==
  /\ n \in Terminal \union {"none"}
  /\ ~Retained(a) => s = NoRec
  /\ Retained(a) => /\ s \in Records /\ Gated(s) /\ s.status = r.status
                    /\ s.receipt = recs[a].receipt \/ (v # "running" /\ s.receipt = v)
  /\ n = net[a] \/ (v # "running" /\ n = v)

(* A receipt of the result that the record already has.                    *)
LEMMA ReportLeaves ==
  ASSUME IInv, NEW a \in Actions, NEW r, Handled(a, r), NEW v \in Terminal, NEW sent \in BOOLEAN,
         v = IF Retained(a) THEN r.status ELSE "failed", Words(a) \subseteq {v}
  PROVE  \E n : /\ Request(a, r, v, sent) = [net EXCEPT ![a] = n]
                /\ Leaves(a, r, v, Submitted(r, v, sent), n)
<1> PICK s : s = Submitted(r, v, sent)
  OBVIOUS
<1>1. PICK n \in Terminal \union {"none"} :
        /\ Request(a, r, v, sent) = [net EXCEPT ![a] = n]
        /\ \/ n = net[a]
           \/ r = NoRec /\ n = v
           \/ r # NoRec /\ n = s.receipt /\ s.status = v /\ n # "none"
  BY RequestParts
<1>2. ~Retained(a) => s = NoRec
  BY DEF Handled, Submitted
<1>3. Retained(a) => /\ s \in Records /\ Gated(s) /\ s.status = r.status
                     /\ s.receipt = recs[a].receipt \/ s.receipt = v
  BY SubmitRecord DEF Handled
<1>4. n = net[a] \/ n = v
  <2>1. CASE Retained(a) /\ n = s.receipt /\ n # "none" /\ s.receipt = recs[a].receipt
    <3>1. n \in Words(a)
      BY <2>1, WordsOf
    <3> QED BY <3>1
  <2> QED BY <1>1, <1>3, <2>1 DEF Handled
<1>5. v # "running"
  BY DEF Terminal
<1> QED BY <1>1, <1>2, <1>3, <1>4, <1>5 DEF Leaves

(* The record and the receipt that the handler leaves.                     *)
LEMMA PumpLeaves ==
  ASSUME IInv, NEW a \in Actions, NEW late \in BOOLEAN, NEW receipt \in {"later", "refused", "sent"},
         Pump(a, late, receipt), NEW r, r = Worked(a, late), NEW v, v = Result(a, r)
  PROVE  /\ v # "running" => Words(a) \subseteq {v} /\ IsTrue(a, v)
         /\ \E s, n : /\ recs' = [recs EXCEPT ![a] = s] /\ net' = [net EXCEPT ![a] = n]
                      /\ Leaves(a, r, v, s, n)
<1>1. pend[a] # "none" /\ Current(a)
  BY PumpParts
<1>2. /\ Handled(a, r)
      /\ Retained(a) => \/ r.status = recs[a].status
                        \/ recs[a].status \in Open /\ r.status \in {"failed", "pending"}
      /\ v \in Terminal \union {"running"}
      /\ v # "running" => v = IF Retained(a) THEN r.status ELSE "failed"
  BY <1>1, WorkedRecord
<1>3. v # "running" => Words(a) \subseteq {v} /\ IsTrue(a, v)
  <2> SUFFICES ASSUME v # "running" PROVE Words(a) \subseteq {v} /\ IsTrue(a, v)
    OBVIOUS
  <2>1. CASE ~Retained(a)
    BY <1>1, <1>2, <2>1 DEF IInv, Truth, Listed, IsTrue, Open
  <2>2. CASE Retained(a) /\ r.status = recs[a].status
    BY <1>2, <2>2 DEF IInv, Truth, Recorded, StatusTrue
  <2>3. CASE Retained(a) /\ r.status # recs[a].status
    BY <1>2, <2>3, OpenUnsaid DEF IInv, IsTrue, Open, Terminal
  <2> QED BY <2>1, <2>2, <2>3
<1>4. CASE recs' = [recs EXCEPT ![a] = r] /\ net' = net
  <2>1. net' = [net EXCEPT ![a] = net[a]] /\ net[a] \in Terminal \union {"none"}
    BY <1>4 DEF IInv, Types
  <2>2. Leaves(a, r, v, r, net[a])
    BY <1>2, <2>1 DEF Handled, Leaves
  <2> QED BY <1>3, <1>4, <2>1, <2>2
<1>5. CASE /\ v # "running" /\ recs' = [recs EXCEPT ![a] = Submitted(r, v, receipt = "sent")]
           /\ net' = Request(a, r, v, receipt = "sent")
  <2>1. v \in Terminal /\ v = (IF Retained(a) THEN r.status ELSE "failed") /\ (receipt = "sent") \in BOOLEAN
    BY <1>2, <1>5
  <2> PICK sent \in BOOLEAN : sent = (receipt = "sent")
    OBVIOUS
  <2>2. recs' = [recs EXCEPT ![a] = Submitted(r, v, sent)] /\ net' = Request(a, r, v, sent)
    BY <1>5
  <2>3. Handled(a, r) /\ Words(a) \subseteq {v}
    BY <1>2, <1>3, <1>5
  <2>4. \E n : /\ Request(a, r, v, sent) = [net EXCEPT ![a] = n]
              /\ Leaves(a, r, v, Submitted(r, v, sent), n)
    BY <2>1, <2>3, ReportLeaves
  <2> QED BY <1>3, <2>2, <2>4
<1>6. QED BY <1>4, <1>5, PumpParts

LEMMA PumpStep ==
  ASSUME IInv, NEW a \in Actions, NEW late \in BOOLEAN, NEW receipt \in {"later", "refused", "sent"},
         Pump(a, late, receipt)
  PROVE  IInv'
<1> PICK r : r = Worked(a, late)
  OBVIOUS
<1> PICK v : v = Result(a, r)
  OBVIOUS
<1>1. /\ pend[a] # "none" /\ Current(a) /\ Frame
      /\ UNCHANGED <<told, done, asked>>
      /\ queue' \subseteq queue \union {<<a, gen>>}
      /\ \/ pend' = [pend EXCEPT ![a] = v]
         \/ v # "running" /\ pend' = [pend EXCEPT ![a] = "none"]
  BY PumpParts
<1>2. /\ Retained(a) => \/ r.status = recs[a].status
                        \/ recs[a].status \in Open /\ r.status \in {"failed", "pending"}
      /\ v \in Terminal \union {"running"}
      /\ v # "running" => v = IF Retained(a) THEN r.status ELSE "failed"
      /\ v = "running" => pend[a] = "running" /\ Retained(a)
  BY <1>1, WorkedRecord
<1>3. v # "running" => Words(a) \subseteq {v} /\ IsTrue(a, v)
  BY PumpLeaves
<1>0. PICK s, n : /\ recs' = [recs EXCEPT ![a] = s] /\ net' = [net EXCEPT ![a] = n]
                  /\ Leaves(a, r, v, s, n)
  BY PumpLeaves
<1>4. /\ recs' = [recs EXCEPT ![a] = s]
      /\ net' = [net EXCEPT ![a] = n] /\ n \in Terminal \union {"none"}
      /\ ~Retained(a) => s = NoRec
      /\ Retained(a) => /\ s \in Records /\ Gated(s) /\ s.status = r.status
                        /\ s.receipt = recs[a].receipt \/ (v # "running" /\ s.receipt = v)
      /\ n = net[a] \/ (v # "running" /\ n = v)
  BY <1>0 DEF Leaves
<1>5. /\ recs'[a] = s /\ recs' \in [Actions -> Records \union {NoRec}]
      /\ net'[a] = n /\ net' \in [Actions -> Terminal \union {"none"}]
      /\ \A b \in Actions : b # a => recs'[b] = recs[b] /\ net'[b] = net[b]
  BY <1>4 DEF IInv, Types, Retained
<1>6. /\ pend' \in [Actions -> {"none", "running"} \union Terminal]
      /\ pend'[a] = v \/ (v # "running" /\ pend'[a] = "none")
      /\ \A b \in Actions : b # a => pend'[b] = pend[b]
  BY <1>1, <1>2 DEF IInv, Types
<1>7. asked[a] = "handed" /\ (Retained(a)' <=> Retained(a))
  <2>1. asked[a] = "handed"
    BY <1>1 DEF IInv, Truth, Listed
  <2> QED BY <2>1, <1>4, <1>5, RecordParts DEF Retained
<1>8. Truth(a)'
  <2>1. CASE v = "running"
    <3>1. Retained(a) /\ pend'[a] = pend[a] /\ net'[a] = net[a]
      BY <1>2, <1>4, <1>5, <1>6, <2>1
    <3>2. /\ recs'[a] \in Records /\ recs'[a].receipt = recs[a].receipt
          /\ \/ recs'[a].status = recs[a].status
             \/ recs[a].status \in Open /\ recs'[a].status \in {"failed", "cancelled"}
             \/ recs[a].status \in Open /\ recs'[a].status = "pending" /\ asked[a] = "handed"
      BY <1>2, <1>4, <1>5, <1>7, <2>1, <3>1
    <3> QED BY <1>1, <3>1, <3>2, MoveTruth DEF IInv, Current, Frame
  <2>2. CASE v # "running"
    <3>1. Words(a)' \subseteq {v} /\ IsTrue(a, v)
      BY <1>1, <1>3, <1>4, <1>5, <1>7, <2>2 DEF Words
    <3>2. Retained(a) => recs'[a].status = v
      BY <1>2, <1>4, <1>5, <2>2
    <3>3. OneWord(a)'
      BY <1>1, <3>1 DEF OneWord, IsTrue
    <3>4. Recorded(a)'
      BY <1>1, <1>7, <3>1, <3>2 DEF Recorded, StatusTrue, IsTrue
    <3>5. Untaken(a)' /\ Listed(a)'
      BY <1>1, <1>2, <1>6, <1>7, <2>2, <3>1, <3>2 DEF Untaken, Listed, Terminal
    <3> QED BY <3>3, <3>4, <3>5 DEF Truth
  <2> QED BY <2>1, <2>2
<1>9. Typed
  BY <1>1, <1>4, <1>5, <1>6 DEF Typed, IInv, Types, Sound, Retained
<1>10. Retained(a)' => Retained(a) /\ (recs'[a].status \in Open => recs[a].status \in Open)
  BY <1>2, <1>4, <1>5, <1>7 DEF Open
<1>11. \A b \in Actions : b # a => Untouched(b)
  BY <1>1, <1>5, <1>6 DEF Untouched
<1>12. QueuesRight
  <2>1. <<a, gen>>[1] = a /\ <<a, gen>>[2] = gen /\ turnGen[TurnOf[a]] = gen /\ gen # 0
    BY <1>1 DEF Current, IInv, Types
  <2> QED BY <1>1, <2>1 DEF QueuesRight
<1> QED BY <1>1, <1>8, <1>9, <1>10, <1>11, <1>12, OneActionStep

-------------------------------------------------------------------------------
(* Turns and sessions                                                      *)

(* The tables as syncTransferScope leaves them.                            *)
LEMMA SyncedFacts ==
  ASSUME IInv
  PROVE  /\ SyncedOrder \in Seq(Turns) /\ Len(SyncedOrder) <= SnapCap
         /\ SyncedCancelled \subseteq Turns
         /\ \A a \in Actions : SyncedRecs[a] = recs[a] \/ (SyncedRecs[a] = NoRec /\ scope # gen)
         /\ SyncedRecs \in [Actions -> Records \union {NoRec}]
BY EmptySeq, TransferAssumption DEF IInv, Types, SyncedOrder, SyncedCancelled, SyncedRecs, Synced

(* A record that is forgotten leaves what was said of it.                  *)
LEMMA ForgottenTruth ==
  ASSUME IInv, NEW a \in Actions, recs'[a] = NoRec, ~Current(a)',
         told'[a] = told[a], net'[a] = net[a], done'[a] = done[a], asked'[a] = asked[a],
         pend'[a] = pend[a]
  PROVE  Truth(a)'
<1>1. ~Retained(a)' /\ \A v \in Words(a)' : v \in Words(a)
  BY DEF Retained, Words
<1> QED BY <1>1 DEF IInv, Truth, OneWord, Recorded, Untaken, Listed, IsTrue

LEMMA SubmitTurnStep == ASSUME IInv, NEW t \in Turns, SubmitTurn(t) PROVE IInv'
<1>1. /\ turnGen[t] = 0 /\ turnGen' = [turnGen EXCEPT ![t] = gen] /\ scope' = gen /\ ready
      /\ recs' = SyncedRecs /\ cancelled' = SyncedCancelled
      /\ order' = Append(IF Len(SyncedOrder) >= SnapCap THEN Tail(SyncedOrder) ELSE SyncedOrder, t)
      /\ UNCHANGED <<gen, ready, told, net, done, pend, asked, queue, stopped>>
  BY DEF SubmitTurn, engine, server
<1>2. /\ gen \in Nat /\ gen # 0 /\ gen \in 1..MaxGenerations /\ turnGen \in [Turns -> 0..gen]
      /\ turnGen'[t] = gen /\ \A u \in Turns : u # t => turnGen'[u] = turnGen[u]
  BY <1>1, TransferAssumption DEF IInv, Types
<1>3. \A a \in Actions : Retained(a)' => /\ Retained(a) /\ recs'[a] = recs[a] /\ TurnOf[a] # t
                                         /\ scope = gen /\ turnGen[TurnOf[a]] = gen
  <2> SUFFICES ASSUME NEW a \in Actions, Retained(a)'
               PROVE  /\ Retained(a) /\ recs'[a] = recs[a] /\ TurnOf[a] # t
                      /\ scope = gen /\ turnGen[TurnOf[a]] = gen
    OBVIOUS
  <2>1. recs' = recs /\ scope = gen
    BY <1>1 DEF Retained, SyncedRecs, Synced
  <2>2. Retained(a)
    BY <2>1 DEF Retained
  <2> QED BY <1>1, <1>2, <2>1, <2>2 DEF IInv, Scoping
<1>4. /\ order' \in Seq(Turns) /\ Len(order') <= SnapCap
      /\ \A x \in Range(order') : x = t \/ x \in Range(SyncedOrder)
  <2> PICK o : o = SyncedOrder
    OBVIOUS
  <2>1. o \in Seq(Turns) /\ Len(o) <= SnapCap /\ SnapCap \in Nat /\ SnapCap # 0
    BY SyncedFacts, TransferAssumption
  <2>2. Len(o) \in Nat /\ DOMAIN o = 1..Len(o)
    BY <2>1, LenProperties
  <2>3. PICK k : k = IF Len(o) >= SnapCap THEN Tail(o) ELSE o
    OBVIOUS
  <2>4. /\ k \in Seq(Turns) /\ Len(k) \in Nat /\ Len(k) + 1 <= SnapCap /\ DOMAIN k = 1..Len(k)
        /\ \A i \in 1..Len(k) : k[i] \in Range(o)
    <3>1. CASE Len(o) >= SnapCap
      <4>1. o # <<>>
        BY <2>1, <2>2, <3>1, EmptySeq
      <4>2. /\ Tail(o) \in Seq(Turns) /\ Len(Tail(o)) = Len(o) - 1
            /\ \A i \in 1..Len(Tail(o)) : Tail(o)[i] = o[i + 1]
        BY <2>1, <4>1, HeadTailProperties
      <4>3. k = Tail(o) /\ Len(k) \in Nat /\ DOMAIN k = 1..Len(k)
        BY <2>3, <3>1, <4>2, LenProperties
      <4> QED BY <2>1, <2>2, <4>2, <4>3 DEF Range
    <3>2. CASE ~(Len(o) >= SnapCap)
      BY <2>1, <2>2, <2>3, <3>2 DEF Range
    <3> QED BY <3>1, <3>2
  <2>5. order' = Append(k, t)
    BY <1>1, <2>3
  <2>6. /\ order' \in Seq(Turns) /\ Len(order') = Len(k) + 1 /\ order'[Len(k) + 1] = t
        /\ \A i \in 1..Len(k) : order'[i] = k[i]
    BY <2>4, <2>5, AppendProperties
  <2>7. DOMAIN order' = 1..(Len(k) + 1)
    BY <2>6, LenProperties
  <2> QED BY <2>4, <2>6, <2>7 DEF Range
<1>5. Types'
  <2>1. \A a \in Actions : Sound(recs'[a])
    BY <1>1, SyncedFacts DEF IInv, Types, Sound
  <2>2. turnGen' \in [Turns -> 0..gen] /\ scope' \in 1..gen
    BY <1>1, <1>2
  <2>3. IsFiniteSet(RetainedSet)' /\ (Cardinality(RetainedSet) <= RecordCap)'
    BY <1>3, FewerRetained DEF IInv
  <2> QED BY <1>1, <1>4, <2>1, <2>2, <2>3, SyncedFacts DEF IInv, Types
<1>6. Scoping'
  <2>1. \A a \in Actions : turnGen'[TurnOf[a]] = 0 => asked'[a] = "no"
    BY <1>1, <1>2, TurnOfAction DEF IInv, Scoping
  <2>2. \A q \in queue' : q[1] \in Actions /\ q[2] = turnGen'[TurnOf[q[1]]] /\ q[2] # 0
    BY <1>1, <1>2, TurnOfAction DEF IInv, Scoping
  <2> QED BY <1>1, <1>2, <1>3, <2>1, <2>2, TurnOfAction DEF Scoping
<1>7. Stops'
  <2>1. \A u \in stopped : u \in Turns /\ u # t /\ turnGen[u] = gen
    BY <1>1, <1>2 DEF IInv, Types, Stops
  <2>2. \A u \in stopped : SyncedOrder = order /\ SyncedCancelled = cancelled
    BY <2>1, CurrentSynced DEF IInv
  <2>3. \A u \in stopped : turnGen'[u] = gen' /\ (u \in Range(order') => u \in cancelled')
    BY <1>1, <1>2, <1>4, <2>1, <2>2 DEF IInv, Stops
  <2>4. \A a \in Actions : TurnOf[a] \in stopped /\ Retained(a)' /\ recs'[a].status \in Open =>
                            TurnOf[a] \in cancelled'
    BY <1>1, <1>3, <2>2 DEF IInv, Stops
  <2> QED BY <1>1, <2>3, <2>4 DEF Stops
<1>8. ASSUME NEW a \in Actions PROVE Truth(a)'
  <2>1. CASE TurnOf[a] = t
    <3>1. asked[a] = "no"
      BY <1>1, <2>1 DEF IInv, Scoping
    <3>2. ~Retained(a) /\ pend[a] = "none" /\ done[a] = 0 /\ Words(a) = {}
      BY <3>1 DEF IInv, Truth, Untaken
    <3>3. ~Retained(a)' /\ Words(a)' = {}
      BY <1>1, <1>3, <3>2 DEF Words
    <3> QED BY <1>1, <3>1, <3>2, <3>3 DEF Truth, OneWord, Recorded, Untaken, Listed, Terminal
  <2>2. CASE TurnOf[a] # t
    <3>1. Current(a)' <=> Current(a)
      BY <1>1, <1>2, <2>2, TurnOfAction DEF Current
    <3>2. CASE recs'[a] = recs[a]
      BY <1>1, <3>1, <3>2, SameTruth DEF IInv, Untouched
    <3>3. CASE recs'[a] # recs[a]
      <4>1. recs'[a] = NoRec /\ scope # gen
        BY <1>1, <3>3, SyncedFacts
      <4>2. ~Current(a)
        BY <4>1, TurnOfAction DEF IInv, Scoping, Current
      <4> QED BY <1>1, <3>1, <4>1, <4>2, ForgottenTruth
    <3> QED BY <3>2, <3>3
  <2> QED BY <2>1, <2>2
<1> QED BY <1>5, <1>6, <1>7, <1>8 DEF IInv

(* retainTransfer of an intent.                                            *)
LEMMA IntentStep == ASSUME IInv, NEW a \in Actions, Intent(a) PROVE IInv'
<1>1. Current(a) /\ asked[a] = "no" /\ asked' = [asked EXCEPT ![a] = "yes"]
      /\ UNCHANGED <<gen, ready, told, net, done, pend, queue, turnGen, stopped>>
  BY DEF Intent, engine, server
<1>2. scope = gen /\ SyncedRecs = recs /\ SyncedOrder = order /\ SyncedCancelled = cancelled
  BY <1>1, TurnOfAction, CurrentSynced DEF Current, IInv
<1>3. UNCHANGED <<scope, order, cancelled>>
  BY <1>2 DEF Intent
<1>4. pend[a] = "none" /\ done[a] = 0 /\ Words(a) = {} /\ ~Retained(a)
  BY <1>1 DEF IInv, Truth, Untaken
<1> PICK r : r = Retain(a)
  OBVIOUS
<1>5. /\ r \in Records /\ Gated(r) /\ r.receipt = "none" /\ r.status \in {"awaiting_confirmation", "failed"}
      /\ r.status = "awaiting_confirmation" => Contains(order, TurnOf[a])
  BY <1>2 DEF Retain, Records, Gated, Open, Terminal
<1>6. \/ recs' = recs
      \/ recs' = [recs EXCEPT ![a] = r] /\ ~(Cardinality(RetainedSet) >= RecordCap)
  BY <1>2 DEF Intent, RetainedSet, Retained
<1>7. /\ recs' \in [Actions -> Records \union {NoRec}] /\ recs'[a] \in {NoRec, r}
      /\ \A b \in Actions : b # a => Untouched(b)
      /\ asked' \in [Actions -> {"no", "yes", "handed", "rejecting", "over"}] /\ asked'[a] = "yes"
  BY <1>1, <1>4, <1>5, <1>6 DEF IInv, Types, Untouched, Retained
<1>8. RetainedSet' \subseteq RetainedSet \union {a}
  BY <1>7 DEF RetainedSet, Retained, Untouched
<1>9. IsFiniteSet(RetainedSet') /\ Cardinality(RetainedSet') <= RecordCap
  <2>1. CASE recs' = recs
    <3>1. RetainedSet' = RetainedSet
      BY <2>1 DEF RetainedSet, Retained
    <3> QED BY <3>1 DEF IInv, Types
  <2>2. CASE ~(Cardinality(RetainedSet) >= RecordCap)
    <3> DEFINE S == RetainedSet
               T == S \union {a}
    <3>1. IsFiniteSet(S) /\ Cardinality(S) \in Nat
      BY FS_CardinalityType DEF IInv, Types
    <3>2. IsFiniteSet(T) /\ Cardinality(T) = (IF a \in S THEN Cardinality(S) ELSE Cardinality(S) + 1)
      BY <3>1, FS_AddElement
    <3>3. IsFiniteSet(RetainedSet') /\ Cardinality(RetainedSet') <= Cardinality(T)
      BY <1>8, <3>2, FS_Subset
    <3>4. Cardinality(RetainedSet') \in Nat
      BY <3>3, FS_CardinalityType
    <3> HIDE DEF S
    <3>5. Cardinality(T) <= RecordCap
      BY <2>2, <3>1, <3>2, TransferAssumption DEF S
    <3>6. Cardinality(T) \in Nat /\ RecordCap \in Nat
      BY <3>1, <3>2, TransferAssumption
    <3> QED BY <3>3, <3>4, <3>5, <3>6
  <2> QED BY <1>6, <2>1, <2>2
<1>10. Types'
  BY <1>1, <1>3, <1>5, <1>7, <1>9 DEF IInv, Types, Sound, Untouched, RetainedSet, Retained
<1>11. Scoping'
  BY <1>1, <1>2, <1>3, <1>7 DEF IInv, Types, Scoping, Current, Untouched, Retained
<1>12. Stops'
  <2>1. \A t \in stopped : t \in Range(order) => t \in cancelled
    BY DEF IInv, Stops
  <2>2. Contains(order, TurnOf[a]) => TurnOf[a] \in Range(order)
    <3>1. DOMAIN order = 1..Len(order)
      BY LenProperties DEF IInv, Types
    <3> QED BY <3>1 DEF Contains, Range
  <2>3. TurnOf[a] \in stopped /\ Retained(a)' /\ recs'[a].status \in Open => TurnOf[a] \in cancelled
    BY <1>5, <1>7, <2>1, <2>2 DEF Retained, Open
  <2> QED BY <1>1, <1>3, <1>7, <2>3 DEF IInv, Stops, Untouched, Retained
<1>13. Truth(a)'
  <2>1. Words(a)' = {}
    <3>1. told[a] = {} /\ net[a] = "none"
      BY <1>4, WordsOf
    <3>2. told'[a] = {} /\ net'[a] = "none" /\ (Retained(a)' => recs'[a].receipt = "none")
      BY <1>1, <1>5, <1>7, <3>1 DEF Retained
    <3> QED BY <3>2 DEF Words
  <2>2. Recorded(a)'
    BY <1>1, <1>4, <1>5, <1>7, <2>1 DEF Recorded, StatusTrue, IsTrue, Retained
  <2> QED BY <1>1, <1>4, <1>7, <2>1, <2>2 DEF Truth, OneWord, Untaken, Listed, Terminal
<1>14. \A b \in Actions : Truth(b)'
  BY <1>1, <1>7, <1>13, SameTruth DEF IInv, Current
<1> QED BY <1>10, <1>11, <1>12, <1>14 DEF IInv

(* turn_cancelled and turn_failed close every record of the turn that they *)
(* find, and mark its observation if it is still there.                    *)
LEMMA TurnStoppedStep == ASSUME IInv, NEW t \in Turns, TurnStopped(t) PROVE IInv'
<1>1. turnGen[t] = gen /\ UNCHANGED <<gen, ready, told, net, done, pend, asked, queue, turnGen>>
      /\ stopped' = stopped \union {t}
  BY DEF TurnStopped, engine, server
<1>2. scope = gen /\ SyncedRecs = recs /\ SyncedOrder = order /\ SyncedCancelled = cancelled
  BY <1>1, CurrentSynced DEF IInv
<1>3. /\ UNCHANGED <<scope, order>> /\ cancelled' = cancelled \union ({t} \intersect Range(order))
      /\ recs' = [a \in Actions |-> IF TurnOf[a] = t THEN cancelTransfer(recs[a]) ELSE recs[a]]
  BY <1>2 DEF TurnStopped
<1>4. ASSUME NEW a \in Actions, TurnOf[a] = t, Retained(a)
      PROVE  /\ recs'[a] \in Records /\ Gated(recs'[a]) /\ recs'[a].status \notin Open
             /\ Retained(a)' /\ Truth(a)'
  <2>1. recs[a] \in Records /\ Gated(recs[a])
    BY <1>4, RecordParts DEF IInv, Types
  <2>2. /\ Carries(recs[a], recs'[a]) /\ recs'[a].status \notin Open
        /\ recs'[a].status = IF recs[a].status \in Open THEN "cancelled" ELSE recs[a].status
    BY <1>3, <1>4, <2>1, CancelRecord
  <2>3. Truth(a)'
    BY <1>1, <1>4, <2>2, MoveTruth DEF IInv, Current, Carries
  <2> QED BY <2>2, <2>3, RecordParts DEF Carries, Retained
<1>5. ASSUME NEW a \in Actions, TurnOf[a] # t \/ ~Retained(a)
      PROVE  recs'[a] = recs[a] /\ Truth(a)'
  <2>1. recs'[a] = recs[a]
    BY <1>3, <1>5 DEF cancelTransfer, Retained
  <2> QED BY <1>1, <2>1, SameTruth DEF IInv, Untouched, Current
<1>6. \A a \in Actions : Sound(recs'[a]) /\ recs'[a] \in Records \union {NoRec} /\ Truth(a)'
                         /\ (Retained(a)' => Retained(a))
  BY <1>4, <1>5 DEF IInv, Types, Sound, Retained
<1>7. Types'
  <2>1. recs' \in [Actions -> Records \union {NoRec}]
    BY <1>3, <1>6
  <2>2. IsFiniteSet(RetainedSet)' /\ (Cardinality(RetainedSet) <= RecordCap)'
    BY <1>6, FewerRetained DEF IInv
  <2> QED BY <1>1, <1>3, <1>6, <2>1, <2>2 DEF IInv, Types
<1>8. Scoping'
  BY <1>1, <1>3, <1>6 DEF IInv, Scoping
<1>9. Stops'
  BY <1>1, <1>3, <1>4, <1>5 DEF IInv, Stops, Retained
<1> QED BY <1>6, <1>7, <1>8, <1>9 DEF IInv

(* M.interrupt and cancelGeneration.                                       *)
LEMMA FenceStep == ASSUME IInv, Fence PROVE IInv'
<1>1. /\ gen < MaxGenerations /\ gen' = gen + 1 /\ ready' = FALSE /\ net' = [a \in Actions |-> "none"]
      /\ asked' = [a \in Actions |-> IF Current(a) /\ asked[a] # "rejecting" THEN "over" ELSE asked[a]]
      /\ stopped' = {} /\ recs' = LaneRecs
      /\ UNCHANGED <<scope, order, cancelled, queue, done, turnGen, pend, told>>
  BY DEF Fence, engine
<1>2. gen \in Nat /\ gen # 0 /\ gen' \in 1..MaxGenerations /\ scope \in 1..gen' /\ \A t \in Turns : turnGen[t] # gen'
  BY <1>1, TransferAssumption DEF IInv, Types
<1>3. turnGen \in [Turns -> 0..gen']
  BY <1>1, <1>2 DEF IInv, Types
<1>4. /\ asked' \in [Actions -> {"no", "yes", "handed", "rejecting", "over"}]
      /\ \A a \in Actions : asked'[a] = asked[a] \/ (asked'[a] = "over" /\ Current(a))
  BY <1>1 DEF IInv, Types
<1>5. ASSUME NEW a \in Actions
      PROVE  /\ Truth(a)' /\ (Retained(a)' <=> Retained(a))
             /\ Sound(recs'[a]) /\ recs'[a] \in Records \union {NoRec}
  <2>1. ~Current(a)'
    BY <1>1, <1>2, TurnOfAction DEF Current
  <2>2. recs'[a] = LaneRecs[a] /\ told'[a] = told[a] /\ net'[a] = "none" /\ done'[a] = done[a]
        /\ pend'[a] = pend[a]
    BY <1>1
  <2> QED BY <1>4, <2>1, <2>2, LaneTruth
<1>6. Types'
  <2>1. recs' \in [Actions -> Records \union {NoRec}]
    BY <1>1, <1>5 DEF LaneRecs
  <2>2. IsFiniteSet(RetainedSet)' /\ (Cardinality(RetainedSet) <= RecordCap)'
    BY <1>5, FewerRetained DEF IInv
  <2> QED BY <1>1, <1>2, <1>3, <1>4, <1>5, <2>1, <2>2 DEF IInv, Types
<1>7. Scoping'
  BY <1>1, <1>2, <1>4, <1>5, TurnOfAction DEF IInv, Scoping, Current
<1> QED BY <1>1, <1>5, <1>6, <1>7 DEF IInv, Stops

LEMMA InitInv == Init => IInv
<1> SUFFICES ASSUME Init PROVE IInv
  OBVIOUS
<1>1. RetainedSet = {} /\ \A a \in Actions : ~Retained(a) /\ Words(a) = {}
  BY DEF Init, RetainedSet, Retained, Words
<1>2. Types
  BY <1>1, FS_EmptySet, EmptySeq, TransferAssumption DEF Init, Types, Sound
<1>3. Scoping /\ Stops
  BY <1>1, TransferAssumption DEF Init, Scoping, Stops
<1>4. \A a \in Actions : Truth(a)
  BY <1>1 DEF Init, Truth, OneWord, Recorded, Untaken, Listed, Terminal
<1> QED BY <1>2, <1>3, <1>4 DEF IInv

-------------------------------------------------------------------------------
(* The theorems                                                            *)

LEMMA Step == IInv /\ [Next]_vars => IInv'
<1> SUFFICES ASSUME IInv, [Next]_vars PROVE IInv'
  OBVIOUS
<1>1. CASE \E t \in Turns : SubmitTurn(t) \/ TurnStopped(t)
  BY <1>1, SubmitTurnStep, TurnStoppedStep
<1>2. CASE \E a \in Actions : Intent(a) \/ Cancel(a)
  BY <1>2, IntentStep, CancelStep
<1>3. CASE \E a \in Actions, sent \in BOOLEAN : Hand(a, sent) \/ Refuse(a, sent) \/ ActorRejects(a, sent)
  BY <1>3, HandStep, RefuseStep, RejectsStep
<1>4. CASE \E a \in Actions : PumpSteps(a)
  BY <1>4, PumpStep DEF PumpSteps
<1>5. CASE \E a \in Actions : EngineSteps(a)
  BY <1>5, RunStep DEF EngineSteps
<1>6. CASE \E a \in Actions : ReceiptSteps(a)
  BY <1>6, AnswerStep DEF ReceiptSteps
<1>7. CASE Drop
  BY <1>7, DropStep
<1>8. CASE CastSteps
  <2>1. CASE CastBroken
    BY <2>1, IdleStep DEF CastBroken, native, server, Frame, IInv, Types
  <2> QED BY <1>8, <2>1, CastStartStep, CastReleaseStep DEF CastSteps
<1>9. CASE Fence
  BY <1>9, FenceStep
<1>10. CASE NewSession
  BY <1>10, IdleStep DEF NewSession, native, engine, server, Frame
<1>11. CASE (\E taken \in SUBSET Waiting : haltActions(taken)) \/ cancelResponseLane
  BY <1>11, HaltActionsStep, CancelLaneStep
<1>12. CASE UNCHANGED vars
  BY <1>12, IdleStep DEF vars, native, engine, server, Frame, IInv, Types
<1> QED BY <1>1, <1>2, <1>3, <1>4, <1>5, <1>6, <1>7, <1>8, <1>9, <1>10, <1>11, <1>12 DEF Next

(* The inductive invariant: what the record of an action, GLOBAL's list,   *)
(* the receipt on its way and the server say of it agree with what was     *)
(* done, and nothing has been said of an action that may still be done.    *)
THEOREM Inductive == Spec => []IInv
BY InitInv, Step, PTL DEF Spec

(* The tables keep within their capacities and their types.                *)
THEOREM TypeOKHolds == Spec => []TypeOK
<1>1. IInv => TypeOK
  <2> SUFFICES ASSUME IInv PROVE TypeOK
    OBVIOUS
  <2>1. \A a \in Actions : Retained(a) =>
       /\ recs[a].status \in Terminal \union {"awaiting_confirmation", "pending"}
       /\ recs[a].gate \in {"fresh", "pending", "executing", "terminal"}
       /\ recs[a].receiptStatus \in {"not_submitted", "pending", "accepted", "failed"}
       /\ recs[a].receipt \in Terminal \union {"none"}
       /\ recs[a].gate = "executing" => recs[a].spellHook /\ recs[a].status = "pending"
    BY RecordParts DEF IInv, Types, Records, Gated, Open
  <2> QED BY <2>1 DEF IInv, Types, TypeOK, RetainedSet
<1> QED BY <1>1, Inductive, PTL

(* What may change the world, and what it then finds.                      *)
LEMMA Deed ==
  ASSUME IInv, [Next]_vars, NEW a \in Actions, done'[a] # done[a]
  PROVE  /\ ready /\ Current(a) /\ Retained(a) /\ recs[a].status = "pending" /\ TurnOf[a] \notin cancelled
         /\ done' = [done EXCEPT ![a] = 1] /\ told' = told
<1>1. CASE \E b \in Actions : EngineSteps(b)
  <2> PICK b \in Actions, g \in 1..gen, outcome \in {"failed", "cancelled", "succeeded", "readback_failed", "hook"} :
        RunAction(b, g, outcome)
    BY <1>1 DEF EngineSteps
  <2>1. /\ ready /\ Current(b) /\ Retained(b) /\ recs[b].status = "pending" /\ outcome \in Outcomes(b)
        /\ done' = IF outcome \in {"succeeded", "readback_failed"} THEN [done EXCEPT ![b] = @ + 1] ELSE done
    BY RunParts
  <2>2. outcome \in {"succeeded", "readback_failed"} /\ a = b
    BY <2>1 DEF IInv, Types
  <2>3. TurnOf[b] \notin cancelled
    BY <2>1, <2>2 DEF Outcomes
  <2>4. done[b] = 0 /\ done' = [done EXCEPT ![b] = @ + 1]
    BY <2>1, <2>2, OpenUnsaid DEF IInv, Open
  <2>5. done' = [done EXCEPT ![b] = 1]
    BY <2>4
  <2> QED BY <2>1, <2>2, <2>3, <2>5 DEF RunAction, server
<1>2. CASE \E other, succeeds \in BOOLEAN : CastRelease(other, succeeds)
  <2> PICK other \in BOOLEAN, succeeds \in BOOLEAN : CastRelease(other, succeeds)
    BY <1>2
  <2>1. Hooked # {}
    BY DEF CastRelease
  <2> PICK h : h = CHOOSE b \in Hooked : TRUE
    OBVIOUS
  <2>2. /\ h \in Actions /\ Retained(h)
        /\ Fine(h, other, succeeds) => ready /\ Current(h) /\ recs[h].status = "pending"
        /\ done' = IF Fine(h, other, succeeds) THEN [done EXCEPT ![h] = @ + 1] ELSE done
    BY <2>1, ReleaseParts
  <2>3. Fine(h, other, succeeds) /\ a = h
    BY <2>2 DEF IInv, Types
  <2>4. done[h] = 0 /\ done' = [done EXCEPT ![h] = @ + 1]
    BY <2>2, <2>3, OpenUnsaid DEF IInv, Open
  <2>5. done' = [done EXCEPT ![h] = 1]
    BY <2>4
  <2> QED BY <2>2, <2>3, <2>5 DEF Fine, CastRelease, server
<1>3. CASE ~(\E b \in Actions : EngineSteps(b)) /\ ~(\E other, succeeds \in BOOLEAN : CastRelease(other, succeeds))
  <2>1. done' = done
    <3>1. CASE \E t \in Turns : SubmitTurn(t) \/ TurnStopped(t)
      BY <3>1 DEF SubmitTurn, TurnStopped, engine
    <3>2. CASE \E b \in Actions : Intent(b) \/ Cancel(b)
      BY <3>2 DEF Intent, Cancel, engine
    <3>3. CASE \E b \in Actions, sent \in BOOLEAN : Hand(b, sent) \/ Refuse(b, sent) \/ ActorRejects(b, sent)
      BY <3>3 DEF Hand, Refuse, ActorRejects, engine
    <3>4. CASE \E b \in Actions : PumpSteps(b)
      BY <3>4, PumpParts DEF PumpSteps
    <3>5. CASE \E b \in Actions : ReceiptSteps(b)
      BY <3>5 DEF ReceiptSteps, Answer, engine
    <3> QED BY <1>3, <3>1, <3>2, <3>3, <3>4, <3>5
            DEF Next, CastSteps, CastStart, CastBroken, Drop, Fence, haltActions, cancelResponseLane, NewSession, vars, engine
  <2> QED BY <2>1
<1> QED BY <1>1, <1>2, <1>3

(* An action changes the world only in the session of its turn, and before *)
(* the server has cancelled that turn.                                     *)
THEOREM OnlyWhileAskedHolds == Spec => OnlyWhileAsked
<1>1. IInv /\ [Next]_vars => [\A a \in Actions : done'[a] # done[a] => ready /\ Current(a)]_vars
  BY Deed
<1>2. IInv /\ [Next]_vars => [\A a \in Actions : done'[a] # done[a] => TurnOf[a] \notin stopped]_vars
  <2> SUFFICES ASSUME IInv, [Next]_vars, NEW a \in Actions, done'[a] # done[a]
               PROVE  TurnOf[a] \notin stopped
    OBVIOUS
  <2>1. Retained(a) /\ recs[a].status = "pending" /\ TurnOf[a] \notin cancelled
    BY Deed
  <2> QED BY <2>1 DEF IInv, Stops, Open
<1> QED BY <1>1, <1>2, Inductive, PTL DEF Spec, OnlyWhileAsked, OnlyInItsSession, NothingAfterTheTurn

-------------------------------------------------------------------------------
(* Refinement                                                              *)

(* What is said of an action is what its set of verdicts says.             *)
Verdict(S) == IF S = {} THEN "nothing"
              ELSE IF Cardinality(S) = 1 THEN CHOOSE v \in S : TRUE ELSE "contradiction"
LEMMA SaidOf ==
  /\ \A a : Said(a) = Verdict(told[a]) /\ Said(a)' = Verdict(told'[a])
  /\ Verdict({}) = "nothing" /\ \A v : Verdict({v}) = v
<1>1. \A a : Said(a) = Verdict(told[a]) /\ Said(a)' = Verdict(told'[a])
  BY DEF Said, Verdict
<1>2. ASSUME NEW v PROVE Verdict({v}) = v
  <2>1. Cardinality({v}) = 1 /\ (CHOOSE w \in {v} : TRUE) = v
    BY FS_Singleton
  <2> QED BY <2>1 DEF Verdict
<1>3. Verdict({}) = "nothing"
  BY DEF Verdict
<1> QED BY <1>1, <1>2, <1>3

(* The receipt that the server reads is the one verdict on its action.     *)
LEMMA AnswerIsSay ==
  ASSUME IInv, IInv', NEW x \in Actions, NEW arrives \in BOOLEAN, NEW result \in {"accepted", "failed", "lost"},
         Answer(x, arrives, result)
  PROVE  Promised!Next \/ UNCHANGED <<done, [a \in Actions |-> Said(a)]>>
<1> DEFINE said == [a \in Actions |-> Said(a)]
<1>1. /\ net[x] # "none" /\ UNCHANGED done
      /\ told' = IF arrives THEN [told EXCEPT ![x] = @ \union {net[x]}] ELSE told
  BY DEF Answer, engine
<1>2. CASE told' = told
  BY <1>1, <1>2, SaidOf
<1>3. CASE told' # told
  <2>1. /\ net[x] \in told'[x] /\ net[x] \in Terminal
        /\ \A b \in Actions : b # x => told'[b] = told[b]
    BY <1>1, <1>3 DEF IInv, Types
  <2>2. \A b \in Actions : b # x => Said(b)' = Said(b)
    BY <2>1, SaidOf
  <2>3. net[x] \in Words(x)
    BY <1>1, WordsOf
  <2>4. told[x] = {}
    <3> SUFFICES ASSUME NEW v \in told[x] PROVE FALSE
      OBVIOUS
    <3>1. v = net[x]
      BY <2>3, WordsOf DEF IInv, Truth, OneWord
    <3>2. told' = told
      BY <1>1, <3>1 DEF IInv, Types
    <3> QED BY <1>3, <3>2
  <2>5. told'[x] = {net[x]}
    BY <1>1, <1>3, <2>4 DEF IInv, Types
  <2>6. Said(x) = "nothing" /\ Said(x)' = net[x]
    BY <2>4, <2>5, SaidOf
  <2>7. said[x] = "nothing" /\ said' = [said EXCEPT ![x] = net[x]]
    BY <2>2, <2>6
  <2>8. IsTrue(x, net[x])
    BY <2>3 DEF IInv, Truth, OneWord
  <2>9. Promised!Say(x, net[x])
    BY <1>1, <2>7, <2>8 DEF Promised!Say, IsTrue
  <2> QED BY <2>1, <2>9 DEF Promised!Next, Promised!Verdicts, Terminal
<1> QED BY <1>2, <1>3

(* Whatever is retried, stopped or interrupted, an action is carried out   *)
(* at most once and the server accepts one verdict on it, which is true:   *)
(* NativeTransfer implements Deeds.                                        *)
THEOREM KeepsItsWordHolds == Spec => KeepsItsWord
<1>1. Init => Promised!Init
  BY SaidOf DEF Init, Promised!Init
<1>2. IInv /\ [Next]_vars => [Promised!Next]_<<done, [a \in Actions |-> Said(a)]>>
  <2> SUFFICES ASSUME IInv, [Next]_vars
               PROVE  Promised!Next \/ UNCHANGED <<done, [a \in Actions |-> Said(a)]>>
    OBVIOUS
  <2>1. IInv'
    BY Step
  <2>2. CASE UNCHANGED <<done, told>>
    BY <2>2, SaidOf
  <2>3. CASE done' # done
    <3>1. PICK x \in Actions : done'[x] # done[x]
      BY <2>1, <2>3 DEF IInv, Types
    <3>2. Retained(x) /\ recs[x].status = "pending" /\ done' = [done EXCEPT ![x] = 1] /\ told' = told
      BY <3>1, Deed
    <3>3. Words(x) = {} /\ done[x] = 0
      BY <3>2, OpenUnsaid DEF IInv, Open
    <3>4. told[x] = {}
      BY <3>3, WordsOf
    <3>5. Said(x) = "nothing" /\ [a \in Actions |-> Said(a)]' = [a \in Actions |-> Said(a)]
      BY <3>2, <3>4, SaidOf
    <3>6. Promised!Do(x)
      BY <3>2, <3>3, <3>5 DEF Promised!Do
    <3> QED BY <3>6 DEF Promised!Next
  <2>4. CASE told' # told
    <3>1. \E a \in Actions : ReceiptSteps(a)
      <4>1. CASE \E t \in Turns : SubmitTurn(t) \/ TurnStopped(t)
        BY <2>4, <4>1 DEF SubmitTurn, TurnStopped, server
      <4>2. CASE \E b \in Actions : Intent(b) \/ Cancel(b)
        BY <2>4, <4>2 DEF Intent, Cancel, server
      <4>3. CASE \E b \in Actions, sent \in BOOLEAN : Hand(b, sent) \/ Refuse(b, sent) \/ ActorRejects(b, sent)
        BY <2>4, <4>3 DEF Hand, Refuse, ActorRejects
      <4>4. CASE \E b \in Actions : PumpSteps(b)
        BY <2>4, <4>4, PumpParts DEF PumpSteps
      <4>5. CASE \E b \in Actions : EngineSteps(b)
        BY <2>4, <4>5 DEF EngineSteps, RunAction, server
      <4> QED BY <2>4, <4>1, <4>2, <4>3, <4>4, <4>5
              DEF Next, CastSteps, CastStart, CastRelease, CastBroken, Drop, Fence, haltActions, cancelResponseLane, NewSession, vars, server
    <3> QED BY <2>1, <3>1, AnswerIsSay DEF ReceiptSteps
  <2> QED BY <2>2, <2>3, <2>4
<1>3. Spec => Promised!Init
  BY <1>1, PTL DEF Spec
<1>4. Spec => [][Promised!Next]_<<done, [a \in Actions |-> Said(a)]>>
  BY <1>2, Inductive, PTL DEF Spec
<1>5. Promised!Init /\ [][Promised!Next]_<<done, [a \in Actions |-> Said(a)]>> => Promised!Spec
  BY PTL DEF Promised!Spec, Promised!vars
<1>6. Promised!Spec => KeepsItsWord
  BY DEF KeepsItsWord
<1> QED BY <1>3, <1>4, <1>5, <1>6, PTL
===============================================================================
