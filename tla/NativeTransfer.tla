---------------------------- MODULE NativeTransfer ----------------------------
(***************************************************************************)
(* Actions of the model that change the game world: the native bindings     *)
(* retain each intent with the observation of its turn, GLOBAL's            *)
(* transfer_actions.lua has it executed on the engine's queue and retries   *)
(* the receipt until the server has accepted it.  Turns are cancelled,      *)
(* actors stopped, spells wait for an animation, receipts fail or are lost, *)
(* and an interruption starts a new generation at any moment.               *)
(***************************************************************************)
EXTENDS Naturals, Sequences, FiniteSets, SequencesExt

CONSTANTS
  Actions, Turns,   \* action ids and turn ids
  Kind,             \* of an action: "transfer", "advanced" or "spell"
  TurnOf,           \* the turn an action belongs to
  RecordCap,        \* retained actions (256)
  SnapCap,          \* retained observations (16)
  PendingCap,       \* actions GLOBAL works on at a time (4)
  MaxGenerations,   \* bound: sessions
  MaxFailures       \* bound: receipts that fail or whose result is lost

ASSUME TransferAssumption ==
  /\ Kind \in [Actions -> {"transfer", "advanced", "spell"}]
  /\ TurnOf \in [Actions -> Turns]
  /\ RecordCap \in Nat \ {0} /\ SnapCap \in Nat \ {0} /\ PendingCap \in Nat \ {0}
  /\ MaxGenerations \in Nat \ {0} /\ MaxFailures \in Nat

VARIABLES
  gen, ready,   \* the bridge's generation, and whether its session is open
  scope,        \* the generation the two native tables belong to
  order,        \* the turns whose observation is retained, oldest first
  cancelled,    \* the turns whose observation is marked cancelled
  recs,         \* m_transfers
  queue,        \* the engine's action queue: action and generation of a closure
  cast,         \* the spell animation under way, of one caster
  turnGen,      \* the generation a turn was submitted in, 0 before
  asked,        \* actions whose intent has arrived, with what became of them in the lane
  pend,         \* transfer_actions.lua: state.pending
  net,          \* the result a receipt on its way carries
  failures,     \* how many receipts have failed or were lost
  lost,         \* actions with a receipt whose result the inbound queue discarded
  done,         \* how often an action changed the world
  stray,        \* spells launched at the engine's own target
  told,         \* the outcomes of an action the server has accepted
  stopped       \* the turns of this session the server has cancelled

native == <<scope, order, cancelled, recs>>
engine == <<queue, cast, done, stray>>
server == <<net, failures, lost, told>>
vars == <<gen, ready, native, engine, turnGen, asked, pend, server, stopped>>

NoRec == [status |-> "none"]
Retained(a) == recs[a] # NoRec
Terminal == {"succeeded", "failed", "cancelled", "rejected"}
Current(a) == turnGen[TurnOf[a]] = gen
NoCast == [of |-> "none", stage |-> "none"]

TypeOK ==
  /\ gen \in 1..MaxGenerations /\ ready \in BOOLEAN /\ scope \in 1..gen
  /\ Len(order) <= SnapCap /\ Cardinality({a \in Actions : Retained(a)}) <= RecordCap
  /\ cancelled \subseteq Turns
  /\ \A a \in Actions : Retained(a) =>
       /\ recs[a].status \in Terminal \union {"awaiting_confirmation", "pending"}
       /\ recs[a].gate \in {"fresh", "pending", "executing", "terminal"}
       /\ recs[a].receiptStatus \in {"not_submitted", "pending", "accepted", "failed"}
       /\ recs[a].receipt \in Terminal \union {"none"}
       /\ recs[a].gate = "executing" => recs[a].spellHook /\ recs[a].status = "pending"
  /\ pend \in [Actions -> {"none", "running"} \union Terminal]
  /\ net \in [Actions -> Terminal \union {"none"}]
  /\ asked \in [Actions -> {"no", "yes", "handed", "rejecting", "over"}]

Init ==
  /\ gen = 1 /\ ready = TRUE /\ scope = 1 /\ order = <<>> /\ cancelled = {}
  /\ recs = [a \in Actions |-> NoRec]
  /\ queue = {} /\ cast = NoCast /\ done = [a \in Actions |-> 0] /\ stray = {}
  /\ turnGen = [t \in Turns |-> 0] /\ asked = [a \in Actions |-> "no"]
  /\ pend = [a \in Actions |-> "none"]
  /\ net = [a \in Actions |-> "none"] /\ failures = 0
  /\ lost = {} /\ told = [a \in Actions |-> {}] /\ stopped = {}

--------------------------------------------------------------------------------
(* The native tables.                                                          *)

\* syncTransferScope: whoever touches the tables first in a new session empties
\* them.  SyncedX is table X as the caller then finds it.
Synced == scope = gen
SyncedRecs == IF Synced THEN recs ELSE [a \in Actions |-> NoRec]
SyncedOrder == IF Synced THEN order ELSE <<>>
SyncedCancelled == IF Synced THEN cancelled ELSE {}

\* as finish, which does nothing
finishNever(gate) == gate
\* ActionCommitGate::finish
finish(gate) == IF gate = "executing" THEN "terminal" ELSE gate
Ended(r, status) == [r EXCEPT !.status = status, !.gate = finish(@)]

\* as cancelTransfer, without its look at the status
cancelTransferAlways(r) ==
  IF r = NoRec THEN r ELSE [r EXCEPT !.status = "cancelled", !.gate = "terminal"]

\* ActionCommitGate::cancel as its callers use it
Cancellable(r) == r.gate \in {"fresh", "pending"}
cancelTransfer(r) ==
  IF r = NoRec THEN r
  ELSE IF r.spellHook /\ r.status = "pending" THEN Ended(r, "cancelled")
  ELSE IF r.status \in {"pending", "awaiting_confirmation"} /\ Cancellable(r)
    THEN [r EXCEPT !.status = "cancelled", !.gate = "terminal"]
  ELSE r

\* submitTurn, captureTransferSnapshot: retain the observation, forget the oldest
SubmitTurn(t) ==
  /\ ready /\ turnGen[t] = 0
  /\ turnGen' = [turnGen EXCEPT ![t] = gen]
  /\ scope' = gen /\ recs' = SyncedRecs /\ cancelled' = SyncedCancelled
  /\ order' = Append(IF Len(SyncedOrder) >= SnapCap THEN Tail(SyncedOrder) ELSE SyncedOrder, t)
  /\ UNCHANGED <<gen, ready, engine, asked, pend, server, stopped>>

\* retainTransfer of an intent: without an observation it has failed already
Retain(a) ==
  [status |-> IF Contains(SyncedOrder, TurnOf[a]) THEN "awaiting_confirmation" ELSE "failed",
   gate |-> "fresh", spellHook |-> FALSE, spellStarted |-> FALSE,
   receiptStatus |-> "not_submitted", receipt |-> "none"]
Intent(a) ==
  /\ ready /\ Current(a) /\ asked[a] = "no"
  /\ asked' = [asked EXCEPT ![a] = "yes"]
  /\ scope' = gen /\ order' = SyncedOrder /\ cancelled' = SyncedCancelled
  /\ recs' = IF Cardinality({b \in Actions : SyncedRecs[b] # NoRec}) >= RecordCap THEN SyncedRecs
             ELSE [SyncedRecs EXCEPT ![a] = Retain(a)]
  /\ UNCHANGED <<gen, ready, engine, turnGen, pend, server, stopped>>

\* retainTransfer of turn_cancelled and turn_failed
TurnStopped(t) ==
  /\ ready /\ turnGen[t] = gen /\ t \notin stopped
  /\ scope' = gen /\ order' = SyncedOrder
  /\ cancelled' = SyncedCancelled \union ({t} \intersect Range(SyncedOrder))
  /\ recs' = [a \in Actions |-> IF TurnOf[a] = t THEN cancelTransfer(SyncedRecs[a]) ELSE SyncedRecs[a]]
  /\ stopped' = stopped \union {t}
  /\ UNCHANGED <<gen, ready, engine, turnGen, asked, pend, server>>

--------------------------------------------------------------------------------
(* Receipts.                                                                   *)

\* submitActionResult.  A record's first receipt is frozen, also when the outbound
\* queue refuses it; while one is pending or accepted nothing more is sent; a result
\* that is not the record's own is refused.  Without a record it is just sent.
Decided(r, status) ==
  IF status \in {"rejected", "cancelled"} /\ Cancellable(r)
  THEN [r EXCEPT !.status = status, !.gate = "terminal"] ELSE r
Mismatch(r, status) == status # r.status
Submits(r, status) ==
  r = NoRec \/ (~Mismatch(Decided(r, status), status) /\ r.receiptStatus \notin {"pending", "accepted"})
Submitted(r, status, sent) ==
  IF r = NoRec THEN r
  ELSE IF ~Submits(r, status) THEN Decided(r, status)
  ELSE [Decided(r, status) EXCEPT !.receipt = IF @ = "none" THEN status ELSE @,
                                  !.receiptStatus = IF sent THEN "pending" ELSE @]
Request(a, r, status, sent) ==
  IF Submits(r, status) /\ sent /\ net[a] = "none"
  THEN [net EXCEPT ![a] = IF r = NoRec THEN status ELSE Submitted(r, status, sent).receipt]
  ELSE net

\* The server reads a receipt, and settleTransferReceipt its result; the server may
\* have read it although it failed, or the inbound queue had no room for the result.
Answer(a, arrives, result) ==
  /\ net[a] # "none"
  /\ net' = [net EXCEPT ![a] = "none"]
  /\ result = "accepted" => arrives
  /\ told' = IF arrives THEN [told EXCEPT ![a] = @ \union {net[a]}] ELSE told
  /\ IF result = "accepted" THEN UNCHANGED failures
     ELSE failures < MaxFailures /\ failures' = failures + 1
  /\ lost' = IF result = "lost" THEN lost \union {a} ELSE lost
  /\ recs' = IF result = "lost" \/ ~Retained(a) THEN recs ELSE [recs EXCEPT ![a].receiptStatus = result]
  /\ UNCHANGED <<gen, ready, scope, order, cancelled, engine, turnGen, asked, pend, stopped>>

--------------------------------------------------------------------------------
(* GLOBAL: transfer_actions.lua and the lane that feeds it.                    *)

PendingCount == Cardinality({a \in Actions : pend[a] # "none"})
HandedOver(a) ==
  /\ asked' = [asked EXCEPT ![a] = "handed"]
  /\ pend' = [pend EXCEPT ![a] = "running"]

\* LORKHAN_ACTOR_ACTION: enqueue; when the list is full the lane reports a failure,
\* which a record that still awaits confirmation refuses
Enqueue(a, r, sent) ==
  IF PendingCount < PendingCap
  THEN /\ HandedOver(a)
       /\ recs' = [recs EXCEPT ![a] = r] /\ UNCHANGED net
  ELSE /\ asked' = [asked EXCEPT ![a] = "over"] /\ UNCHANGED pend
       /\ recs' = [recs EXCEPT ![a] = Submitted(r, "failed", sent)]
       /\ net' = Request(a, r, "failed", sent)
Hand(a, sent) ==
  /\ asked[a] = "yes" /\ Current(a)
  /\ Enqueue(a, recs[a], sent)
  /\ UNCHANGED <<gen, ready, scope, order, cancelled, engine, turnGen, failures, lost, told, stopped>>

\* LORKHAN_ACTOR_REJECT: an advanced action is cancelled natively and reported
\* by the pump, any other is left to the actor's own script
Refuse(a, sent) ==
  /\ asked[a] = "yes" /\ Current(a)
  /\ IF Kind[a] = "advanced" THEN Enqueue(a, cancelTransfer(recs[a]), sent)
     ELSE asked' = [asked EXCEPT ![a] = "rejecting"] /\ UNCHANGED <<recs, pend, net>>
  /\ UNCHANGED <<gen, ready, scope, order, cancelled, engine, turnGen, failures, lost, told, stopped>>

\* LORKHAN_ACTION_RESULT of the actor's script: sent once, and never again; nobody
\* asks which session it belongs to
ActorRejects(a, sent) ==
  /\ asked[a] = "rejecting"
  /\ asked' = [asked EXCEPT ![a] = "over"]
  /\ IF ready
     THEN /\ recs' = [recs EXCEPT ![a] = Submitted(@, "rejected", sent)]
          /\ net' = Request(a, recs[a], "rejected", sent)
     ELSE UNCHANGED <<recs, net>>
  /\ UNCHANGED <<gen, ready, scope, order, cancelled, engine, turnGen, pend, failures, lost, told, stopped>>

\* LORKHAN_ACTOR_STOP: M.cancel, of every action of an actor
Cancel(a) ==
  /\ pend[a] # "none" /\ Retained(a)
  /\ recs' = [recs EXCEPT ![a] = cancelTransfer(@)]
  /\ UNCHANGED <<gen, ready, scope, order, cancelled, engine, turnGen, asked, pend, server, stopped>>

\* What the lane holds of this session, and what of it has not been handed over.
\* The lane cancels its powers natively, whether or not they are handed over.
InLane == {a \in Actions : asked[a] \in {"yes", "handed"} /\ Current(a)}
Waiting == {a \in InLane : asked[a] = "yes"}
LaneRecs == [a \in Actions |->
  IF a \in InLane /\ Kind[a] = "advanced" THEN cancelTransfer(recs[a]) ELSE recs[a]]
LaneEmptied == asked' = [a \in Actions |-> IF a \in Waiting THEN "over" ELSE asked[a]]

\* haltActions: what waits, also for the player's confirmation, leaves the lane and
\* is reported once as cancelled; the outbound queue takes some of the reports
haltActions(taken) ==
  /\ ready /\ InLane # {} /\ LaneEmptied
  /\ recs' = [a \in Actions |->
       IF a \in Waiting THEN Submitted(LaneRecs[a], "cancelled", a \in taken) ELSE LaneRecs[a]]
  /\ net' = [a \in Actions |->
       IF a \in Waiting THEN Request(a, LaneRecs[a], "cancelled", a \in taken)[a] ELSE net[a]]
  /\ UNCHANGED <<gen, ready, scope, order, cancelled, engine, turnGen, pend, failures, lost, told, stopped>>

\* cancelResponseLane: what waits is forgotten without a report
cancelResponseLane ==
  /\ InLane # {} /\ LaneEmptied /\ recs' = LaneRecs
  /\ UNCHANGED <<gen, ready, scope, order, cancelled, engine, turnGen, pend, server, stopped>>

\* as Expired, waiting for an animation that never comes
ExpiredNever(r, late) == r

\* executeTransfer: a spell that was broken off or is late ends here, an action
\* that awaits confirmation goes to the engine's queue.  Late: it has expired.
Expired(r, late) ==
  IF r.spellHook /\ r.status = "pending" /\ late THEN Ended(r, "failed") ELSE r
BrokenOff(r) ==
  IF r.spellHook /\ r.spellStarted /\ r.status = "pending" /\ cast = NoCast
  THEN [Ended(r, "failed") EXCEPT !.spellHook = FALSE] ELSE r
Queues(r) == r # NoRec /\ r.status = "awaiting_confirmation" /\ r.gate = "fresh"
Executed(r, late) ==
  IF r = NoRec THEN r
  ELSE LET e == Expired(BrokenOff(r), late) IN
       IF Queues(e) THEN [e EXCEPT !.status = "pending", !.gate = "pending"] ELSE e

\* M.pump: what belongs to another generation is dropped, everything else is worked
\* on.  The receipt is not due, or due and the outbound queue takes it or not.
Stale == {a \in Actions : pend[a] # "none" /\ ~Current(a)}
Drop ==
  /\ Stale # {}
  /\ recs' = [a \in Actions |-> IF a \in Stale THEN cancelTransfer(recs[a]) ELSE recs[a]]
  /\ pend' = [a \in Actions |-> IF a \in Stale THEN "none" ELSE pend[a]]
  /\ UNCHANGED <<gen, ready, scope, order, cancelled, engine, turnGen, asked, server, stopped>>

Pump(a, late, receipt) ==
  /\ pend[a] # "none" /\ Current(a)
  /\ LET old == SyncedRecs[a]
         r == IF pend[a] = "running" THEN Executed(old, late) ELSE old
         result == IF pend[a] # "running" THEN pend[a]
                   ELSE IF r = NoRec THEN "failed"
                   ELSE IF r.status \in {"succeeded", "failed", "cancelled"} THEN r.status
                   ELSE "running"
         accepted == r # NoRec /\ r.receiptStatus = "accepted"
         due == /\ ready /\ receipt # "later" /\ result # "running"
                /\ r # NoRec => r.receiptStatus \in {"not_submitted", "failed"}
     IN
     /\ scope' = gen /\ order' = SyncedOrder /\ cancelled' = SyncedCancelled
     /\ queue' = IF r # NoRec /\ Queues(old) THEN queue \union {<<a, gen>>} ELSE queue
     /\ pend' = [pend EXCEPT ![a] = IF result # "running" /\ accepted THEN "none" ELSE result]
     /\ recs' = [SyncedRecs EXCEPT ![a] = IF due THEN Submitted(r, result, receipt = "sent") ELSE r]
     /\ net' = IF due THEN Request(a, r, result, receipt = "sent") ELSE net
  /\ UNCHANGED <<gen, ready, cast, done, stray, turnGen, asked, failures, lost, told, stopped>>

--------------------------------------------------------------------------------
(* The engine.                                                                 *)

Hooked == {a \in Actions : Retained(a) /\ recs[a].spellHook}
CasterBusy == cast # NoCast \/ Hooked # {}

\* commitAdvanced, and commitTransfer of everything else: a precondition fails or
\* the engine throws ("failed"), the world changes and so reads back ("succeeded")
\* or does not ("readback_failed"), or a spell is asked of the caster ("hook")
AdvancedOutcomes == {"failed", "succeeded", "readback_failed"}
TransferOutcomes(a) ==
  IF Kind[a] # "spell" THEN {"failed", "succeeded", "readback_failed"}
  ELSE {"failed"} \union (IF CasterBusy THEN {} ELSE {"hook"})
OutcomesAnyTurn(a) == IF Kind[a] = "advanced" THEN AdvancedOutcomes ELSE TransferOutcomes(a)
Outcomes(a) == IF TurnOf[a] \in cancelled THEN {"cancelled"} ELSE OutcomesAnyTurn(a)

\* the closure given to addAction, and what it checks first
InScope(g) == ready /\ g = gen
RunAction(a, g, outcome) ==
  /\ <<a, g>> \in queue
  /\ queue' = queue \ {<<a, g>>}
  /\ IF InScope(g) /\ Retained(a) /\ recs[a].status = "pending" /\ recs[a].gate = "pending"
     THEN /\ outcome \in Outcomes(a)
          /\ done' = IF outcome \in {"succeeded", "readback_failed"} THEN [done EXCEPT ![a] = @ + 1] ELSE done
          /\ cast' = IF outcome = "hook" THEN [of |-> a, stage |-> "asked"] ELSE cast
          /\ recs' = [recs EXCEPT ![a] =
               IF outcome = "hook" THEN [@ EXCEPT !.spellHook = TRUE, !.gate = "executing"]
               ELSE [@ EXCEPT !.status = IF outcome = "readback_failed" THEN "failed" ELSE outcome,
                              !.gate = "terminal"]]
     ELSE outcome = "failed" /\ UNCHANGED <<done, cast, recs>>
  /\ UNCHANGED <<gen, ready, scope, order, cancelled, stray, turnGen, asked, pend, server, stopped>>

\* spellFinished
Finished(r, status) ==
  [IF r.status = "pending" THEN Ended(r, status) ELSE r EXCEPT !.spellHook = FALSE]
\* the conditions that spellStartAllowed and spellTarget share; other: the spell
\* has expired, or the actor has selected another
Allowed(r, other) == r.status = "pending" /\ ready /\ scope = gen /\ ~other

\* startSpellCast: spellStartAllowed, the engine's own checks, spellStartResult
CastStart(other, able) ==
  /\ cast.stage = "asked"
  /\ IF Hooked = {} THEN cast' = (IF able THEN [cast EXCEPT !.stage = "started"] ELSE NoCast) /\ UNCHANGED recs
     ELSE LET h == CHOOSE b \in Hooked : TRUE IN
          IF Allowed(recs[h], other) /\ able
          THEN /\ cast' = [cast EXCEPT !.stage = "started"]
               /\ recs' = [recs EXCEPT ![h].spellStarted = TRUE]
          ELSE cast' = NoCast /\ recs' = [recs EXCEPT ![h] = Finished(@, "failed")]
  /\ UNCHANGED <<gen, ready, scope, order, cancelled, queue, done, stray, turnGen, asked, pend, server, stopped>>

\* castSpell at the end of the animation: spellTarget, the cast, spellFinished.
\* Without a hook the engine casts at a target of its own.
TargetFixed(r, other) == Allowed(r, other) /\ r.spellStarted
CastRelease(other, succeeds) ==
  /\ cast.stage = "started"
  /\ cast' = NoCast
  /\ IF Hooked = {} THEN stray' = stray \union {cast.of} /\ UNCHANGED <<recs, done>>
     ELSE LET h == CHOOSE b \in Hooked : TRUE
              fine == TargetFixed(recs[h], other) /\ TurnOf[h] \notin cancelled /\ succeeds IN
          /\ done' = IF fine THEN [done EXCEPT ![h] = @ + 1] ELSE done
          /\ recs' = [recs EXCEPT ![h] = Finished(@, IF fine THEN "succeeded" ELSE "failed")]
          /\ UNCHANGED stray
  /\ UNCHANGED <<gen, ready, scope, order, cancelled, queue, turnGen, asked, pend, server, stopped>>

\* the caster is knocked down, paralysed or dies: the animation stops
CastBroken ==
  /\ cast # NoCast /\ cast' = NoCast
  /\ UNCHANGED <<gen, ready, native, queue, done, stray, turnGen, asked, pend, server, stopped>>

--------------------------------------------------------------------------------
(* Interruptions.                                                              *)

\* M.interrupt: cancelResponseLane, then cancelGeneration.  The lane and the requests
\* are gone, the native tables, GLOBAL's list and the closures of the old generation
\* stay.
Fence ==
  /\ ready /\ gen < MaxGenerations /\ recs' = LaneRecs
  /\ gen' = gen + 1 /\ ready' = FALSE
  /\ net' = [a \in Actions |-> "none"]
  /\ asked' = [a \in Actions |-> IF Current(a) /\ asked[a] # "rejecting" THEN "over" ELSE asked[a]]
  /\ stopped' = {} /\ lost' = {}
  /\ UNCHANGED <<scope, order, cancelled, engine, turnGen, pend, failures, told>>

\* the accepted handshake of the new generation
NewSession ==
  /\ ~ready /\ ready' = TRUE
  /\ UNCHANGED <<gen, native, engine, turnGen, asked, pend, server, stopped>>

PumpSteps(a) == \E late \in BOOLEAN, receipt \in {"later", "refused", "sent"} : Pump(a, late, receipt)
EngineSteps(a) == \E g \in 1..gen, outcome \in {"failed", "cancelled", "succeeded", "readback_failed", "hook"} :
                    RunAction(a, g, outcome)
CastSteps == \/ \E other, able \in BOOLEAN : CastStart(other, able)
             \/ \E other, succeeds \in BOOLEAN : CastRelease(other, succeeds)
             \/ CastBroken
ReceiptSteps(a) == \E arrives \in BOOLEAN, result \in {"accepted", "failed", "lost"} : Answer(a, arrives, result)

Next ==
  \/ \E t \in Turns : SubmitTurn(t) \/ TurnStopped(t)
  \/ \E a \in Actions :
       \/ Intent(a) \/ Cancel(a)
       \/ \E sent \in BOOLEAN : Hand(a, sent) \/ Refuse(a, sent) \/ ActorRejects(a, sent)
       \/ PumpSteps(a) \/ EngineSteps(a) \/ ReceiptSteps(a)
  \/ (\E taken \in SUBSET Waiting : haltActions(taken)) \/ cancelResponseLane
  \/ Drop \/ CastSteps
  \/ Fence \/ NewSession

Spec == Init /\ [][Next]_vars

\* GLOBAL's update pumps every frame, time passes and the outbound queue drains;
\* the engine runs its queue every frame; the transport answers every request.
Fairness == WF_vars(Drop) /\ \A a \in Actions :
  /\ WF_vars(Pump(a, TRUE, "sent"))
  /\ WF_vars(EngineSteps(a)) /\ WF_vars(ReceiptSteps(a))
FairSpec == Spec /\ Fairness

--------------------------------------------------------------------------------
(* Properties.                                                                 *)

\* An action is carried out at most once, the server accepts one outcome of it,
\* "succeeded" only if it was carried out, "cancelled" and "rejected" only if it
\* was not and never will be: whatever is retried, stopped or interrupted.
Said(a) == IF told[a] = {} THEN "nothing"
           ELSE IF Cardinality(told[a]) = 1 THEN CHOOSE v \in told[a] : TRUE ELSE "contradiction"
Promised == INSTANCE Deeds WITH Ids <- Actions, said <- [a \in Actions |-> Said(a)]
KeepsItsWord == Promised!Spec

\* The world changes for an action only while the generation of its turn is the
\* current one and its session open, although closures of earlier ones still wait
\* in the engine's queue (the check at the head of the closure, spellTarget).
OnlyInItsSession ==
  [][\A a \in Actions : done'[a] # done[a] => ready /\ Current(a)]_vars

\* Once the server has cancelled a turn, no action of it changes the world, in
\* whatever order its intent, its confirmation and the cancellation came, and
\* whether or not its observation was still retained then.
NothingAfterTheTurn ==
  [][\A a \in Actions : done'[a] # done[a] => TurnOf[a] \notin stopped]_vars

\* An action changes the world only while it is asked for: in its session and
\* before the cancellation of its turn.
OnlyWhileAsked == OnlyInItsSession /\ NothingAfterTheTurn

\* What GLOBAL has taken on leaves its list in the end, so that four actions never
\* block the next one: reported, or dropped with its generation.  Two cases are
\* left out, and described in the README: an action the native side did not retain,
\* and a receipt whose result was discarded.
LeavesTheList ==
  \A a \in Actions : pend[a] # "none" /\ (Current(a) => Retained(a)) ~> pend[a] = "none" \/ a \in lost

\* "The hook stays attached until release, including cancelled animations, to
\* prevent target fallback" (lorkhanbindings.cpp:1264): no spell that an action
\* asked for is launched at a target of the engine's own.
NoFallbackCast == stray = {}
================================================================================
