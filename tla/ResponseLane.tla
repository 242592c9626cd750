------------------------------ MODULE ResponseLane ------------------------------
(***************************************************************************)
(* The response lane: what the GLOBAL script (orchestrator.lua) does with  *)
(* the ordered response queue, the CUSTOM scripts of the actors that speak *)
(* and act (actor.lua, actor_executor.lua), and the events between them.   *)
(*                                                                         *)
(* All Lua runs on one thread, so a handler is atomic.  A handler that     *)
(* ends in pumpResponseQueue is modelled in small steps: it sets `pc', and *)
(* until the pump and what follows it have returned no other handler runs. *)
(* Events to actors and events to GLOBAL are two queues that the engine    *)
(* delivers in order on a later frame.                                     *)
(*                                                                         *)
(* The server is free within its protocol: per turn it streams lines in    *)
(* order, sends one response, the media of the lines that have speech, the *)
(* intents of the commands and one terminal event.  Advanced (native)      *)
(* actions, Director scenes and save lifecycles are not part of this       *)
(* module.                                                                 *)
(***************************************************************************)
EXTENDS ResponseQueue

CONSTANTS
  Actors,         \* actors with a CUSTOM script
  Speaker,        \* line or command -> the actor it is for
  Script,         \* per turn: [lines, commands], sequences of ids
  Mute,           \* dialogue lines whose response disables speech
  Confirm,        \* commands with confirmation_required
  FollowUp,       \* commands with followup_enabled
  Ends,           \* commands named conversation.end
  PrefetchDepth,  \* 3 in the code
  Budgets         \* bound: the pairs <<stops, moves>> a run may begin with

Turns == DOMAIN Script

LinesOf(t) == ToSet(Script[t].lines) \cup ToSet(Script[t].commands)

\* A response has a line, and no line twice (protocol.lua and parseCanonicalResponse
\* refuse a duplicate line_id); there are at most 32 agents.
ASSUME ScriptAssumption ==
  /\ Script \in Seq([lines : Seq(Dialogue), commands : Seq(Commands)])
  /\ \A t \in Turns : /\ Script[t].lines # <<>>
                     /\ IsInjective(Script[t].lines) /\ IsInjective(Script[t].commands)
  /\ Speaker \in [LineIds -> Actors] /\ IsFiniteSet(Actors)
  /\ PrefetchDepth \in Nat \ {0} /\ Budgets \subseteq Nat \X Nat

\* A line_id is a fresh UUID (protocol.lua refuses anything else), so no two turns share one.
ASSUME LineIdAssumption == \A t, u \in Turns : t # u => LinesOf(t) \cap LinesOf(u) = {}

VARIABLES
  queue,         \* state.responseQueue
  turn,          \* state.conversation.turn: [id, terminal], id = 0 for none
  nextTurn,      \* the id the next accepted submission gets
  sent,          \* events the server has sent for the current turn
  speech,        \* state.playerSpeechRequest is set
  voice,         \* a recording or its transcript that nothing has superseded
                 \* (state.pendingVoice, state.pendingStt)
  rechat,        \* state.rechat; id (of the turn that began it) 0: none
  seed,          \* state.rechatSeed is set
  probe,         \* state.rechatEligibility: [stage, turn, chain]
  confirm,       \* state.pendingConfirmations
  followups,     \* state.actionFollowups.pending
  ai,            \* state.aiEnabled
  gen,           \* state.generation (and the native one: setFence reads both)
  attachments,   \* state.attachments
  registry,      \* actors state.registry resolves
  present,       \* actors whose object is active in the world
  actor,         \* the CUSTOM scripts: [attached, gen, speech, face]
  toActors,      \* events on their way to actors
  toGlobal,      \* events on their way to GLOBAL
  media,         \* the native client's m_media: none/preparing/ready/failed
  pc,            \* the handler in progress
  delivered,     \* dialogue-delivery results submitted per line
  results,       \* action results submitted per command
  origin,        \* turn -> the line that was being spoken when it was
                 \* submitted as a continuation (history)
  stops,         \* bound: halts, stops, AI toggles, voice recordings still to come
  moves          \* bound: actors that leave, are detached or attached again

laneVars   == <<queue, media, delivered, results>>
turnVars   == <<turn, nextTurn, sent, origin>>
chainVars  == <<rechat, seed, probe>>
actionVars == <<confirm, followups>>
actorVars  == <<actor, toActors, toGlobal>>
groupVars  == <<attachments, registry, present>>
boundVars  == <<stops, moves>>
vars == <<laneVars, turnVars, chainVars, actionVars, actorVars, groupVars,
          boundVars, speech, voice, ai, gen, pc>>

NoTurn  == [id |-> 0, terminal |-> FALSE]
NoChain == [id |-> 0, cancelled |-> FALSE, inFlight |-> FALSE,
            prefetch |-> NoLine, discard |-> 0]
NewChain == [NoChain EXCEPT !.id = nextTurn]
NoProbe == [stage |-> "none", turn |-> 0, chain |-> 0]

(* pc: where the handler in progress is, what it does after its pump       *)
(* (nothing, or what poll or a status handler does), and whether the       *)
(* queue told it to continue the conversation.                             *)
AtRest == [at |-> "idle", then |-> "none", advance |-> FALSE]
ThenPump(then, advance) == [at |-> "prefetch", then |-> then, advance |-> advance]

Messages == [to : Actors, msg : {"SPEAK", "SUBTITLE", "ACTION", "REJECT",
               "STOP_SPEECH", "STOP", "HALT_ACTIONS", "DETACH", "ATTACH"},
             line : LineIds \cup {NoLine}, gen : Nat]

Outcomes == {"played", "failed", "interrupted", "succeeded", "rejected", "cancelled", ""}

Notices == [from : Actors, msg : {"speech", "result", "inactive"},
            line : LineIds \cup {NoLine}, status : Outcomes]

TypeOK ==
  /\ queue \in Queues
  /\ turn \in [id : Turns \cup {0}, terminal : BOOLEAN]
  /\ nextTurn \in 1..(Len(Script) + 1)
  /\ speech \in BOOLEAN /\ voice \in BOOLEAN /\ seed \in BOOLEAN /\ ai \in BOOLEAN
  /\ rechat \in [id : Turns \cup {0}, cancelled : BOOLEAN, inFlight : BOOLEAN,
                 prefetch : LineIds \cup {NoLine}, discard : Turns \cup {0}]
  /\ probe \in [stage : {"none", "states", "context"},
                turn : Turns \cup {0}, chain : Turns \cup {0}]
  /\ confirm \subseteq Commands
  /\ followups \in Seq(Commands)
  /\ gen \in Nat \ {0}
  /\ attachments \subseteq Actors /\ registry \subseteq Actors /\ present \subseteq Actors
  /\ actor \in [Actors -> [attached : BOOLEAN, gen : 1..gen,
                           speech : Dialogue \cup {NoLine},
                           face : Commands \cup {NoLine}]]
  /\ \A i \in DOMAIN toActors : toActors[i] \in Messages
  /\ \A i \in DOMAIN toGlobal : toGlobal[i] \in Notices
  /\ media \in [Dialogue -> {"none", "preparing", "ready", "failed"}]
  /\ pc \in [at : {"idle", "poll", "prefetch", "pump", "followup", "probe"},
             then : {"none", "poll", "status"}, advance : BOOLEAN]
  /\ delivered \in [Dialogue -> Nat] /\ results \in [Commands -> Nat]
  /\ origin \in [Turns -> Dialogue \cup {NoLine}]
  /\ stops \in Nat /\ moves \in Nat

Init ==
  /\ queue = NewQueue
  /\ turn = NoTurn /\ nextTurn = 1 /\ sent = {}
  /\ speech = FALSE /\ voice = FALSE /\ seed = FALSE /\ ai = TRUE
  /\ rechat = NoChain /\ probe = NoProbe
  /\ confirm = {} /\ followups = <<>>
  /\ gen = 1
  /\ attachments = Actors /\ registry = Actors /\ present = Actors
  /\ actor = [a \in Actors |-> [attached |-> TRUE, gen |-> 1,
                                speech |-> NoLine, face |-> NoLine]]
  /\ toActors = <<>> /\ toGlobal = <<>>
  /\ media = [l \in Dialogue |-> "none"]
  /\ pc = AtRest
  /\ delivered = [l \in Dialogue |-> 0]
  /\ results = [c \in Commands |-> 0]
  /\ origin = [t \in Turns |-> NoLine]
  /\ \E b \in Budgets : stops = b[1] /\ moves = b[2]

--------------------------------------------------------------------------------
(* Helpers of the handlers.                                                *)

Resting == pc.at = "idle"

To(a, m, l) == [to |-> a, msg |-> m, line |-> l, gen |-> gen]

(* Bug: no actor is told.                                                  *)
SignalNobody(m) == <<>>

(* signalAllActors: sendActor reaches the attached actors the registry     *)
(* still resolves.                                                         *)
SignalAll(m) ==
  LET s == SetToSeq(attachments \cap registry)
  IN [i \in DOMAIN s |-> To(s[i], m, NoLine)]

(* reportQueuedDialogue and reportQueuedAction.                            *)
ReportLines(ls) == delivered' = [l \in Dialogue |-> delivered[l] + (IF l \in ls THEN 1 ELSE 0)]
ReportActions(cs) == results' = [c \in Commands |-> results[c] + (IF c \in cs THEN 1 ELSE 0)]

(* releaseMedia: the native client forgets the clip.                       *)
Release(ls) == media' = [l \in Dialogue |-> IF l \in ls THEN "none" ELSE media[l]]

(* Bug: the clips of the cancelled lines are not released.                 *)
KeepMedia(signals) ==
  /\ queue' = Cancel(queue)
  /\ ReportLines(Undelivered(queue))
  /\ toActors' = toActors \o signals
  /\ UNCHANGED <<results, media>>

(* cancelResponseLane: every line no actor was given is reported as        *)
(* interrupted, every clip is released, and the actors are told to stop    *)
(* (`signals' is empty when the caller does not stop speech).  Commands    *)
(* are dropped without a result.  Clearing playerSpeechRequest is left to  *)
(* the caller, who may set it again.                                       *)
CancelResponseLane(signals) ==
  /\ queue' = Cancel(queue)
  /\ ReportLines(Undelivered(queue))
  /\ Release(Queued(queue))
  /\ toActors' = toActors \o signals
  /\ UNCHANGED results

ForgetChain == rechat' = NoChain /\ seed' = FALSE /\ probe' = NoProbe

(* Bug: an interruption leaves the player's open question in place.        *)
KeepConfirmations == followups' = <<>> /\ UNCHANGED confirm

ForgetActions == confirm' = {} /\ followups' = <<>>

(* conversation.begin and submitTurn, accepted.                            *)
BeginTurn(from) ==
  /\ nextTurn \in Turns
  /\ turn' = [id |-> nextTurn, terminal |-> FALSE]
  /\ nextTurn' = nextTurn + 1
  /\ sent' = {}
  /\ origin' = [origin EXCEPT ![nextTurn] = from]

NoTurnBegins(t) == turn' = t /\ UNCHANGED <<nextTurn, sent, origin>>

MayBegin == turn.id = 0 \/ turn.terminal

CountStop == stops > 0 /\ stops' = stops - 1 /\ UNCHANGED moves
CountMove == moves > 0 /\ moves' = moves - 1 /\ UNCHANGED stops

--------------------------------------------------------------------------------
(* Player input and other submissions (submitText).                        *)

(* interruptForPlayerInput, which typed text runs before anything can      *)
(* reject it, and a voice recording when it starts.                        *)
InterruptForPlayerInput ==
  /\ CancelResponseLane(SignalAll("STOP_SPEECH"))
  /\ ForgetActions

(* Typed text accepted by the native client: its own voice plays first.  A *)
(* recording that is not yet transcribed is superseded.                    *)
SubmitTyped ==
  /\ Resting /\ ai
  /\ InterruptForPlayerInput
  /\ BeginTurn(NoLine)
  /\ speech' = TRUE /\ voice' = FALSE
  /\ seed' = TRUE /\ rechat' = NewChain /\ probe' = NoProbe
  /\ UNCHANGED <<actor, toGlobal, groupVars, boundVars, ai, gen, pc>>

(* Typed text that is rejected after the interruption, or the start of a   *)
(* voice recording: the conversation is left without a turn.               *)
InterruptOnly ==
  /\ Resting
  /\ InterruptForPlayerInput
  /\ ForgetChain /\ speech' = FALSE /\ voice' \in BOOLEAN
  /\ NoTurnBegins(NoTurn)
  /\ CountStop
  /\ UNCHANGED <<actor, toGlobal, groupVars, ai, gen, pc>>

(* A transcript: it interrupted when the recording began, not now, and it  *)
(* is dropped if something else has interrupted since.                     *)
SubmitTranscript ==
  /\ Resting /\ ai /\ MayBegin /\ voice
  /\ BeginTurn(NoLine)
  /\ speech' = TRUE /\ voice' = FALSE
  /\ seed' = TRUE /\ rechat' = NewChain /\ UNCHANGED probe
  /\ UNCHANGED <<laneVars, actionVars, actorVars, groupVars, boundVars, ai, gen, pc>>

(* A greeting, bark or other autonomous turn.                              *)
SubmitAutonomy ==
  /\ Resting /\ ai /\ MayBegin /\ Idle(queue)
  /\ BeginTurn(NoLine)
  /\ ForgetChain
  /\ UNCHANGED <<laneVars, actionVars, actorVars, groupVars, boundVars, speech, voice, ai, gen, pc>>

(* playerSpeechComplete.                                                   *)
PlayerSpeechComplete ==
  /\ Resting /\ speech
  /\ speech' = FALSE
  /\ pc' = ThenPump("none", FALSE)
  /\ UNCHANGED <<laneVars, turnVars, chainVars, actionVars, actorVars, groupVars,
                 boundVars, voice, ai, gen>>

--------------------------------------------------------------------------------
(* poll: the events of the current turn, then the pump.  conversation.apply *)
(* drops the events of any other turn, and a turn whose continuation was    *)
(* abandoned (discardTurnId) only moves the cursor.                         *)

Listening == pc.at \in {"idle", "poll"} /\ turn.id # 0

Heard(e) == sent' = sent \cup {e} /\ e \notin sent

Dropped == ~ai \/ rechat.discard = turn.id

Polling == pc' = [AtRest EXCEPT !.at = "poll"]

(* dialogue.complete of a line that has speech, streamed in order.         *)
PollDialogue(l) ==
  /\ Listening /\ l \in ToSet(Script[turn.id].lines) \ Mute
  /\ {<<"response", turn.id>>, <<"end", turn.id>>} \cap sent = {}
  /\ \A i \in DOMAIN Script[turn.id].lines :
       Script[turn.id].lines[i] = l =>
         \A j \in 1..(i - 1) : <<"line", Script[turn.id].lines[j]>> \in sent
  /\ Heard(<<"line", l>>)
  /\ queue' = IF Dropped THEN queue ELSE EnqueueDialogueEvent(queue, l)
  /\ Polling
  /\ UNCHANGED <<media, delivered, results, turn, nextTurn, origin, chainVars, actionVars,
                 actorVars, groupVars, boundVars, speech, voice, ai, gen>>

(* response.complete, with the media of some of its lines.                 *)
PollResponse(embedded) ==
  /\ Listening /\ <<"end", turn.id>> \notin sent
  /\ embedded \subseteq ToSet(Script[turn.id].lines) \ Mute
  /\ \A l \in embedded : <<"line", l>> \notin sent
  /\ sent' = sent \cup {<<"response", turn.id>>} \cup {<<"media", l>> : l \in embedded}
  /\ <<"response", turn.id>> \notin sent
  /\ queue' = IF Dropped THEN queue
              ELSE Enqueue(queue, Script[turn.id].lines, Script[turn.id].commands,
                           Mute, embedded)
  /\ Polling
  /\ UNCHANGED <<media, delivered, results, turn, nextTurn, origin, chainVars, actionVars,
                 actorVars, groupVars, boundVars, speech, voice, ai, gen>>

(* speech.ready: synthesis is a separate job, it may end after the turn.   *)
PollMedia(l) ==
  /\ Listening /\ l \in ToSet(Script[turn.id].lines) \ Mute
  /\ <<"line", l>> \in sent \/ <<"response", turn.id>> \in sent
  /\ Heard(<<"media", l>>)
  /\ queue' = IF ~Dropped /\ CanAttachMedia(queue, l) THEN AttachMedia(queue, l) ELSE queue
  /\ Polling
  /\ UNCHANGED <<media, delivered, results, turn, nextTurn, origin, chainVars, actionVars,
                 actorVars, groupVars, boundVars, speech, voice, ai, gen>>

(* action.intent.                                                          *)
PollIntent(c) ==
  /\ Listening /\ c \in ToSet(Script[turn.id].commands)
  /\ <<"response", turn.id>> \in sent
  /\ Heard(<<"intent", c>>)
  /\ queue' = IF ~Dropped /\ CanAttachAction(queue, c) THEN AttachAction(queue, c) ELSE queue
  /\ Polling
  /\ UNCHANGED <<media, delivered, results, turn, nextTurn, origin, chainVars, actionVars,
                 actorVars, groupVars, boundVars, speech, voice, ai, gen>>

(* turn.complete after the response; turn.failed or turn.cancelled at any  *)
(* time.                                                                   *)
PollTerminal(ok) ==
  /\ Listening /\ ~turn.terminal
  /\ ok => <<"response", turn.id>> \in sent
  /\ Heard(<<"end", turn.id>>)
  /\ turn' = [turn EXCEPT !.terminal = TRUE]
  /\ rechat' = IF rechat.id = 0 THEN rechat
               ELSE [rechat EXCEPT !.inFlight = FALSE, !.cancelled = @ \/ ~ok]
  /\ probe' = IF ok \/ rechat.id = 0 THEN probe ELSE NoProbe
  /\ Polling
  /\ UNCHANGED <<laneVars, nextTurn, origin, seed, actionVars, actorVars, groupVars,
                 boundVars, speech, voice, ai, gen>>

(* applyTransportFailure: the turn ends here although the server may still *)
(* work on it; its later events are then applied to the terminal turn.     *)
TransportFailure ==
  /\ Listening /\ ~turn.terminal
  /\ turn' = [turn EXCEPT !.terminal = TRUE]
  /\ rechat' = IF rechat.id = 0 THEN rechat
               ELSE [rechat EXCEPT !.inFlight = FALSE, !.cancelled = TRUE]
  /\ Polling
  /\ UNCHANGED <<laneVars, nextTurn, sent, origin, seed, probe, actionVars, actorVars,
                 groupVars, boundVars, speech, voice, ai, gen>>

(* The end of a batch of events.                                           *)
PollEnd ==
  /\ pc.at \in {"idle", "poll"}
  /\ pc' = ThenPump("poll", FALSE)
  /\ UNCHANGED <<laneVars, turnVars, chainVars, actionVars, actorVars, groupVars,
                 boundVars, speech, voice, ai, gen>>

--------------------------------------------------------------------------------
(* pumpResponseQueue.                                                      *)

First == queue.items[1]

(* The pump returns: what follows depends on the handler that ran it.      *)
PumpReturns == pc' = IF pc.then = "none" THEN AtRest ELSE [pc EXCEPT !.at = "followup"]

(* The clips to prepare ahead: among the first items, up to a command.     *)
Prefetchable ==
  {queue.items[i].line :
     i \in {j \in DOMAIN queue.items :
              /\ j <= PrefetchDepth
              /\ queue.items[j].status = "new"
              /\ \A k \in 1..j : queue.items[k].line \in Dialogue}}

Prepared(q, lines, refused) ==
  [q EXCEPT !.items = [i \in DOMAIN @ |->
     CASE @[i].line \in refused -> [@[i] EXCEPT !.status = "failed"]
       [] @[i].line \in lines   -> [@[i] EXCEPT !.status = "preparing"]
       [] OTHER                 -> @[i]]]

(* prepareMedia for the next clips, some of which the bridge may refuse.   *)
Prefetch(refused) ==
  /\ pc.at = "prefetch"
  /\ refused \subseteq Prefetchable
  /\ IF ~ai THEN PumpReturns /\ UNCHANGED laneVars
     ELSE /\ queue' = Prepared(queue, Prefetchable \ refused, refused)
          /\ media' = [l \in Dialogue |->
                         IF l \in Prefetchable \ refused THEN "preparing" ELSE media[l]]
          /\ UNCHANGED <<delivered, results>>
          /\ IF speech THEN PumpReturns ELSE pc' = [pc EXCEPT !.at = "pump"]
  /\ UNCHANGED <<turnVars, chainVars, actionVars, actorVars, groupVars, boundVars,
                 speech, voice, ai, gen>>

(* The pump looks at an undispatched head.                                 *)
Pumping == pc.at = "pump" /\ queue.items # <<>> /\ queue.active = NoLine

(* Nothing to do, or the head has to wait.                                 *)
PumpStops ==
  /\ pc.at = "pump"
  /\ \/ queue.items = <<>> \/ queue.active # NoLine
     \/ Pumping /\ First.status \in {"waiting_media", "queued"}
     \/ Pumping /\ First.status = "preparing" /\ media[First.line] \in {"none", "preparing"}
  /\ PumpReturns
  /\ UNCHANGED <<laneVars, turnVars, chainVars, actionVars, actorVars, groupVars,
                 boundVars, speech, voice, ai, gen>>

(* A clip that came too late to be prefetched is prepared at the head.     *)
PumpPrepares ==
  /\ Pumping /\ First.status = "new"
  /\ queue' = WithStatus(queue, First.line, "preparing")
  /\ media' = [media EXCEPT ![First.line] = "preparing"]
  /\ UNCHANGED <<delivered, results, turnVars, chainVars, actionVars, actorVars, groupVars,
                 boundVars, speech, voice, ai, gen, pc>>

PumpMediaReady ==
  /\ Pumping /\ First.status = "preparing" /\ media[First.line] = "ready"
  /\ queue' = WithStatus(queue, First.line, "ready")
  /\ UNCHANGED <<media, delivered, results, turnVars, chainVars, actionVars, actorVars,
                 groupVars, boundVars, speech, voice, ai, gen, pc>>

(* The line is given up: it gets a delivery result from the lane, its clip *)
(* is released.                                                            *)
GiveUpHead ==
  /\ queue' = FailHead(queue)
  /\ ReportLines({First.line})
  /\ Release({First.line})
  /\ UNCHANGED results

(* Bug: a clip that could not be had is waited for.                        *)
PumpWaitsForFailed ==
  /\ Pumping /\ First.line \in Dialogue
  /\ First.status \in {"ready", "subtitle_ready"}
  /\ GiveUpHead
  /\ UNCHANGED <<turnVars, chainVars, actionVars, actorVars, groupVars, boundVars,
                 speech, voice, ai, gen, pc>>

(* A clip that was refused or could not be had; a speaker that may not     *)
(* speak in combat, or a narrator that is switched off; a speaker that is  *)
(* gone.                                                                   *)
PumpGivesUp ==
  /\ Pumping /\ First.line \in Dialogue
  /\ \/ First.status \in {"new", "failed"}
     \/ First.status = "preparing" /\ media[First.line] = "failed"
     \/ First.status \in {"ready", "subtitle_ready"}
  /\ GiveUpHead
  /\ UNCHANGED <<turnVars, chainVars, actionVars, actorVars, groupVars, boundVars,
                 speech, voice, ai, gen, pc>>

(* The line is handed to its actor.                                        *)
PumpSpeaks ==
  /\ Pumping /\ First.status \in {"ready", "subtitle_ready"} /\ First.line \in Dialogue
  /\ Speaker[First.line] \in registry
  /\ queue' = MarkDispatched(queue)
  /\ toActors' = Append(toActors,
       To(Speaker[First.line], IF First.media THEN "SPEAK" ELSE "SUBTITLE", First.line))
  /\ PumpReturns
  /\ UNCHANGED <<media, delivered, results, turnVars, chainVars, actionVars, actor, toGlobal,
                 groupVars, boundVars, speech, voice, ai, gen>>

(* The command is put before the player.                                   *)
PumpAsks ==
  /\ Pumping /\ First.status = "ready" /\ First.line \in Commands \cap Confirm
  /\ queue' = MarkDispatched(queue)
  /\ confirm' = confirm \cup {First.line}
  /\ PumpReturns
  /\ UNCHANGED <<media, delivered, results, turnVars, chainVars, followups,
                 actorVars, groupVars, boundVars, speech, voice, ai, gen>>

(* The command is handed to its actor, or fails because the actor is gone. *)
PumpActs ==
  /\ Pumping /\ First.status = "ready" /\ First.line \in Commands \ Confirm
  /\ IF Speaker[First.line] \in registry
     THEN /\ queue' = MarkDispatched(queue)
          /\ toActors' = Append(toActors, To(Speaker[First.line], "ACTION", First.line))
          /\ PumpReturns
          /\ UNCHANGED results
     ELSE /\ queue' = FailHead(queue)
          /\ ReportActions({First.line})
          /\ UNCHANGED <<toActors, pc>>
  /\ UNCHANGED <<media, delivered, turnVars, chainVars, actionVars, actor, toGlobal,
                 groupVars, boundVars, speech, voice, ai, gen>>

--------------------------------------------------------------------------------
(* What follows the pump: a follow-up on a finished command, and the start *)
(* of a continuation of the conversation.                                  *)

MayFollowUp ==
  followups # <<>> /\ ai /\ seed /\ turn.id # 0 /\ turn.terminal /\ Idle(queue)

(* submitActionFollowup, accepted.                                         *)
SubmitFollowUp ==
  /\ pc.at = "followup" /\ MayFollowUp
  /\ BeginTurn(NoLine)
  /\ followups' = Tail(followups)
  /\ rechat' = NoChain /\ probe' = NoProbe /\ UNCHANGED seed
  /\ pc' = [pc EXCEPT !.at = "probe"]
  /\ UNCHANGED <<laneVars, confirm, actorVars, groupVars, boundVars, speech, voice, ai, gen>>

(* submitActionFollowup, rejected: the follow-up is lost, and if only the  *)
(* native client refused it, after conversation.begin, so is the turn.     *)
LoseFollowUp ==
  /\ pc.at = "followup" /\ MayFollowUp
  /\ followups' = Tail(followups)
  /\ \E t \in {turn, NoTurn} : NoTurnBegins(t)
  /\ pc' = [pc EXCEPT !.at = "probe"]
  /\ UNCHANGED <<laneVars, chainVars, confirm, actorVars, groupVars, boundVars,
                 speech, voice, ai, gen>>

ChainReady ==
  /\ rechat.id # 0 /\ ~rechat.cancelled /\ ~rechat.inFlight
  /\ seed /\ turn.id # 0 /\ turn.terminal
  /\ CanStartRechat(queue, LinesOf(turn.id))

(* startPlaybackRechatProbe: may be off or suppressed, may find the last   *)
(* speaker gone, or asks the participants for their state.                 *)
StartProbe ==
  IF ChainReady /\ probe = NoProbe
  THEN \/ UNCHANGED <<rechat, probe>>
       \/ rechat' = [rechat EXCEPT !.cancelled = TRUE] /\ UNCHANGED probe
       \/ probe' = [NoProbe EXCEPT !.stage = "states"] /\ UNCHANGED rechat
  ELSE UNCHANGED <<rechat, probe>>

(* The end of poll and of the status handlers.                             *)
HandlerEnds ==
  /\ pc.at = "probe" \/ (pc.at = "followup" /\ ~MayFollowUp)
  /\ queue' = IF pc.then = "poll" THEN ConsumeRechat(queue) ELSE queue
  /\ IF pc.advance \/ (pc.then = "poll" /\ (AdvanceDue(queue) \/ queue.active # NoLine))
     THEN StartProbe ELSE UNCHANGED <<rechat, probe>>
  /\ pc' = AtRest
  /\ UNCHANGED <<media, delivered, results, turnVars, seed, actionVars, actorVars,
                 groupVars, boundVars, speech, voice, ai, gen>>

(* pollRechatEligibility: all states are in, or half a second has passed;  *)
(* submitPlaybackRechat then asks the player script for fresh context, or  *)
(* finds nobody to answer.                                                 *)
ProbeEnds ==
  /\ Resting /\ probe.stage = "states"
  /\ \/ /\ ChainReady /\ ai
        /\ probe' = [stage |-> "context", turn |-> turn.id, chain |-> rechat.id]
        /\ UNCHANGED rechat
     \/ /\ probe' = NoProbe
        /\ rechat' = [rechat EXCEPT !.cancelled = @ \/ ChainReady]
  /\ UNCHANGED <<laneVars, turnVars, seed, actionVars, actorVars, groupVars, boundVars,
                 speech, voice, ai, gen, pc>>

(* The context did not come within a second.                               *)
ContextTimesOut ==
  /\ Resting /\ probe.stage = "context"
  /\ probe' = NoProbe
  /\ rechat' = [rechat EXCEPT !.cancelled = @ \/ (rechat.id = probe.chain /\ rechat.id # 0)]
  /\ UNCHANGED <<laneVars, turnVars, seed, actionVars, actorVars, groupVars, boundVars,
                 speech, voice, ai, gen, pc>>

(* Bug: what was checked when the probe started is not checked again.      *)
ContextFitsStale ==
  /\ probe.stage = "context" /\ rechat.id = probe.chain
  /\ ~rechat.inFlight
  /\ turn.id = probe.turn /\ turn.id # 0 /\ turn.terminal

ContextFits ==
  /\ probe.stage = "context" /\ rechat.id = probe.chain
  /\ ~rechat.cancelled /\ ~rechat.inFlight
  /\ turn.id = probe.turn /\ turn.id # 0 /\ turn.terminal
  /\ CanStartRechat(queue, LinesOf(turn.id))

(* rechatContext: the continuation is submitted, possibly while the last   *)
(* line of the turn it continues is still being spoken (prefetch).         *)
RechatContext ==
  /\ Resting /\ ContextFits
  /\ probe' = NoProbe /\ UNCHANGED seed
  /\ \/ /\ ai
        /\ BeginTurn(queue.active)
        /\ rechat' = [rechat EXCEPT !.inFlight = TRUE,
                        !.prefetch = IF queue.active # NoLine THEN queue.active ELSE @]
     \/ /\ rechat' = [rechat EXCEPT !.cancelled = TRUE]
        /\ \E t \in {turn, NoTurn} : NoTurnBegins(t)
  /\ UNCHANGED <<laneVars, actionVars, actorVars, groupVars, boundVars, speech, voice, ai, gen, pc>>

--------------------------------------------------------------------------------
(* Events from the actors, in the order they were sent.                    *)

Notice == toGlobal[1]

(* Bug: the turn that was prefetched behind a failed line is not dropped.  *)
NeverAbandons(status) == FALSE

(* The line that ends was the origin of a continuation submitted while it  *)
(* was still being spoken, and it was not played to the end.               *)
Abandons(status) ==
  rechat.id # 0 /\ rechat.prefetch = queue.active /\ status # "played"

(* speechStatus with a terminal status that the active line accepts.       *)
SpeechStatus ==
  /\ Resting /\ toGlobal # <<>> /\ Notice.msg = "speech" /\ DialogueActive(queue, Notice.line)
  /\ toGlobal' = Tail(toGlobal)
  /\ LET status == Notice.status
         done   == Completed(queue, status)
         chain  == IF rechat.id = 0 THEN rechat
                   ELSE [rechat EXCEPT !.cancelled = @ \/ status # "played",
                           !.prefetch = IF @ = queue.active THEN NoLine ELSE @]
     IN /\ probe' = IF rechat.id # 0 /\ status # "played" THEN NoProbe ELSE probe
        /\ IF Abandons(status)
           THEN /\ queue' = Cancel(ConsumeRechat(done))
                /\ ReportLines(Undelivered(done))
                /\ Release(Queued(queue))
                /\ speech' = FALSE
                /\ rechat' = [chain EXCEPT !.inFlight = FALSE, !.discard = turn.id]
                /\ turn' = [turn EXCEPT !.terminal = turn.id # 0]
                /\ UNCHANGED pc
           ELSE /\ queue' = ConsumeRechat(done)
                /\ Release({queue.active})
                /\ rechat' = chain
                /\ pc' = ThenPump("status", AdvanceDue(done))
                /\ UNCHANGED <<delivered, speech, turn>>
  /\ UNCHANGED <<results, nextTurn, sent, origin, seed, actionVars, actor, toActors,
                 groupVars, boundVars, voice, ai, gen>>

(* actionResult: GLOBAL submits the result, then completes the command if  *)
(* it is the one the lane is waiting for.                                  *)
ActionResult ==
  /\ Resting /\ toGlobal # <<>> /\ Notice.msg = "result"
  /\ toGlobal' = Tail(toGlobal)
  /\ ReportActions({Notice.line})
  /\ confirm' = confirm \ {Notice.line}
  /\ IF ActionActive(queue, Notice.line)
     THEN LET ended == Notice.line \in Ends /\ Notice.status = "succeeded"
          IN /\ queue' = CompleteAction(queue)
             /\ IF ended THEN ForgetChain ELSE UNCHANGED chainVars
             /\ followups' = IF ended THEN <<>>
                             ELSE IF Notice.line \in FollowUp
                                  THEN Append(followups, Notice.line) ELSE followups
             /\ pc' = ThenPump("status", AdvanceDue(RemoveHead(queue)))
     ELSE UNCHANGED <<queue, chainVars, followups, pc>>
  /\ UNCHANGED <<media, delivered, turnVars, actor, toActors, groupVars, boundVars,
                 speech, voice, ai, gen>>

(* actorCombatStatus for an agent that has become inactive: it leaves the  *)
(* registry, so that the DETACH detachAgent sends no longer reaches it.    *)
ActorStatusInactive ==
  /\ Resting /\ toGlobal # <<>> /\ Notice.msg = "inactive" /\ Notice.from \in attachments
  /\ toGlobal' = Tail(toGlobal)
  /\ registry' = registry \ {Notice.from}
  /\ attachments' = attachments \ {Notice.from}
  /\ UNCHANGED <<laneVars, turnVars, chainVars, actionVars, actor, toActors, present,
                 boundVars, speech, voice, ai, gen, pc>>

(* A status the lane has no use for: the line is not active, the actor is  *)
(* no agent.                                                               *)
IgnoredNotice ==
  /\ Resting /\ toGlobal # <<>>
  /\ \/ Notice.msg = "speech" /\ ~DialogueActive(queue, Notice.line)
     \/ Notice.msg = "inactive" /\ Notice.from \notin attachments
  /\ toGlobal' = Tail(toGlobal)
  /\ UNCHANGED <<laneVars, turnVars, chainVars, actionVars, actor, toActors, groupVars,
                 boundVars, speech, voice, ai, gen, pc>>

(* confirmAction: the player's answer goes to the actor; if it cannot, the *)
(* head of the lane fails.                                                 *)
ConfirmAction(c, approved) ==
  /\ Resting /\ c \in confirm
  /\ confirm' = confirm \ {c}
  /\ IF Speaker[c] \in registry
     THEN /\ toActors' = Append(toActors,
                          To(Speaker[c], IF approved THEN "ACTION" ELSE "REJECT", c))
          /\ UNCHANGED <<queue, results, pc>>
     ELSE /\ queue' = IF queue.items = <<>> THEN queue ELSE FailHead(queue)
          /\ ReportActions(IF queue.items = <<>> THEN {} ELSE {First.line} \cap Commands)
          /\ pc' = ThenPump("none", FALSE)
          /\ UNCHANGED toActors
  /\ UNCHANGED <<media, delivered, turnVars, chainVars, followups, actor, toGlobal, groupVars,
                 boundVars, speech, voice, ai, gen>>

--------------------------------------------------------------------------------
(* Halting.                                                                *)

(* haltActions: the commands that have not begun are reported as           *)
(* cancelled, and so is one that waits for the player's answer; an actor   *)
(* that is performing one reports it itself.                               *)
HaltActions ==
  /\ Resting /\ CountStop
  /\ LET asked == queue.active \in confirm
     IN /\ queue' = CancelActions(queue, asked)
        /\ ReportActions({c \in CancelledActions(queue, asked) : ItemOf(queue, c).status # "queued"})
  /\ confirm' = {}
  /\ toActors' = toActors \o SignalAll("HALT_ACTIONS")
  /\ pc' = ThenPump("none", FALSE)
  /\ UNCHANGED <<media, delivered, turnVars, chainVars, followups, actor, toGlobal, groupVars,
                 speech, voice, ai, gen>>

(* interrupt (the recoverable halt) and stopDialogue, which leaves the     *)
(* actors' own work alone.  Both start a new generation.                   *)
Interrupt(signals) ==
  /\ Resting /\ CountStop
  /\ CancelResponseLane(signals)
  /\ gen' = gen + 1
  /\ NoTurnBegins(NoTurn)
  /\ ForgetChain /\ ForgetActions /\ speech' = FALSE /\ voice' = FALSE
  /\ UNCHANGED <<actor, toGlobal, groupVars, ai, pc>>

StopSpeechAndWork == SignalAll("STOP_SPEECH") \o SignalAll("STOP")

(* setAiEnabled.                                                           *)
DisableAi ==
  /\ Resting /\ ai /\ CountStop
  /\ ai' = FALSE
  /\ CancelResponseLane(StopSpeechAndWork)
  /\ NoTurnBegins(NoTurn)
  /\ ForgetChain /\ ForgetActions /\ speech' = FALSE
  /\ UNCHANGED <<actor, toGlobal, groupVars, voice, gen, pc>>

EnableAi ==
  /\ Resting /\ ~ai
  /\ ai' = TRUE
  /\ UNCHANGED <<laneVars, turnVars, chainVars, actionVars, actorVars, groupVars, boundVars,
                 speech, voice, gen, pc>>

--------------------------------------------------------------------------------
(* The actors' CUSTOM scripts.                                             *)

Tell(a, m, l, status) == [from |-> a, msg |-> m, line |-> l, status |-> status]

FaceNotice(a, status) ==
  IF actor[a].face = NoLine THEN <<>> ELSE <<Tell(a, "result", actor[a].face, status)>>

SpeechNotice(a, status) ==
  IF actor[a].speech = NoLine THEN <<>> ELSE <<Tell(a, "speech", actor[a].speech, status)>>

(* reportDelivery also submits the delivery result to the server.          *)
Say(a, after, notices) ==
  /\ actor' = [actor EXCEPT ![a] = after]
  /\ toGlobal' = toGlobal \o notices
  /\ ReportLines({notices[i].line : i \in DOMAIN notices} \cap Dialogue)

ActorStep == UNCHANGED <<queue, media, results, turnVars, chainVars, actionVars, speech, voice, ai, gen, pc>>

Letter == toActors[1]

Receives(m) == Resting /\ toActors # <<>> /\ Letter.msg = m /\ toActors' = Tail(toActors)

(* Bug: a script that was detached still plays.                            *)
AnyonePlays(a, m) == actor[a].gen = m.gen

(* executor.speak refuses a detached script and another generation.        *)
MayPlay(a, m) == actor[a].attached /\ actor[a].gen = m.gen

(* Playback can always fail; then the line gets its result at once.        *)
ReceiveSpeak ==
  /\ Receives("SPEAK")
  /\ LET a == Letter.to
     IN \/ MayPlay(a, Letter) /\ Say(a, [actor[a] EXCEPT !.speech = Letter.line], <<>>)
        \/ Say(a, actor[a], <<Tell(a, "speech", Letter.line, "failed")>>)
  /\ ActorStep /\ UNCHANGED <<groupVars, boundVars>>

ReceiveSubtitle ==
  /\ Receives("SUBTITLE")
  /\ \E status \in {"played", "failed"} :
       Say(Letter.to, actor[Letter.to], <<Tell(Letter.to, "speech", Letter.line, status)>>)
  /\ ActorStep /\ UNCHANGED <<groupVars, boundVars>>

(* executor.execute: a detached script answers nothing.  One that is       *)
(* attached rejects, finishes at once, or turns to face someone, which     *)
(* takes time.  conversation.end drops a turn in progress and its result.  *)
ReceiveAction ==
  /\ Receives("ACTION")
  /\ LET a == Letter.to
         c == Letter.line
     IN \/ ~actor[a].attached /\ Say(a, actor[a], <<>>)
        \/ /\ actor[a].attached /\ actor[a].gen # Letter.gen
           /\ Say(a, actor[a], <<Tell(a, "result", c, "rejected")>>)
        \/ /\ MayPlay(a, Letter)
           /\ \E status \in {"succeeded", "failed"} :
                Say(a, [actor[a] EXCEPT !.face = IF c \in Ends THEN NoLine ELSE @],
                    <<Tell(a, "result", c, status)>>)
        \/ /\ MayPlay(a, Letter) /\ c \notin Ends /\ actor[a].face = NoLine
           /\ Say(a, [actor[a] EXCEPT !.face = c], <<>>)
  /\ ActorStep /\ UNCHANGED <<groupVars, boundVars>>

ReceiveReject ==
  /\ Receives("REJECT")
  /\ Say(Letter.to, actor[Letter.to], <<Tell(Letter.to, "result", Letter.line, "rejected")>>)
  /\ ActorStep /\ UNCHANGED <<groupVars, boundVars>>

ReceiveStopSpeech ==
  /\ Receives("STOP_SPEECH")
  /\ Say(Letter.to, [actor[Letter.to] EXCEPT !.speech = NoLine],
         SpeechNotice(Letter.to, "interrupted"))
  /\ ActorStep /\ UNCHANGED <<groupVars, boundVars>>

ReceiveHaltActions ==
  /\ Receives("HALT_ACTIONS")
  /\ Say(Letter.to, [actor[Letter.to] EXCEPT !.face = NoLine], FaceNotice(Letter.to, "cancelled"))
  /\ ActorStep /\ UNCHANGED <<groupVars, boundVars>>

(* Bug: the turn towards someone goes on.                                  *)
QuietButTurning(a, attached) == [actor[a] EXCEPT !.speech = NoLine, !.attached = attached]

(* STOP and DETACH end everything the script does.                         *)
Quiet(a, attached) == [actor[a] EXCEPT !.speech = NoLine, !.face = NoLine, !.attached = attached]

LastWords(a) == FaceNotice(a, "cancelled") \o SpeechNotice(a, "interrupted")

(* clearCombatStatus, of a script that was detached and of one that became *)
(* inactive.                                                               *)
Gone(a) == <<Tell(a, "inactive", NoLine, "")>>

ReceiveStop ==
  /\ \/ Receives("STOP") /\ Say(Letter.to, Quiet(Letter.to, actor[Letter.to].attached),
                                LastWords(Letter.to))
     \/ Receives("DETACH") /\ Say(Letter.to, Quiet(Letter.to, FALSE),
                                  LastWords(Letter.to) \o Gone(Letter.to))
  /\ ActorStep /\ UNCHANGED <<groupVars, boundVars>>

ReceiveAttach ==
  /\ Receives("ATTACH")
  /\ Say(Letter.to, [actor[Letter.to] EXCEPT !.attached = TRUE, !.gen = Letter.gen], <<>>)
  /\ ActorStep /\ UNCHANGED <<groupVars, boundVars>>

(* onUpdate finds that the clip has ended; or a vanilla dialogue line of   *)
(* the same actor cuts it off.                                             *)
SpeechEnds(a, status) ==
  /\ Resting /\ actor[a].speech # NoLine
  /\ Say(a, [actor[a] EXCEPT !.speech = NoLine], SpeechNotice(a, status))
  /\ ActorStep /\ UNCHANGED <<toActors, groupVars, boundVars>>

FaceEnds(a, status) ==
  /\ Resting /\ actor[a].face # NoLine
  /\ Say(a, [actor[a] EXCEPT !.face = NoLine], FaceNotice(a, status))
  /\ ActorStep /\ UNCHANGED <<toActors, groupVars, boundVars>>

(* onInactive and onActive.  Becoming active again attaches the script,    *)
(* whatever GLOBAL thinks of it.                                           *)
BecomesInactive(a) ==
  /\ Resting /\ a \in present /\ CountMove
  /\ present' = present \ {a}
  /\ Say(a, Quiet(a, FALSE), Gone(a) \o LastWords(a))
  /\ ActorStep /\ UNCHANGED <<toActors, attachments, registry>>

BecomesActive(a) ==
  /\ Resting /\ a \notin present /\ UNCHANGED boundVars
  /\ present' = present \cup {a} /\ registry' = registry \cup {a}
  /\ Say(a, [actor[a] EXCEPT !.attached = TRUE], <<>>)
  /\ ActorStep /\ UNCHANGED <<toActors, attachments>>

(* manageCandidate and detachAgent: an actor joins the agents (or one that *)
(* joined by itself is chosen by the player), or leaves them.              *)
Attach(a) ==
  /\ Resting /\ a \in registry
  /\ IF a \in attachments THEN CountMove ELSE UNCHANGED boundVars
  /\ attachments' = attachments \cup {a}
  /\ toActors' = Append(toActors, To(a, "ATTACH", NoLine))
  /\ UNCHANGED <<actor, toGlobal, delivered, registry, present>> /\ ActorStep

Detach(a) ==
  /\ Resting /\ a \in attachments /\ CountMove
  /\ attachments' = attachments \ {a}
  /\ toActors' = IF a \in registry THEN Append(toActors, To(a, "DETACH", NoLine)) ELSE toActors
  /\ UNCHANGED <<actor, toGlobal, delivered, registry, present>> /\ ActorStep

(* The native client finishes fetching a clip.                             *)
MediaSettles(l, outcome) ==
  /\ Resting /\ media[l] = "preparing"
  /\ media' = [media EXCEPT ![l] = outcome]
  /\ UNCHANGED <<queue, delivered, results, turnVars, chainVars, actionVars, actorVars,
                 groupVars, boundVars, speech, voice, ai, gen, pc>>

--------------------------------------------------------------------------------
PollEvent ==
  \/ \E l \in Dialogue : PollDialogue(l) \/ PollMedia(l)
  \/ \E e \in SUBSET Dialogue : PollResponse(e)
  \/ \E c \in Commands : PollIntent(c)
  \/ \E ok \in BOOLEAN : PollTerminal(ok)
  \/ TransportFailure

(* The rest of a handler that has begun.                                   *)
HandlerStep ==
  \/ \E refused \in SUBSET Dialogue : Prefetch(refused)
  \/ PumpStops \/ PumpPrepares \/ PumpMediaReady \/ PumpGivesUp
  \/ PumpSpeaks \/ PumpAsks \/ PumpActs
  \/ SubmitFollowUp \/ LoseFollowUp \/ HandlerEnds

ActorReceives ==
  \/ ReceiveSpeak \/ ReceiveSubtitle \/ ReceiveAction \/ ReceiveReject
  \/ ReceiveStopSpeech \/ ReceiveHaltActions \/ ReceiveStop \/ ReceiveAttach

GlobalReceives == SpeechStatus \/ ActionResult \/ ActorStatusInactive \/ IgnoredNotice

PlayerActs ==
  \/ SubmitTyped \/ InterruptOnly \/ SubmitTranscript
  \/ \E c \in Commands, yes \in BOOLEAN : ConfirmAction(c, yes)
  \/ HaltActions
  \/ Interrupt(SignalAll("STOP_SPEECH")) \/ Interrupt(StopSpeechAndWork)
  \/ DisableAi \/ EnableAi

WorldActs ==
  \E a \in Actors :
     \/ \E status \in {"played", "interrupted"} : SpeechEnds(a, status)
     \/ \E status \in {"succeeded", "failed"} : FaceEnds(a, status)
     \/ BecomesInactive(a) \/ BecomesActive(a) \/ Attach(a) \/ Detach(a)

Next ==
  \/ PollEvent \/ PollEnd \/ HandlerStep
  \/ ActorReceives \/ GlobalReceives
  \/ PlayerActs \/ PlayerSpeechComplete \/ SubmitAutonomy
  \/ ProbeEnds \/ ContextTimesOut \/ RechatContext
  \/ WorldActs
  \/ \E l \in Dialogue, outcome \in {"ready", "failed"} : MediaSettles(l, outcome)

Spec == Init /\ [][Next]_vars

(* Handlers run to their end and poll runs every frame.  The engine        *)
(* delivers the queued events, clips end and fetches finish in between:    *)
(* they wait for the handler in progress, and as handlers begin again in   *)
(* every frame, fairness to them is strong.                                *)
Fairness ==
  /\ WF_vars(HandlerStep) /\ WF_vars(PollEnd)
  /\ SF_vars(ActorReceives) /\ SF_vars(GlobalReceives) /\ SF_vars(PlayerSpeechComplete)
  /\ \A a \in Actors : SF_vars(SpeechEnds(a, "played"))
  /\ \A l \in Dialogue : SF_vars(\E outcome \in {"ready", "failed"} : MediaSettles(l, outcome))

FairSpec == Spec /\ Fairness

--------------------------------------------------------------------------------
(* Properties.                                                             *)

InFlight(l, msgs) ==
  {i \in DOMAIN toActors : toActors[i].line = l /\ toActors[i].msg \in msgs}

(* How many actors still owe a report on line l: it is on its way to one,  *)
(* or one is speaking it.                                                  *)
Owed(l) == Cardinality(InFlight(l, {"SPEAK", "SUBTITLE"}))
           + Cardinality({a \in Actors : actor[a].speech = l})

Waiting(l) == IF l \in Queued(queue) /\ queue.active # l THEN 1 ELSE 0

(* Every line the lane has accepted is, at any time, in exactly one of     *)
(* three places: waiting in the queue, owed by one actor, or reported to   *)
(* the server once.  So no interruption, failure, late status or actor     *)
(* that leaves makes the client report a line twice or not at all          *)
(* (cancelResponseLane, pumpResponseQueue and reportDelivery share the     *)
(* duty).                                                                  *)
OneDeliveryResult ==
  \A l \in Dialogue :
     Waiting(l) + Owed(l) + delivered[l] = (IF l \in queue.seen THEN 1 ELSE 0)

(* An actor that came back by itself is not among the agents and hears no  *)
(* stop; its next line takes the place of the one it is speaking, which    *)
(* then has no result at all (executor.speak).  Two it never has.          *)
AtMostOneDeliveryResult ==
  \A l \in Dialogue :
     Waiting(l) + Owed(l) + delivered[l] <= (IF l \in queue.seen THEN 1 ELSE 0)

(* A command never gets a second terminal result: what the lane reports    *)
(* (haltActions, a failed dispatch), what is on its way to an actor, what  *)
(* an actor is doing and what it has answered add up to one at most.       *)
OneActionResult ==
  \A c \in Commands :
     results[c] + Cardinality(InFlight(c, {"ACTION", "REJECT"}))
       + Cardinality({a \in Actors : actor[a].face = c})
       + Cardinality({i \in DOMAIN toGlobal : toGlobal[i].line = c}) <= 1

(* The native client keeps no clip for a line that has left the lane: every *)
(* path on which a line leaves it releases its media (releaseMedia).       *)
NoMediaLeft ==
  \A l \in Dialogue : media[l] # "none" => l \in Queued(queue)

(* A confirmation the player can still answer belongs to the command the   *)
(* lane is waiting for, so that confirmAction can never fail or execute    *)
(* anything else.                                                          *)
ConfirmationIsCurrent == confirm \subseteq {queue.active}

(* No two actors speak at once: an interruption reaches the old speaker    *)
(* before the new one starts (signalAllActors before the next dispatch).   *)
OneSpeaker == Cardinality({a \in Actors : actor[a].speech # NoLine}) <= 1

StopComing(a) ==
  \E i \in DOMAIN toActors :
     toActors[i].to = a /\ toActors[i].msg \in {"STOP_SPEECH", "STOP", "DETACH"}

(* An actor that speaks, and it is the only one, speaks the line the lane  *)
(* waits for, or has just been told to stop.                               *)
NoGhostSpeech ==
  /\ OneSpeaker
  /\ \A a \in Actors :
       actor[a].speech # NoLine => actor[a].speech = queue.active \/ StopComing(a)

(* Between any two steps of the lane: its one active line is at its head,  *)
(* and there are clips only for the lines it still has.                    *)
LaneInv ==
  /\ TypeOK /\ NoMediaLeft
  /\ queue.active # NoLine => queue.items # <<>> /\ First.line = queue.active

(* Whatever the server asked for, speech or action, it hears of once, as   *)
(* long as the actors stay agents of the lane.                             *)
OneResultEach == OneDeliveryResult /\ OneActionResult

(* Whoever comes and goes, it hears of nothing twice.                      *)
NeverTwice == AtMostOneDeliveryResult /\ OneActionResult

(* A continuation that was submitted while the last line was still being   *)
(* spoken has its lines handed to an actor only after that line was played *)
(* to the end: when the playback fails, or anything else takes the line    *)
(* out of the lane first, they are dropped, whether they have arrived or   *)
(* not (prefetchOriginLine and discardTurnId in speechStatus and poll).    *)
ContinuesWhatWasPlayed ==
  [][\A t \in Turns :
       origin[t] # NoLine /\ queue.active # queue'.active
         /\ queue'.active \in ToSet(Script[t].lines)
       => origin[t] \in queue'.played]_vars

(* A dialogue line at the head of the lane that has its clip, or needs     *)
(* none, leaves it: no failed fetch, refused dispatch, lost actor or       *)
(* interruption leaves the lane blocked on it.                             *)
HeadIsServed ==
  \A l \in Dialogue :
     (queue.items # <<>> /\ First.line = l /\ First.status # "waiting_media")
       ~> l \notin Queued(queue)
================================================================================
