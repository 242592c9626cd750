# LORKHAN: a TLA+ verification project

LORKHAN connects a modified OpenMW 0.51 to a local language-model service, so that non-player
characters listen, answer, speak, act and remember.  The mod is a set of Lua scripts inside the game, a
C++ bridge with one worker thread, and an HTTP transport to a loopback server.

This directory holds TLA+ models of its control logic, the TLC configurations that check them on small
instances, and TLAPS proofs.  `PROJECT.json` maps every definition to the lines it models, lists the
hazards of the code, and names for every checked property a plausible bug ("mutant") that violates it.

In this text `LUA/` stands for `src/lorkhan/files/scripts/LORKHAN/`, `CPP/` for
`src/components/lorkhan/`, and `bindings` for
`src/openmw-patches/overlay/apps/openmw/mwlua/lorkhanbindings.cpp` (the copy that is built; the one
under `src/apps/` is older).

## 1. Inventory

### How a turn flows

1. The player types or speaks; `player.lua` sends it to the GLOBAL script.  `orchestrator.submitText`
   interrupts what is being said, begins a turn and calls the bindings.
2. The bindings build a request and call `BridgeService::enqueue`, which checks it field by field.  The
   worker thread takes it and runs `BeastTransport::execute`: one HTTP exchange at a time, whose answer
   is parsed and checked against the request.
3. The server answers "accepted"; the turn's events are fetched by polling.  Every frame GLOBAL calls
   `orchestrator.poll`, which calls the bindings' `poll`, which drains `BridgeService::poll` and moves
   the event cursor, and applies the events to the conversation and to the response queue: streamed
   lines, one response, clips, action intents, one terminal event.
4. `pumpResponseQueue` prepares clips ahead, and hands the head of the queue to the CUSTOM script of its
   actor.  The actor plays or acts, reports the delivery or the action result, and tells GLOBAL, which
   moves the queue on, and may submit a follow-up or a continuation ("rechat") turn.
5. Powers, item transfers and spells take another way: `transfer_actions.lua` has the bindings run them
   on the engine's action queue and retries their receipt.  Diary books are fetched and written likewise.
6. A halt, a new input, a load or a new session raises the *generation*: everything older is stale.

Engine and Lua share one thread.  The worker is a second one.  Lua scripts talk through events that the
engine delivers on a later frame.

### Components

| Component | State | Operations | Hard because of | Correct when |
|---|---|---|---|---|
| Bridge service (`CPP/src/bridge_service.cpp`, `lifecycle.cpp`) | two queues, cancellation registry, generation, halted flag, known/active/published sets | enqueue, poll, cancel, cancelGeneration, halt, workerLoop | two threads, no global lock: each call is several critical sections | one result per request, no lost cancellation, nothing stale delivered, halt ends |
| Bounded queues (`CPP/include/lorkhan/queues.hpp`) | a deque, closed flag | tryPush, waitPop, drain, eraseIf, close, clear | limits, reserved control slots | control results find room |
| HTTP transport and media cache (`CPP/src/beast_transport.cpp`) | the active operation, an io_context, files on disk | execute, interrupt, stop callback | cancellation racing completion, silent servers, crashes between file operations | only its own request is cancelled, ready files are verified, quota holds |
| Request validation and JSON (`CPP/src/bridge_service.cpp`, `beast_transport.cpp`, `protocol_response.cpp`) | none | validateRequest, requestJson, the parsers | some thirty kinds of documents with rules across their parts | the game gets only the answer to its request, in a form it can use |
| Session client (bindings) | session, poll request, cursor, media table, receipts, menu lines, deferred results | requests and the dispatch of polled results | results of requests nobody waits for any more, two lanes draining one queue | every handle settles, every event once and in order |
| Response queue (`LUA/response_queue.lua`) | ordered items, active item, seen ids, rechat flags | enqueue, attach, dispatch, complete, fail, cancel | late and duplicate statuses | every line is reported once |
| Response lane (`LUA/orchestrator.lua`, `conversation.lua`) | turn, queue, rechat chain, probes, confirmations, follow-ups, attachments | submissions, poll, pump, statuses, halts | events in flight while everything changes | the right actor says the right line, once |
| Actor scripts (`LUA/actor.lua`, `actor_executor.lua`) | attached, generation, speech, face action | ATTACH ... STOP handlers, onUpdate, onActive/onInactive | becoming inactive at any moment | every order gets one answer |
| Action commit and transfers (`CPP/src/actions.cpp`, `LUA/transfer_actions.lua`, `actions.lua`, bindings) | retained intents and observations, the commit gate, pending list, spell animation, frozen receipts | retain, execute, run, cast, submit, retry, cancel | retry of a receipt versus repeat of a mutation; closures that run a frame later | a mutation runs at most once and is reported truthfully |
| Diary books (`LUA/diary_books.lua`, bindings) | phase, deadline, attempts; pending closure, frozen receipt | pump, materialise, settle | a timeout while native work goes on | one copy per book, truthful receipts |
| Event cursors (`CPP/src/events.cpp`, `LUA/protocol.lua`) | cursor, seen ids | observe / accept | gaps, duplicates | each event applied once, in order |
| Disposition (`LUA/disposition.lua`) | queue, receipts, attempts | enqueue, pump, observe | at-least-once delivery of adjustments | applied at most once, outcome reported |
| NPC commands (`LUA/npc_manager.lua`) | pending command, return poses | apply, poll | teleports that take effect later | a return pose exists iff the NPC was moved |
| Agent registry, Director (`LUA/agent_registry.lua`, `director.lua`) | agents (32 at most), scenes | manage, detach, scan | actors that vanish | attached agents are registered |
| Save identity and storage (`session_identity.hpp`, `LUA/storage.lua`, `identity.lua`) | ids in the save | load, new game, resume | loading an older save | a session is marked as loaded when a load began it |
| Autonomy, voice, narrator (`LUA/orchestrator.lua`, `global.lua`) | cooldowns, queues, targets | submissions | competition with the player | the player wins |
| Voice capture (`CPP/src/voice_capture.cpp`) | device, buffer, silence detector | start, stop, finish | a device thread | the buffer is complete |
| Engine adapter; player script and UI; patches, build, schemas | none that matters here | - | - | - |

The hazards, each at its line, are in `PROJECT.json`; those that no property covers have a note.

## 2. Modules

| Module | Models |
|---|---|
| `BoundedQueue`, `BridgeService` | the queue operations, and the bridge with every interleaving of both threads |
| `BridgeServiceProofs` | its inductive invariant and safety theorems |
| `BeastTransport` | execute, interrupt, the media cache, crashes |
| `WireFormat`, `WireExchange` | the documents of the protocol, and the exchange of one request for one of them |
| `SessionClient`, `Mailbox` | the session over the bridge; what the GLOBAL lane is promised about results (abstract) |
| `ResponseQueue`, `ResponseLane` | the queue of the GLOBAL script as operators on a record; the lane of GLOBAL, the actor scripts and the events between them |
| `NativeTransfer`, `DiaryBooks`, `Disposition`, `Deeds` | changes of the game world that the server asks for; what it is promised about them (abstract) |
| `NpcCommands` | operator commands that move an actor or the player, and the way back |
| `SideLanes` | diary books, dispositions and NPC commands over one session |
| `Parts`, `PartsProofs` | the subsequence of a sequence at some of its indices, and lemmas about it |
| `NativeTransferProofs` | its inductive invariant, and that it implements `Deeds` |
| `SideLanesProofs` | the inductive invariants of `DiaryBooks`, `Disposition` and `NpcCommands`, the last two also in `SideLanes`; that the first two implement `Deeds`; `NpcInv` |
| `BeastTransportProofs`, `WireExchangeProofs` | the inductive invariants behind the safety properties of the transport and of the exchange |
| `SessionClientProofs` | folds over queues, and the inductive invariants behind the order of the events, the sessions, the menu lines and those who wait |
| `ResponseLaneProofs` | lemmas about the operations of `ResponseQueue`, and the inductive invariants behind the lane's accounts, voices and continuations |
| `MC...` | instances for TLC |

### BoundedQueue and BridgeService

One action is one critical section or one atomic access.  The engine thread's call in progress is
`engine` (an operation and the ids it holds); `cancel`, `cancelGeneration` and `halt` are chains of
actions `CancelStop -> CancelFind -> CancelPublish -> CancelInterrupt`, `FenceStop -> ...
-> FenceInvalidate`, `HaltBegin -> ... -> HaltForget`.  The worker's program counter and locals are
`worker`; `WorkerPop -> WorkerHalted -> WorkerToken -> WorkerGeneration -> WorkerActivate ->
ExecuteBegin -> ExecuteReturn -> WorkerStop -> WorkerDeactivate -> WorkerDecide -> WorkerPublish or
WorkerPush -> WorkerComplete` is one iteration of `workerLoop`.  The generation and the halted flag
have one writer, the engine thread, so its own reads of them are part of the step that uses them, and
`enqueue`, of which the worker sees only the push, is one action.  The transport is external here: it
returns an answer, a mismatching answer or an error, at once if it is interrupted.

### BeastTransport

`pc` follows `execute` through its four network stages and the seven file steps of a media download.
`posts` holds the cancel handlers posted to an operation's io_context, by the stop callback or by
`interrupt`, which looks the operation up under the mutex and posts after releasing it (two actions).
The network completes, fails or never answers; the stage's timer may fire; `Crash` keeps the files and
loses the rest.  A file is absent, good (its hash matches) or bad; every file counts one against the
quota; a rename replaces its target on POSIX only, so both platforms are initial states, and the cache
may hold anything an earlier process left.

### WireFormat and WireExchange

A document is a record of the fields its parser reads; a value is good (`Ok`), refused by its field's
own check (`Bad`), `Null`, or one of a few values that the rules across fields tell apart.  `WireFormat`
has one operator per parser: what it requires beyond each field's own check.  `WireExchange` is
`validateRequest`, the choice of path and the serialisation (`Enqueue`, `Send`), `validateResponse` and
the typed errors (`Receive`).  The instance enumerates, for every kind, the well-formed requests and
answers and every one with a single mistake at any level.  `ServerCodes` says which codes of the server
each of the client's own error codes stands for, and `protocolCode` reads that table the other way.

### SessionClient and Mailbox

`client` is `NativeClient` with the queues of its bridge.  The bridge is reduced to what its user can
tell: a request is executed at the head of the outbound queue, and whether its execution has begun is a
choice wherever it matters.  `Poll` drains the inbound queue, replays the results that pumps deferred,
retries a handshake and schedules the next poll, all in one step as in the code.  `cancelGeneration`
keeps what the code keeps.  Choices made in this model: ids are recycled once nothing holds them; menu
and speech clips have distinct media ids; a second choice of character (`choose`), which no script makes
today, happens when the rejected handshake is over; re-parsing a result in `poll` cannot fail.

`lost` holds the requests of this generation whose result found the inbound queue full, and `cut` the
downloads that the last fence cut off: `cancelGeneration` clears every request that someone waits for, but
of the clips only those of menu lines, so the clips of spoken lines stay in the table, being prepared for
ever.  `plays` is what becomes of menu lines outside the bindings: `player.lua` hands a line that is ready
to its actor once (`speakMenuClip`), and each line that was handed over may release its clip once, at
its end, when it is stopped or replaced or cannot be played (`LUA/actor.lua:97`, `:148`, `:210`,
`LUA/global.lua:586`), perhaps long after `player.lua` has cancelled it.  `releaseMedia`, unlike
`cancelMenuDialogueTts`, does not ask whether another line waits for the clip.

`Mailbox` is the abstract promise: the results of a generation are taken in the order they came, except
those of a kind that a pump may take early.

### ResponseQueue and ResponseLane

All Lua runs on one thread, so a handler is atomic with respect to other handlers; handlers that run
`pumpResponseQueue` are split into steps under `pc`, during which nothing else runs.  `toActors` and
`toGlobal` are the engine's event queues.  The server is free within its protocol, per turn of the
constant `Script`.  Accepted results are counted per line (`delivered`) and per command (`results`).
`media` is the native client's table of clips.  The queue's operations filter with `Part`, a
recursive function, so that they can be reasoned about.  Timeouts (of the rechat probe and of the context
request) are actions that may happen at any time.  `voice` says that there is a recording, or its
transcript, that nothing has superseded: starting one interrupts the lane, its transcript is submitted
later without another interruption, and typed text or a halt in between drops it
(`LUA/orchestrator.lua:139`, `:1466`).  `origin` is a history variable: the line that was being spoken when
a continuation was submitted.

Left out of the lane: advanced (native) actions, which `NativeTransfer` has, Director scenes, narrator
and menu dialogue, wait-here, save lifecycle and `hardHalt`.  `conversation.deactivate` is not called by
the program.  The 256-entry memory of seen ids and the 64-iteration limit of the pump are not reached by
the instances.  After an interruption the native client has no session until the new generation is
configured; the model keeps one generation for both.

### NativeTransfer, DiaryBooks, Disposition and Deeds

`NativeTransfer` has the native record of an intent (status, commit gate, spell hook, receipt), the
observations of turns, the list of `transfer_actions.lua`, the engine's action queue, and one spell
animation.  `gen` stands for the pair of session and generation.  An intent comes once and a turn is
submitted once; receiving a receipt's result and settling it are one action (`Answer`).  `asked` says
where the lane has an action: what has not been handed over is cancelled by `haltActions`, which reports
it once, or dropped by `cancelResponseLane` (typed text, a recording, AI off, an inactive target, a failed
playback, and at the start of `Fence`) without a report; both cancel advanced actions natively, also those that are handed over.  `Cancel` is the
actor's stop, of those only.  `stray` counts spells launched at a target of the engine's own.

`DiaryBooks` has `diary_books.lua` phase by phase, the bindings' members for it, and the closures in the
engine's queue; a closure's serial is reduced to whether it is still the current one (`live`).  The
server offers its oldest unanswered delivery.  The text of a book is the delivery it was written from.
Loading an older save, which would take a book away, is not modelled.

`Disposition` has `disposition.lua` (the waiting adjustments, their receipts, the cache of the last
observation) and the bindings' table of submissions, in `client`.  An adjustment may be sent again by
the server at any time; the game may refuse it; a submission may fail, arrive although it failed, or
lose its result.  `Scoped` is the reset that the first call in another session makes.  One actor, whose
reading is one of two; an adjustment belongs to the session it first came in.

`Deeds` is the promise the three keep: each deed is done at most once, one verdict is given, "succeeded"
only of what was done, "cancelled" and "rejected" only of what never will be.

### NpcCommands

`Take`, `Timeout` and `Hear` are `player.lua`, which has one command at a time and gives up after 25 s;
`Start` and `Poll` are `npc_manager.lua`, which schedules a teleport and watches for 20 s whether it has
happened; `Teleporting` is the engine at the end of the frame.  `ticket` is the pose kept in
`state.returns`, saved with the game; `away` is history: where the actor was summoned from and has not
come back to.  Any call may throw after its effects so far.  A place stands for a cell and a pose.

### SideLanes

Diary books, dispositions and NPC commands share the session (`gen`, `ready`) and nothing else.  `SideLanes`
has all three as lanes; a behaviour runs one of them, chosen at its start, and `EveryLaneSettles`
says of the lane that runs that it comes to rest.  Their fairness is stated there.

## 3. Runs

| Run | Instance | Checks | Distinct states |
|---|---|---|---|
| `bridge` | 2 requests, both queues of 2 with 1 reserved, 2 generations | `BridgeInv`, `CurrentResultsOnly`, `HaltLeavesNothing`, `NoLostInterrupt`, `OneOfEach`, `StartsOnlyLive`, `HaltCompletes`, `EveryRequestSettles` | 114 k |
| `bridge_dropped_result` | 3 requests, inbound queue of 2 | `NoResultDropped` is **violated** | - |
| `transport` | a plain request and a download, quota 2, 1 interrupt, 1 crash, any leftover in the cache | `CacheInv`, `StopsArrive`, `OnlyVerified`, `ExecuteReturns` | 41 k |
| `wire` | every kind of document, well-formed and with any single mistake | `SentAsItself`, `OnlyItsOwnAnswer`, `PowerNeedsConsent`, `AnswersAreUsable` | 55 k |
| `session` | every request but menu lines, queues of 2, 2 asks, 2 generations, 1 event | `SessionInv`, `EventsInOrder`, `NobodyWaitsForNothing`, `ResultsInOrder` | 0.9 M |
| `session_menu` | menu lines that share a clip, 3 asks, 1 generation | `MenuFollowsItsClip`, `EventsArrive`, `HandshakeEnds` | 209 k |
| `lane_talk` | two turns of speech by two actors, 1 stop | `LaneInv`, `OneResultEach`, `NoGhostSpeech`, `ContinuesWhatWasPlayed` | 1.2 M |
| `lane_act` | a line and two commands (confirmation, follow-up, end of conversation), another turn, 1 stop or 1 move | `NeverTwice`, `ConfirmationIsCurrent` | 1.5 M |
| `lane_live` | a spoken and a subtitle line, 1 stop | `HeadIsServed` | 43 k |
| `transfer` | a power and a spell of two turns, 1 observation, 1 list place, 2 generations, 1 failure | `TypeOK`, `KeepsItsWord`, `OnlyWhileAsked`, `LeavesTheList` | 280 k |
| `transfer_spell` | the same, list of 2 | `NoFallbackCast` is **violated** | - |
| `side_lanes` | 3 deliveries of 2 books; one adjustment, 2 readings; 2 commands, 2 places; 2 generations | `DiaryInv`, `NpcInv`, `KeepsItsWord`, `OnlyWhatIsAwaited`, `AppliesOnce`, `EveryLaneSettles` | 310 k |

What they show, and why the bounds are enough:

- **Bridge.** Whatever the interleaving of `cancel`, a fence or `halt` with the worker, a request gets
  at most one `cancelled` result and one other, a stop is never lost between the worker's token check
  and `execute`, no result of a fenced generation reaches Lua although the worker may push one after
  the sweep, and when `halt` has returned nothing is left.  What is queued or running can be cancelled
  through the registry, and within a generation the registry holds nothing else; the entries of requests
  that a fence erased from the queue stay, stopped (`BridgeInv` excepts exactly these).  Two requests make one queued and one
  executing possible; the limits of both queues are met because one place of two is reserved.  The
  safety part is proved for all sizes (section 4).
- **Transport.** `interrupt` cancels no operation but its own however late it posts.  A request stopped
  before the last test of its token never succeeds.  After any crash what is reported ready is
  verified, and the quota bounds everything on disk.  The cache starts with whatever an earlier
  download, or its crash, may have left, which is why one download is enough.
- **Wire.** What is queued goes out for its own session and generation and with a key that identifies
  a repetition; an answer is believed only as the answer to the request that was sent, typed errors
  included; a response that is accepted can be played line by line; a change of the world reaches the
  native executor only with the server's explicit word on confirmation.  The parsers look at fields one by one except
  for the rules across fields, so a single mistake at any level exercises every check by itself.
- **Session.** Every event reaches the GLOBAL script once and in order although polls are cancelled,
  given up or drained by a pump of another lane and replayed; one session a generation, marked as a
  loaded save exactly if a load's fence began that generation; nobody waits for a result that nobody will
  give, but for the downloads of spoken lines that a fence cuts off (`NobodyWaitsForNothing` names them).
  That is less than that the server learns of every load, see below.  Two requests compete for two
  places, so that every queue meets its limit; two generations, which is one fence, let every late result
  meet the next one; the proofs cover any number of fences.
  The requests of menu speech have a run of their own because they take the place of the poll, which
  also is where liveness is in doubt.  It has no fence, because a fence cancels every menu line; it has
  two lines with one clip, of which one may be spoken, cancelled and released late.
- **Lane.** Every accepted line is at any time waiting, owed by one actor, or reported once, while the
  actors stay agents (`lane_talk`), and is never reported twice whoever comes and goes (`lane_act`); no
  command gets two results; clips are released on every path; a confirmation never outlives its command.  One
  "stop" (halt, stop, AI off, recording) at any moment and two turns make late statuses of the old turn
  meet the new one; one move lets an actor leave and return.  `PrefetchDepth` is 1 instead of 3: with
  two or three lines a second prefetched clip adds no new case.
- **Transfers.** A power that runs at once and a spell that runs at the end of its animation, each at
  most once and truthfully reported, whatever is retried, stopped, forgotten or interrupted, and never
  after the cancellation of its turn was read.  A list of one place and one retained observation make both limits bite with two
  actions.
- **Side lanes.** Diary: three deliveries, two of them of the same book with another between them, so that a book
  is rewritten after a different one.  Three troubles (a lost or failed answer, a pause, a failing
  engine) allow both attempts at one delivery to fail.  Disposition: one adjustment that comes again, is
  reported again and meets a fence while its receipt is on its way; adjustments share nothing but the
  limits, which the proof covers for every size.  NPC commands: two commands suffice for a summons and
  its return, or for a command given up and the next one; one walk and one saved game put the actor
  elsewhere between any two steps.

Deadlock checking is off except for `wire`: the systems may come to rest (a halted bridge, all turns
played, all deliveries answered).

### Fairness

- `BridgeService`: weak fairness of both threads, of the engine finishing the call it is in, and of its
  polling (`orchestrator.poll` runs every frame).  It assumes that `execute` returns; that is what
  `ExecuteReturns` establishes.
- `BeastTransport`: weak fairness of both threads, nothing of the network.  `StopEndsExecution` needs no
  more.  `ExecutionEnds` is conditional on timers firing, as each stage arms one.
- `SessionClient`: GLOBAL polls on every update (`FairPoll`, which is WF of the poll, with its
  enabledness written out), every request is answered in the end, and a poll that is repeated for ever
  is not refused for ever.
- `ResponseLane`: a handler that has begun finishes, and `poll` runs (weak).  The engine delivers events,
  clips end and fetches finish: these wait for the handler in progress, and handlers begin again every
  frame, so fairness to them is strong.  Nothing is assumed of the server or of the player.
- `NativeTransfer`, and the lanes of `SideLanes`: the pumps run every frame and time passes, the engine
  runs its queue every frame, the transport answers every request, a handshake ends; an adjustment is
  applied or expires; `player.lua` looks at its command on every frame.

### Findings

1. `bridge_dropped_result`: a result that meets a full inbound queue is discarded, its request is
   completed without any result (`bridge_service.cpp:465`); `docs/ARCHITECTURE.md:40` promises an
   explicit result code.
2. `transfer_spell`: the first turn of a new session empties the native table of intents
   (`bindings:953`).  A spell whose animation is still running is then without its hook, and the engine
   launches it at a target of its own; the comment at `bindings:1264` says that the hook stays "to
   prevent target fallback".

Observed while modelling, without a run.  Those of the first group follow from the models, which contain
the path, and are why a property is stated as it is:

- A command that reaches a script which has just been detached gets no answer
  (`LUA/actor_executor.lua:13`; `docs/LUA-MOD-ARCHITECTURE.md:55`: "reports exactly one terminal result
  to GLOBAL"), cancelling the lane drops accepted commands without one (`LUA/orchestrator.lua:117`), and
  `conversation.end` cancels a pending face action without one (`LUA/actor_executor.lua:28`).  So
  `OneResultEach` bounds the results of a command from above only.
- `interrupt` raises the generation and nothing tells the attached agents, which then refuse every later
  line (`LUA/orchestrator.lua:1620`).
- A late status of an interrupted line completes a subtitle-only line that is active by then
  (`LUA/response_queue.lua:218`).  A streamed line whose clip never comes blocks the lane, so
  `HeadIsServed` excludes `waiting_media`.
- A continuation may be submitted while the line it continues still plays, although
  `docs/ARCHITECTURE.md:65` and `docs/PROTOCOL.md:127` want that line played first.
  `ContinuesWhatWasPlayed` shows that to be harmless: if the line is not played to the end, the
  continuation is never heard.  A continuation submitted on an *empty* lane has no such guarantee.
  `pendingRechat` does not remember whose line set it: an autonomous reply is still being spoken when a
  transcript is accepted; its last line sets the flag, the transcript's own line is given up because its
  clip failed, its command ends, and the turn continues behind a line that nobody heard
  (`LUA/response_queue.lua:211`, `:251`).  Model checking found it on an instance with three turns; the
  property is therefore about continuations submitted ahead of time.
- An actor that left and returned after GLOBAL dropped it is in the registry again but not among the
  attachments, so no STOP_SPEECH reaches it (`LUA/orchestrator.lua:61`).  It speaks on after an
  interruption, and its next SPEAK overwrites the line that it was speaking, whose delivery is never
  reported.  So `NoGhostSpeech` and `OneResultEach` are checked without moves and proved under `[]Agents`
  (every actor stays attached), and with moves it is `NeverTwice` that is checked and proved.
- The receipt of an action is refused natively when GLOBAL's list is full and the record still awaits
  confirmation (`transfer_terminal_mismatch`), and likewise when an actor rejects after the turn was
  cancelled: the server is never told.  `LORKHAN_ACTION_RESULT` does not check the session it belongs
  to.  An action beyond the native table of 256 is retried for ever, and a receipt whose result is lost
  stays pending for ever, so `LeavesTheList` excludes both.  A cancelled spell whose animation breaks
  off keeps its hook and blocks later casts.
- A disposition submission whose result is lost stays pending natively for ever; 128 of them fill the
  table and no more are accepted in that session (`bindings:2397`).  An observation whose result is lost
  is not sent again until the reading changes, and a receipt given up after 30 s may have arrived all
  the same and leave the server with an older reading; `ReadingKnown` leaves both out.  After 128
  receipts a session ignores further adjustments.  Attempts are used up while the actor cannot be read.
- The ticket is kept when scheduling the teleport throws (`LUA/npc_manager.lua:128`), and later teleports
  of that actor are refused as `return_pending`: nobody is stranded, but the command is.  A command of an
  older session that reaches GLOBAL gets no verdict there, so the player waits out its 25 s, and the
  verdict of a timeout is submitted to whichever session is open.
- A load is not told when another fence overtakes it: a halt or stop of the player's between the load and
  the accepted handshake calls `cancelGeneration` without `loadedSave` (`LUA/orchestrator.lua:1621`,
  `:1642`), which clears the mark and the calendar (`bindings:2684`), and the session that opens then omits
  `loaded_save`.  `docs/PROTOCOL.md:287` has an actual loaded save include it.  `LoadedAsBegun` is
  therefore about the fence that began the generation, and says nothing of such a load.
- A release of a menu clip that arrives late takes it from under another line that still waits for it
  (`bindings:2180`; the cancellation of a line checks that at `:1966`): a line is spoken and cancelled while
  it plays, the same clip is downloaded for the next line, and then the actor reports its end.  The next
  line is "preparing" until `player.lua` cancels it.  `MenuFollowsItsClip` excepts clips that were released
  and not downloaded again; without the exception model checking finds this behaviour.
- The requests that a fence erases from the outbound queue keep their entries in the cancellation
  registry until `halt` (`bridge_service.cpp:364`).  They are stopped, so nothing but memory is lost.
- After `halt` a deferred failure that the next poll replays makes the status "ready" again, and
  `configureCharacter` reports "connecting" for ever: `HandshakeEnds` excludes it.
  A clip of a spoken line whose download a fence cut off stays "preparing" until the lane releases it
  (`bindings:2675`).  A `beginSession` that the outbound
  queue refuses is not retried.  Contrary to the comment at `bindings:2262` a panel can be stranded by a
  result that a full inbound queue discards; the properties allow for `lost`.
- `enqueue` never uses the reserved outbound slots that `docs/ARCHITECTURE.md:97` describes
  (`bridge_service.cpp:317`).
- The parsers and the schemas differ: `settings_editor` keys have a pattern in the schema and in
  `validateRequest`, not in `parseControlsResponse`; `destination_id` of a player teleport is limited to
  64 and to 128; `retry_after_ms` to 2^63-1 and to 2^53-1; `docs/PROTOCOL.md:64` wants an empty autonomy
  array, the parser takes up to three entries.  `parseEventsResponse` does not compare the sequence
  numbers with `after`, nor `next_after` with the last of them.
- `docs/PROTOCOL.md:187` says that a gap in the event cursor forces a replay.  The poll of the bindings
  and the Lua mirror (`LUA/protocol.lua:474`) accept gaps; the native tracker that refuses them
  (`CPP/src/events.cpp`) is used by tests only.

## 4. Proofs

**`BridgeServiceProofs`**, for every set of requests, every capacity and every bound on the generation,
from `BridgeAssumption` alone (requests exist, capacities are naturals larger than the reserve, the
bound is positive):

| Theorem | Statement |
|---|---|
| `TypeCorrect`, `Inductive` | `Spec => []TypeOK`, `Spec => []IInv` |
| `AtMostOneCancelled`, `AtMostOneAnswer`, `AtMostOneOfEach` | `[]OneCancelledResult`, `[]OneAnswer`, and both: `[]OneOfEach` |
| `AlwaysCancellable`, `NoInterruptIsLost` | `[]Cancellable`, `[]NoLostInterrupt` |
| `RegistryHoldsLiveWork` | `[]RegistryAccounted`: until `halt`, an entry without work was stopped by the fence of its generation |
| `RegistryMatches` | `[]RegistryMatchesWork`: that, and whatever is queued or running has its entry |
| `BridgeInvHolds` | `[]BridgeInv`: types and the registry |
| `HaltIsFinal` | `[]HaltLeavesNothing` |
| `OnlyCurrentResults` | `[]CurrentResultsOnly` |
| `OnlyLiveRequestsStart` | `Spec => StartsOnlyLive` (an action property) |

None of these is inductive alone.  `IInv` conjoins, besides `TypeOK` and `Bounded`:

- `Placement`: a request is in one queue slot, with the worker, or nowhere, and is registered in the
  first two cases; `active` and `owner` are determined by the worker's program counter;
- `CallsInProgress`: what a half-done `cancel`, fence or `halt` has established so far;
- `Publication`: who may still publish `cancelled` for a request and who already has. This is what the
  race between `cancel` and the worker's decision needs: a claim in `published` excludes the
  other side at every pair of program counters;
- `Stopping`: a fence stops every registered request before it moves the generation, and an executing
  request that is stopped but not interrupted has a call on its way that will interrupt it.

Each part has a step lemma with one case per action (`PlacementStep`, `CallsStep`,
`PublicationStep`, `StoppingStep`); lemmas about the queue operators (`EraseKeeps`, `InsertType`,
`DrainType`, `PopQueue`, `SweepQueue`) carry the sequence reasoning.

**`ResponseLaneProofs`**, for every script, every set of actors and of lines, every choice of commands
and every bound, from `ScriptAssumption` (a response has a line and none twice; the actors are finitely many),
`LineIdAssumption` (line ids are UUIDs: no two turns share one) and `LaneAssumption` (lines and commands
are different things, and "none" is neither):

| Theorem | Statement |
|---|---|
| `LaneInductive` | `Spec => []LaneHolds` |
| `LaneInvHolds` | `[]LaneInv`: types, the active line is at the head, clips only for queued lines |
| `ConfirmationHolds` | `[]ConfirmationIsCurrent` |
| `NeverTwiceHolds` | `[]NeverTwice`: no line and no command is reported twice, whoever comes and goes |
| `OneResultHolds` | `Spec /\ []Agents => []OneResultEach`: while the actors stay attached no line is lost either |
| `NoGhostSpeechHolds` | `Spec /\ []Agents => []NoGhostSpeech` |
| `ContinuesHolds` | `Spec => ContinuesWhatWasPlayed` (an action property) |

A property that counts over the queue, two mailboxes and all actors is proved by saying where each line
may be.  `LineOnce(l)` and `CommandOnce(c)` are ledgers: waiting in the lane, in a letter to an actor,
with an actor, in an answer (a command only), reported; at most one of these, and none before the
queue has seen the id.  They need that letters and notices are about what their kind says (`Lettered`,
`Noticed`), that no line is queued twice and the active one is first (`Orderly`), and that a speech
status is on its way only after its delivery was reported (`StatusAfterResult`), which is why a late
status completes the active line without a second report.

The lane has some thirty handlers.  Lemma `Kinds` says that each is of one of three kinds: a step of the
lane that lets go of lines, signals actors or does neither (`LetGoes`), the one that tells an actor to
speak (`PumpSpeaks`), and a step of an actor (`Talks`).  The ledgers are then shown for each kind once (`LedgersKept`,
`LedgersTalk`).  That a handler is of its kind rests on what the operations of the queue do:
`Grows` (lines are added at its end, each not seen before: `EnqueueGrows`, `StreamedGrows`, ...) and
`HeadDrops`, `CancelDrops`, `CancelActionsDrops`.

`Staying` is what holds while `Agents` does.  `Accounted`: a line that was seen is in one of its places.
`Voices`: an actor that speaks what the lane no longer waits for, and any SPEAK on its way for such
a line, has a stop behind it in the same mailbox, and between two SPEAKs there is a stop for the first
speaker.  It is the order of the letters that makes the new speaker begin after the old one has ended;
`OneAtATime` alone is not inductive.

`ChainInv` is the history of the continuations.  The line that turn *t* was submitted behind was played,
or is still being spoken by the chain that will notice its failure (`Held`), or was not, and then nothing
of turn *t* is queued or will be heard (`Withdrawn`).  Handlers that leave the turn alone keep the active
line and add only lines of the turn that is heard (`Keeps`, `SameTurnKeeps`); a new turn can only begin
when no earlier one is `Held` (`NewTurnKeeps`): because the lane is idle or interrupted, because a
recording excludes a chain (`voice => rechat.id = 0`), or because the active line belongs to the turn that
continues now; and a line that ends in any other way than `played` withdraws its continuation
(`StatusKeeps`).

**Diary books** (in `SideLanesProofs`), for every list of deliveries and every bound, from `DiaryAssumption`:

| Theorem | Statement |
|---|---|
| `Inductive` | `Spec => []IInv` |
| `DiaryInvHolds` | `[]DiaryInv`: types, true receipts, nothing left over that refuses the next request |
| `OnlyWhatIsAwaitedHolds` | `Spec => OnlyWhatIsAwaited` (an action property) |
| `DiaryKeepsItsWord` | `Spec => KeepsItsWord`: `DiaryBooks` implements `Deeds` |

That a success means the text of that delivery or a later one is not inductive: a closure of a delivery
that was given up could write an older text over it.  `IInv` therefore adds `Control` (an open session
and its scope; what the bindings hold is what GLOBAL waits for; a closure that may still write is the
one GLOBAL waits for) and `Truth` (deliveries are written in order and only while they are unanswered; a
success under way has been written; a book is handed out exactly when it has a text).  The order of the
deliveries is what makes a rewritten book never go back.

**`NativeTransferProofs`**, for all actions, turns, kinds, capacities and bounds, from
`TransferAssumption` (each action has a kind and a turn; capacities are positive):

| Theorem | Statement |
|---|---|
| `Inductive`, `TypeOKHolds` | `Spec => []IInv`, `Spec => []TypeOK` |
| `OnlyWhileAskedHolds` | `Spec => OnlyWhileAsked` (an action property) |
| `KeepsItsWordHolds` | `Spec => KeepsItsWord`: `NativeTransfer` implements `Deeds` |

`Deeds` speaks of the world and the server; between them are the native record, GLOBAL's list, the
receipt being carried and the closures in the engine's queue, and what keeps the promise is that these
agree.  `IInv` adds to `Types`:

- `Scoping`: which generation turns, tables and closures belong to.  A closure carries the generation
  of its turn, so that one of an older session finds itself out of date;
- `Stops`: a record of a stopped turn that is still open finds the observation of its turn marked
  cancelled when it is run.  This is `NothingAfterTheTurn` one step earlier;
- `Truth(a)`: all that was, is being or will be said of an action is one word, and a true one
  (`OneWord`); a record's status is what its action has come to (`Recorded`); of an action GLOBAL has
  not taken on nothing is known (`Untaken`); GLOBAL's list repeats the record, or reports its absence
  as a failure (`Listed`).

Most steps concern one action.  `CancelRecord`, `ExecuteRecord`, `FinishRecord` and `SubmitRecord` say
what the operators do to one record; `MoveTruth`, `OutcomeTruth` and `SameTruth` when that keeps
`Truth(a)`; `OneActionStep` carries it to all of `IInv`.

**`SideLanesProofs`**, for every set of adjustments, readings and places, every number of commands and
every bound, from `SideLanesAssumption` (the two begin at places; "none" is no place) and `DiaryAssumption`:

| Theorem | Statement |
|---|---|
| `LanesInvariant` | `LanesSpec => []Lanes`: the invariants of the lanes below, whichever lane is running |
| `AppliesOnceHolds` | `LanesSpec => AppliesOnce`: `Disposition` implements `Deeds` |
| `NpcInvHolds` | `LanesSpec => []NpcInv`: types, the way back, true verdicts |
| `DispositionInductive`, `AppliesOnceAlone` | `D!Spec => []DInv`, `D!Spec => D!AppliesOnce` |
| `NpcInductive`, `NpcAlone` | `N!Spec => []NInv`, `N!Spec => []N!NpcInv` |

The last two lines are about a lane by itself, which changes sessions as it likes; the others about
the specification that the run checks.  `DInv` says what is on its way says what the receipt says
(`Honest`), submissions belong to the session of the client's state (`InScope`), and a `Ledger`: a
waiting adjustment was never touched, a retained outcome is what happened, and one that came in this
session and has no receipt is untouched.  The last is why a repeated adjustment is not applied again:
the receipt outlives the submissions.

In `NInv`, `Whereabouts` needs what is still to happen: a summons under way has its ticket already, a
watched return goes to the place of the ticket it will give up, the teleport under way is the one
watched, and a saved game has the way back too.  `Orderly` follows a command through its order, move,
answer and verdict: an order is on its way once, and "rejected" is said only when the order is spent
and no teleport for it remains.

**`BeastTransportProofs`**, for every set of requests and media, every size of the cache and both
platforms, from `TransportAssumption`:

| Theorem | Statement |
|---|---|
| `Inductive` | `Spec => []IInv` |
| `CacheInvHolds` | `[]CacheInv`: types, the quota, and no temporary file left behind |
| `StopsArriveHolds` | `[]StopsArrive`: a stop reaches its request, and that request alone |
| `OnlyVerifiedHolds` | `Spec => OnlyVerified`: only verified files are reported ready, and a good one stays (action properties) |

The quota is a statement about a count of files, and a download adds to them long after it asked for
room.  `Reserved` says that from the answer of the quota check until its first file exists a download
has its place, and `OwnFiles` what the two files of a download are at each of its steps; the rest is
arithmetic on the count (`CountWrite`, `CountRemove`, `FilesCounted`, `SpaceStep`).  For `StopsArrive`
the proof needs where the execution is (`Control`), that posts and calls under way are for
stopped requests (`StoppedOnly`), and that a request stopped before there was an operation to find still
has a test of its token ahead (`TestAhead`).

**`WireExchangeProofs`**, for every set of request documents and of answers, assuming `Setting`
(requests are of the kinds of `lorkhan::RequestKind`, an answer is something, and `Null` is not the name
of a field):

| Theorem | Statement |
|---|---|
| `Inductive` | `Spec => []IInv` |
| `SentAsItselfHolds` | `[]SentAsItself` |
| `OnlyItsOwnAnswerHolds` | `[]OnlyItsOwnAnswer` |
| `PowerNeedsConsentHolds` | `[]PowerNeedsConsent` |

`IInv` remembers what each phase of an exchange has found out.  The content is in the lemmas about
the tables of `WireFormat`: `RouteNames`, `RouteKey` and `RouteEchoed` (for each kind, the path it is
sent to, the key it carries and the field its answer repeats belong together), `EnvelopeSaid` and
`AcceptedPassed` (what an accepted document has been found to contain), `OwnCodesApart` and
`ErrorsOfServer` (an error that came from the server is never one of the client's own).

**`SessionClientProofs`**, for every capacity, every set of media and every bound, from
`CapacityAssumption`:

| Theorem | Statement |
|---|---|
| `InductiveInvariant` | `Spec => []IInv` |
| `EventsInOrderHolds` | `[]EventsInOrder`: each event of a session is handed over once and in order |
| `SessionInvHolds` | `[]SessionInv`: a generation opens one session, the client uses that one, and it says that a save was loaded exactly if a load began its generation |
| `LinedInvariant` | `Spec => [](Lined(client) /\ "released" \in DOMAIN plays)` |
| `MenuFollowsItsClipHolds` | `[]MenuFollowsItsClip`: a menu line being prepared waits for a download that moves it on, or its clip was released |
| `SureInvariant` | `Spec => []SureNow(client)` |
| `NobodyWaitsHolds` | `[]NobodyWaitsForNothing`: whoever waits for an answer waits for one that is to come, has come, or was refused by a full queue; only downloads may have been cut off by a fence |

`poll` handles a whole queue in one step.  The library's induction theorems take a predicate, which the
provers cannot instantiate; `AllNaturals` states induction for a *set* of naturals, proved from the
well-foundedness of `<`, and the lemmas that need induction form the set of the lengths for which they
hold.  With it the recursive functions behind `FoldLeft` and `Part` exist (`FoldExists`,
`PartsExist`), a fold over a queue is a sequence of steps (`HandleOneByOne`), and `Part` is the
subsequence it should be (`PartEnumerates`); what concerns `Part` is in `PartsProofs`, which the proofs
about the lane use too.  `FreshIdFresh` counts: among one id more than there
are held, one is free.

The order is not inductive alone.  `Good` adds the types; that only a session polls, and no handshake
is pending while there is one (`PollsOfSession`); that the poll that is awaited asks for what follows
the cursor (`Asked`), whatever older polls are still queued; and that an answer with its id starts
there (`Answered`), whether it waits in the inbound queue or was put off by a pump.  A new poll gets an
id that no request or result has, so an old answer is never taken for its own.

The sessions need what the server may still be told.  `Opens` collects the claims "key *k* opens
generation *g*, after a load or not" that the server knows, that a handshake in the queue carries, and
that the client's snapshot would make: two of them with one key or one generation are the same claim, and each says
`loaded` exactly when the generation is one of `loads` (`Agree`).  So a retry, even one whose first attempt
the server answered after it was cancelled, replays the session it opened.  The rest says that at most the
pending handshake asks for the current generation (`AsksSound`), that a result on the way is what the
server's sessions say (`ResultSound`), and that a session the server has opened in the current
generation is one whose key the client has kept (`ClientSound`).  `Fits` holds the bounds of the queues and of
the generation, which the type invariant states.

`Lined` is about the two tables a menu line is looked up in: that a download under way has an id, and
that a line being prepared names a clip of the table whose download has one.  Most steps leave both
tables alone (`Shown`); the proof is in those that do not: a download that fails or ends, and a menu
line withdrawn while another shares its clip.

That an id which is awaited is in some queue is not inductive: a result removes whoever waits under *its*
kind and id, so an answer of another kind under an awaited id, or a download for another clip, would use
up the answer and leave the waiting where it is.  `Sure` says the more that is needed: an id is awaited by one
(`Shaped`), the id of the last turn, if awaited, is a turn's, and what is due to whoever waits (`Due`) is
a live request of this generation, or a result that a poll will read, *of that kind and for that clip*
(or, for a download, the fence that cut it off).  Its
parameters are the losses and the results that are counted on, so that the lemmas also hold half way
through a step: a cancelled id counts as lost until nobody waits for it (`SureCancel`, `SureForgot`),
and a result that is taken from the queue counts until it is handled (`SureRead`, `HandleSure`,
`FoldSure`).  A request gets an id that nobody waits for (`SureAsk`), and a pump takes only the results whose
waiting it ends (`PumpedSure`).

**Only model-checked.**  All liveness: the prover has no fairness reasoning.  Of `SessionClient`,
`ResultsInOrder`: a refinement whose abstract queue a whole poll consumes in one step.
`AnswersAreUsable` is about the documents the instance enumerates.

## 5. Plan

- `Agents`, `Sessions`: the 32 places of the registry, scenes, ids across loads of older saves.
- A run for the continuation on an empty lane, with the agreement `docs/ARCHITECTURE.md:65` states.

## 6. Not modelled

- `Agent registry and Director`, what `Save identity and storage` keeps beyond the choice of a session,
  and `Autonomy, voice and narrator`: planned, or waiting for it; the requests they make of the bridge
  are in `SessionClient` and `WireExchange`.
- `Event cursors` are modelled where the program uses them (`SessionClient`).
- Voice capture: a device thread that fills a buffer; its results are the engine's.
- The engine adapter (each call's success or failure is a choice in `NativeTransfer` and `DiaryBooks`),
  the player script and the user interface, JSON text, signing, build, patches and deployment.

## 7. Running

    tlc -workers 2 -config MCBridgeService.cfg MCBridgeService
    tlapm BridgeServiceProofs.tla

with any `.cfg` here and the module its run names in `PROJECT.json`.
