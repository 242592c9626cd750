---------------------------- MODULE BridgeService ----------------------------
(***************************************************************************)
(* lorkhan::BridgeService (bridge_service.cpp): the bounded, cancellable   *)
(* request lane between the engine's main/Lua thread and the one transport *)
(* worker thread.                                                          *)
(*                                                                         *)
(* The engine thread calls enqueue, poll, cancel, cancelGeneration and     *)
(* halt; the worker runs workerLoop.  They share two queues, the           *)
(* cancellation registry, an atomic generation, an atomic halted flag and  *)
(* three collections under m_stateMutex.  Every action below is one        *)
(* critical section or one atomic access of one thread, so the model has   *)
(* the interleavings of the code.  The generation and the halted flag are  *)
(* written by the engine thread only, so reads of them by that same thread *)
(* are folded into the step that uses them; so are the private steps of    *)
(* enqueue, of which the worker sees only the final push.                  *)
(***************************************************************************)
EXTENDS BoundedQueue

CONSTANTS
  Requests,       \* request ids the engine may use
  OutCapacity,    \* kOutboundCapacity
  InCapacity,     \* kInboundCapacity
  Reserved,       \* kReservedControlCapacity
  MaxGeneration   \* bound: the last generation a fence or a halt may reach

ASSUME BridgeAssumption ==
  /\ Requests # {}
  /\ OutCapacity \in Nat /\ InCapacity \in Nat /\ Reserved \in Nat
  /\ Reserved < OutCapacity /\ Reserved < InCapacity
  /\ MaxGeneration \in Nat \ {0}

VARIABLES
  halted,      \* m_halted
  generation,  \* m_generation
  outbound,    \* m_outbound: [id, generation] records
  outClosed,   \* m_outbound has been closed
  inbound,     \* m_inbound: [id, generation, kind] records
  inClosed,    \* m_inbound has been closed
  known,       \* m_knownRequests
  active,      \* m_activeRequests
  published,   \* m_cancelledPublished
  registry,    \* m_cancellations: the [id, generation] entries it holds
  stopped,     \* ids whose stop_source has been asked to stop
  owner,       \* the request the transport is executing, as a set of 0 or 1
  interrupted, \* the executing operation has been interrupted
  engine,      \* the engine thread's call in progress
  worker,      \* the worker thread's program counter and locals
  issued,      \* history: the requests enqueue has accepted
  cancels,     \* history: how many `cancelled' results were made for each id
  answers,     \* history: how many other results were made for each id
  dropped,     \* history: results tryPush refused and the bridge discarded
  delivered    \* history: results poll handed over, `at' which generation

shared  == <<known, active, published, registry, stopped>>
queues  == <<outbound, outClosed, inbound, inClosed>>
control == <<halted, generation>>
channel == <<owner, interrupted>>
history == <<issued, cancels, answers, dropped, delivered>>
vars    == <<control, queues, shared, channel, engine, worker, history>>

Generations == 1..MaxGeneration
Request     == [id : Requests, generation : Generations]
Kinds       == {"cancelled", "answer", "failure"}
InboundItem == [id : Requests, generation : Generations, kind : Kinds]

(* The call the engine thread is inside, if any.                           *)
Idle        == [op |-> "idle", ids |-> {}]
Call(op, S) == [op |-> op, ids |-> S]
EngineOps   == {"idle", "cancel.find", "cancel.publish", "cancel.interrupt",
                "fence.outbound", "fence.inbound", "fence.active",
                "fence.interrupt", "halt.invalidate", "halt.stop",
                "halt.active", "halt.interrupt", "halt.close", "halt.join",
                "halt.clear", "halt.closeInbound", "halt.forget"}
WorkerPcs   == {"wait", "halted", "token", "skip", "skipPublish", "generation",
                "activate", "begin", "executing", "stop", "deactivate",
                "decide", "publish", "push", "complete", "done"}
Outcomes    == {"none", "answer", "mismatch", "error"}

Ids(S)   == {x.id : x \in S}
Queued   == {outbound[i].id : i \in DOMAIN outbound}
InFlight == IF worker.pc \in {"wait", "done"} THEN {} ELSE {worker.request.id}

(* What the worker's local holds before its first waitPop; never read.     *)
NoRequest == [id |-> CHOOSE r \in Requests : TRUE, generation |-> 1]

(* The locals of one iteration of workerLoop.                              *)
Fresh(pc) == [pc |-> pc, request |-> NoRequest, outcome |-> "none",
              cancelled |-> FALSE, already |-> FALSE]

TypeOK ==
  /\ halted \in BOOLEAN /\ generation \in Generations
  /\ outbound \in Seq(Request) /\ outClosed \in BOOLEAN
  /\ inbound \in Seq(InboundItem) /\ inClosed \in BOOLEAN
  /\ known \subseteq Requests /\ active \subseteq Request
  /\ published \subseteq Requests /\ registry \subseteq Request
  /\ stopped \subseteq Requests
  /\ owner \subseteq Requests /\ interrupted \in BOOLEAN
  /\ engine \in [op : EngineOps, ids : SUBSET Requests]
  /\ worker \in [pc : WorkerPcs, request : Request, outcome : Outcomes,
                 cancelled : BOOLEAN, already : BOOLEAN]
  /\ issued \subseteq Request
  /\ cancels \in [Requests -> Nat] /\ answers \in [Requests -> Nat]
  /\ dropped \subseteq InboundItem
  /\ delivered \subseteq [result : InboundItem, at : Generations]

Init ==
  /\ halted = FALSE /\ generation = 1
  /\ outbound = <<>> /\ outClosed = FALSE
  /\ inbound = <<>> /\ inClosed = FALSE
  /\ known = {} /\ active = {} /\ published = {} /\ registry = {}
  /\ stopped = {} /\ owner = {} /\ interrupted = FALSE
  /\ engine = Idle
  /\ worker = Fresh("wait")
  /\ issued = {} /\ dropped = {} /\ delivered = {}
  /\ cancels = [r \in Requests |-> 0] /\ answers = [r \in Requests |-> 0]
-------------------------------------------------------------------------------
(* Results enter the inbound queue                                         *)

(* m_inbound.tryPush, whose status every caller discards.                  *)
TryPushInbound(item, asControl) ==
  IF ~inClosed /\ HasRoom(inbound, InCapacity, Reserved, asControl)
  THEN inbound' = Insert(inbound, item, asControl) /\ UNCHANGED dropped
  ELSE dropped' = dropped \union {item} /\ UNCHANGED inbound

Result(request, kind) ==
  [id |-> request.id, generation |-> request.generation, kind |-> kind]

(* publishCancelled: a control push of the terminal `cancelled' result.    *)
PublishCancelled(request) ==
  /\ TryPushInbound(Result(request, "cancelled"), TRUE)
  /\ cancels' = [cancels EXCEPT ![request.id] = @ + 1]
  /\ UNCHANGED <<answers, outbound, outClosed, inClosed>>

-------------------------------------------------------------------------------
(* The engine thread: enqueue, poll, cancel, cancelGeneration, halt        *)

(* enqueue gets as far as the push: the bridge is running, the request is  *)
(* of the current generation and its id has not been used.                 *)
Enqueueable(r, g) ==
  /\ engine = Idle /\ ~halted /\ g = generation
  /\ r \notin known /\ r \notin Ids(registry)

(* The outcome of the push, which enqueue makes without the control flag.  *)
OutboundAccepts(r) ==
  ~outClosed /\ HasRoom(outbound, OutCapacity, Reserved, FALSE)

(* enqueue, accepted: the id is remembered, registered for cancellation    *)
(* and queued.  A refused push undoes the first two: nothing has changed.  *)
Enqueue(r, g) ==
  /\ Enqueueable(r, g) /\ OutboundAccepts(r)
  /\ LET request == [id |-> r, generation |-> g] IN
       /\ known' = known \union {r}
       /\ registry' = registry \union {request}
       /\ outbound' = Insert(outbound, request, FALSE)
       /\ issued' = issued \union {request}
  /\ UNCHANGED <<control, outClosed, inbound, inClosed, active, published,
                 stopped, channel, engine, worker, cancels, answers,
                 dropped, delivered>>

(* Bug: poll hands over whatever it drained.                               *)
PollUnfiltered(items) == items

(* The results poll hands over: what was drained, less stale generations.  *)
PollFilter(items) == {x \in items : x.generation = generation}

Poll(maximum) ==
  /\ engine = Idle
  /\ LET items == Drained(inbound, maximum) IN
       delivered' = delivered \union
         {[result |-> x, at |-> generation] :
            x \in PollFilter({items[i] : i \in DOMAIN items})}
  /\ inbound' = Undrained(inbound, maximum)
  /\ UNCHANGED <<control, outbound, outClosed, inClosed, shared, channel,
                 engine, worker, issued, cancels, answers, dropped>>

(* cancel: the registry's stop request succeeds once per registered id.    *)
CancelStop(r) ==
  /\ engine = Idle /\ ~halted
  /\ r \in Ids(registry) /\ r \notin stopped
  /\ stopped' = stopped \union {r}
  /\ engine' = Call("cancel.find", {r})
  /\ UNCHANGED <<control, queues, known, active, published, registry, channel,
                 worker, history>>

(* cancel: under the state mutex, claim the publication if it is active.   *)
CancelFind(r) ==
  /\ engine = Call("cancel.find", {r})
  /\ IF r \in Ids(active) /\ r \notin published
     THEN published' = published \union {r} /\ engine' = Call("cancel.publish", {r})
     ELSE engine' = Idle /\ UNCHANGED published
  /\ UNCHANGED <<control, queues, known, active, registry, stopped, channel,
                 worker, history>>

(* cancel: publish from the copy taken under the mutex.                    *)
CancelPublish(r) ==
  /\ engine = Call("cancel.publish", {r})
  /\ \E request \in issued : request.id = r /\ PublishCancelled(request)
  /\ engine' = Call("cancel.interrupt", {r})
  /\ UNCHANGED <<control, shared, channel, worker, issued, delivered>>

(* ITransport::interrupt ignores every request but the one it executes.    *)
Interrupt(r) == interrupted' = (interrupted \/ r \in owner) /\ UNCHANGED owner

CancelInterrupt(r) ==
  /\ engine = Call("cancel.interrupt", {r})
  /\ Interrupt(r)
  /\ engine' = Idle
  /\ UNCHANGED <<control, queues, shared, worker, history>>

(* cancelGeneration of the current generation: the registry stops every    *)
(* request of it first.                                                    *)
FenceStop(g) ==
  /\ engine = Idle /\ ~halted /\ g = generation
  /\ generation < MaxGeneration
  /\ stopped' = stopped \union Ids({e \in registry : e.generation = g})
  /\ engine' = Call("fence.outbound", {})
  /\ UNCHANGED <<control, queues, known, active, published, registry, channel,
                 worker, history>>

FenceOutbound ==
  /\ engine.op = "fence.outbound"
  /\ outbound' \in EraseGeneration(outbound, generation)
  /\ engine' = Call("fence.inbound", {})
  /\ UNCHANGED <<control, outClosed, inbound, inClosed, shared, channel, worker,
                 history>>

FenceInbound ==
  /\ engine.op = "fence.inbound"
  /\ inbound' \in EraseGeneration(inbound, generation)
  /\ engine' = Call("fence.active", {})
  /\ UNCHANGED <<control, outbound, outClosed, inClosed, shared, channel, worker,
                 history>>

(* The active requests are listed under the mutex, interrupted outside it. *)
FenceActive ==
  /\ engine.op = "fence.active"
  /\ engine' = Call("fence.interrupt",
                    Ids({x \in active : x.generation = generation}))
  /\ UNCHANGED <<control, queues, shared, channel, worker, history>>

FenceInterrupt(r) ==
  /\ engine.op = "fence.interrupt" /\ r \in engine.ids
  /\ Interrupt(r)
  /\ engine' = Call("fence.interrupt", engine.ids \ {r})
  /\ UNCHANGED <<control, queues, shared, worker, history>>

(* Only now does the generation move: the fence is complete.               *)
FenceInvalidate ==
  /\ engine = Call("fence.interrupt", {})
  /\ generation' = generation + 1
  /\ engine' = Idle
  /\ UNCHANGED <<halted, queues, shared, channel, worker, history>>

(* halt, step by step, up to the join of the worker and past it.           *)
HaltBegin ==
  /\ engine = Idle /\ ~halted /\ generation < MaxGeneration
  /\ halted' = TRUE
  /\ engine' = Call("halt.invalidate", {})
  /\ UNCHANGED <<generation, queues, shared, channel, worker, history>>

HaltInvalidate ==
  /\ engine.op = "halt.invalidate"
  /\ generation' = generation + 1
  /\ engine' = Call("halt.stop", {})
  /\ UNCHANGED <<halted, queues, shared, channel, worker, history>>

HaltStop ==
  /\ engine.op = "halt.stop"
  /\ stopped' = stopped \union Ids(registry)
  /\ engine' = Call("halt.active", {})
  /\ UNCHANGED <<control, queues, known, active, published, registry, channel,
                 worker, history>>

HaltActive ==
  /\ engine.op = "halt.active"
  /\ engine' = Call("halt.interrupt", Ids(active))
  /\ UNCHANGED <<control, queues, shared, channel, worker, history>>

HaltInterrupt(r) ==
  /\ engine.op = "halt.interrupt" /\ r \in engine.ids
  /\ Interrupt(r)
  /\ engine' = Call("halt.interrupt", engine.ids \ {r})
  /\ UNCHANGED <<control, queues, shared, worker, history>>

(* Bug: halt forgets to close the outbound queue before it joins.          *)
HaltKeepsOpen ==
  /\ engine = Call("halt.interrupt", {})
  /\ engine' = Call("halt.join", {})
  /\ UNCHANGED <<control, queues, shared, channel, worker, history>>

HaltClose ==
  /\ engine = Call("halt.interrupt", {})
  /\ outClosed' = TRUE
  /\ engine' = Call("halt.join", {})
  /\ UNCHANGED <<control, outbound, inbound, inClosed, shared, channel, worker,
                 history>>

(* Bug: halt detaches the worker instead of joining it.                    *)
HaltDetaches ==
  /\ engine.op = "halt.join"
  /\ engine' = Call("halt.clear", {})
  /\ UNCHANGED <<control, queues, shared, channel, worker, history>>

HaltJoin ==
  /\ engine.op = "halt.join" /\ worker.pc = "done"
  /\ engine' = Call("halt.clear", {})
  /\ UNCHANGED <<control, queues, shared, channel, worker, history>>

HaltClear ==
  /\ engine.op = "halt.clear"
  /\ inbound' = <<>>
  /\ engine' = Call("halt.closeInbound", {})
  /\ UNCHANGED <<control, outbound, outClosed, inClosed, shared, channel, worker,
                 history>>

HaltCloseInbound ==
  /\ engine.op = "halt.closeInbound"
  /\ inClosed' = TRUE
  /\ engine' = Call("halt.forget", {})
  /\ UNCHANGED <<control, outbound, outClosed, inbound, shared, channel, worker,
                 history>>

HaltForget ==
  /\ engine.op = "halt.forget"
  /\ known' = {} /\ active' = {} /\ published' = {}
  /\ engine' = Idle
  /\ UNCHANGED <<control, queues, registry, stopped, channel, worker, history>>

-------------------------------------------------------------------------------
(* The worker thread: workerLoop                                           *)

Goto(from, to) == worker.pc = from /\ worker' = [worker EXCEPT !.pc = to]

(* waitPop: blocks until there is an item or the queue is closed and empty.*)
WorkerPop ==
  /\ worker.pc = "wait" /\ outbound # <<>>
  /\ worker' = [worker EXCEPT !.pc = "halted", !.request = Head(outbound)]
  /\ outbound' = Tail(outbound)
  /\ UNCHANGED <<control, outClosed, inbound, inClosed, shared, channel, engine,
                 history>>

WorkerExit ==
  /\ outbound = <<>> /\ outClosed
  /\ Goto("wait", "done")
  /\ UNCHANGED <<control, queues, shared, channel, engine, history>>

(* A halted worker leaves the loop without completing what it popped.      *)
WorkerHalted ==
  /\ Goto("halted", IF halted THEN "done" ELSE "token")
  /\ UNCHANGED <<control, queues, shared, channel, engine, history>>

(* The token: a missing one, or one already stopped, skips the transport.  *)
WorkerToken ==
  /\ Goto("token", IF \/ worker.request.id \notin Ids(registry)
                       \/ worker.request.id \in stopped
                   THEN "skip" ELSE "generation")
  /\ UNCHANGED <<control, queues, shared, channel, engine, history>>

(* Bug: a request cancelled in the queue is skipped without a result.      *)
WorkerSkipSilently ==
  /\ Goto("skip", "complete")
  /\ published' = published \union {worker.request.id}
  /\ UNCHANGED <<control, queues, known, active, registry, stopped, channel,
                 engine, history>>

(* insert(id).second decides whether this thread publishes `cancelled'.    *)
WorkerSkip ==
  /\ Goto("skip", IF worker.request.id \in published
                  THEN "complete" ELSE "skipPublish")
  /\ published' = published \union {worker.request.id}
  /\ UNCHANGED <<control, queues, known, active, registry, stopped, channel,
                 engine, history>>

WorkerSkipPublish ==
  /\ Goto("skipPublish", "complete")
  /\ PublishCancelled(worker.request)
  /\ UNCHANGED <<control, shared, channel, engine, issued, delivered>>

WorkerGeneration ==
  /\ Goto("generation", IF worker.request.generation = generation
                        THEN "activate" ELSE "complete")
  /\ UNCHANGED <<control, queues, shared, channel, engine, history>>

WorkerActivate ==
  /\ Goto("activate", "begin")
  /\ active' = active \union {worker.request}
  /\ UNCHANGED <<control, queues, known, published, registry, stopped, channel,
                 engine, history>>

(* Bug: execute does not look at its token before it starts.               *)
ExecuteBlindly ==
  /\ worker.pc = "begin"
  /\ worker' = [worker EXCEPT !.pc = "executing"]
  /\ owner' = {worker.request.id} /\ interrupted' = FALSE
  /\ UNCHANGED <<control, queues, shared, engine, history>>

(* ITransport::execute: a token already stopped returns an error at once;  *)
(* otherwise the transport owns the request until it returns.              *)
ExecuteBegin ==
  /\ worker.pc = "begin"
  /\ IF worker.request.id \in stopped
     THEN /\ worker' = [worker EXCEPT !.pc = "stop", !.outcome = "error"]
          /\ UNCHANGED channel
     ELSE /\ worker' = [worker EXCEPT !.pc = "executing"]
          /\ owner' = {worker.request.id} /\ interrupted' = FALSE
  /\ UNCHANGED <<control, queues, shared, engine, history>>

(* It returns a response with consistent ids, an inconsistent one, or an   *)
(* error (an interrupt, a stage deadline, a protocol failure).             *)
ExecuteReturn(outcome) ==
  /\ worker.pc = "executing"
  /\ worker' = [worker EXCEPT !.pc = "stop", !.outcome = outcome]
  /\ owner' = {} /\ interrupted' = FALSE
  /\ UNCHANGED <<control, queues, shared, engine, history>>

(* stop_requested() is read before the mutex is taken again ...            *)
WorkerStop ==
  /\ worker.pc = "stop"
  /\ worker' = [worker EXCEPT !.pc = "deactivate",
                              !.cancelled = worker.request.id \in stopped]
  /\ UNCHANGED <<control, queues, shared, channel, engine, history>>

(* ... and whether `cancelled' has been published is read under it.        *)
WorkerDeactivate ==
  /\ worker.pc = "deactivate"
  /\ active' = {x \in active : x.id # worker.request.id}
  /\ worker' = [worker EXCEPT !.pc = "decide",
                              !.already = worker.request.id \in published]
  /\ UNCHANGED <<control, queues, known, published, registry, stopped, channel,
                 engine, history>>

(* Bug: the worker ignores that cancel has already published.              *)
WorkerDecideAlone ==
  /\ Goto("decide",
          CASE worker.cancelled -> "publish"
            [] ~worker.cancelled /\ worker.request.generation = generation -> "push"
            [] OTHER -> "complete")
  /\ UNCHANGED <<control, queues, shared, channel, engine, history>>

(* Which result, if any, this execution produces.                          *)
WorkerDecide ==
  /\ Goto("decide",
          CASE worker.cancelled /\ ~worker.already -> "publish"
            [] ~worker.cancelled /\ worker.request.generation = generation -> "push"
            [] OTHER -> "complete")
  /\ UNCHANGED <<control, queues, shared, channel, engine, history>>

WorkerPublish ==
  /\ Goto("publish", "complete")
  /\ PublishCancelled(worker.request)
  /\ UNCHANGED <<control, shared, channel, engine, issued, delivered>>

WorkerPush ==
  /\ Goto("push", "complete")
  /\ TryPushInbound(Result(worker.request,
                          IF worker.outcome = "answer" THEN "answer" ELSE "failure"),
                   FALSE)
  /\ answers' = [answers EXCEPT ![worker.request.id] = @ + 1]
  /\ UNCHANGED <<control, outbound, outClosed, inClosed, shared, channel, engine,
                 issued, cancels, delivered>>

(* Bug: the registry entry of a finished request is never retired.         *)
WorkerLeaksEntry ==
  /\ worker.pc = "complete" /\ worker' = Fresh("wait")
  /\ UNCHANGED <<control, queues, shared, channel, engine, history>>

WorkerComplete ==
  /\ worker.pc = "complete" /\ worker' = Fresh("wait")
  /\ registry' = {e \in registry : e.id # worker.request.id}
  /\ UNCHANGED <<control, queues, known, active, published, stopped, channel,
                 engine, history>>

-------------------------------------------------------------------------------
(* A call the engine has begun, each statement after its first.            *)
EngineContinues ==
  \/ \E r \in Requests : \/ CancelFind(r) \/ CancelPublish(r)
                         \/ CancelInterrupt(r)
                         \/ FenceInterrupt(r) \/ HaltInterrupt(r)
  \/ FenceOutbound \/ FenceInbound \/ FenceActive \/ FenceInvalidate
  \/ HaltInvalidate \/ HaltStop \/ HaltActive \/ HaltClose \/ HaltJoin
  \/ HaltClear \/ HaltCloseInbound \/ HaltForget

EngineBegins ==
  \/ \E r \in Requests, g \in Generations : Enqueue(r, g)
  \/ \E r \in Requests : CancelStop(r)
  \/ \E g \in Generations : FenceStop(g)
  \/ HaltBegin

(* Every frame the engine polls for up to InCapacity results.              *)
EnginePolls == \E maximum \in 1..InCapacity : Poll(maximum)

WorkerRuns ==
  \/ WorkerPop \/ WorkerExit \/ WorkerHalted \/ WorkerToken \/ WorkerSkip
  \/ WorkerSkipPublish \/ WorkerGeneration \/ WorkerActivate \/ ExecuteBegin
  \/ (\E outcome \in Outcomes \ {"none"} : ExecuteReturn(outcome))
  \/ WorkerStop \/ WorkerDeactivate \/ WorkerDecide \/ WorkerPublish
  \/ WorkerPush \/ WorkerComplete

Next == EngineContinues \/ EngineBegins \/ EnginePolls \/ WorkerRuns

Spec == Init /\ [][Next]_vars

(***************************************************************************)
(* Fairness.  The operating system keeps scheduling both threads, and      *)
(* every transport stage has a deadline, so execute returns.  Nothing      *)
(* obliges the engine to begin another call, but the frame update polls.   *)
(***************************************************************************)
Fairness ==
  /\ WF_vars(EngineContinues) /\ WF_vars(WorkerRuns) /\ WF_vars(EnginePolls)

FairSpec == Spec /\ Fairness

-------------------------------------------------------------------------------
(* Properties                                                              *)

(* However cancel, cancelGeneration and the two publishing paths of        *)
(* workerLoop interleave, at most one `cancelled' result is ever made for  *)
(* a request.                                                              *)
OneCancelledResult == \A r \in Requests : cancels[r] <= 1

(* A request is executed and answered at most once, whatever is enqueued   *)
(* twice.                                                                  *)
OneAnswer == \A r \in Requests : answers[r] <= 1

(* So a request gets at most one cancelled result and one other.           *)
OneOfEach == OneCancelledResult /\ OneAnswer

(* A queued or running request keeps its cancellation entry, so cancel can *)
(* always reach it and the worker never meets a missing token.             *)
Cancellable == Queued \union InFlight \subseteq Ids(registry)

(* No stop request is lost: an executing request that has been stopped has *)
(* been interrupted, or the call that stopped it is still on its way to    *)
(* interrupt it.                                                           *)
NoLostInterrupt ==
  worker.pc = "executing" /\ worker.request.id \in stopped /\ engine = Idle
    => interrupted

(* The fence of its generation stopped this entry and has swept the queue, *)
(* which may have erased the request without retiring the entry.           *)
FencedOff(e) ==
  /\ e.id \in stopped
  /\ \/ e.generation < generation
     \/ engine.op \in {"fence.inbound", "fence.active", "fence.interrupt"}

(* An entry of the registry stands for work that still exists, unless a    *)
(* fence erased that work from the queue: the entry of a request that has  *)
(* completed, or was cancelled by itself, goes with it.  What a fence or a *)
(* halt leaves behind is never retired.                                    *)
RegistryAccounted ==
  \A e \in registry : e.id \in Queued \union InFlight \/ FencedOff(e) \/ halted

(* Everything queued or running can be cancelled through the registry, and *)
(* within a generation it holds nothing else.                              *)
RegistryMatchesWork == Cancellable /\ RegistryAccounted

(* Between any two critical sections: the types, and the registry.          *)
BridgeInv == TypeOK /\ RegistryMatchesWork

(* Lua never receives a result of a generation that has been fenced off,   *)
(* although the worker may push one after cancelGeneration swept the queue.*)
CurrentResultsOnly ==
  \A d \in delivered : d.result.generation = d.at

(* Once halt has returned, the worker is gone and nothing is left to poll. *)
HaltLeavesNothing ==
  halted /\ engine = Idle
    => worker.pc = "done" /\ inbound = <<>> /\ active = {} /\ owner = {}

(* The transport is never started on a request that is already cancelled   *)
(* or of a fenced generation.  (halt moves the generation before it stops  *)
(* the requests; what starts in between is then interrupted.)              *)
StartsOnlyLive ==
  [][worker.pc # "executing" /\ worker'.pc = "executing"
       => /\ worker.request.id \notin stopped
          /\ worker.request.generation = generation \/ halted]_vars

(* halt always ends, with the worker joined.                               *)
HaltCompletes == halted ~> (engine = Idle /\ worker.pc = "done")

(* Every accepted request gets a result, unless its generation is fenced   *)
(* off or the bridge is halted first.                                      *)
EveryRequestSettles ==
  \A r \in Requests :
    (\E x \in issued : x.id = r /\ x.generation = generation)
      ~> \/ cancels[r] + answers[r] > 0
         \/ ~(\E x \in issued : x.id = r /\ x.generation = generation)

(* docs/ARCHITECTURE.md:40-41: a full queue becomes an explicit result     *)
(* code; no result of a current request is discarded in silence.           *)
NoResultDropped ==
  \A x \in dropped :
    halted \/ x.generation < generation \/ cancels[x.id] + answers[x.id] > 1

-------------------------------------------------------------------------------
(* The inductive invariant behind the safety properties                    *)

Busy      == worker.pc \notin {"wait", "done"}
Before    == {"halted", "token", "skip", "generation", "activate"}
Running   == {"begin", "executing", "stop", "deactivate"}
Fencing   == {"fence.outbound", "fence.inbound", "fence.active", "fence.interrupt"}
Halting   == {op \in EngineOps : op \notin Fencing /\ op \notin
                {"idle", "cancel.find", "cancel.publish", "cancel.interrupt"}}
Joined    == {"halt.clear", "halt.closeInbound", "halt.forget"}

(* Where a request can be: one queue slot, the worker, or nowhere.         *)
Placement ==
  /\ \A i \in DOMAIN outbound : outbound[i] \in registry
  /\ \A i, j \in DOMAIN outbound : outbound[i].id = outbound[j].id => i = j
  /\ Busy => worker.request \in registry /\ worker.request.id \notin Queued
  /\ registry \subseteq issued
  /\ \A x, y \in issued : x.id = y.id => x = y
  /\ \A x \in issued : x.generation <= generation /\ (x.id \in known \/ halted)
  /\ active = IF worker.pc \in Running THEN {worker.request} ELSE {}
  /\ owner = IF worker.pc = "executing" THEN {worker.request.id} ELSE {}

(* A fence or a halt began below the bound and moves the generation once.  *)
Bounded ==
  engine.op \in Fencing \union {"halt.invalidate"} => generation < MaxGeneration

(* What the engine's call in progress implies.                             *)
CallsInProgress ==
  /\ engine.op \in {"cancel.find", "cancel.publish", "cancel.interrupt"}
       => ~halted /\ \E r \in stopped : engine.ids = {r} /\ r \in Ids(issued)
  /\ engine.op \in Fencing => ~halted
  /\ engine.op \in Halting => halted
  /\ engine.op \in Joined \/ (halted /\ engine.op = "idle") => worker.pc = "done"
  /\ engine.op \in {"halt.closeInbound", "halt.forget"}
       \/ (halted /\ engine.op = "idle") => inbound = <<>>
  /\ engine.op = "idle" => engine.ids = {}

(* Who may still publish `cancelled' for a request, and who already has.   *)
Publication ==
  /\ \A r \in Requests : cancels[r] <= 1 /\ answers[r] <= 1
  /\ published \subseteq stopped
  /\ \A r \in Requests : r \notin Ids(issued) \/ r \in Queued
       => r \notin published /\ cancels[r] = 0 /\ answers[r] = 0
  /\ engine.op = "cancel.publish"
       => \A r \in engine.ids : r \in published /\ cancels[r] = 0
  /\ engine.op = "cancel.find" /\ worker.pc \in Running
       => worker.request.id \notin engine.ids \intersect published
  /\ worker.pc \in Before
       => worker.request.id \notin published /\ cancels[worker.request.id] = 0
  /\ worker.pc \in {"skip", "skipPublish"} => worker.request.id \in stopped
  /\ worker.pc = "skipPublish"
       => /\ cancels[worker.request.id] = 0
          /\ engine.op = "cancel.publish" => worker.request.id \notin engine.ids
  /\ worker.pc \in Running
       => (cancels[worker.request.id] > 0 => worker.request.id \in published)
  /\ worker.pc \in {"decide", "publish"} /\ ~worker.already
       => worker.request.id \notin published /\ cancels[worker.request.id] = 0
  /\ worker.pc = "publish" => ~worker.already
  /\ Busy /\ worker.pc # "complete" => answers[worker.request.id] = 0

(* A stop reaches every request of a generation before the fence is done,  *)
(* and an executing request that is stopped is, or is about to be,         *)
(* interrupted.                                                            *)
Stopping ==
  /\ ~halted => \A e \in registry : e.generation < generation => e.id \in stopped
  /\ engine.op \in Fencing => \A e \in registry : e.id \in stopped
  /\ RegistryAccounted
  /\ worker.pc = "executing" /\ worker.request.id \in stopped /\ ~interrupted
       => \/ /\ engine.op \in {"cancel.find", "cancel.publish", "cancel.interrupt"}
             /\ worker.request.id \in engine.ids
          \/ /\ engine.op \in Fencing /\ worker.request.generation = generation
             /\ engine.op = "fence.interrupt" => worker.request.id \in engine.ids
          \/ engine.op = "halt.active"
          \/ engine.op = "halt.interrupt" /\ worker.request.id \in engine.ids

IInv == TypeOK /\ Bounded /\ Placement /\ CallsInProgress /\ Publication /\ Stopping
===============================================================================
