------------------------- MODULE BridgeServiceProofs -------------------------
(***************************************************************************)
(* Proofs about BridgeService for every set of requests, every capacity    *)
(* and every bound on the generation.                                      *)
(***************************************************************************)
EXTENDS BridgeService, FiniteSetTheorems, SequenceTheorems, TLAPS

-------------------------------------------------------------------------------
(* The queue operations                                                    *)

(* eraseIf: what is left is a subsequence of what was there, without any   *)
(* item of the erased generation (queues.hpp eraseIf).                     *)
LEMMA EraseKeeps ==
  ASSUME NEW S, NEW q \in Seq(S), NEW g, NEW t \in EraseGeneration(q, g)
  PROVE  /\ t \in Seq(S)
         /\ \A i \in DOMAIN t : \E k \in DOMAIN q : t[i] = q[k] /\ q[k].generation # g
         /\ \E f \in [DOMAIN t -> DOMAIN q] :
              /\ \A i \in DOMAIN t : t[i] = q[f[i]]
              /\ \A i, j \in DOMAIN t : f[i] = f[j] => i = j
<1> DEFINE kept == Survivors(q, g)
           n    == Cardinality(kept)
<1>1. kept \subseteq 1..Len(q) /\ Len(q) \in Nat /\ DOMAIN q = 1..Len(q)
  BY LenProperties DEF Survivors
<1>2. IsFiniteSet(1..Len(q))
  BY <1>1, FS_Interval
<1>3. n \in Nat
  BY <1>1, <1>2, FS_Subset, FS_CardinalityType
<1>4. PICK f \in [1..n -> kept] :
        /\ \A i, j \in 1..n : i < j => f[i] < f[j]
        /\ t = [i \in 1..n |-> q[f[i]]]
  BY DEF EraseGeneration
<1>5. DOMAIN t = 1..n /\ \A i \in 1..n : t[i] = q[f[i]] /\ f[i] \in kept
  BY <1>4
<1>6. \A i \in 1..n : q[f[i]] \in S
  BY <1>1, <1>5, ElementOfSeq
<1>7. t \in Seq(S)
  BY <1>3, <1>4, <1>6, IsASeq
<1>8. \A i, j \in 1..n : f[i] = f[j] => i = j
  <2> SUFFICES ASSUME NEW i \in 1..n, NEW j \in 1..n, f[i] = f[j], i # j
               PROVE FALSE
    OBVIOUS
  <2>1. i < j \/ j < i
    BY <1>3
  <2>2. f[i] \in Nat /\ f[j] \in Nat
    BY <1>1, <1>5
  <2> QED BY <1>4, <2>1, <2>2
<1>9. f \in [DOMAIN t -> DOMAIN q]
  BY <1>1, <1>4, <1>5
<1>10. \A i \in DOMAIN t : f[i] \in DOMAIN q /\ t[i] = q[f[i]] /\ q[f[i]].generation # g
  BY <1>5 DEF Survivors
<1>11. \A i \in DOMAIN t : \E k \in DOMAIN q : t[i] = q[k] /\ q[k].generation # g
  BY <1>10
<1>12. /\ \A i \in DOMAIN t : t[i] = q[f[i]]
       /\ \A i, j \in DOMAIN t : f[i] = f[j] => i = j
  BY <1>5, <1>8, <1>10
<1> QED
  BY <1>7, <1>9, <1>11, <1>12

(* tryPush: a queue stays a sequence of its items, whichever end it uses.  *)
LEMMA InsertType ==
  ASSUME NEW S, NEW q \in Seq(S), NEW x \in S, NEW c \in BOOLEAN
  PROVE  Insert(q, x, c) \in Seq(S)
BY DEF Insert

(* drain: both halves are sequences of the same items.                     *)
LEMMA DrainType ==
  ASSUME NEW S, NEW q \in Seq(S), NEW m \in Nat
  PROVE  /\ Drained(q, m) \in Seq(S) /\ Undrained(q, m) \in Seq(S)
         /\ \A i \in DOMAIN Drained(q, m) : Drained(q, m)[i] \in S
<1>1. Len(q) \in Nat
  BY LenProperties
<1>2. Drained(q, m) \in Seq(S)
  BY <1>1, SubSeqProperties, ElementOfSeq DEF Drained
<1>3. Undrained(q, m) \in Seq(S)
  BY <1>1, SubSeqProperties, ElementOfSeq DEF Undrained
<1> QED BY <1>2, <1>3, ElementOfSeq, LenProperties

-------------------------------------------------------------------------------
(* Type correctness                                                        *)

(* The initial state has its types.                                        *)
LEMMA InitType == Init => TypeOK /\ Bounded
<1> SUFFICES ASSUME Init PROVE TypeOK /\ Bounded
  OBVIOUS
<1> USE BridgeAssumption
<1>1. 1 \in Generations
  BY DEF Generations
<1>2. NoRequest \in Request
  BY <1>1 DEF NoRequest, Request
<1>3. worker \in [pc : WorkerPcs, request : Request, outcome : Outcomes,
                  cancelled : BOOLEAN, already : BOOLEAN]
  BY <1>2 DEF Init, Fresh, WorkerPcs, Outcomes
<1>4. engine \in [op : EngineOps, ids : SUBSET Requests] /\ engine.op = "idle"
  BY DEF Init, Idle, EngineOps
<1>5. outbound \in Seq(Request) /\ inbound \in Seq(InboundItem)
  BY DEF Init
<1>6. cancels \in [Requests -> Nat] /\ answers \in [Requests -> Nat]
  BY DEF Init
<1>7. TypeOK
  BY <1>1, <1>3, <1>4, <1>5, <1>6 DEF Init, TypeOK
<1> QED BY <1>4, <1>7 DEF Bounded, Fencing

(* A result made from an accepted request is an inbound item.              *)
LEMMA ResultType ==
  ASSUME NEW x \in Request, NEW kind \in Kinds
  PROVE  Result(x, kind) \in InboundItem
BY DEF Result, Request, InboundItem

(* m_inbound.tryPush: accepted or refused, the queue keeps its type.       *)
LEMMA PushType ==
  ASSUME TypeOK, NEW x \in InboundItem, NEW c \in BOOLEAN, TryPushInbound(x, c)
  PROVE  inbound' \in Seq(InboundItem) /\ dropped' \subseteq InboundItem
<1>1. Insert(inbound, x, c) \in Seq(InboundItem)
  BY InsertType DEF TypeOK
<1> QED BY <1>1 DEF TryPushInbound, TypeOK

(* publishCancelled keeps the types of what it writes.                     *)
LEMMA PublishType ==
  ASSUME TypeOK, NEW x \in Request, PublishCancelled(x)
  PROVE  /\ inbound' \in Seq(InboundItem) /\ dropped' \subseteq InboundItem
         /\ cancels' \in [Requests -> Nat]
         /\ UNCHANGED <<answers, outbound, outClosed, inClosed>>
<1>1. Result(x, "cancelled") \in InboundItem
  BY ResultType DEF Kinds
<1>2. inbound' \in Seq(InboundItem) /\ dropped' \subseteq InboundItem
  BY <1>1, PushType DEF PublishCancelled
<1>3. cancels' \in [Requests -> Nat]
  <2>1. x.id \in Requests /\ cancels[x.id] \in Nat
    BY DEF TypeOK, Request
  <2> QED BY <2>1 DEF PublishCancelled, TypeOK
<1> QED BY <1>2, <1>3 DEF PublishCancelled

(* A step of the engine thread preserves the types, action by action.      *)
LEMMA EngineType ==
  ASSUME TypeOK, Bounded, EngineContinues \/ EngineBegins \/ EnginePolls
  PROVE  TypeOK' /\ Bounded'
<1> USE DEF shared, queues, control, channel, history, Call, Idle, EngineOps,
            Fencing, Bounded
<1>1. ASSUME NEW r \in Requests, NEW g \in Generations, Enqueue(r, g)
      PROVE  TypeOK' /\ Bounded'
  <2>1. [id |-> r, generation |-> g] \in Request
    BY DEF Request
  <2>2. outbound' \in Seq(Request)
    BY <1>1, <2>1, InsertType DEF Enqueue, TypeOK
  <2> QED BY <1>1, <2>1, <2>2 DEF Enqueue, TypeOK
<1>2. ASSUME NEW m \in 1..InCapacity, Poll(m)
      PROVE  TypeOK' /\ Bounded'
  <2>1. /\ inbound' \in Seq(InboundItem)
        /\ \A i \in DOMAIN Drained(inbound, m) : Drained(inbound, m)[i] \in InboundItem
    BY <1>2, DrainType DEF Poll, TypeOK
  <2>2. delivered' \subseteq [result : InboundItem, at : Generations]
    BY <1>2, <2>1 DEF Poll, PollFilter, TypeOK
  <2> QED BY <1>2, <2>1, <2>2 DEF Poll, TypeOK
<1>3. ASSUME NEW r \in Requests, CancelStop(r)
      PROVE  TypeOK' /\ Bounded'
  BY <1>3 DEF CancelStop, TypeOK
<1>4. ASSUME NEW r \in Requests, CancelFind(r)
      PROVE  TypeOK' /\ Bounded'
  BY <1>4 DEF CancelFind, TypeOK
<1>5. ASSUME NEW r \in Requests, CancelPublish(r)
      PROVE  TypeOK' /\ Bounded'
  <2>1. PICK request \in issued : request.id = r /\ PublishCancelled(request)
    BY <1>5 DEF CancelPublish
  <2>2. request \in Request
    BY <2>1 DEF TypeOK
  <2> QED BY <1>5, <2>1, <2>2, PublishType DEF CancelPublish, TypeOK
<1>6. ASSUME NEW r \in Requests, CancelInterrupt(r)
      PROVE  TypeOK' /\ Bounded'
  BY <1>6 DEF CancelInterrupt, Interrupt, TypeOK
<1>7. ASSUME NEW g \in Generations, FenceStop(g)
      PROVE  TypeOK' /\ Bounded'
  BY <1>7 DEF FenceStop, TypeOK, Ids, Request
<1>8. CASE FenceOutbound
  <2>1. outbound' \in Seq(Request)
    BY <1>8, EraseKeeps DEF FenceOutbound, TypeOK
  <2> QED BY <1>8, <2>1 DEF FenceOutbound, TypeOK
<1>9. CASE FenceInbound
  <2>1. inbound' \in Seq(InboundItem)
    BY <1>9, EraseKeeps DEF FenceInbound, TypeOK
  <2> QED BY <1>9, <2>1 DEF FenceInbound, TypeOK
<1>10. Ids({x \in active : x.generation = generation}) \subseteq Requests
       /\ Ids(active) \subseteq Requests /\ Ids(registry) \subseteq Requests
  BY DEF TypeOK, Ids, Request
<1>11. CASE FenceActive
  BY <1>10, <1>11 DEF FenceActive, TypeOK
<1>12. ASSUME NEW r \in Requests, FenceInterrupt(r)
       PROVE  TypeOK' /\ Bounded'
  BY <1>12 DEF FenceInterrupt, Interrupt, TypeOK
<1>13. ASSUME NEW r \in Requests, HaltInterrupt(r)
       PROVE  TypeOK' /\ Bounded'
  BY <1>13 DEF HaltInterrupt, Interrupt, TypeOK
<1>14. CASE FenceInvalidate
  <2>1. generation' \in Generations
    BY <1>14, BridgeAssumption DEF FenceInvalidate, TypeOK, Generations
  <2> QED BY <1>14, <2>1 DEF FenceInvalidate, TypeOK
<1>15. CASE HaltBegin
  BY <1>15 DEF HaltBegin, TypeOK
<1>16. CASE HaltInvalidate
  <2>1. generation' \in Generations
    BY <1>16, BridgeAssumption DEF HaltInvalidate, TypeOK, Generations
  <2> QED BY <1>16, <2>1 DEF HaltInvalidate, TypeOK
<1>17. CASE HaltStop
  BY <1>10, <1>17 DEF HaltStop, TypeOK
<1>18. CASE HaltActive
  BY <1>10, <1>18 DEF HaltActive, TypeOK
<1>19. CASE HaltClose \/ HaltJoin \/ HaltClear \/ HaltCloseInbound \/ HaltForget
  <2>1. CASE HaltClose BY <2>1 DEF HaltClose, TypeOK
  <2>2. CASE HaltJoin BY <2>2 DEF HaltJoin, TypeOK
  <2>3. CASE HaltClear BY <2>3 DEF HaltClear, TypeOK
  <2>4. CASE HaltCloseInbound BY <2>4 DEF HaltCloseInbound, TypeOK
  <2>5. CASE HaltForget BY <2>5 DEF HaltForget, TypeOK
  <2> QED BY <1>19, <2>1, <2>2, <2>3, <2>4, <2>5
<1>20. CASE EngineContinues
  <2>1. \A r \in Requests :
          \/ CancelFind(r) \/ CancelPublish(r) \/ CancelInterrupt(r)
          \/ FenceInterrupt(r) \/ HaltInterrupt(r)
          => TypeOK' /\ Bounded'
    BY <1>4, <1>5, <1>6, <1>12, <1>13
  <2> HIDE DEF Bounded
  <2> QED
    BY <1>8, <1>9, <1>11, <1>14, <1>16, <1>17, <1>18, <1>19, <1>20, <2>1
       DEF EngineContinues
<1>21. CASE EngineBegins
  BY <1>1, <1>3, <1>7, <1>15, <1>21 DEF EngineBegins
<1>22. CASE EnginePolls
  BY <1>2, <1>22 DEF EnginePolls
<1> QED BY <1>20, <1>21, <1>22

(* A step of the worker thread preserves the types, action by action.      *)
LEMMA WorkerType ==
  ASSUME TypeOK, Bounded, WorkerRuns
  PROVE  TypeOK' /\ Bounded'
<1> USE DEF shared, queues, control, channel, history, WorkerPcs, Bounded
<1>1. CASE WorkerPop
  <2>1. outbound' \in Seq(Request) /\ Head(outbound) \in Request
    BY <1>1, HeadTailProperties DEF WorkerPop, TypeOK
  <2> QED BY <1>1, <2>1 DEF WorkerPop, TypeOK
<1>2. CASE WorkerExit \/ WorkerHalted \/ WorkerToken \/ WorkerGeneration
  BY <1>2 DEF WorkerExit, WorkerHalted, WorkerToken, WorkerGeneration, Goto, TypeOK
<1>3. CASE WorkerSkip
  BY <1>3 DEF WorkerSkip, Goto, TypeOK, Request
<1>4. CASE WorkerActivate
  BY <1>4 DEF WorkerActivate, Goto, TypeOK
<1>5. CASE WorkerSkipPublish \/ WorkerPublish
  <2>1. worker.request \in Request /\ PublishCancelled(worker.request)
    BY <1>5 DEF WorkerSkipPublish, WorkerPublish, TypeOK
  <2> QED
    BY <1>5, <2>1, PublishType DEF WorkerSkipPublish, WorkerPublish, Goto, TypeOK
<1>6. CASE ExecuteBegin
  <2>1. CASE worker.request.id \in stopped
    BY <1>6, <2>1 DEF ExecuteBegin, TypeOK, Outcomes
  <2>2. CASE worker.request.id \notin stopped
    <3>1. worker.request.id \in Requests
      BY DEF TypeOK, Request
    <3> QED BY <1>6, <2>2, <3>1 DEF ExecuteBegin, TypeOK
  <2> QED BY <2>1, <2>2
<1>7. ASSUME NEW outcome \in Outcomes \ {"none"}, ExecuteReturn(outcome)
      PROVE  TypeOK' /\ Bounded'
  BY <1>7 DEF ExecuteReturn, TypeOK
<1>8. CASE WorkerStop \/ WorkerDeactivate \/ WorkerDecide
  <2>1. CASE WorkerStop
    <3>1. (worker.request.id \in stopped) \in BOOLEAN
      OBVIOUS
    <3>2. \A b \in BOOLEAN : [worker EXCEPT !.pc = "deactivate", !.cancelled = b]
            \in [pc : WorkerPcs, request : Request, outcome : Outcomes,
                 cancelled : BOOLEAN, already : BOOLEAN]
      BY DEF TypeOK
    <3>3. worker' \in [pc : WorkerPcs, request : Request, outcome : Outcomes,
                 cancelled : BOOLEAN, already : BOOLEAN]
      BY <2>1, <3>1, <3>2, Zenon DEF WorkerStop
    <3> QED BY <2>1, <3>3 DEF WorkerStop, TypeOK
  <2>2. CASE WorkerDeactivate
    <3>1. (worker.request.id \in published) \in BOOLEAN
      OBVIOUS
    <3>2. \A b \in BOOLEAN : [worker EXCEPT !.pc = "decide", !.already = b]
            \in [pc : WorkerPcs, request : Request, outcome : Outcomes,
                 cancelled : BOOLEAN, already : BOOLEAN]
      BY DEF TypeOK
    <3>3. worker' \in [pc : WorkerPcs, request : Request, outcome : Outcomes,
                 cancelled : BOOLEAN, already : BOOLEAN]
      BY <2>2, <3>1, <3>2, Zenon DEF WorkerDeactivate
    <3> QED BY <2>2, <3>3 DEF WorkerDeactivate, TypeOK
  <2>3. CASE WorkerDecide BY <2>3 DEF WorkerDecide, Goto, TypeOK
  <2> QED BY <1>8, <2>1, <2>2, <2>3
<1>9. CASE WorkerPush
  <2>1. worker.request \in Request /\ worker.request.id \in Requests
    BY DEF TypeOK, Request
  <2>2. Result(worker.request, "answer") \in InboundItem
        /\ Result(worker.request, "failure") \in InboundItem
    BY <2>1, ResultType DEF Kinds
  <2>3. inbound' \in Seq(InboundItem) /\ dropped' \subseteq InboundItem
    BY <1>9, <2>2, PushType DEF WorkerPush
  <2>4. answers' \in [Requests -> Nat]
    BY <1>9, <2>1 DEF WorkerPush, TypeOK
  <2> QED BY <1>9, <2>3, <2>4 DEF WorkerPush, Goto, TypeOK
<1>10. CASE WorkerComplete
  <2>1. NoRequest \in Request
    BY BridgeAssumption DEF NoRequest, Request, Generations
  <2> QED BY <1>10, <2>1 DEF WorkerComplete, Fresh, Outcomes, TypeOK
<1> QED
  BY <1>1, <1>2, <1>3, <1>4, <1>5, <1>6, <1>7, <1>8, <1>9, <1>10 DEF WorkerRuns

(* Every state BridgeService reaches has its types: in particular ids,     *)
(* generations and results in both queues and in the registry are the ones *)
(* enqueue accepted, and the generation never passes its bound.            *)
THEOREM TypeCorrect == Spec => []TypeOK
<1>1. TypeOK /\ Bounded /\ [Next]_vars => TypeOK' /\ Bounded'
  <2> SUFFICES ASSUME TypeOK, Bounded, [Next]_vars PROVE TypeOK' /\ Bounded'
    OBVIOUS
  <2>1. CASE UNCHANGED vars
    BY <2>1 DEF vars, shared, queues, control, channel, history, TypeOK, Bounded
  <2> QED BY <2>1, EngineType, WorkerType DEF Next
<1> QED BY <1>1, InitType, PTL DEF Spec

-------------------------------------------------------------------------------
(* How the three writers of the outbound queue change what it holds        *)

(* enqueue's push adds its request behind the others.                      *)
LEMMA EnqueueQueue ==
  ASSUME TypeOK, NEW r \in Requests, NEW g \in Generations, Enqueue(r, g)
  PROVE  /\ \A i \in DOMAIN outbound' :
               \/ i \in DOMAIN outbound /\ outbound'[i] = outbound[i]
               \/ i = Len(outbound) + 1 /\ outbound'[i] = [id |-> r, generation |-> g]
         /\ Queued' = Queued \union {r}
<1> DEFINE x == [id |-> r, generation |-> g]
<1>1. outbound \in Seq(Request) /\ x \in Request /\ outbound' = Append(outbound, x)
  BY DEF TypeOK, Enqueue, Insert, Request
<1>2. /\ DOMAIN outbound' = 1..(Len(outbound) + 1) /\ DOMAIN outbound = 1..Len(outbound)
      /\ Len(outbound) \in Nat
      /\ \A i \in DOMAIN outbound : outbound'[i] = outbound[i]
      /\ outbound'[Len(outbound) + 1] = x
  BY <1>1, AppendProperties, LenProperties
<1>3. \A i \in DOMAIN outbound' : i \in DOMAIN outbound \/ i = Len(outbound) + 1
  BY <1>2
<1>4. Queued' = Queued \union {r}
  BY <1>2, <1>3 DEF Queued
<1> QED BY <1>2, <1>3, <1>4

(* waitPop takes the first request; the others move up by one.             *)
LEMMA PopQueue ==
  ASSUME TypeOK, Placement, WorkerPop
  PROVE  /\ \A i \in DOMAIN outbound' :
              i + 1 \in DOMAIN outbound /\ outbound'[i] = outbound[i + 1]
         /\ 1 \in DOMAIN outbound /\ worker'.request = outbound[1]
         /\ Queued = Queued' \union {outbound[1].id} /\ outbound[1].id \notin Queued'
<1>1. /\ outbound \in Seq(Request) /\ outbound # <<>> /\ outbound' = Tail(outbound)
      /\ worker'.request = Head(outbound)
  BY DEF TypeOK, WorkerPop
<1>2. /\ Len(outbound) \in Nat \ {0} /\ DOMAIN outbound = 1..Len(outbound)
      /\ DOMAIN outbound' = 1..(Len(outbound) - 1)
      /\ \A i \in 1..(Len(outbound) - 1) : outbound'[i] = outbound[i + 1]
      /\ Head(outbound) = outbound[1]
  BY <1>1, HeadTailProperties, EmptySeq, LenProperties
<1>3. \A i \in DOMAIN outbound' :
        i \in Nat /\ i # 0 /\ i + 1 \in DOMAIN outbound /\ outbound'[i] = outbound[i + 1]
  BY <1>2
<1>4. 1 \in DOMAIN outbound /\ worker'.request = outbound[1]
  BY <1>1, <1>2
<1>5. \A k \in DOMAIN outbound : k = 1 \/ (k - 1 \in DOMAIN outbound' /\ k = (k - 1) + 1)
  BY <1>2
<1>6. Queued = Queued' \union {outbound[1].id}
  BY <1>3, <1>4, <1>5 DEF Queued
<1>7. \A i \in DOMAIN outbound' : outbound'[i].id # outbound[1].id
  BY <1>3, <1>4 DEF Placement
<1>8. outbound[1].id \notin Queued'
  BY <1>7 DEF Queued
<1> QED BY <1>3, <1>4, <1>6, <1>8

(* cancelGeneration's sweep keeps some of the requests, each once.         *)
LEMMA SweepQueue ==
  ASSUME TypeOK, FenceOutbound
  PROVE  /\ \A i \in DOMAIN outbound' : \E k \in DOMAIN outbound :
              outbound'[i] = outbound[k] /\ outbound[k].generation # generation
         /\ \E f \in [DOMAIN outbound' -> DOMAIN outbound] :
              /\ \A i \in DOMAIN outbound' : outbound'[i] = outbound[f[i]]
              /\ \A i, j \in DOMAIN outbound' : f[i] = f[j] => i = j
         /\ Queued' \subseteq Queued
<1>1. outbound \in Seq(Request) /\ outbound' \in EraseGeneration(outbound, generation)
  BY DEF TypeOK, FenceOutbound
<1> QED BY <1>1, EraseKeeps DEF Queued

-------------------------------------------------------------------------------
(* Placement                                                               *)

(* Every step keeps each request in one place, and its entry with it.      *)
LEMMA PlacementStep ==
  ASSUME TypeOK, TypeOK', Placement, CallsInProgress, Next
  PROVE  Placement'
<1> USE DEF shared, queues, control, channel, history, Call, Idle, Busy, Running
<1>1. ASSUME NEW r \in Requests, NEW g \in Generations, Enqueue(r, g)
      PROVE  Placement'
  <2> DEFINE x == [id |-> r, generation |-> g]
  <2>1. r \notin Ids(registry) /\ r \notin known /\ ~halted /\ g = generation
    BY <1>1 DEF Enqueue, Enqueueable
  <2>2. \A y \in issued : y.id # r
    BY <2>1 DEF Placement
  <2>q. /\ \A i \in DOMAIN outbound' : \/ i \in DOMAIN outbound /\ outbound'[i] = outbound[i]
                                       \/ outbound'[i] = x
        /\ Queued' = Queued \union {r}
    BY <1>1, EnqueueQueue
  <2>r. registry' = registry \union {x}
    BY <1>1 DEF Enqueue
  <2>3. \A i \in DOMAIN outbound' : outbound'[i] \in registry'
    BY <2>q, <2>r DEF Placement
  <2>e. \A e \in registry : e.id # r
    BY <2>1 DEF Ids
  <2>4. \A i \in DOMAIN outbound : outbound[i].id # r
    BY <2>e DEF Placement
  <2>5. \A i, j \in DOMAIN outbound' : outbound'[i].id = outbound'[j].id => i = j
    BY <1>1, <2>4, EnqueueQueue DEF Placement
  <2>6. Busy => worker.request \in registry' /\ worker.request.id \notin Queued'
    BY <2>e, <2>q, <2>r DEF Placement
  <2>7. \A a, b \in issued' : a.id = b.id => a = b
    BY <1>1, <2>2 DEF Placement, Enqueue
  <2>8. generation \in Nat
    BY DEF TypeOK, Generations
  <2>9. \A a \in issued' : a.generation <= generation /\ (a.id \in known' \/ halted)
    BY <1>1, <2>1, <2>8 DEF Placement, Enqueue
  <2> QED BY <1>1, <2>3, <2>5, <2>6, <2>7, <2>9 DEF Enqueue, Placement
<1>2. CASE WorkerPop
  <2>1. \A i \in DOMAIN outbound' : outbound'[i] \in registry
    BY <1>2, PopQueue DEF Placement
  <2>2. \A i, j \in DOMAIN outbound' : outbound'[i].id = outbound'[j].id => i = j
    <3> SUFFICES ASSUME NEW i \in DOMAIN outbound', NEW j \in DOMAIN outbound',
                        outbound'[i].id = outbound'[j].id
                 PROVE  i = j
      OBVIOUS
    <3>1. i + 1 = j + 1
      BY <1>2, PopQueue DEF Placement
    <3>2. i \in Nat /\ j \in Nat
      BY LenProperties DEF TypeOK
    <3> QED BY <3>1, <3>2
  <2>3. worker'.request \in registry /\ worker'.request.id \notin Queued'
    BY <1>2, PopQueue DEF Placement
  <2>4. worker'.pc = "halted" /\ worker.pc = "wait"
    BY <1>2 DEF WorkerPop, TypeOK
  <2> QED BY <1>2, <2>1, <2>2, <2>3, <2>4 DEF WorkerPop, Placement
<1>3. CASE FenceOutbound
  <2>1. \A i \in DOMAIN outbound' : outbound'[i] \in registry
    BY <1>3, SweepQueue DEF Placement
  <2>2. \A i, j \in DOMAIN outbound' : outbound'[i].id = outbound'[j].id => i = j
    BY <1>3, SweepQueue DEF Placement
  <2> QED BY <1>3, <2>1, <2>2, SweepQueue DEF FenceOutbound, Placement
<1>4. CASE UNCHANGED <<outbound, registry, issued, known, halted, generation,
                       active, owner, worker>>
  BY <1>4 DEF Placement, Queued
<1>5. ASSUME NEW r \in Requests,
             \/ CancelStop(r) \/ CancelFind(r) \/ CancelPublish(r) \/ CancelInterrupt(r)
             \/ FenceInterrupt(r) \/ HaltInterrupt(r)
      PROVE  Placement'
  BY <1>4, <1>5 DEF CancelStop, CancelFind, CancelPublish, PublishCancelled,
     CancelInterrupt, Interrupt, FenceInterrupt, HaltInterrupt
<1>6. CASE EnginePolls \/ \E g \in Generations : FenceStop(g)
  BY <1>4, <1>6 DEF EnginePolls, Poll, FenceStop
<1>7. CASE FenceInbound \/ FenceActive \/ HaltStop \/ HaltActive \/ HaltClose \/ HaltJoin
           \/ HaltClear \/ HaltCloseInbound
  BY <1>4, <1>7 DEF FenceInbound, FenceActive, HaltStop, HaltActive, HaltClose,
     HaltJoin, HaltClear, HaltCloseInbound
<1>8. CASE FenceInvalidate \/ HaltInvalidate
  <2>1. \A a \in issued : a.generation <= generation'
    BY <1>8 DEF FenceInvalidate, HaltInvalidate, Placement, TypeOK, Generations, Request
  <2> QED BY <1>8, <2>1 DEF FenceInvalidate, HaltInvalidate, Placement, Queued
<1>9. CASE HaltBegin
  BY <1>9 DEF HaltBegin, Placement, Queued
<1>10. CASE HaltForget
  <2>1. halted /\ worker.pc = "done"
    BY <1>10 DEF HaltForget, CallsInProgress, Halting, Joined, EngineOps, Fencing
  <2> QED BY <1>10, <2>1 DEF HaltForget, Placement, Queued
<1>11. ASSUME Goto(worker.pc, worker'.pc), worker.pc \notin Running,
              worker'.pc \notin Running, worker'.pc \in {"wait", "done"} \/ Busy,
              UNCHANGED <<outbound, registry, issued, known, halted, generation,
                          active, owner>>
       PROVE  Placement'
  <2>1. worker'.request = worker.request
    BY <1>11 DEF Goto, TypeOK
  <2>2. worker.pc # "executing" /\ worker'.pc # "executing"
    BY <1>11
  <2> QED BY <1>11, <2>1, <2>2 DEF Placement, Queued
<1>a. CASE WorkerExit \/ WorkerHalted \/ WorkerToken \/ WorkerSkip
  BY <1>11, <1>a DEF WorkerExit, WorkerHalted, WorkerToken, WorkerSkip, Goto, TypeOK
<1>b. CASE WorkerSkipPublish \/ WorkerGeneration \/ WorkerDecide
  BY <1>11, <1>b DEF WorkerSkipPublish, PublishCancelled, WorkerGeneration,
     WorkerDecide, Goto, TypeOK
<1>c. CASE WorkerPublish \/ WorkerPush
  BY <1>11, <1>c DEF WorkerPublish, PublishCancelled, WorkerPush, Goto, TypeOK
<1>12. CASE WorkerActivate
  BY <1>12 DEF WorkerActivate, Goto, Placement, Queued, TypeOK
<1>13. CASE ExecuteBegin
  <2>1. CASE worker.request.id \in stopped
    <3>1. worker'.request = worker.request /\ worker'.pc = "stop" /\ worker.pc = "begin"
      BY <1>13, <2>1 DEF ExecuteBegin, TypeOK
    <3> QED BY <1>13, <2>1, <3>1 DEF ExecuteBegin, Placement, Queued
  <2>2. CASE worker.request.id \notin stopped
    BY <1>13, <2>2 DEF ExecuteBegin, Placement, Queued, TypeOK
  <2> QED BY <2>1, <2>2
<1>14. ASSUME NEW outcome \in Outcomes \ {"none"}, ExecuteReturn(outcome)
       PROVE  Placement'
  BY <1>14 DEF ExecuteReturn, Placement, Queued, TypeOK
<1>15. CASE WorkerStop
  BY <1>15 DEF WorkerStop, Placement, Queued, TypeOK
<1>16. CASE WorkerDeactivate
  BY <1>16 DEF WorkerDeactivate, Placement, Queued, TypeOK
<1>17. CASE WorkerComplete
  <2>1. \A i \in DOMAIN outbound : outbound[i].id # worker.request.id
    BY <1>17 DEF WorkerComplete, Placement, Queued
  <2> QED BY <1>17, <2>1 DEF WorkerComplete, Fresh, Placement, Queued
<1> QED
  BY <1>1, <1>2, <1>3, <1>5, <1>6, <1>7, <1>8, <1>9, <1>10, <1>12, <1>13,
     <1>14, <1>15, <1>16, <1>17, <1>a, <1>b, <1>c
     DEF Next, EngineContinues, EngineBegins, WorkerRuns

-------------------------------------------------------------------------------
(* CallsInProgress                                                         *)

(* What the worker thread never writes; and a joined worker takes no step. *)
LEMMA WorkerFrame ==
  ASSUME WorkerRuns
  PROVE  /\ worker.pc # "done"
         /\ UNCHANGED <<engine, halted, generation, stopped, issued, known, outClosed,
                        delivered>>
<1> USE DEF shared, queues, control, channel, history, Goto
<1>1. CASE WorkerPop \/ WorkerExit \/ WorkerHalted \/ WorkerToken \/ WorkerSkip
  BY <1>1 DEF WorkerPop, WorkerExit, WorkerHalted, WorkerToken, WorkerSkip
<1>2. CASE WorkerSkipPublish \/ WorkerPublish \/ WorkerPush
  BY <1>2 DEF WorkerSkipPublish, WorkerPublish, PublishCancelled, WorkerPush
<1>3. CASE WorkerGeneration \/ WorkerActivate \/ ExecuteBegin
           \/ \E outcome \in Outcomes \ {"none"} : ExecuteReturn(outcome)
  BY <1>3 DEF WorkerGeneration, WorkerActivate, ExecuteBegin, ExecuteReturn
<1>4. CASE WorkerStop \/ WorkerDeactivate \/ WorkerDecide \/ WorkerComplete
  BY <1>4 DEF WorkerStop, WorkerDeactivate, WorkerDecide, WorkerComplete
<1> QED BY <1>1, <1>2, <1>3, <1>4 DEF WorkerRuns

(* A thread between two statements of a call finds what it relies on.      *)
LEMMA CallsStep ==
  ASSUME TypeOK, TypeOK', Placement, CallsInProgress, Next
  PROVE  CallsInProgress'
<1> USE DEF shared, queues, control, channel, history, Call, Idle, CallsInProgress,
            Fencing, Halting, Joined, EngineOps
<1>1. CASE WorkerRuns
  BY <1>1, WorkerFrame
<1>2. ASSUME NEW r \in Requests, NEW g \in Generations, Enqueue(r, g)
      PROVE  CallsInProgress'
  BY <1>2 DEF Enqueue, Enqueueable
<1>3. CASE EnginePolls
  <2>1. ASSUME inbound = <<>> PROVE inbound' = <<>>
    <3>1. PICK m \in 1..InCapacity : inbound' = Undrained(<<>>, m)
      BY <1>3, <2>1 DEF EnginePolls, Poll
    <3>2. Len(<<>>) = 0 /\ ~(m < 0) /\ SubSeq(<<>>, 1, 0) = <<>>
      OBVIOUS
    <3> QED BY <3>1, <3>2 DEF Undrained
  <2> QED BY <1>3, <2>1 DEF EnginePolls, Poll
<1>4. ASSUME NEW r \in Requests, CancelStop(r)
      PROVE  CallsInProgress'
  BY <1>4 DEF CancelStop, Placement, Ids
<1>5. ASSUME NEW r \in Requests, CancelFind(r) \/ CancelInterrupt(r)
      PROVE  CallsInProgress'
  BY <1>5 DEF CancelFind, CancelInterrupt
<1>6. ASSUME NEW r \in Requests, CancelPublish(r)
      PROVE  CallsInProgress'
  BY <1>6 DEF CancelPublish, PublishCancelled
<1>7. ASSUME NEW g \in Generations, FenceStop(g)
      PROVE  CallsInProgress'
  BY <1>7 DEF FenceStop
<1>8. CASE FenceOutbound \/ FenceInbound \/ FenceActive \/ FenceInvalidate
  BY <1>8 DEF FenceOutbound, FenceInbound, FenceActive, FenceInvalidate
<1>9. ASSUME NEW r \in Requests, FenceInterrupt(r) \/ HaltInterrupt(r)
      PROVE  CallsInProgress'
  BY <1>9 DEF FenceInterrupt, HaltInterrupt
<1>10. CASE HaltBegin \/ HaltInvalidate \/ HaltStop \/ HaltActive \/ HaltClose
  BY <1>10 DEF HaltBegin, HaltInvalidate, HaltStop, HaltActive, HaltClose
<1>11. CASE HaltJoin \/ HaltClear \/ HaltCloseInbound \/ HaltForget
  BY <1>11 DEF HaltJoin, HaltClear, HaltCloseInbound, HaltForget
<1> QED
  BY <1>1, <1>2, <1>3, <1>4, <1>5, <1>6, <1>7, <1>8, <1>9, <1>10, <1>11
     DEF Next, EngineContinues, EngineBegins

-------------------------------------------------------------------------------
(* Publication                                                             *)

(* Every step leaves one thread at most entitled to publish.               *)
LEMMA PublicationStep ==
  ASSUME TypeOK, TypeOK', Placement, Placement', CallsInProgress, CallsInProgress',
         Stopping, Publication, Next
  PROVE  Publication'
<1> USE DEF shared, queues, control, channel, history, Call, Idle, Busy, Before, Running
<1>1. ASSUME NEW r \in Requests, NEW g \in Generations, Enqueue(r, g)
      PROVE  Publication'
  <2>1. r \notin Ids(issued) /\ Ids(issued') = Ids(issued) \union {r}
    BY <1>1 DEF Enqueue, Enqueueable, Placement, Ids
  <2>2. Queued' = Queued \union {r}
    BY <1>1, EnqueueQueue
  <2> QED BY <1>1, <2>1, <2>2 DEF Enqueue, Enqueueable, Publication
<1>2. CASE UNCHANGED <<cancels, answers, published, stopped, issued, worker>> /\ Queued' \subseteq Queued
           /\ engine'.op \notin {"cancel.publish", "cancel.find"}
  BY <1>2 DEF Publication
<1>3. CASE WorkerPop
  <2>1. /\ Queued = Queued' \union {worker'.request.id}
        /\ worker'.request.id \notin Queued'
        /\ worker'.request.id \in Requests
    BY <1>3, PopQueue DEF TypeOK, Request
  <2>2. worker'.pc = "halted" /\ worker.pc = "wait"
    BY <1>3 DEF WorkerPop, TypeOK
  <2>3. /\ worker'.request.id \notin published /\ cancels[worker'.request.id] = 0
        /\ answers[worker'.request.id] = 0
    BY <2>1 DEF Publication
  <2> QED BY <1>3, <2>1, <2>2, <2>3 DEF WorkerPop, Publication
<1>4. ASSUME NEW r \in Requests, CancelInterrupt(r) \/ FenceInterrupt(r) \/ HaltInterrupt(r)
      PROVE  Publication'
  BY <1>2, <1>4 DEF CancelInterrupt, FenceInterrupt, HaltInterrupt, Queued
<1>5. CASE EnginePolls \/ HaltBegin
  BY <1>2, <1>5 DEF EnginePolls, Poll, HaltBegin, Queued
<1>6. CASE FenceOutbound
  BY <1>2, <1>6, SweepQueue DEF FenceOutbound
<1>7. CASE FenceInbound \/ FenceActive \/ FenceInvalidate
  BY <1>2, <1>7 DEF FenceInbound, FenceActive, FenceInvalidate, Queued
<1>8. CASE HaltInvalidate \/ HaltActive \/ HaltClose \/ HaltJoin \/ HaltClear
           \/ HaltCloseInbound
  BY <1>2, <1>8 DEF HaltInvalidate, HaltActive, HaltClose, HaltJoin, HaltClear,
     HaltCloseInbound, Queued
<1>9. ASSUME NEW r \in Requests, CancelStop(r)
      PROVE  Publication'
  BY <1>9 DEF CancelStop, Publication, Queued
<1>10. CASE HaltStop \/ \E g \in Generations : FenceStop(g)
  <2>1. /\ UNCHANGED <<cancels, answers, published, issued, worker, outbound>>
        /\ stopped \subseteq stopped' /\ engine'.op \notin {"cancel.publish", "cancel.find"}
    <3>1. CASE HaltStop
      BY <3>1 DEF HaltStop
    <3>2. ASSUME NEW g \in Generations, FenceStop(g)
          PROVE  /\ UNCHANGED <<cancels, answers, published, issued, worker, outbound>>
                 /\ stopped \subseteq stopped'
                 /\ engine'.op \notin {"cancel.publish", "cancel.find"}
      BY <3>2 DEF FenceStop
    <3> QED BY <1>10, <3>1, <3>2
  <2> QED BY <2>1 DEF Publication, Queued
<1>11. CASE HaltForget
  <2>1. worker.pc = "done"
    BY <1>11 DEF HaltForget, CallsInProgress, Joined
  <2> QED BY <1>11, <2>1 DEF HaltForget, Publication, Queued
<1>12. ASSUME NEW r \in Requests, CancelFind(r)
       PROVE  Publication'
  <2>1. CASE r \in Ids(active) /\ r \notin published
    <3>1. worker.pc \in Running /\ worker.request.id = r
      BY <2>1 DEF Ids, Placement
    <3>2. r \in Ids(issued) /\ r \notin Queued /\ r \in stopped
      BY <1>12, <3>1 DEF CancelFind, Placement, Ids, CallsInProgress
    <3>3. cancels[r] = 0
      BY <2>1, <3>1 DEF Publication, TypeOK
    <3> QED BY <1>12, <2>1, <3>1, <3>2, <3>3 DEF CancelFind, Publication, Queued
  <2>2. CASE ~(r \in Ids(active) /\ r \notin published)
    BY <1>12, <2>2 DEF CancelFind, Publication, Queued
  <2> QED BY <2>1, <2>2
<1>13. ASSUME NEW r \in Requests, CancelPublish(r)
       PROVE  Publication'
  <2>1. /\ cancels' = [cancels EXCEPT ![r] = @ + 1] /\ UNCHANGED <<outbound, answers>>
        /\ r \in published /\ cancels[r] = 0
    BY <1>13 DEF CancelPublish, PublishCancelled, Publication
  <2>2. \A s \in Requests : cancels'[s] = IF s = r THEN 1 ELSE cancels[s]
    BY <2>1 DEF TypeOK
  <2>3. worker.request.id \in Requests
    BY DEF TypeOK, Request
  <2> QED BY <1>13, <2>1, <2>2, <2>3 DEF CancelPublish, Publication, Queued
<1>w. ASSUME WorkerRuns
      PROVE  /\ UNCHANGED <<engine, stopped, issued>> /\ worker.request.id \in Requests
             /\ Busy => worker.request.id \in Ids(issued) /\ worker.request.id \notin Queued
  BY <1>w, WorkerFrame DEF TypeOK, Request, Placement, Ids
<1>14. CASE WorkerExit \/ WorkerHalted \/ WorkerGeneration
  BY <1>14 DEF WorkerExit, WorkerHalted, WorkerGeneration, Goto, Publication, Queued, TypeOK
<1>15. CASE WorkerToken
  <2>1. worker.request.id \in Ids(registry)
    BY <1>15 DEF WorkerToken, Goto, Placement, Ids
  <2> QED BY <1>15, <2>1 DEF WorkerToken, Goto, Publication, Queued, TypeOK
<1>16. CASE WorkerSkip
  <2>1. /\ worker.pc = "skip" /\ worker'.pc = "skipPublish" /\ worker'.request = worker.request
        /\ published' = published \union {worker.request.id}
        /\ worker.request.id \notin published
    BY <1>16 DEF WorkerSkip, Goto, Publication, TypeOK
  <2>2. /\ UNCHANGED <<engine, stopped, issued>> /\ worker.request.id \in Requests
        /\ worker.request.id \in Ids(issued) /\ worker.request.id \notin Queued
    BY <1>16, <1>w, <2>1 DEF WorkerRuns
  <2> QED BY <1>16, <2>1, <2>2 DEF WorkerSkip, Publication, Queued
<1>17. CASE WorkerSkipPublish \/ WorkerPublish
  <2>1. /\ worker.pc \in {"skipPublish", "publish"} /\ worker'.pc = "complete"
        /\ worker'.request = worker.request
        /\ cancels' = [cancels EXCEPT ![worker.request.id] = @ + 1]
        /\ UNCHANGED <<outbound, answers, published>>
    BY <1>17 DEF WorkerSkipPublish, WorkerPublish, PublishCancelled, Goto, TypeOK
  <2>2. /\ UNCHANGED <<engine, stopped, issued>> /\ worker.request.id \in Requests
        /\ worker.request.id \in Ids(issued) /\ worker.request.id \notin Queued
    BY <1>17, <1>w, <2>1 DEF WorkerRuns
  <2>3. cancels[worker.request.id] = 0
    BY <2>1 DEF Publication
  <2>4. \A s \in Requests : cancels'[s] = IF s = worker.request.id THEN 1 ELSE cancels[s]
    BY <2>1, <2>3 DEF TypeOK
  <2>5. engine.op = "cancel.publish" => worker.request.id \notin engine.ids
    BY <2>1 DEF Publication
  <2> QED BY <2>1, <2>2, <2>4, <2>5 DEF Publication, Queued
<1>18. CASE WorkerActivate
  BY <1>18 DEF WorkerActivate, Goto, Publication, Queued, TypeOK
<1>19. CASE ExecuteBegin \/ \E outcome \in Outcomes \ {"none"} : ExecuteReturn(outcome)
  <2>1. /\ worker.pc \in Running /\ worker'.pc \in Running
        /\ worker'.request = worker.request
        /\ UNCHANGED <<cancels, answers, published, outbound>>
    BY <1>19 DEF ExecuteBegin, ExecuteReturn, TypeOK
  <2>2. UNCHANGED <<engine, stopped, issued>>
    BY <1>19, <1>w DEF WorkerRuns
  <2> QED BY <2>1, <2>2 DEF Publication, Queued
<1>20. CASE WorkerStop
  <2>1. /\ worker.pc \in Running /\ worker'.pc \in Running
        /\ worker'.request = worker.request
        /\ UNCHANGED <<cancels, answers, published, outbound>>
    BY <1>20 DEF WorkerStop, TypeOK
  <2>2. UNCHANGED <<engine, stopped, issued>>
    BY <1>20, <1>w DEF WorkerRuns
  <2> QED BY <2>1, <2>2 DEF Publication, Queued
<1>21. CASE WorkerDeactivate
  <2>1. /\ worker.pc = "deactivate" /\ worker'.pc = "decide"
        /\ worker'.request = worker.request
        /\ ~worker'.already => worker.request.id \notin published
        /\ UNCHANGED <<cancels, answers, published, outbound>>
    BY <1>21 DEF WorkerDeactivate, TypeOK
  <2>2. UNCHANGED <<engine, stopped, issued>> /\ worker.request.id \in Requests
    BY <1>21, <1>w DEF WorkerRuns
  <2>3. ~worker'.already => cancels[worker.request.id] = 0
    BY <2>1, <2>2 DEF Publication, TypeOK
  <2> QED BY <2>1, <2>2, <2>3 DEF Publication, Queued
<1>22. CASE WorkerDecide
  <2>1. /\ worker.pc = "decide" /\ worker'.pc \in {"publish", "push", "complete"}
        /\ worker'.request = worker.request /\ worker'.already = worker.already
        /\ worker'.pc = "publish" => ~worker.already
        /\ UNCHANGED <<cancels, answers, published, outbound>>
    BY <1>22 DEF WorkerDecide, Goto, TypeOK
  <2>2. UNCHANGED <<engine, stopped, issued>>
    BY <1>22, <1>w DEF WorkerRuns
  <2> QED BY <2>1, <2>2 DEF Publication, Queued
<1>23. CASE WorkerPush
  <2>1. /\ worker.pc = "push" /\ worker'.pc = "complete"
        /\ worker'.request = worker.request
        /\ answers' = [answers EXCEPT ![worker.request.id] = @ + 1]
        /\ UNCHANGED <<cancels, published, outbound>>
    BY <1>23 DEF WorkerPush, Goto, TypeOK
  <2>2. /\ UNCHANGED <<engine, stopped, issued>> /\ worker.request.id \in Requests
        /\ worker.request.id \in Ids(issued) /\ worker.request.id \notin Queued
    BY <1>23, <1>w, <2>1 DEF WorkerRuns
  <2>3. answers[worker.request.id] = 0
    BY <2>1 DEF Publication
  <2>4. \A s \in Requests : answers'[s] = IF s = worker.request.id THEN 1 ELSE answers[s]
    BY <2>1, <2>3 DEF TypeOK
  <2> QED BY <2>1, <2>2, <2>4 DEF Publication, Queued
<1>24. CASE WorkerComplete
  BY <1>24 DEF WorkerComplete, Fresh, Publication, Queued
<1>25. CASE WorkerRuns
  BY <1>3, <1>14, <1>15, <1>16, <1>17, <1>18, <1>19, <1>20, <1>21, <1>22, <1>23,
     <1>24, <1>25 DEF WorkerRuns
<1> QED
  BY <1>1, <1>4, <1>5, <1>6, <1>7, <1>8, <1>9, <1>10, <1>11, <1>12, <1>13, <1>25
     DEF Next, EngineContinues, EngineBegins

-------------------------------------------------------------------------------
(* Stopping                                                                *)

(* Every step keeps stopped requests on their way to an interrupt.         *)
LEMMA StoppingStep ==
  ASSUME TypeOK, TypeOK', Placement, Placement', CallsInProgress, CallsInProgress',
         Publication, Stopping, Next
  PROVE  Stopping'
<1> USE DEF shared, queues, control, channel, history, Call, Idle, Busy, Running,
            Fencing, RegistryAccounted, FencedOff
<1>1. ASSUME NEW r \in Requests, NEW g \in Generations, Enqueue(r, g)
      PROVE  Stopping'
  <2>1. Queued' = Queued \union {r}
    BY <1>1, EnqueueQueue
  <2>3. generation \in Nat
    BY DEF TypeOK, Generations
  <2>2. InFlight' = InFlight
    BY <1>1 DEF Enqueue, InFlight
  <2> QED BY <1>1, <2>1, <2>2, <2>3 DEF Enqueue, Enqueueable, Stopping
<1>2. ASSUME NEW r \in Requests, CancelStop(r)
      PROVE  Stopping'
  <2>1. Queued' = Queued /\ InFlight' = InFlight
    BY <1>2 DEF CancelStop, Queued, InFlight
  <2> QED BY <1>2, <2>1 DEF CancelStop, Stopping
<1>3. CASE EnginePolls
  BY <1>3 DEF EnginePolls, Poll, Stopping, Queued, InFlight
<1>4. ASSUME NEW r \in Requests, CancelFind(r)
      PROVE  Stopping'
  <2>1. Queued' = Queued /\ InFlight' = InFlight
    BY <1>4 DEF CancelFind, Queued, InFlight
  <2>2. CASE r \in Ids(active) /\ r \notin published
    BY <1>4, <2>1, <2>2 DEF CancelFind, Stopping
  <2>3. CASE ~(r \in Ids(active) /\ r \notin published)
    <3>1. worker.pc = "executing" => worker.request.id \in Ids(active)
      BY DEF Placement, Ids
    <3>2. worker.pc = "executing" => worker.request.id # r
      BY <1>4, <2>3, <3>1 DEF CancelFind, Publication
    <3> QED BY <1>4, <2>1, <2>3, <3>2 DEF CancelFind, Stopping
  <2> QED BY <2>2, <2>3
<1>5. ASSUME NEW r \in Requests, CancelPublish(r)
      PROVE  Stopping'
  <2>1. Queued' = Queued /\ InFlight' = InFlight
    BY <1>5 DEF CancelPublish, PublishCancelled, Queued, InFlight
  <2> QED BY <1>5, <2>1 DEF CancelPublish, PublishCancelled, Stopping
<1>6. ASSUME NEW r \in Requests, CancelInterrupt(r) \/ FenceInterrupt(r) \/ HaltInterrupt(r)
      PROVE  Stopping'
  <2>1. Queued' = Queued /\ InFlight' = InFlight
    BY <1>6 DEF CancelInterrupt, FenceInterrupt, HaltInterrupt, Queued, InFlight
  <2>2. CASE CancelInterrupt(r)
    BY <2>1, <2>2 DEF CancelInterrupt, Interrupt, Stopping, Placement
  <2>3. CASE FenceInterrupt(r)
    BY <2>1, <2>3 DEF FenceInterrupt, Interrupt, Stopping, Placement
  <2>4. CASE HaltInterrupt(r)
    BY <2>1, <2>4 DEF HaltInterrupt, Interrupt, Stopping, Placement
  <2> QED BY <1>6, <2>2, <2>3, <2>4
<1>7. ASSUME NEW g \in Generations, FenceStop(g)
      PROVE  Stopping'
  <2>1. Queued' = Queued /\ InFlight' = InFlight
    BY <1>7 DEF FenceStop, Queued, InFlight
  <2>2. \A e \in registry : e.generation <= generation /\ e.generation \in Int
                            /\ generation \in Int
    BY DEF Placement, TypeOK, Request, Generations
  <2>3. \A e \in registry : e.id \in stopped'
    BY <1>7, <2>2 DEF FenceStop, Stopping, Ids
  <2>4. worker.pc = "executing" /\ worker.request.id \in stopped' /\ ~interrupted
          => worker.request.generation = generation
    <3> SUFFICES ASSUME worker.pc = "executing", worker.request.id \in stopped',
                        ~interrupted
                 PROVE  worker.request.generation = generation
      OBVIOUS
    <3>1. worker.request.id \notin stopped
      BY <1>7 DEF FenceStop, Stopping
    <3>2. PICK e \in registry : e.generation = generation /\ e.id = worker.request.id
      BY <1>7, <3>1 DEF FenceStop, Ids
    <3> QED BY <3>2 DEF Placement
  <2> QED BY <1>7, <2>1, <2>3, <2>4 DEF FenceStop, Stopping
<1>8. CASE FenceOutbound \/ FenceInbound
  <2>1. InFlight' = InFlight /\ \A e \in registry : e.id \in stopped
    BY <1>8 DEF FenceOutbound, FenceInbound, InFlight, Stopping
  <2> QED BY <1>8, <2>1 DEF FenceOutbound, FenceInbound, Stopping
<1>9. CASE FenceActive
  <2>1. \A e \in registry : e.id \in stopped
    BY <1>9 DEF FenceActive, Stopping
  <2>2. worker.pc = "executing" /\ worker.request.generation = generation
          => worker.request.id \in Ids({x \in active : x.generation = generation})
    BY DEF Placement, Ids
  <2> QED BY <1>9, <2>1, <2>2 DEF FenceActive, Stopping
<1>10. CASE FenceInvalidate
  <2>1. \A e \in registry : e.id \in stopped
    BY <1>10 DEF FenceInvalidate, Stopping
  <2>2. \A e \in registry : e.generation < generation + 1
    <3>1. \A e \in registry : e.generation <= generation /\ e.generation \in Int
                              /\ generation \in Int
      BY DEF Placement, TypeOK, Request, Generations
    <3> QED BY <3>1
  <2> QED BY <1>10, <2>1, <2>2 DEF FenceInvalidate, Stopping
<1>11. CASE HaltBegin \/ HaltInvalidate \/ HaltClose \/ HaltJoin \/ HaltClear
            \/ HaltCloseInbound \/ HaltForget
  <2>1. /\ halted' /\ UNCHANGED <<worker, stopped, interrupted>>
        /\ engine'.op \notin Fencing
        /\ ~(worker.pc = "executing" /\ worker.request.id \in stopped /\ ~interrupted)
    BY <1>11 DEF HaltBegin, HaltInvalidate, HaltClose, HaltJoin, HaltClear,
       HaltCloseInbound, HaltForget, CallsInProgress, Halting, EngineOps, Stopping
  <2> QED BY <2>1 DEF Stopping
<1>12. CASE HaltStop \/ HaltActive
  <2>1. worker.pc = "executing" => worker.request.id \in Ids(active)
    BY DEF Placement, Ids
  <2>2. halted
    BY <1>12 DEF HaltStop, HaltActive, CallsInProgress, Halting, EngineOps
  <2>3. CASE HaltStop
    BY <2>2, <2>3 DEF HaltStop, Stopping
  <2>4. CASE HaltActive
    BY <2>1, <2>2, <2>4 DEF HaltActive, Stopping
  <2> QED BY <1>12, <2>3, <2>4
<1>13. CASE WorkerPop
  <2>1. Queued \union InFlight = Queued' \union InFlight' /\ worker'.pc = "halted"
    BY <1>13, PopQueue DEF WorkerPop, InFlight, TypeOK
  <2> QED BY <1>13, <2>1 DEF WorkerPop, Stopping
<1>14. CASE WorkerComplete
  <2>1. worker'.pc = "wait" /\ Queued' = Queued /\ InFlight = {worker.request.id}
    BY <1>14 DEF WorkerComplete, Fresh, Queued, InFlight
  <2> QED BY <1>14, <2>1 DEF WorkerComplete, Stopping
<1>15. CASE WorkerHalted /\ halted
  <2>1. worker'.pc # "executing"
    BY <1>15 DEF WorkerHalted, Goto, TypeOK
  <2> QED BY <1>15, <2>1 DEF WorkerHalted, Stopping
<1>16. ASSUME UNCHANGED <<outbound, registry, stopped, halted, generation, engine>>,
              worker'.pc # "executing", InFlight' = InFlight
       PROVE  Stopping'
  BY <1>16 DEF Stopping, Queued
<1>17. CASE (WorkerHalted /\ ~halted) \/ WorkerExit \/ WorkerToken \/ WorkerSkip
  BY <1>16, <1>17 DEF WorkerHalted, WorkerExit, WorkerToken, WorkerSkip, Goto,
     InFlight, TypeOK
<1>18. CASE WorkerGeneration \/ WorkerActivate \/ WorkerDecide \/ WorkerPush
  BY <1>16, <1>18 DEF WorkerGeneration, WorkerActivate, WorkerDecide, WorkerPush,
     Goto, InFlight, TypeOK
<1>19. CASE WorkerSkipPublish \/ WorkerPublish
  BY <1>16, <1>19 DEF WorkerSkipPublish, WorkerPublish, PublishCancelled, Goto,
     InFlight, TypeOK
<1>20. CASE WorkerStop
  BY <1>16, <1>20 DEF WorkerStop, InFlight, TypeOK
<1>21. CASE WorkerDeactivate
  BY <1>16, <1>21 DEF WorkerDeactivate, InFlight, TypeOK
<1>22. ASSUME NEW outcome \in Outcomes \ {"none"}, ExecuteReturn(outcome)
       PROVE  Stopping'
  BY <1>16, <1>22 DEF ExecuteReturn, InFlight, TypeOK
<1>23. CASE ExecuteBegin
  <2>1. CASE worker.request.id \in stopped
    BY <1>16, <1>23, <2>1 DEF ExecuteBegin, InFlight, TypeOK
  <2>2. CASE worker.request.id \notin stopped
    <3>1. worker'.request = worker.request /\ InFlight' = InFlight
      BY <1>23, <2>2 DEF ExecuteBegin, InFlight, TypeOK
    <3> QED BY <1>23, <2>2, <3>1 DEF ExecuteBegin, Stopping, Queued
  <2> QED BY <2>1, <2>2
<1>24. CASE WorkerRuns
  BY <1>13, <1>14, <1>15, <1>17, <1>18, <1>19, <1>20, <1>21, <1>22, <1>23, <1>24
     DEF WorkerRuns
<1> QED
  BY <1>1, <1>2, <1>3, <1>4, <1>5, <1>6, <1>7, <1>8, <1>9, <1>10, <1>11, <1>12,
     <1>24 DEF Next, EngineContinues, EngineBegins

-------------------------------------------------------------------------------
(* The inductive invariant, and what follows from it                       *)

(* The four parts hold together: each is preserved given all of them.      *)
THEOREM Inductive == Spec => []IInv
<1>1. Init => IInv
  <2> SUFFICES ASSUME Init PROVE IInv
    OBVIOUS
  <2>1. TypeOK /\ Bounded
    BY InitType
  <2>2. DOMAIN outbound = {} /\ worker.pc = "wait" /\ engine = [op |-> "idle", ids |-> {}]
    BY DEF Init, Fresh, Idle
  <2>3. Placement
    BY <2>2 DEF Init, Placement, Busy, Running
  <2>4. CallsInProgress
    BY <2>2 DEF Init, CallsInProgress, Fencing, Halting, Joined
  <2>5. Publication
    BY <2>2 DEF Init, Publication, Running, Before, Busy
  <2>6. Stopping
    BY <2>2 DEF Init, Stopping, RegistryAccounted, Fencing
  <2> QED BY <2>1, <2>3, <2>4, <2>5, <2>6 DEF IInv
<1>2. IInv /\ [Next]_vars => IInv'
  <2> SUFFICES ASSUME IInv, [Next]_vars PROVE IInv'
    OBVIOUS
  <2>1. CASE Next
    <3>1. TypeOK' /\ Bounded'
      BY <2>1, EngineType, WorkerType DEF Next, IInv
    <3>2. Placement' /\ CallsInProgress'
      BY <2>1, <3>1, PlacementStep, CallsStep DEF IInv
    <3>3. Publication' /\ Stopping'
      BY <2>1, <3>1, <3>2, PublicationStep, StoppingStep DEF IInv
    <3> QED BY <3>1, <3>2, <3>3 DEF IInv
  <2>2. CASE UNCHANGED vars
    <3> USE <2>2 DEF vars, shared, queues, control, channel, history
    <3>1. TypeOK' /\ Bounded'
      BY DEF IInv, TypeOK, Bounded
    <3>2. Placement' /\ CallsInProgress'
      BY DEF IInv, Placement, Busy, Queued, CallsInProgress
    <3>3. Publication' /\ Stopping'
      BY DEF IInv, Publication, Stopping, RegistryAccounted, FencedOff, Busy, Queued, InFlight
    <3> QED BY <3>1, <3>2, <3>3 DEF IInv
  <2> QED BY <2>1, <2>2
<1> QED BY <1>1, <1>2, PTL DEF Spec

(* However cancel races the worker's two publishing paths, a request gets  *)
(* at most one `cancelled' result (bridge_service.cpp cancel, workerLoop). *)
THEOREM AtMostOneCancelled == Spec => []OneCancelledResult
<1>1. IInv => OneCancelledResult
  BY DEF IInv, Publication, OneCancelledResult
<1> QED BY <1>1, Inductive, PTL

(* A request is answered at most once.                                     *)
THEOREM AtMostOneAnswer == Spec => []OneAnswer
<1>1. IInv => OneAnswer
  BY DEF IInv, Publication, OneAnswer
<1> QED BY <1>1, Inductive, PTL

(* A request gets at most one cancelled result and one other, whatever     *)
(* cancel, the fences, halt and the worker do to it.                       *)
THEOREM AtMostOneOfEach == Spec => []OneOfEach
<1> QED BY AtMostOneCancelled, AtMostOneAnswer, PTL DEF OneOfEach

(* A queued or running request has its cancellation entry.                 *)
THEOREM AlwaysCancellable == Spec => []Cancellable
<1>1. IInv => Cancellable
  BY DEF IInv, Placement, Busy, Cancellable, Queued, InFlight, Ids
<1> QED BY <1>1, Inductive, PTL

(* Once cancel, cancelGeneration or halt has returned, an execution it     *)
(* stopped has been interrupted, wherever the worker was meanwhile.        *)
THEOREM NoInterruptIsLost == Spec => []NoLostInterrupt
<1>1. IInv => NoLostInterrupt
  BY DEF IInv, Stopping, NoLostInterrupt, Idle, Fencing
<1> QED BY <1>1, Inductive, PTL

(* An entry without work is one of a fenced generation: what completed, or *)
(* was cancelled by itself, has left the registry (workerLoop, 436 to 474).*)
THEOREM RegistryHoldsLiveWork == Spec => []RegistryAccounted
<1>1. IInv => RegistryAccounted
  BY DEF IInv, Stopping
<1> QED BY <1>1, Inductive, PTL

(* Within a generation the registry holds what is queued or running, and   *)
(* nothing that is over; of earlier ones also what their fence erased from *)
(* the queue (bridge_service.cpp:364), stopped.                            *)
THEOREM RegistryMatches == Spec => []RegistryMatchesWork
<1> QED BY AlwaysCancellable, RegistryHoldsLiveWork, PTL DEF RegistryMatchesWork

(* Between any two critical sections of either thread: the types, and the  *)
(* registry mirrors the work.                                              *)
THEOREM BridgeInvHolds == Spec => []BridgeInv
<1> QED BY TypeCorrect, RegistryMatches, PTL DEF BridgeInv

(* When halt has returned, the worker is joined and nothing is left.       *)
THEOREM HaltIsFinal == Spec => []HaltLeavesNothing
<1>1. IInv => HaltLeavesNothing
  BY DEF IInv, CallsInProgress, Placement, Running, HaltLeavesNothing, Idle
<1> QED BY <1>1, Inductive, PTL

(* poll hands over results of the current generation only.                 *)
THEOREM OnlyCurrentResults == Spec => []CurrentResultsOnly
<1>1. Init => CurrentResultsOnly
  BY DEF Init, CurrentResultsOnly
<1>2. CurrentResultsOnly /\ [Next]_vars => CurrentResultsOnly'
  <2> SUFFICES ASSUME CurrentResultsOnly, [Next]_vars PROVE CurrentResultsOnly'
    OBVIOUS
  <2> USE DEF vars, shared, queues, control, channel, history, CurrentResultsOnly
  <2>1. CASE UNCHANGED delivered
    BY <2>1
  <2>2. CASE EnginePolls
    BY <2>2 DEF EnginePolls, Poll, PollFilter
  <2>3. CASE WorkerRuns
    BY <2>1, <2>3, WorkerFrame
  <2>4. CASE EngineBegins
    BY <2>1, <2>4 DEF EngineBegins, Enqueue, CancelStop, FenceStop, HaltBegin
  <2>5. CASE EngineContinues
    BY <2>1, <2>5 DEF EngineContinues, CancelFind, CancelPublish, CancelInterrupt,
       FenceOutbound, FenceInbound, FenceActive, FenceInterrupt, FenceInvalidate,
       HaltInvalidate, HaltStop, HaltActive, HaltInterrupt, HaltClose, HaltJoin,
       HaltClear, HaltCloseInbound, HaltForget
  <2> QED BY <2>1, <2>2, <2>3, <2>4, <2>5 DEF Next
<1> QED BY <1>1, <1>2, PTL DEF Spec

(* The transport starts only what is neither cancelled nor fenced off, in  *)
(* whatever order workerLoop's checks and the engine's calls fall.         *)
THEOREM OnlyLiveRequestsStart == Spec => StartsOnlyLive
<1> DEFINE Starts == worker.pc # "executing" /\ worker'.pc = "executing"
           Live   == /\ worker.request.id \notin stopped
                     /\ worker.request.generation = generation \/ halted
<1>1. IInv /\ [Next]_vars => [Starts => Live]_vars
  <2> SUFFICES ASSUME IInv, Next, Starts PROVE Live
    BY DEF vars
  <2> USE DEF shared, queues, control, channel, history, Goto
  <2>1. worker.pc = "begin" /\ worker.request.id \notin stopped
    <3>1. TypeOK
      BY DEF IInv
    <3>2. CASE ExecuteBegin
      BY <3>1, <3>2 DEF ExecuteBegin, TypeOK
    <3>3. CASE WorkerPop \/ WorkerExit \/ WorkerHalted \/ WorkerToken \/ WorkerSkip
      BY <3>1, <3>3 DEF WorkerPop, WorkerExit, WorkerHalted, WorkerToken, WorkerSkip,
         TypeOK
    <3>4. CASE WorkerSkipPublish \/ WorkerPublish \/ WorkerPush
      BY <3>1, <3>4 DEF WorkerSkipPublish, WorkerPublish, WorkerPush, TypeOK
    <3>5. CASE WorkerGeneration \/ WorkerActivate \/ WorkerDecide \/ WorkerComplete
      BY <3>1, <3>5 DEF WorkerGeneration, WorkerActivate, WorkerDecide, WorkerComplete,
         Fresh, TypeOK
    <3>6. CASE WorkerStop \/ WorkerDeactivate
               \/ \E outcome \in Outcomes \ {"none"} : ExecuteReturn(outcome)
      BY <3>1, <3>6 DEF WorkerStop, WorkerDeactivate, ExecuteReturn, TypeOK
    <3>7. CASE EnginePolls \/ EngineBegins
      BY <3>7 DEF EnginePolls, Poll, EngineBegins, Enqueue, CancelStop, FenceStop,
         HaltBegin
    <3>8. CASE EngineContinues
      BY <3>8 DEF EngineContinues, CancelFind, CancelPublish, CancelInterrupt,
         FenceOutbound, FenceInbound, FenceActive, FenceInterrupt, FenceInvalidate,
         HaltInvalidate, HaltStop, HaltActive, HaltInterrupt, HaltClose, HaltJoin,
         HaltClear, HaltCloseInbound, HaltForget
    <3> QED
      BY <3>2, <3>3, <3>4, <3>5, <3>6, <3>7, <3>8 DEF Next, WorkerRuns
  <2>2. worker.request \in registry
    BY <2>1 DEF IInv, Placement, Busy
  <2>3. /\ worker.request.generation <= generation
        /\ worker.request.generation \in Int /\ generation \in Int
    BY <2>2 DEF IInv, Placement, TypeOK, Request, Generations
  <2>4. ~halted => ~(worker.request.generation < generation)
    BY <2>1, <2>2 DEF IInv, Stopping
  <2> QED BY <2>1, <2>3, <2>4
<1> QED BY <1>1, Inductive, PTL DEF Spec, StartsOnlyLive
===============================================================================
