---------------------------- MODULE SideLanesProofs ----------------------------
(***************************************************************************)
(* Proofs about DiaryBooks, Disposition and NpcCommands, each on its own    *)
(* and as a lane of SideLanes, for every set of books, adjustments,         *)
(* readings and places, every list of deliveries and every capacity and     *)
(* bound.                                                                   *)
(***************************************************************************)
EXTENDS SideLanes, SequenceTheorems, FiniteSetTheorems, TLAPS

-------------------------------------------------------------------------------
(* Diary books                                                             *)

(* While no session is open the bindings hold nothing (cancelGeneration),  *)
(* and GLOBAL has seen no scope that is still to come.                     *)
Scope ==
  /\ ~ready => native = Empty /\ net = "none"
  /\ lua.gen <= gen
  /\ ~ready /\ lua.gen = gen => ~lua.ready

(* What the bindings have under way is what GLOBAL waits for.              *)
Together ==
  /\ native.request => lua.phase = "query" /\ Here
  /\ native.receipt => lua.phase = "receipt_pending" /\ Here /\ native.book # 0 /\ native.dto # "none"
  /\ native.pending => lua.phase = "materializing" /\ Here
  /\ lua.phase = "query" /\ Here => native.state = "none" /\ native.dto = "none"

(* A closure that may still write is the one that GLOBAL waits for.        *)
Alive(c) == c.live /\ c.gen = gen
Writers ==
  \A c \in queue :
    /\ c.gen <= gen
    /\ ~ready => c.gen < gen
    /\ Alive(c) => /\ Here /\ lua.phase = "materializing" /\ native.pending
                   /\ lua.book = c.book /\ native.book = c.book

(* Deliveries are written in order, and only while they are unanswered.    *)
Unspoken ==
  /\ native.book # 0 => \A e \in Deliveries : e < native.book => told[e] # "none"
  /\ native.book # 0 /\ Here /\ lua.phase = "query" => told[native.book] = "none"
  /\ native.book # 0 /\ Here /\ lua.phase = "materializing" /\ native.pending
       => told[native.book] = "none"
Ordered == \A b \in Books, e \in Deliveries : e < text[b] => told[e] # "none"

(* A success that is on its way to the server has been written.            *)
Written ==
  "succeeded" \in {native.state, native.dto} =>
    native.book # 0 /\ text[BookOf[native.book]] >= native.book
OneCopy == \A b \in Books : copies[b] = IF text[b] = 0 THEN 0 ELSE 1

(* DiaryInv alone is not inductive: a closure of an abandoned delivery     *)
(* must be known to write nothing, and one that writes to write the latest *)
(* text of its book.                                                       *)
Control == Scope /\ Together /\ Writers
Truth == Unspoken /\ Ordered /\ Written /\ OneCopy /\ SuccessMeansWritten
IInv == TypeOK /\ Control /\ Truth

-------------------------------------------------------------------------------
(* Type correctness                                                        *)

(* A delivery has a number that is not 0, and a book.                      *)
LEMMA DeliveryFacts ==
  /\ Deliveries \subseteq Nat \ {0}
  /\ \A d \in Deliveries : BookOf[d] \in Books
<1>1. Len(BookOf) \in Nat
  BY DiaryAssumption, LenProperties
<1> QED BY <1>1, DiaryAssumption, ElementOfSeq DEF Deliveries

(* Every action of Next, by name: the cases of the proofs below.           *)
LEMMA DiaryCases ==
  ASSUME Next
  PROVE  \/ Reset \/ TimeOut \/ Watch \/ Confirm \/ Fence \/ NewSession
         \/ \E sent \in BOOLEAN : Ask(sent)
         \/ \E sent \in BOOLEAN : Submit(sent)
         \/ \E present \in BOOLEAN : Fetch(present)
         \/ \E c \in queue, outcome \in Statuses : RunAction(c, outcome)
         \/ \E result \in {"book", "failed", "lost"} : AnswerQuery(result)
         \/ \E arrives \in BOOLEAN, result \in {"accepted", "failed", "lost"} :
              AnswerReceipt(arrives, result)
BY DEF Next, Steps, EngineSteps, AnswerSteps

(* The initial state has its types.                                        *)
LEMMA InitType == Init => TypeOK
<1> SUFFICES ASSUME Init PROVE TypeOK
  OBVIOUS
<1>1. lua \in LuaStates /\ lua.phase = "none"
  BY DiaryAssumption DEF Init, Idle, LuaStates
<1>2. native \in NativeStates /\ ~native.pending
  BY DEF Init, Empty, NativeStates
<1>3. gen \in 1..MaxGenerations /\ ready \in BOOLEAN /\ queue = {}
  BY DiaryAssumption DEF Init
<1>4. text \in [Books -> Deliveries \union {0}] /\ copies \in [Books -> Nat]
  BY DEF Init
<1>5. told \in [Deliveries -> Statuses \union {"none"}]
  BY DEF Init
<1>6. net = "none" /\ troubles \in 0..MaxTroubles
  BY DiaryAssumption DEF Init
<1> QED BY <1>1, <1>2, <1>3, <1>4, <1>5, <1>6 DEF TypeOK

(* A cancelled delivery leaves the bindings empty and its closures dead.   *)
LEMMA CancelType ==
  ASSUME TypeOK, cancelDiaryBook
  PROVE  /\ native' \in NativeStates /\ queue' \subseteq Closures /\ net' = "none"
         /\ native' = Empty /\ ~native'.pending
         /\ \A c \in queue' : ~c.live /\ \E d \in queue : c.gen = d.gen
<1>1. native' \in NativeStates /\ native' = Empty /\ ~native'.pending /\ net' = "none"
  BY DEF cancelDiaryBook, Empty, NativeStates, Statuses
<1>2. ASSUME NEW c \in queue'
      PROVE  c \in Closures /\ ~c.live /\ \E d \in queue : c.gen = d.gen
  <2>1. PICK d \in queue : c = [d EXCEPT !.live = FALSE]
    BY <1>2 DEF cancelDiaryBook, Outdated
  <2>2. d \in Closures
    BY DEF TypeOK
  <2> QED BY <2>1, <2>2 DEF Closures
<1> QED BY <1>1, <1>2

(* A receipt is made out for a delivery, with a status.                    *)
LEMMA ReceiptType ==
  ASSUME TypeOK, NEW d \in Deliveries, NEW status \in Statuses, Receipt(d, status)
  PROVE  /\ lua' \in LuaStates
         /\ lua'.phase = "receipt" /\ lua'.book = d /\ lua'.status = status
         /\ lua'.gen = lua.gen /\ lua'.ready = lua.ready
<1>1. lua \in LuaStates /\ 0 \in 0..MaxAttempts
  BY DiaryAssumption DEF TypeOK
<1> QED BY <1>1 DEF Receipt, LuaStates

(* No step leaves the types.                                               *)
LEMMA TypeStep == TypeOK /\ [Next]_vars => TypeOK'
<1> SUFFICES ASSUME TypeOK, [Next]_vars PROVE TypeOK'
  OBVIOUS
<1>0. MaxAttempts \in Nat /\ MaxGenerations \in Nat /\ MaxTroubles \in Nat
  BY DiaryAssumption
<1> USE <1>0
<1>1. CASE UNCHANGED vars
  BY <1>1 DEF vars, world, TypeOK
<1>2. CASE Reset
  <2>1. lua' \in LuaStates /\ lua'.phase = "none"
    BY <1>2 DEF Reset, TypeOK, Idle, LuaStates
  <2>2. CASE lua.phase = "none"
    BY <1>2, <2>1, <2>2 DEF Reset, TypeOK, Trouble, world
  <2>3. CASE lua.phase # "none"
    <3>1. cancelDiaryBook
      BY <1>2, <2>3 DEF Reset
    <3> QED BY <1>2, <2>1, <3>1, CancelType DEF Reset, TypeOK, Trouble, world
  <2> QED BY <2>2, <2>3
<1>3. CASE TimeOut
  <2>1. lua' \in LuaStates /\ lua'.phase = "none"
    BY <1>3 DEF TimeOut, Abandons, Finishes, TypeOK, Idle, LuaStates
  <2> QED BY <1>3, <2>1, CancelType DEF TimeOut, Abandons, TypeOK, Trouble, world
<1>4. CASE Watch
  <2>1. CASE native.book = lua.book /\ native.state = "none"
    <3>1. lua' \in LuaStates /\ lua'.phase = "none" /\ cancelDiaryBook
      BY <1>4, <2>1 DEF Watch, Abandons, Finishes, TypeOK, Idle, LuaStates
    <3> QED BY <1>4, <3>1, CancelType DEF Watch, TypeOK, world
  <2>2. CASE ~(native.book = lua.book /\ native.state = "none")
    <3> DEFINE status == IF native.book = lua.book THEN native.state ELSE "failed"
    <3>1. status \in Statuses
      BY <2>2 DEF TypeOK, NativeStates, Statuses
    <3>2. lua.book \in Deliveries /\ lua.book # 0 /\ Receipt(lua.book, status)
      BY <1>4, <2>2 DEF Watch, TypeOK, LuaStates
    <3>3. lua' \in LuaStates /\ lua'.book # 0 /\ lua'.status \in Statuses
      BY <3>1, <3>2, ReceiptType
    <3> QED BY <1>4, <2>2, <3>3 DEF Watch, TypeOK, world
  <2> QED BY <2>1, <2>2
<1>5. CASE Confirm
  <2>1. /\ lua' \in LuaStates /\ lua'.phase \in {"none", "receipt"}
        /\ lua'.phase = "receipt" => lua'.book # 0 /\ lua'.status \in Statuses
    BY <1>5 DEF Confirm, Finishes, Goes, TypeOK, Idle, LuaStates
  <2> QED BY <1>5, <2>1 DEF Confirm, TypeOK, world
<1>6. CASE Fence
  <2>1. native' \in NativeStates /\ ~native'.pending
    BY <1>6 DEF Fence, Empty, NativeStates
  <2>2. gen' \in 1..MaxGenerations
    BY <1>6, DiaryAssumption DEF Fence, TypeOK
  <2> QED BY <1>6, <2>1, <2>2 DEF Fence, TypeOK, world
<1>7. CASE NewSession
  BY <1>7 DEF NewSession, TypeOK, world
<1>8. ASSUME NEW sent \in BOOLEAN, Ask(sent) PROVE TypeOK'
  <2>1. native' \in NativeStates /\ native'.request /\ ~native'.pending
    BY <1>8 DEF Ask, Fresh, CanRequest, TypeOK, NativeStates
  <2>2. lua' \in LuaStates /\ lua'.phase = "query"
    BY <1>8 DEF Ask, Goes, TypeOK, LuaStates
  <2> QED BY <1>8, <2>1, <2>2 DEF Ask, TypeOK, world
<1>9. ASSUME NEW sent \in BOOLEAN, Submit(sent) PROVE TypeOK'
  <2>1. CASE lua.attempts >= MaxAttempts
    <3>1. lua' \in LuaStates /\ lua'.phase = "none" /\ cancelDiaryBook
      BY <1>9, <2>1 DEF Submit, Abandons, Finishes, TypeOK, Idle, LuaStates
    <3> QED BY <1>9, <3>1, CancelType DEF Submit, TypeOK, Trouble, world
  <2>2. CASE ~(lua.attempts >= MaxAttempts)
    <3>1. lua.attempts + 1 \in 0..MaxAttempts
      BY <2>2, DiaryAssumption DEF TypeOK, LuaStates
    <3>2. /\ lua' \in LuaStates /\ lua'.book # 0 /\ lua'.status \in Statuses
      <4>1. lua.book # 0 /\ lua.status \in Statuses
        BY <1>9 DEF Submit, TypeOK
      <4>2. \E phase \in {"receipt", "receipt_pending"} :
              lua' = [lua EXCEPT !.attempts = @ + 1, !.phase = phase]
        BY <1>9, <2>2 DEF Submit, TypeOK, LuaStates
      <4> QED BY <3>1, <4>1, <4>2 DEF TypeOK, LuaStates
    <3>3. CASE Acceptable(lua.book, lua.status)
      <4>1. native' = [native EXCEPT !.dto = lua.status, !.receipt = sent,
                                    !.ok = IF sent THEN FALSE ELSE @, !.error = IF sent THEN FALSE ELSE @]
        BY <1>9, <2>2, <3>3 DEF Submit
      <4>2. native' \in NativeStates /\ native'.request = native.request
            /\ native'.pending = native.pending /\ native'.receipt = sent
        BY <1>9, <4>1 DEF Submit, TypeOK, NativeStates
      <4> QED BY <1>9, <2>2, <3>2, <3>3, <4>2 DEF Submit, Acceptable, TypeOK, Trouble, world
    <3>4. CASE ~Acceptable(lua.book, lua.status)
      BY <1>9, <2>2, <3>2, <3>4 DEF Submit, TypeOK, Trouble, world
    <3> QED BY <3>3, <3>4
  <2> QED BY <2>1, <2>2
<1>10. ASSUME NEW present \in BOOLEAN, Fetch(present) PROVE TypeOK'
  <2>1. CASE NoBook(native.book)
    <3>1. lua' \in LuaStates /\ lua'.phase = "none" /\ cancelDiaryBook
      BY <1>10, <2>1 DEF Fetch, Abandons, Finishes, TypeOK, Idle, LuaStates
    <3> QED BY <1>10, <3>1, CancelType DEF Fetch, TypeOK, world
  <2>2. ASSUME ~NoBook(native.book) PROVE native.book \in Deliveries /\ native.book # 0
    BY <2>2 DEF NoBook, TypeOK, NativeStates
  <2>3. CASE ~NoBook(native.book) /\ present /\ Materializable(native.book)
    <3>1. lua' \in LuaStates /\ lua'.phase = "materializing" /\ lua'.book # 0
      <4>1. lua' = [lua EXCEPT !.phase = "materializing", !.book = native.book]
        BY <1>10, <2>3 DEF Fetch
      <4> QED BY <2>2, <2>3, <4>1 DEF TypeOK, LuaStates
    <3>2. Materialized(native.book) /\ UNCHANGED net
      BY <1>10, <2>3 DEF Fetch
    <3>3. /\ native' \in NativeStates /\ native'.request = native.request
          /\ native'.receipt = native.receipt
          /\ native'.pending => native'.state = "none"
      BY <3>2 DEF Materialized, TypeOK, NativeStates
    <3>4. queue' \subseteq Closures
      <4>1. [book |-> native.book, gen |-> gen, live |-> TRUE] \in Closures
        BY <2>2, <2>3 DEF TypeOK, Closures
      <4> QED BY <3>2, <4>1 DEF Materialized, TypeOK
    <3>5. UNCHANGED <<gen, ready, text, copies, told, troubles>>
      BY <1>10 DEF Fetch, world
    <3> QED BY <3>1, <3>2, <3>3, <3>4, <3>5 DEF TypeOK
  <2>4. CASE ~NoBook(native.book) /\ ~(present /\ Materializable(native.book))
    <3>1. lua' \in LuaStates /\ lua'.book # 0 /\ lua'.status \in Statuses
      <4>1. Receipt(native.book, "failed")
        BY <1>10, <2>4 DEF Fetch
      <4> QED BY <2>2, <2>4, <4>1, ReceiptType DEF Statuses
    <3> QED BY <1>10, <2>4, <3>1 DEF Fetch, TypeOK, world
  <2> QED BY <2>1, <2>3, <2>4
<1>11. ASSUME NEW c \in queue, NEW outcome \in Statuses, RunAction(c, outcome) PROVE TypeOK'
  <2>1. CASE ~Current(c)
    BY <1>11, <2>1 DEF RunAction, TypeOK, world
  <2>2. CASE Current(c)
    <3>1. c.book \in Deliveries /\ BookOf[c.book] \in Books
      BY DeliveryFacts DEF TypeOK, Closures
    <3>2. text' \in [Books -> Deliveries \union {0}] /\ copies' \in [Books -> Nat]
      BY <1>11, <2>2, <3>1 DEF RunAction, Writes, TypeOK, world
    <3>3. /\ native' \in NativeStates /\ ~native'.pending
          /\ native'.request = native.request /\ native'.receipt = native.receipt
      BY <1>11, <2>2 DEF RunAction, TypeOK, NativeStates
    <3> QED BY <1>11, <3>2, <3>3 DEF RunAction, TypeOK
  <2> QED BY <2>1, <2>2
<1>12. ASSUME NEW result \in {"book", "failed", "lost"}, AnswerQuery(result) PROVE TypeOK'
  <2>1. Offers \subseteq Deliveries \union {0}
    BY DEF Offers, Unanswered
  <2>2. /\ native' \in NativeStates /\ native'.pending = native.pending
        /\ native'.state = native.state
    BY <1>12, <2>1 DEF AnswerQuery, TypeOK, NativeStates
  <2>3. troubles' \in 0..MaxTroubles /\ net' = "none"
    <3>1. net' = "none" /\ (UNCHANGED troubles \/ Trouble)
      BY <1>12 DEF AnswerQuery
    <3> QED BY <3>1 DEF TypeOK, Trouble
  <2> QED BY <1>12, <2>2, <2>3 DEF AnswerQuery, TypeOK, world
<1>13. ASSUME NEW arrives \in BOOLEAN, NEW result \in {"accepted", "failed", "lost"},
              AnswerReceipt(arrives, result)
       PROVE  TypeOK'
  <2>1. /\ native' \in NativeStates /\ native'.pending = native.pending
        /\ native'.state = native.state
    BY <1>13 DEF AnswerReceipt, TypeOK, NativeStates
  <2>2. told' \in [Deliveries -> Statuses \union {"none"}]
    BY <1>13 DEF AnswerReceipt, TypeOK, NativeStates
  <2> QED BY <1>13, <2>1, <2>2 DEF AnswerReceipt, TypeOK, Trouble, world
<1> QED
  BY <1>1, <1>2, <1>3, <1>4, <1>5, <1>6, <1>7, <1>8, <1>9, <1>10, <1>11, <1>12, <1>13, DiaryCases

-------------------------------------------------------------------------------
(* Who waits for what                                                      *)

(* Giving up leaves nothing under way.                                     *)
LEMMA AbandonControl ==
  ASSUME TypeOK, Control, cancelDiaryBook, UNCHANGED <<gen, ready>>, lua'.phase = "none",
         \/ lua'.gen = lua.gen /\ lua'.ready = lua.ready
         \/ lua'.gen = gen /\ lua'.ready = ready
  PROVE  Control'
<1>1. native' = Empty /\ net' = "none" /\ \A c \in queue' : ~c.live /\ \E d \in queue : c.gen = d.gen
  BY CancelType
<1>2. Scope'
  BY <1>1 DEF Control, Scope, TypeOK
<1>3. Together'
  BY <1>1 DEF Together, Empty
<1>4. Writers'
  BY <1>1 DEF Control, Writers, Alive
<1> QED BY <1>2, <1>3, <1>4 DEF Control

(* In every phase but "materializing" no closure can write.                *)
LEMMA NoneAlive ==
  ASSUME Control, lua.phase # "materializing" \/ ~native.pending \/ ~Here
  PROVE  \A c \in queue : ~Alive(c)
BY DEF Control, Writers

(* Every step keeps the bindings and GLOBAL together.                      *)
LEMMA ControlStep == TypeOK /\ Control /\ [Next]_vars => Control'
<1> SUFFICES ASSUME TypeOK, Control, [Next]_vars PROVE Control'
  OBVIOUS
<1>1. CASE UNCHANGED vars
  BY <1>1 DEF vars, world, Control, Scope, Together, Writers, Alive, Here
<1>2. CASE Reset
  <2>1. lua'.phase = "none" /\ lua'.gen = gen /\ lua'.ready = ready /\ UNCHANGED <<gen, ready>>
    BY <1>2 DEF Reset, Idle
  <2>2. CASE lua.phase = "none"
    <3>1. UNCHANGED <<native, queue, net>>
      BY <1>2, <2>2 DEF Reset
    <3>2. \A c \in queue : ~Alive(c)
      BY <2>2, NoneAlive
    <3>3. Scope'
      BY <2>1, <3>1 DEF Control, Scope, TypeOK
    <3>4. Together'
      BY <2>1, <2>2, <3>1 DEF Control, Together
    <3>5. Writers'
      BY <2>1, <3>1, <3>2 DEF Control, Writers, Alive
    <3> QED BY <3>3, <3>4, <3>5 DEF Control
  <2>3. CASE lua.phase # "none"
    BY <1>2, <2>1, <2>3, AbandonControl DEF Reset
  <2> QED BY <2>2, <2>3
<1>3. CASE TimeOut
  BY <1>3, AbandonControl DEF TimeOut, Abandons, Finishes, Idle
<1>4. CASE Watch
  <2>1. CASE native.book = lua.book /\ native.state = "none"
    <3>1. cancelDiaryBook /\ lua' = Idle(lua.gen, lua.ready) /\ UNCHANGED <<gen, ready>>
      BY <1>4, <2>1 DEF Watch, Abandons, Finishes
    <3> QED BY <3>1, AbandonControl DEF Idle
  <2>2. CASE ~(native.book = lua.book /\ native.state = "none")
    <3>1. /\ UNCHANGED <<gen, ready, native, queue, net>> /\ ~native.pending
          /\ lua.phase = "materializing"
      BY <1>4, <2>2 DEF Watch, Answered
    <3>2. lua'.phase = "receipt" /\ lua'.gen = lua.gen /\ lua'.ready = lua.ready
      BY <1>4, <2>2 DEF Watch, Receipt, TypeOK, LuaStates
    <3>3. Scope' /\ Together'
      BY <3>1, <3>2 DEF Control, Scope, Together
    <3>4. Writers'
      BY <3>1, NoneAlive DEF Control, Writers, Alive
    <3> QED BY <3>3, <3>4 DEF Control
  <2> QED BY <2>1, <2>2
<1>5. CASE Confirm
  <2>1. /\ UNCHANGED <<gen, ready, native, queue, net>> /\ ~native.receipt
        /\ lua.phase = "receipt_pending"
    BY <1>5 DEF Confirm, Answered
  <2>2. lua'.phase \in {"none", "receipt"} /\ lua'.gen = lua.gen /\ lua'.ready = lua.ready
    BY <1>5 DEF Confirm, Finishes, Idle, Goes, TypeOK, LuaStates
  <2>3. Scope' /\ Together'
    BY <2>1, <2>2 DEF Control, Scope, Together
  <2>4. Writers'
    BY <2>1, NoneAlive DEF Control, Writers, Alive
  <2> QED BY <2>3, <2>4 DEF Control
<1>6. CASE Fence
  <2>1. /\ gen' = gen + 1 /\ ~ready' /\ native' = Empty /\ net' = "none"
        /\ UNCHANGED <<lua, queue>>
    BY <1>6 DEF Fence
  <2>2. gen \in Nat /\ lua.gen <= gen /\ lua.gen \in Nat /\ \A c \in queue : c.gen \in Nat /\ c.gen <= gen
    BY DEF Control, Scope, Writers, TypeOK, LuaStates, Closures
  <2>3. Scope'
    BY <2>1, <2>2 DEF Scope
  <2>4. Together'
    <3>1. ~Here'
      BY <2>1, <2>2 DEF Here
    <3> QED BY <2>1, <3>1 DEF Together, Empty
  <2>5. Writers'
    BY <2>1, <2>2 DEF Writers, Alive
  <2> QED BY <2>3, <2>4, <2>5 DEF Control
<1>7. CASE NewSession
  <2>1. ~ready /\ ready' = TRUE /\ native = Empty /\ UNCHANGED <<gen, lua, native, queue, net>>
    BY <1>7 DEF NewSession, Control, Scope
  <2>2. ~Here' /\ \A c \in queue : c.gen < gen
    BY <2>1 DEF Here, Control, Scope, Writers
  <2>3. Scope'
    BY <2>1 DEF Control, Scope
  <2>4. Together'
    BY <2>1, <2>2 DEF Together, Empty
  <2>5. Writers'
    BY <2>1, <2>2 DEF Writers, Alive, TypeOK, Closures
  <2> QED BY <2>3, <2>4, <2>5 DEF Control
<1>8. ASSUME NEW sent \in BOOLEAN, Ask(sent) PROVE Control'
  <2>1. /\ Here /\ ready /\ lua.phase = "none" /\ UNCHANGED <<gen, ready, queue>>
        /\ ~native.receipt /\ ~native.pending
    BY <1>8 DEF Ask, CanRequest
  <2>2. lua'.phase = "query" /\ lua'.gen = lua.gen /\ lua'.ready = lua.ready
    BY <1>8 DEF Ask, Goes, TypeOK, LuaStates
  <2>3. /\ native'.receipt = native.receipt /\ native'.pending = native.pending
        /\ native'.dto = "none" /\ native'.state = "none"
    BY <1>8 DEF Ask, Fresh, TypeOK, NativeStates
  <2>4. Scope'
    BY <2>1, <2>2 DEF Control, Scope
  <2>5. Together'
    BY <2>1, <2>2, <2>3 DEF Together, Here
  <2>6. Writers'
    BY <2>1, NoneAlive DEF Control, Writers, Alive
  <2> QED BY <2>4, <2>5, <2>6 DEF Control
<1>9. ASSUME NEW sent \in BOOLEAN, Submit(sent) PROVE Control'
  <2>1. CASE lua.attempts >= MaxAttempts
    <3>1. cancelDiaryBook /\ lua' = Idle(lua.gen, lua.ready) /\ UNCHANGED <<gen, ready>>
      BY <1>9, <2>1 DEF Submit, Abandons, Finishes
    <3> QED BY <3>1, AbandonControl DEF Idle
  <2>2. CASE ~(lua.attempts >= MaxAttempts)
    <3>1. Here /\ ready /\ lua.phase = "receipt" /\ UNCHANGED <<gen, ready, queue>>
      BY <1>9, <2>2 DEF Submit
    <3>2. lua'.phase \in {"receipt", "receipt_pending"} /\ lua'.gen = lua.gen /\ lua'.ready = lua.ready
      BY <1>9, <2>2 DEF Submit, TypeOK, LuaStates
    <3>3. Scope' /\ Writers'
      BY <3>1, <3>2, NoneAlive DEF Control, Scope, Writers, Alive
    <3>4. ~native.request /\ ~native.receipt /\ ~native.pending
      BY <3>1 DEF Control, Together
    <3>5. CASE ~Acceptable(lua.book, lua.status)
      <4>1. UNCHANGED native
        BY <1>9, <2>2, <3>5 DEF Submit
      <4>2. Together'
        BY <3>2, <3>4, <4>1 DEF Together
      <4> QED BY <3>3, <4>2 DEF Control
    <3>6. CASE Acceptable(lua.book, lua.status)
      <4>1. /\ native' = [native EXCEPT !.dto = lua.status, !.receipt = sent,
                                       !.ok = IF sent THEN FALSE ELSE @, !.error = IF sent THEN FALSE ELSE @]
            /\ lua'.phase = IF sent THEN "receipt_pending" ELSE "receipt"
        BY <1>9, <2>2, <3>6 DEF Submit, TypeOK, LuaStates
      <4>2. /\ native'.request = native.request /\ native'.pending = native.pending
            /\ native'.receipt = sent /\ native'.book = lua.book /\ native'.dto = lua.status
        BY <3>6, <4>1 DEF Acceptable, TypeOK, NativeStates
      <4>3. lua.book # 0 /\ lua.status # "none"
        BY <3>1 DEF TypeOK, Statuses
      <4>4. Together'
        BY <3>1, <3>2, <3>4, <4>1, <4>2, <4>3 DEF Together, Here
      <4> QED BY <3>3, <4>4 DEF Control
    <3> QED BY <3>5, <3>6
  <2> QED BY <2>1, <2>2
<1>10. ASSUME NEW present \in BOOLEAN, Fetch(present) PROVE Control'
  <2>1. CASE NoBook(native.book)
    <3>1. cancelDiaryBook /\ lua' = Idle(lua.gen, lua.ready) /\ UNCHANGED <<gen, ready>>
      BY <1>10, <2>1 DEF Fetch, Abandons, Finishes
    <3> QED BY <3>1, AbandonControl DEF Idle
  <2>2. /\ Here /\ ready /\ lua.phase = "query" /\ UNCHANGED <<gen, ready>>
        /\ ~native.request /\ ~native.receipt /\ ~native.pending /\ native.state = "none"
    BY <1>10 DEF Fetch, Answered, Control, Together
  <2>3. \A c \in queue : ~Alive(c)
    BY <2>2, NoneAlive
  <2>4. CASE ~NoBook(native.book) /\ present /\ Materializable(native.book)
    <3>1. lua' = [lua EXCEPT !.phase = "materializing", !.book = native.book]
      BY <1>10, <2>4 DEF Fetch
    <3>2. /\ lua'.phase = "materializing" /\ lua'.book = native.book
          /\ lua'.gen = lua.gen /\ lua'.ready = lua.ready
      BY <3>1 DEF TypeOK, LuaStates
    <3>3. /\ native' = [native EXCEPT !.pending = TRUE]
          /\ queue' = queue \union {[book |-> native.book, gen |-> gen, live |-> TRUE]}
      BY <1>10, <2>2, <2>4 DEF Fetch, Materialized
    <3>4. /\ native'.request = native.request /\ native'.receipt = native.receipt
          /\ native'.pending /\ native'.book = native.book
      BY <3>3 DEF TypeOK, NativeStates
    <3>5. Scope'
      BY <2>2, <3>2 DEF Control, Scope
    <3>6. Together'
      BY <2>2, <3>2, <3>4 DEF Together, Here
    <3>7. ASSUME NEW c \in queue'
          PROVE  /\ c.gen <= gen
                 /\ Alive(c) => c.book = native.book
      <4>1. CASE c \in queue
        BY <2>3, <4>1 DEF Control, Writers
      <4>2. CASE c = [book |-> native.book, gen |-> gen, live |-> TRUE]
        BY <4>2 DEF TypeOK
      <4> QED BY <3>3, <4>1, <4>2
    <3>8. Writers'
      BY <2>2, <3>2, <3>4, <3>7 DEF Writers, Alive, Here
    <3> QED BY <3>5, <3>6, <3>8 DEF Control
  <2>5. CASE ~NoBook(native.book) /\ ~(present /\ Materializable(native.book))
    <3>1. UNCHANGED <<native, queue, net>>
      BY <1>10, <2>5 DEF Fetch
    <3>2. lua'.phase = "receipt" /\ lua'.gen = lua.gen /\ lua'.ready = lua.ready
      BY <1>10, <2>5 DEF Fetch, Receipt, TypeOK, LuaStates
    <3>3. Scope' /\ Together'
      BY <2>2, <3>1, <3>2 DEF Control, Scope, Together
    <3>4. Writers'
      BY <2>2, <2>3, <3>1 DEF Control, Writers, Alive
    <3> QED BY <3>3, <3>4 DEF Control
  <2> QED BY <2>1, <2>4, <2>5
<1>11. ASSUME NEW c \in queue, NEW outcome \in Statuses, RunAction(c, outcome) PROVE Control'
  <2>1. queue' = queue \ {c} /\ UNCHANGED <<gen, ready, lua, net>>
    BY <1>11 DEF RunAction
  <2>2. CASE ~Current(c)
    <3>1. UNCHANGED native
      BY <1>11, <2>2 DEF RunAction
    <3>2. Scope' /\ Together'
      BY <2>1, <3>1 DEF Control, Scope, Together, Here
    <3>3. Writers'
      BY <2>1, <3>1 DEF Control, Writers, Alive, Here
    <3> QED BY <3>2, <3>3 DEF Control
  <2>3. CASE Current(c)
    <3>1. native' = [native EXCEPT !.pending = FALSE, !.state = outcome] /\ ready /\ Alive(c)
      BY <1>11, <2>3 DEF RunAction, Current, Alive
    <3>2. /\ native'.request = native.request /\ native'.receipt = native.receipt
          /\ native'.dto = native.dto /\ ~native'.pending /\ native'.book = native.book
      BY <3>1 DEF TypeOK, NativeStates
    <3>3. lua.phase = "materializing" /\ \A d \in queue : Alive(d) => d.book = c.book
      BY <3>1 DEF Control, Writers
    <3>4. \A d \in queue' : ~Alive(d)
      <4> SUFFICES ASSUME NEW d \in queue', Alive(d) PROVE FALSE
        OBVIOUS
      <4>1. d \in Closures /\ c \in Closures /\ d # c
        BY <2>1 DEF TypeOK
      <4>2. d.book = c.book /\ d.gen = c.gen /\ d.live = c.live
        BY <2>1, <3>1, <3>3, <4>1 DEF Alive, Closures
      <4> QED BY <4>1, <4>2 DEF Closures
    <3>5. Scope'
      BY <2>1, <3>1 DEF Control, Scope
    <3>6. Together'
      BY <2>1, <3>2, <3>3 DEF Control, Together, Here
    <3>7. Writers'
      BY <2>1, <3>1, <3>4 DEF Control, Writers, Alive
    <3> QED BY <3>5, <3>6, <3>7 DEF Control
  <2> QED BY <2>2, <2>3
<1>12. ASSUME NEW result \in {"book", "failed", "lost"}, AnswerQuery(result) PROVE Control'
  <2>1. net = "query" /\ net' = "none" /\ UNCHANGED <<gen, ready, lua, queue>>
    BY <1>12 DEF AnswerQuery
  <2>2. native.request /\ lua.phase = "query" /\ Here /\ ready
    BY <2>1 DEF TypeOK, Control, Together, Scope
  <2>3. /\ native'.receipt = native.receipt /\ native'.pending = native.pending
        /\ native'.state = native.state /\ native'.dto = native.dto
    BY <1>12 DEF AnswerQuery, TypeOK, NativeStates
  <2>4. Scope'
    BY <2>1, <2>2 DEF Control, Scope
  <2>5. Together'
    BY <2>1, <2>2, <2>3 DEF Control, Together, Here
  <2>6. Writers'
    BY <2>1, <2>2, NoneAlive DEF Control, Writers, Alive
  <2> QED BY <2>4, <2>5, <2>6 DEF Control
<1>13. ASSUME NEW arrives \in BOOLEAN, NEW result \in {"accepted", "failed", "lost"},
              AnswerReceipt(arrives, result)
       PROVE  Control'
  <2>1. net = "receipt" /\ net' = "none" /\ UNCHANGED <<gen, ready, lua, queue>>
    BY <1>13 DEF AnswerReceipt
  <2>2. native.receipt /\ lua.phase = "receipt_pending" /\ Here /\ ready
    BY <2>1 DEF TypeOK, Control, Together, Scope
  <2>3. /\ native'.request = native.request /\ native'.pending = native.pending
        /\ native'.book = native.book /\ native'.dto = native.dto
    BY <1>13 DEF AnswerReceipt, TypeOK, NativeStates
  <2>4. Scope'
    BY <2>1, <2>2 DEF Control, Scope
  <2>5. Together'
    BY <2>1, <2>2, <2>3 DEF Control, Together, Here
  <2>6. Writers'
    BY <2>1, <2>2, NoneAlive DEF Control, Writers, Alive
  <2> QED BY <2>4, <2>5, <2>6 DEF Control
<1> QED
  BY <1>1, <1>2, <1>3, <1>4, <1>5, <1>6, <1>7, <1>8, <1>9, <1>10, <1>11, <1>12, <1>13, DiaryCases

-------------------------------------------------------------------------------
(* What is said is true                                                    *)

(* What the books hold is as true as before if nothing was written or said. *)
LEMMA SameWorld ==
  ASSUME Truth, UNCHANGED <<text, copies, told>>
  PROVE  Ordered' /\ OneCopy' /\ SuccessMeansWritten'
BY DEF Truth, Ordered, OneCopy, SuccessMeansWritten

(* So it is when the bindings hold no delivery ...                         *)
LEMMA EmptyTruth ==
  ASSUME Truth, UNCHANGED <<text, copies, told>>,
         native'.book = 0, native'.state = "none", native'.dto = "none"
  PROVE  Truth'
<1>1. Unspoken' /\ Written'
  BY DEF Unspoken, Written
<1> QED BY <1>1, SameWorld DEF Truth

(* ... or the one they held, and GLOBAL is past writing it.                *)
LEMMA SameTruth ==
  ASSUME Truth, UNCHANGED <<text, copies, told>>,
         native'.book = native.book, native'.state = native.state, native'.dto = native.dto,
         lua'.phase \notin {"query", "materializing"}
  PROVE  Truth'
<1>1. Unspoken' /\ Written'
  BY DEF Unspoken, Written, Truth
<1> QED BY <1>1, SameWorld DEF Truth

(* A closure that writes writes the latest text of its book.               *)
LEMMA WriteTruth ==
  ASSUME TypeOK, Control, Truth, NEW c \in queue, RunAction(c, "succeeded"), Current(c)
  PROVE  Truth'
<1> DEFINE b == BookOf[c.book]
<1>1. /\ lua.phase = "materializing" /\ Here /\ native.pending
      /\ native.book = c.book /\ c.book \in Deliveries /\ b \in Books
      /\ c.book \in Nat /\ c.book # 0
  BY DeliveryFacts DEF Current, Control, Writers, Alive, TypeOK, Closures
<1>2. told[c.book] = "none" /\ \A e \in Deliveries : e < c.book => told[e] # "none"
  BY <1>1 DEF Truth, Unspoken
<1>3. text[b] \in Nat /\ text[b] <= c.book
  <2>1. text[b] \in Nat
    <3>1. text[b] \in Deliveries \union {0}
      BY <1>1 DEF TypeOK
    <3>2. \A v \in Deliveries \union {0} : v \in Nat
      BY DeliveryFacts
    <3> QED BY <3>1, <3>2, Zenon
  <2>2. ~(c.book < text[b])
    BY <1>1, <1>2 DEF Truth, Ordered
  <2> QED BY <1>1, <2>1, <2>2
<1>4. /\ native' = [native EXCEPT !.pending = FALSE, !.state = "succeeded"]
      /\ UNCHANGED <<lua, told, gen, ready>>
      /\ IF text[b] # c.book THEN Writes(b, c.book) ELSE UNCHANGED <<text, copies>>
  BY DEF RunAction, world
<1>5. native'.book = c.book /\ ~native'.pending
  BY <1>1, <1>4 DEF TypeOK, NativeStates
<1>6. text' = [text EXCEPT ![b] = c.book]
  BY <1>1, <1>4 DEF Writes, TypeOK
<1>7. text'[b] = c.book /\ \A x \in Books : x # b => text'[x] = text[x]
  BY <1>1, <1>6 DEF TypeOK
<1>8. Unspoken'
  BY <1>1, <1>2, <1>4, <1>5 DEF Unspoken, Here
<1>9. Ordered'
  BY <1>1, <1>2, <1>4, <1>7 DEF Truth, Ordered
<1>10. Written'
  BY <1>1, <1>5, <1>7 DEF Written
<1>11. OneCopy'
  <2>1. CASE text[b] = c.book
    BY <1>1, <1>4, <2>1 DEF Truth, OneCopy
  <2>2. CASE text[b] # c.book
    <3>1. copies' = IF text[b] = 0 THEN [copies EXCEPT ![b] = @ + 1] ELSE copies
      BY <1>4, <2>2 DEF Writes
    <3>2. copies[b] = IF text[b] = 0 THEN 0 ELSE 1
      BY <1>1 DEF Truth, OneCopy
    <3>3. copies'[b] = 1 /\ \A x \in Books : x # b => copies'[x] = copies[x]
      BY <1>1, <3>1, <3>2 DEF TypeOK
    <3> QED BY <1>1, <1>7, <3>3 DEF Truth, OneCopy
  <2> QED BY <2>1, <2>2
<1>12. SuccessMeansWritten'
  <2> SUFFICES ASSUME NEW d \in Deliveries, told'[d] = "succeeded"
               PROVE  text'[BookOf[d]] >= d
    BY DEF SuccessMeansWritten
  <2>1. text[BookOf[d]] >= d /\ BookOf[d] \in Books /\ d \in Nat
    BY <1>4, DeliveryFacts DEF Truth, SuccessMeansWritten
  <2>2. CASE BookOf[d] = b
    BY <1>1, <1>3, <1>7, <2>1, <2>2
  <2>3. CASE BookOf[d] # b
    BY <1>7, <2>1, <2>3
  <2> QED BY <2>2, <2>3
<1> QED BY <1>8, <1>9, <1>10, <1>11, <1>12 DEF Truth

(* The server believes what it is told.                                    *)
LEMMA ReceiptTruth ==
  ASSUME TypeOK, Control, Truth, NEW arrives \in BOOLEAN,
         NEW result \in {"accepted", "failed", "lost"}, AnswerReceipt(arrives, result)
  PROVE  Truth'
<1> DEFINE d == native.book
<1>1. /\ native.receipt /\ lua.phase = "receipt_pending" /\ d \in Deliveries
      /\ d \in Nat /\ native.dto \in Statuses
  BY DeliveryFacts DEF AnswerReceipt, Control, Together, TypeOK, NativeStates
<1>2. /\ UNCHANGED <<lua, text, copies, gen, ready>>
      /\ told' = IF arrives /\ told[d] = "none" THEN [told EXCEPT ![d] = native.dto] ELSE told
  BY DEF AnswerReceipt, world
<1>3. native'.book = d /\ native'.dto = native.dto /\ native'.state = native.state
  BY DEF AnswerReceipt, TypeOK, NativeStates
<1>4. \A e \in Deliveries : told'[e] = told[e] \/ (e = d /\ told'[e] = native.dto)
  BY <1>1, <1>2 DEF TypeOK
<1>5. \A e \in Deliveries : told[e] # "none" => told'[e] # "none"
  BY <1>1, <1>4 DEF Statuses
<1>6. Unspoken'
  BY <1>1, <1>2, <1>3, <1>5 DEF Truth, Unspoken
<1>7. Ordered' /\ Written' /\ OneCopy'
  BY <1>2, <1>3, <1>5 DEF Truth, Ordered, Written, OneCopy
<1>8. SuccessMeansWritten'
  <2> SUFFICES ASSUME NEW e \in Deliveries, told'[e] = "succeeded"
               PROVE  text'[BookOf[e]] >= e
    BY DEF SuccessMeansWritten
  <2>1. CASE told[e] = "succeeded"
    BY <1>2, <2>1 DEF Truth, SuccessMeansWritten
  <2>2. CASE e = d /\ native.dto = "succeeded"
    BY <1>2, <2>2 DEF Truth, Written
  <2> QED BY <1>4, <2>1, <2>2
<1> QED BY <1>6, <1>7, <1>8 DEF Truth

(* Every step keeps what is said true.                                     *)
LEMMA TruthStep == TypeOK /\ Control /\ Truth /\ [Next]_vars => Truth'
<1> SUFFICES ASSUME TypeOK, Control, Truth, [Next]_vars PROVE Truth'
  OBVIOUS
<1>0. ASSUME cancelDiaryBook, UNCHANGED <<text, copies, told>> PROVE Truth'
  BY <1>0, EmptyTruth DEF cancelDiaryBook, Empty
<1>1. CASE UNCHANGED vars
  BY <1>1 DEF vars, world, Truth, Unspoken, Ordered, Written, OneCopy, SuccessMeansWritten, Here
<1>2. CASE Reset
  <2>1. CASE lua.phase = "none"
    BY <1>2, <2>1, SameTruth DEF Reset, Idle, world
  <2>2. CASE lua.phase # "none"
    BY <1>0, <1>2, <2>2 DEF Reset, world
  <2> QED BY <2>1, <2>2
<1>3. CASE TimeOut
  BY <1>0, <1>3 DEF TimeOut, Abandons, world
<1>4. CASE Watch
  <2>1. CASE native.book = lua.book /\ native.state = "none"
    BY <1>0, <1>4, <2>1 DEF Watch, Abandons, world
  <2>2. CASE ~(native.book = lua.book /\ native.state = "none")
    <3>1. lua'.phase = "receipt" /\ UNCHANGED <<native, text, copies, told>>
      BY <1>4, <2>2 DEF Watch, Receipt, TypeOK, LuaStates, world
    <3> QED BY <3>1, SameTruth
  <2> QED BY <2>1, <2>2
<1>5. CASE Confirm
  <2>1. lua'.phase \in {"none", "receipt"} /\ UNCHANGED <<native, text, copies, told>>
    BY <1>5 DEF Confirm, Finishes, Idle, Goes, TypeOK, LuaStates, world
  <2> QED BY <2>1, SameTruth
<1>6. CASE Fence
  BY <1>6, EmptyTruth DEF Fence, Empty, world
<1>7. CASE NewSession
  BY <1>7, EmptyTruth DEF NewSession, Control, Scope, Empty, world
<1>8. ASSUME NEW sent \in BOOLEAN, Ask(sent) PROVE Truth'
  <2>1. native'.book = 0 /\ native'.dto = "none" /\ native'.state = "none"
    BY <1>8 DEF Ask, Fresh, TypeOK, NativeStates
  <2> QED BY <1>8, <2>1, EmptyTruth DEF Ask, world
<1>9. ASSUME NEW sent \in BOOLEAN, Submit(sent) PROVE Truth'
  <2>1. CASE lua.attempts >= MaxAttempts
    BY <1>0, <1>9, <2>1 DEF Submit, Abandons, world
  <2>2. CASE ~(lua.attempts >= MaxAttempts)
    <3>1. lua'.phase \in {"receipt", "receipt_pending"} /\ UNCHANGED <<text, copies, told>>
      BY <1>9, <2>2 DEF Submit, TypeOK, LuaStates, world
    <3>2. CASE ~Acceptable(lua.book, lua.status)
      <4>1. UNCHANGED native
        BY <1>9, <2>2, <3>2 DEF Submit
      <4> QED BY <3>1, <4>1, SameTruth
    <3>3. CASE Acceptable(lua.book, lua.status)
      <4>1. native' = [native EXCEPT !.dto = lua.status, !.receipt = sent,
                                    !.ok = IF sent THEN FALSE ELSE @, !.error = IF sent THEN FALSE ELSE @]
        BY <1>9, <2>2, <3>3 DEF Submit
      <4>2. native'.book = native.book /\ native'.state = native.state /\ native'.dto = lua.status
        BY <4>1 DEF TypeOK, NativeStates
      <4>3. lua.status = "succeeded" => native.state = "succeeded"
        BY <3>3 DEF Acceptable
      <4>4. Unspoken' /\ Written'
        BY <3>1, <4>2, <4>3 DEF Truth, Unspoken, Written
      <4> QED BY <3>1, <4>4, SameWorld DEF Truth
    <3> QED BY <3>2, <3>3
  <2> QED BY <2>1, <2>2
<1>10. ASSUME NEW present \in BOOLEAN, Fetch(present) PROVE Truth'
  <2>1. CASE NoBook(native.book)
    BY <1>0, <1>10, <2>1 DEF Fetch, Abandons, world
  <2>2. CASE ~NoBook(native.book) /\ present /\ Materializable(native.book)
    <3>1. /\ Here /\ lua.phase = "query" /\ native.book # 0
          /\ UNCHANGED <<text, copies, told>> /\ Materialized(native.book)
      BY <1>10, <2>2 DEF Fetch, NoBook, world
    <3>2. /\ native'.book = native.book /\ native'.dto = native.dto
          /\ native'.state = native.state
      BY <3>1 DEF Materialized, TypeOK, NativeStates
    <3>3. Unspoken' /\ Written'
      BY <3>1, <3>2 DEF Truth, Unspoken, Written
    <3> QED BY <3>1, <3>3, SameWorld DEF Truth
  <2>3. CASE ~NoBook(native.book) /\ ~(present /\ Materializable(native.book))
    <3>1. lua'.phase = "receipt" /\ UNCHANGED <<native, text, copies, told>>
      BY <1>10, <2>3 DEF Fetch, Receipt, TypeOK, LuaStates, world
    <3> QED BY <3>1, SameTruth
  <2> QED BY <2>1, <2>2, <2>3
<1>11. ASSUME NEW c \in queue, NEW outcome \in Statuses, RunAction(c, outcome) PROVE Truth'
  <2>1. CASE ~Current(c)
    BY <1>11, <2>1 DEF RunAction, Truth, Unspoken, Ordered, Written, OneCopy, SuccessMeansWritten,
                       Here, world
  <2>2. CASE Current(c) /\ outcome = "succeeded"
    BY <1>11, <2>2, WriteTruth
  <2>3. CASE Current(c) /\ outcome # "succeeded"
    <3>1. /\ native' = [native EXCEPT !.pending = FALSE, !.state = outcome]
          /\ UNCHANGED <<lua, gen, ready, text, copies, told>>
      BY <1>11, <2>3 DEF RunAction, world
    <3>2. /\ native'.book = native.book /\ native'.dto = native.dto
          /\ native'.state = outcome /\ ~native'.pending
      BY <3>1 DEF TypeOK, NativeStates
    <3>3. Unspoken' /\ Written'
      BY <2>3, <3>1, <3>2 DEF Truth, Unspoken, Written, Here
    <3> QED BY <3>1, <3>3, SameWorld DEF Truth
  <2> QED BY <2>1, <2>2, <2>3
<1>12. ASSUME NEW result \in {"book", "failed", "lost"}, AnswerQuery(result) PROVE Truth'
  <2>1. /\ native.request /\ lua.phase = "query" /\ native.state = "none" /\ native.dto = "none"
        /\ UNCHANGED <<lua, gen, ready, text, copies, told>>
    BY <1>12 DEF AnswerQuery, TypeOK, Control, Together, world
  <2>2. CASE result = "book"
    <3>1. PICK d \in Offers : native' = [native EXCEPT !.request = FALSE, !.book = d]
      BY <1>12, <2>2 DEF AnswerQuery
    <3>2. native'.book = d /\ native'.state = "none" /\ native'.dto = "none"
      BY <2>1, <3>1 DEF TypeOK, NativeStates
    <3>3. d # 0 => d \in Unanswered /\ \A e \in Unanswered : d <= e
      BY DEF Offers
    <3>4. d # 0 => \A e \in Deliveries : e < d => told[e] # "none"
      <4> SUFFICES ASSUME d # 0, NEW e \in Deliveries, e < d PROVE e \notin Unanswered
        BY DEF Unanswered
      <4>1. d \in Nat /\ e \in Nat
        BY <3>3, DeliveryFacts DEF Unanswered
      <4> QED BY <3>3, <4>1
    <3>5. Unspoken' /\ Written'
      BY <2>1, <3>2, <3>3, <3>4 DEF Unspoken, Written, Unanswered
    <3> QED BY <2>1, <3>5, SameWorld DEF Truth
  <2>3. CASE result # "book"
    <3>1. /\ native'.book = native.book /\ native'.state = native.state /\ native'.dto = native.dto
          /\ native'.pending = native.pending
      BY <1>12, <2>3 DEF AnswerQuery, TypeOK, NativeStates
    <3>2. Unspoken' /\ Written'
      BY <2>1, <3>1 DEF Truth, Unspoken, Written, Here
    <3> QED BY <2>1, <3>2, SameWorld DEF Truth
  <2> QED BY <2>2, <2>3
<1>13. ASSUME NEW arrives \in BOOLEAN, NEW result \in {"accepted", "failed", "lost"},
              AnswerReceipt(arrives, result)
       PROVE  Truth'
  BY <1>13, ReceiptTruth
<1> QED
  BY <1>1, <1>2, <1>3, <1>4, <1>5, <1>6, <1>7, <1>8, <1>9, <1>10, <1>11, <1>12, <1>13, DiaryCases

-------------------------------------------------------------------------------
(* The theorems                                                            *)

(* The initial state satisfies the inductive invariant.                    *)
LEMMA InitInv == Init => IInv
<1> SUFFICES ASSUME Init PROVE IInv
  OBVIOUS
<1>1. Control
  BY DEF Init, Control, Scope, Together, Writers, Empty, Idle
<1>2. Truth
  BY DeliveryFacts DEF Init, Truth, Unspoken, Ordered, Written, OneCopy, SuccessMeansWritten, Empty
<1> QED BY <1>1, <1>2, InitType DEF IInv

(* The inductive invariant.                                                *)
THEOREM Inductive == Spec => []IInv
<1>1. IInv /\ [Next]_vars => IInv'
  BY TypeStep, ControlStep, TruthStep DEF IInv
<1> QED BY <1>1, InitInv, PTL DEF Spec

(* The receipts are true: a success means that very text of the book, or a *)
(* later one; and whenever GLOBAL may ask for the next delivery, nothing   *)
(* is left over in the bindings that would refuse it.                      *)
THEOREM DiaryInvHolds == Spec => []DiaryInv
<1>1. IInv => DiaryInv
  BY DEF IInv, Control, Together, Truth, DiaryInv, FreeToAsk
<1> QED BY <1>1, Inductive, PTL

(* A record is written only while GLOBAL waits for this very delivery.     *)
THEOREM OnlyWhatIsAwaitedHolds == Spec => OnlyWhatIsAwaited
<1> DEFINE Awaited == \A b \in Books : text'[b] # text[b] =>
                        lua.phase = "materializing" /\ lua.book = text'[b] /\ Here
<1>1. IInv /\ [Next]_vars => [Awaited]_vars
  <2> SUFFICES ASSUME IInv, [Next]_vars, NEW b \in Books, text'[b] # text[b]
               PROVE  lua.phase = "materializing" /\ lua.book = text'[b] /\ Here
    OBVIOUS
  <2>1. PICK c \in queue, outcome \in Statuses : RunAction(c, outcome)
    BY DiaryCases DEF vars, world, Reset, TimeOut, Watch, Confirm, Fence, NewSession, Ask, Submit,
                     Fetch, AnswerQuery, AnswerReceipt
  <2>2. Current(c) /\ Writes(BookOf[c.book], c.book)
    BY <2>1 DEF RunAction, world
  <2>3. text'[b] = c.book
    BY <2>2 DEF Writes, IInv, TypeOK
  <2> QED BY <2>2, <2>3 DEF Current, IInv, Control, Writers, Alive
<1>2. IInv /\ [Next]_vars => [\A b \in Books : text'[b] # text[b] =>
                        lua.phase = "materializing" /\ lua.book = text'[b] /\ Here]_vars
  BY <1>1
<1> QED BY <1>2, Inductive, PTL DEF Spec, OnlyWhatIsAwaited

-------------------------------------------------------------------------------
(* Refinement                                                              *)

(* What a closure does to the books is one deed, or none.                  *)
LEMMA WriteIsDo ==
  ASSUME IInv, NEW c \in queue, NEW outcome \in Statuses, RunAction(c, outcome)
  PROVE  Promised!Next \/ UNCHANGED <<copies, [b \in Books |-> Said(b)]>>
<1> DEFINE b == BookOf[c.book]
<1>1. b \in Books /\ UNCHANGED told
  BY DeliveryFacts DEF IInv, TypeOK, Closures, RunAction
<1>2. UNCHANGED [x \in Books |-> Said(x)]
  BY <1>1 DEF Said
<1>3. CASE copies' = copies
  BY <1>2, <1>3
<1>4. CASE copies' # copies
  <2>1. Writes(b, c.book) /\ text[b] = 0 /\ copies' = [copies EXCEPT ![b] = @ + 1]
    BY <1>4 DEF RunAction, Writes, world
  <2>2. copies[b] = 0
    BY <1>1, <2>1 DEF IInv, Truth, OneCopy
  <2>3. \A d \in Deliveries : BookOf[d] = b => told[d] # "succeeded"
    BY <2>1, DeliveryFacts DEF IInv, Truth, SuccessMeansWritten
  <2>4. [x \in Books |-> Said(x)][b] = "nothing"
    BY <1>1, <2>3 DEF Said
  <2>5. copies' = [copies EXCEPT ![b] = 1]
    BY <2>1, <2>2
  <2> QED BY <1>1, <1>2, <2>2, <2>4, <2>5 DEF Promised!Next, Promised!Do
<1> QED BY <1>3, <1>4

(* What a receipt says of a book is the one thing that is ever said of it. *)
LEMMA ReceiptIsSay ==
  ASSUME IInv, NEW arrives \in BOOLEAN, NEW result \in {"accepted", "failed", "lost"},
         AnswerReceipt(arrives, result)
  PROVE  Promised!Next \/ UNCHANGED <<copies, [b \in Books |-> Said(b)]>>
<1>0. native.book \in Deliveries
  BY DEF AnswerReceipt, IInv, Control, Together, TypeOK, NativeStates
<1> PICK d \in Deliveries : d = native.book
  BY <1>0
<1> DEFINE b == BookOf[d]
           said == [x \in Books |-> Said(x)]
<1>1. /\ b \in Books /\ UNCHANGED copies
      /\ d \in Nat /\ d # 0
      /\ told' = IF arrives /\ told[d] = "none" THEN [told EXCEPT ![d] = native.dto] ELSE told
  BY DeliveryFacts DEF AnswerReceipt, world
<1>2. \A e \in Deliveries :
        told'[e] # told[e] => e = d /\ told[e] = "none" /\ told'[e] = native.dto
  <2> SUFFICES ASSUME NEW e \in Deliveries, told'[e] # told[e]
               PROVE  e = d /\ told[e] = "none" /\ told'[e] = native.dto
    OBVIOUS
  <2> QED BY <1>1 DEF IInv, TypeOK
<1>3. \A x \in Books : x # b => Said(x)' = Said(x)
  BY <1>1, <1>2 DEF Said
<1>4. CASE Said(b)' = Said(b)
  <2>1. \A x \in Books : Said(x)' = Said(x)
    BY <1>3, <1>4
  <2>2. said' = said
    BY <2>1
  <2> QED BY <1>1, <2>2
<1>5. CASE Said(b)' # Said(b)
  <2>1. native.dto = "succeeded" /\ Said(b) = "nothing" /\ Said(b)' = "succeeded"
    BY <1>1, <1>2, <1>5 DEF Said
  <2>2. text[b] >= d /\ text[b] # 0
    <3>1. text[b] >= d
      BY <2>1 DEF IInv, Truth, Written
    <3>2. text[b] \in Deliveries \union {0}
      BY <1>1 DEF IInv, TypeOK
    <3> QED BY <1>1, <3>1, <3>2, DeliveryFacts
  <2>3. copies[b] = 1
    BY <1>1, <2>2 DEF IInv, Truth, OneCopy
  <2>4. said' = [said EXCEPT ![b] = "succeeded"]
    BY <1>1, <1>3, <2>1
  <2>5. said[b] = "nothing"
    BY <1>1, <2>1
  <2> QED BY <1>1, <2>3, <2>4, <2>5 DEF Promised!Next, Promised!Say, Promised!Verdicts
<1> QED BY <1>4, <1>5

(* A book is handed out at most once, and success is said at most once of  *)
(* it and only when it was handed out: DiaryBooks implements Deeds.        *)
THEOREM DiaryKeepsItsWord == Spec => KeepsItsWord
<1>1. Init => Promised!Init
  BY DEF Init, Promised!Init, Said
<1>2. IInv /\ [Next]_vars => [Promised!Next]_<<copies, [b \in Books |-> Said(b)]>>
  <2> SUFFICES ASSUME IInv, [Next]_vars
               PROVE  Promised!Next \/ UNCHANGED <<copies, [b \in Books |-> Said(b)]>>
    OBVIOUS
  <2>1. CASE UNCHANGED <<copies, told>>
    BY <2>1 DEF Said
  <2>2. CASE ~UNCHANGED <<copies, told>>
    <3>1. \/ \E c \in queue, outcome \in Statuses : RunAction(c, outcome)
          \/ \E arrives \in BOOLEAN, result \in {"accepted", "failed", "lost"} :
               AnswerReceipt(arrives, result)
      BY <2>2, DiaryCases DEF vars, world, Reset, TimeOut, Watch, Confirm, Fence, NewSession, Ask,
                             Submit, Fetch, AnswerQuery
    <3> QED BY <3>1, WriteIsDo, ReceiptIsSay
  <2> QED BY <2>1, <2>2
<1> QED BY <1>1, <1>2, Inductive, PTL DEF Spec, KeepsItsWord, Promised!Spec, Promised!vars

-------------------------------------------------------------------------------
(* Disposition                                                             *)

Requests == {"none", "pending", "ok", "failed"}
Receipts == [status : D!Outcomes, read : BOOLEAN, acked : BOOLEAN, request : Requests, attempts : Nat]
            \union {D!NoReceipt}
Submissions == [of : Adjustments \union {"none"}, status : D!Outcomes \union {"none"},
                reading : Readings, awaited : BOOLEAN]
Observed == [reading : Readings \union {"unknown"}, request : Requests]
Clients == [queue : SUBSET Adjustments, receipts : [Adjustments -> Receipts], observed : Observed,
            scope : Nat, wire : Seq(Submissions)]
DTypes ==
  /\ gen \in Nat \ {0} /\ ready \in BOOLEAN /\ reading \in Readings
  /\ client \in Clients
  /\ sentIn \in [Adjustments -> Nat] /\ applied \in [Adjustments -> {0, 1}]
  /\ heard \in [Adjustments -> SUBSET D!Outcomes]

(* What is on its way says what the receipt says.                          *)
Honest(c) == \A i \in DOMAIN c.wire :
  LET m == c.wire[i] IN
  m.of # "none" => c.receipts[m.of] # D!NoReceipt /\ m.status = c.receipts[m.of].status
(* Only the submissions of the present session are on their way.           *)
InScope(c) == c.scope <= gen /\ (c.wire # <<>> => c.scope = gen)

(* What client c knows of adjustment a is what became of it.               *)
Waits(c, a) ==
  a \in c.queue => sentIn[a] = c.scope /\ c.receipts[a] = D!NoReceipt
Recorded(c, a) ==
  c.receipts[a] # D!NoReceipt =>
    sentIn[a] = c.scope /\ applied[a] = IF c.receipts[a].status = "applied" THEN 1 ELSE 0
Untouched(a) == applied[a] = 0 /\ heard[a] = {}
NotForgotten(c, a) ==
  /\ sentIn[a] <= c.scope
  /\ sentIn[a] = 0 => Untouched(a)
  /\ sentIn[a] = c.scope /\ c.receipts[a] = D!NoReceipt => Untouched(a)
Ledger(c) == \A a \in Adjustments : Waits(c, a) /\ Recorded(c, a) /\ NotForgotten(c, a)

(* The server has heard what happened, and nothing else.                   *)
HeardTrue == \A a \in Adjustments : \A v \in heard[a] : v = IF applied[a] = 1 THEN "applied" ELSE "rejected"

(* AppliesOnce says nothing of what the client remembers and of what is on *)
(* its way, which is what keeps it true.                                   *)
Knows(c) == c \in Clients /\ Honest(c) /\ InScope(c) /\ Ledger(c)
DInv == DTypes /\ Knows(client) /\ HeardTrue

-------------------------------------------------------------------------------
(* What the operators of disposition.lua leave as it was                   *)

(* A step of the client that records no outcome.                           *)
Keeps(c, d) ==
  /\ d \in Clients /\ d.queue = c.queue /\ d.scope = c.scope
  /\ \A a \in Adjustments :
       /\ d.receipts[a] = D!NoReceipt <=> c.receipts[a] = D!NoReceipt
       /\ c.receipts[a] # D!NoReceipt => d.receipts[a].status = c.receipts[a].status
  /\ Honest(c) => Honest(d)

LEMMA KeepsTransitive ==
  ASSUME NEW c, NEW d, NEW e, Keeps(c, d), Keeps(d, e)
  PROVE  Keeps(c, e)
BY DEF Keeps

(* It knows afterwards what it knew.                                       *)
LEMMA KeepsKnows ==
  ASSUME NEW c, NEW d, Knows(c), c.scope = gen, Keeps(c, d)
  PROVE  Knows(d)
BY DEF Knows, Keeps, InScope, Ledger, Waits, Recorded, NotForgotten

(* Types of the parts of a client.                                         *)
LEMMA ClientParts ==
  ASSUME NEW c \in Clients
  PROVE  /\ c.queue \subseteq Adjustments /\ c.receipts \in [Adjustments -> Receipts]
         /\ c.observed \in Observed /\ c.scope \in Nat /\ c.wire \in Seq(Submissions)
         /\ \A i \in DOMAIN c.wire : c.wire[i] \in Submissions
<1>1. c.wire \in Seq(Submissions)
  BY DEF Clients
<1>2. \A i \in DOMAIN c.wire : c.wire[i] \in Submissions
  BY <1>1, LenProperties, ElementOfSeq
<1> QED BY <1>1, <1>2 DEF Clients

(* Only the observation or the bookkeeping of a receipt changes.           *)
LEMMA SameWire ==
  ASSUME NEW c \in Clients, NEW d \in Clients,
         d.queue = c.queue, d.scope = c.scope, d.wire = c.wire,
         \A a \in Adjustments :
           /\ d.receipts[a] = D!NoReceipt <=> c.receipts[a] = D!NoReceipt
           /\ c.receipts[a] # D!NoReceipt => d.receipts[a].status = c.receipts[a].status
  PROVE  Keeps(c, d)
<1>1. Honest(c) => Honest(d)
  BY ClientParts DEF Honest, Submissions
<1> QED BY <1>1 DEF Keeps

LEMMA ObservedKeeps ==
  ASSUME NEW c \in Clients, NEW o \in Observed
  PROVE  Keeps(c, [c EXCEPT !.observed = o])
<1>1. [c EXCEPT !.observed = o] \in Clients
  BY DEF Clients
<1> QED BY <1>1, SameWire DEF Clients

LEMMA ReceiptKeeps ==
  ASSUME NEW c \in Clients, NEW a \in Adjustments, NEW r \in Receipts,
         c.receipts[a] # D!NoReceipt, r # D!NoReceipt, r.status = c.receipts[a].status
  PROVE  Keeps(c, [c EXCEPT !.receipts[a] = r])
<1>1. [c EXCEPT !.receipts[a] = r] \in Clients
  BY DEF Clients
<1>2. \A b \in Adjustments :
        [c EXCEPT !.receipts[a] = r].receipts[b] = IF b = a THEN r ELSE c.receipts[b]
  BY DEF Clients
<1> QED BY <1>1, <1>2, SameWire DEF Clients

LEMMA SubmitKeeps ==
  ASSUME DTypes, NEW c \in Clients, NEW of \in Adjustments \union {"none"}, NEW status \in D!Outcomes \union {"none"},
         of # "none" => c.receipts[of] # D!NoReceipt /\ status = c.receipts[of].status
  PROVE  Keeps(c, D!submitDisposition(c, of, status))
<1> DEFINE m == [of |-> of, status |-> status, reading |-> reading, awaited |-> TRUE]
           w == Append(c.wire, m)
           d == D!submitDisposition(c, of, status)
<1>1. m \in Submissions
  BY DEF Submissions, DTypes
<1>2. /\ w \in Seq(Submissions)
      /\ \A i \in DOMAIN w : (i \in DOMAIN c.wire /\ w[i] = c.wire[i]) \/ w[i] = m
  <2>1. Len(c.wire) \in Nat /\ DOMAIN c.wire = 1..Len(c.wire) /\ c.wire \in Seq(Submissions)
    BY ClientParts, LenProperties
  <2>2. /\ w \in Seq(Submissions) /\ Len(w) = Len(c.wire) + 1 /\ w[Len(c.wire) + 1] = m
        /\ \A i \in 1..Len(c.wire) : w[i] = c.wire[i]
    BY <1>1, <2>1, AppendProperties
  <2>3. DOMAIN w = 1..(Len(c.wire) + 1)
    BY <2>2, LenProperties
  <2> QED BY <2>1, <2>2, <2>3
<1>3. d = [c EXCEPT !.wire = w]
  BY DEF D!submitDisposition
<1>4. /\ d \in Clients /\ d.queue = c.queue /\ d.scope = c.scope /\ d.receipts = c.receipts /\ d.wire = w
  <2> HIDE DEF w, d
  <2> QED BY <1>2, <1>3 DEF Clients
<1>5. Honest(c) => Honest(d)
  <2> HIDE DEF w, d
  <2> QED BY <1>2, <1>4 DEF Honest
<1> QED BY <1>4, <1>5 DEF Keeps

LEMMA DisownKeeps ==
  ASSUME NEW c \in Clients, NEW of
  PROVE  Keeps(c, D!Disowned(c, of))
<1> DEFINE w == [i \in DOMAIN c.wire |->
                   IF c.wire[i].of = of THEN [c.wire[i] EXCEPT !.awaited = FALSE] ELSE c.wire[i]]
           d == D!Disowned(c, of)
<1>1. /\ \A i \in DOMAIN c.wire : w[i] \in Submissions /\ w[i].of = c.wire[i].of /\ w[i].status = c.wire[i].status
      /\ DOMAIN w = DOMAIN c.wire
  BY ClientParts DEF Submissions
<1>2. w \in Seq(Submissions)
  <2>1. Len(c.wire) \in Nat /\ DOMAIN c.wire = 1..Len(c.wire)
    BY ClientParts, LenProperties
  <2>2. w \in [1..Len(c.wire) -> Submissions]
    BY <1>1, <2>1
  <2> HIDE DEF w
  <2> QED BY <2>1, <2>2
<1>3. d = [c EXCEPT !.wire = w]
  BY DEF D!Disowned
<1>4. d \in Clients /\ d.queue = c.queue /\ d.scope = c.scope /\ d.receipts = c.receipts /\ d.wire = w
  <2> HIDE DEF w, d
  <2> QED BY <1>2, <1>3 DEF Clients
<1>5. Honest(c) => Honest(d)
  <2> HIDE DEF w, d
  <2> QED BY <1>1, <1>4 DEF Honest
<1> QED BY <1>4, <1>5 DEF Keeps

LEMMA KeepsItself == ASSUME NEW c \in Clients PROVE Keeps(c, c)
BY DEF Keeps

(* M.observe records no outcome.                                           *)
LEMMA ObserveKeeps ==
  ASSUME DTypes, NEW c \in Clients, NEW readable
  PROVE  Keeps(c, D!observe(c, readable))
<1>1. Keeps(c, c)
  BY KeepsItself
<1>2. Keeps(c, [c EXCEPT !.observed.request = "none"])
  <2>1. [c EXCEPT !.observed.request = "none"] \in Clients
    BY DEF Clients, Observed, Requests
  <2> QED BY <2>1, SameWire DEF Clients
<1>3. Keeps(c, [c EXCEPT !.observed = D!Unseen])
  BY ObservedKeeps DEF D!Unseen, Observed, Requests
<1>4. Keeps(c, [D!submitDisposition(D!Disowned(c, "none"), "none", "none") EXCEPT
                  !.observed = [reading |-> reading, request |-> "pending"]])
  <2> DEFINE d == D!Disowned(c, "none")
             e == D!submitDisposition(d, "none", "none")
  <2>1. Keeps(c, d) /\ d \in Clients
    BY DisownKeeps DEF Keeps
  <2>2. Keeps(d, e) /\ e \in Clients
    <3> HIDE DEF d
    <3> QED BY <2>1, SubmitKeeps DEF Keeps
  <2>3. [reading |-> reading, request |-> "pending"] \in Observed
    BY DEF Observed, Requests, DTypes
  <2>4. Keeps(e, [e EXCEPT !.observed = [reading |-> reading, request |-> "pending"]])
    <3> HIDE DEF e
    <3> QED BY <2>2, <2>3, ObservedKeeps
  <2>5. Keeps(c, e)
    <3> HIDE DEF d, e
    <3> QED BY <2>1, <2>2, KeepsTransitive
  <2> HIDE DEF e
  <2>6. Keeps(c, [e EXCEPT !.observed = [reading |-> reading, request |-> "pending"]])
    BY <2>4, <2>5, KeepsTransitive
  <2> QED BY <2>6 DEF e
<1> QED BY <1>1, <1>2, <1>3, <1>4 DEF D!observe

(* The result of a receipt records no outcome.                             *)
LEMMA SettledKeeps ==
  ASSUME DTypes, NEW c \in Clients, NEW a \in Adjustments, c.receipts[a] # D!NoReceipt, NEW late, NEW readable
  PROVE  Keeps(c, D!Settled(c, a, late, readable))
<1> DEFINE n == D!Disowned(c, "none")
           u == [n EXCEPT !.receipts[a].acked = TRUE, !.receipts[a].request = "none", !.observed = D!Unseen]
           o == D!Disowned(c, a)
           v == [o EXCEPT !.receipts[a].request = "none"]
<1>1. Keeps(c, c)
  BY KeepsItself
<1>2. Keeps(c, n) /\ n \in Clients /\ n.receipts[a] # D!NoReceipt
  BY DisownKeeps DEF Keeps
<1>3. Keeps(n, u) /\ u \in Clients
  <2> HIDE DEF n
  <2>1. n.receipts[a] \in Receipts \ {D!NoReceipt} /\ D!Unseen \in Observed
    BY <1>2, ClientParts DEF D!Unseen, Observed, Requests
  <2>2. u \in Clients
    BY <1>2, <2>1 DEF Clients, Receipts, Requests
  <2>3. \A b \in Adjustments :
          /\ u.receipts[b] = D!NoReceipt <=> n.receipts[b] = D!NoReceipt
          /\ n.receipts[b] # D!NoReceipt => u.receipts[b].status = n.receipts[b].status
    BY <1>2, <2>1 DEF Clients, Receipts, D!NoReceipt
  <2>4. u.queue = n.queue /\ u.scope = n.scope /\ u.wire = n.wire
    BY <1>2 DEF Clients
  <2> HIDE DEF u
  <2> QED BY <1>2, <2>2, <2>3, <2>4, SameWire
<1>4. Keeps(u, D!observe(u, readable))
  <2> HIDE DEF u
  <2> QED BY <1>3, ObserveKeeps
<1>5. Keeps(c, D!Confirmed(c, a, readable))
  <2>1. D!Confirmed(c, a, readable) = D!observe(u, readable)
    BY DEF D!Confirmed
  <2> HIDE DEF n, u
  <2> QED BY <1>2, <1>3, <1>4, <2>1, KeepsTransitive
<1>6. Keeps(c, o) /\ o \in Clients /\ o.receipts[a] # D!NoReceipt
  BY DisownKeeps DEF Keeps
<1>7. Keeps(o, v)
  <2> HIDE DEF o
  <2>1. o.receipts[a] \in Receipts \ {D!NoReceipt}
    BY <1>6, ClientParts
  <2>2. v \in Clients
    BY <1>6, <2>1 DEF Clients, Receipts, Requests
  <2>3. \A b \in Adjustments :
          /\ v.receipts[b] = D!NoReceipt <=> o.receipts[b] = D!NoReceipt
          /\ o.receipts[b] # D!NoReceipt => v.receipts[b].status = o.receipts[b].status
    BY <1>6, <2>1 DEF Clients, Receipts, D!NoReceipt
  <2>4. v.queue = o.queue /\ v.scope = o.scope /\ v.wire = o.wire
    BY <1>6 DEF Clients
  <2> HIDE DEF v
  <2> QED BY <1>6, <2>2, <2>3, <2>4, SameWire
<1>8. Keeps(c, v)
  <2> HIDE DEF o, v
  <2> QED BY <1>6, <1>7, KeepsTransitive
<1> QED BY <1>1, <1>5, <1>8 DEF D!Settled

(* An attempt at a receipt records no outcome.                             *)
LEMMA AttemptKeeps ==
  ASSUME DTypes, NEW c \in Clients, NEW a \in Adjustments, c.receipts[a] # D!NoReceipt, NEW readable, NEW sent
  PROVE  Keeps(c, D!Attempt(c, a, readable, sent))
<1> DEFINE d == [c EXCEPT !.receipts[a].attempts = @ + 1]
           e == D!submitDisposition(d, a, d.receipts[a].status)
           f == [e EXCEPT !.receipts[a].request = "pending"]
<1>1. c.receipts[a] \in Receipts \ {D!NoReceipt}
  BY ClientParts
<1>2. Keeps(c, d) /\ d \in Clients /\ d.receipts[a] # D!NoReceipt
  <2>0. PICK n \in Nat : n = c.receipts[a].attempts + 1
    BY <1>1 DEF Receipts
  <2>1. d \in Clients
    <3>1. d = [c EXCEPT !.receipts[a].attempts = n]
      BY <2>0
    <3> HIDE DEF d
    <3> QED BY <1>1, <3>1 DEF Clients, Receipts
  <2>2. \A b \in Adjustments :
          /\ d.receipts[b] = D!NoReceipt <=> c.receipts[b] = D!NoReceipt
          /\ c.receipts[b] # D!NoReceipt => d.receipts[b].status = c.receipts[b].status
    BY <1>1 DEF Clients, Receipts, D!NoReceipt
  <2>3. d.queue = c.queue /\ d.scope = c.scope /\ d.wire = c.wire
    BY DEF Clients
  <2> HIDE DEF d
  <2> QED BY <1>1, <2>1, <2>2, <2>3, SameWire
<1>3. Keeps(d, e) /\ e \in Clients /\ e.receipts[a] # D!NoReceipt
  <2> HIDE DEF d
  <2>1. d.receipts[a].status \in D!Outcomes
    BY <1>2, ClientParts DEF Receipts
  <2> QED BY <1>2, <2>1, SubmitKeeps DEF Keeps
<1>4. Keeps(e, f)
  <2> HIDE DEF e
  <2>1. e.receipts[a] \in Receipts \ {D!NoReceipt}
    BY <1>3, ClientParts
  <2>2. f \in Clients
    BY <1>3, <2>1 DEF Clients, Receipts, Requests
  <2>3. \A b \in Adjustments :
          /\ f.receipts[b] = D!NoReceipt <=> e.receipts[b] = D!NoReceipt
          /\ e.receipts[b] # D!NoReceipt => f.receipts[b].status = e.receipts[b].status
    BY <1>3, <2>1 DEF Clients, Receipts, D!NoReceipt
  <2>4. f.queue = e.queue /\ f.scope = e.scope /\ f.wire = e.wire
    BY <1>3 DEF Clients
  <2> HIDE DEF f
  <2> QED BY <1>3, <2>2, <2>3, <2>4, SameWire
<1>5. Keeps(c, f)
  <2> HIDE DEF d, e, f
  <2> QED BY <1>2, <1>3, <1>4, KeepsTransitive
<1>6. D!Attempt(c, a, readable, sent) \in {d, f}
  BY DEF D!Attempt
<1> HIDE DEF d, e, f
<1> QED BY <1>2, <1>5, <1>6

-------------------------------------------------------------------------------
(* Steps                                                                   *)

(* A client that forgets the session before knows all there is to know of  *)
(* the present one.                                                        *)
LEMMA ScopedKnows ==
  ASSUME DTypes, Knows(client)
  PROVE  Knows(D!Scoped) /\ D!Scoped.scope = gen /\ D!Scoped \in Clients
<1>1. CASE client.scope = gen
  BY <1>1 DEF D!Scoped, DTypes
<1>2. CASE client.scope # gen
  <2> DEFINE c == D!Blank(client)
  <2>1. c \in Clients
    BY DEF D!Blank, DTypes, Clients, Receipts, Observed, D!Unseen, Requests
  <2>2. /\ c.queue = {} /\ c.scope = gen /\ c.wire = client.wire
        /\ \A a \in Adjustments : c.receipts[a] = D!NoReceipt
    BY DEF D!Blank, DTypes, Clients
  <2>3. client.wire = <<>> /\ client.scope < gen
    BY <1>2 DEF Knows, InScope, DTypes, Clients
  <2> HIDE DEF c
  <2>4. Honest(c) /\ InScope(c)
    BY <2>2, <2>3, EmptySeq DEF Honest, InScope, DTypes
  <2>5. Ledger(c)
    <3> SUFFICES ASSUME NEW a \in Adjustments PROVE Waits(c, a) /\ Recorded(c, a) /\ NotForgotten(c, a)
      BY DEF Ledger
    <3>1. sentIn[a] \in Nat /\ sentIn[a] < gen /\ (sentIn[a] = 0 => Untouched(a))
      BY <2>3 DEF Knows, Ledger, NotForgotten, DTypes, Clients
    <3> QED BY <2>2, <3>1 DEF Waits, Recorded, NotForgotten, DTypes
  <2> QED BY <1>2, <2>1, <2>2, <2>4, <2>5 DEF D!Scoped, Knows, c
<1> QED BY <1>1, <1>2

(* The bookkeeping of a receipt.                                           *)
LEMMA ReportKeeps ==
  ASSUME DTypes, Knows(client), NEW a \in Adjustments,
         NEW readable \in BOOLEAN, NEW late \in BOOLEAN, NEW due \in BOOLEAN, NEW sent \in BOOLEAN,
         D!Report(a, readable, late, due, sent)
  PROVE  Keeps(D!Scoped, client')
<1> DEFINE c == [D!Scoped EXCEPT !.receipts[a].read = @ \/ readable]
           d == D!Settled(c, a, late, readable)
<1>1. D!Scoped \in Clients /\ D!Scoped.receipts[a] # D!NoReceipt
  BY ScopedKnows DEF D!Report
<1>2. PICK s : s = D!Scoped
  OBVIOUS
<1>3. Keeps(s, c) /\ c \in Clients /\ c.receipts[a] # D!NoReceipt
  <2>1. s.receipts[a] \in Receipts \ {D!NoReceipt} /\ s \in Clients
    BY <1>1, <1>2, ClientParts
  <2>2. PICK b \in BOOLEAN : b = (s.receipts[a].read \/ readable)
    OBVIOUS
  <2>3. c = [s EXCEPT !.receipts[a].read = b]
    BY <1>2, <2>2
  <2> HIDE DEF c
  <2>4. c \in Clients
    BY <2>1, <2>3 DEF Clients, Receipts
  <2>5. \A e \in Adjustments :
          /\ c.receipts[e] = D!NoReceipt <=> s.receipts[e] = D!NoReceipt
          /\ s.receipts[e] # D!NoReceipt => c.receipts[e].status = s.receipts[e].status
    BY <2>1, <2>3 DEF Clients, Receipts, D!NoReceipt
  <2>6. c.queue = s.queue /\ c.scope = s.scope /\ c.wire = s.wire
    BY <2>1, <2>3 DEF Clients
  <2> QED BY <2>1, <2>4, <2>5, <2>6, SameWire
<1>4. Keeps(c, d) /\ d \in Clients /\ d.receipts[a] # D!NoReceipt
  <2> HIDE DEF c
  <2> QED BY <1>3, SettledKeeps DEF Keeps
<1>5. Keeps(d, D!Attempt(d, a, readable, sent))
  <2> HIDE DEF d
  <2> QED BY <1>4, AttemptKeeps
<1>6. client' = d \/ client' = D!Attempt(d, a, readable, sent)
  BY DEF D!Report
<1> HIDE DEF c, d
<1> QED BY <1>2, <1>3, <1>4, <1>5, <1>6, KeepsTransitive

(* A step that only keeps the books leaves the invariant.                  *)
LEMMA QuietStep ==
  ASSUME DInv, NEW c, Knows(c), c.scope = gen, Keeps(c, client'),
         UNCHANGED <<gen, sentIn, applied, heard>>, ready' \in BOOLEAN, reading' \in Readings
  PROVE  DInv'
<1>1. Knows(client') /\ client' \in Clients
  BY KeepsKnows DEF Keeps
<1>2. Knows(client)'
  BY <1>1 DEF Knows, Honest, InScope, Ledger, Waits, Recorded, NotForgotten, Untouched
<1>3. HeardTrue'
  BY DEF DInv, HeardTrue
<1> QED BY <1>1, <1>2, <1>3 DEF DInv, DTypes

LEMMA DInitInv == D!Init => DInv
<1> SUFFICES ASSUME D!Init PROVE DInv
  OBVIOUS
<1>1. client \in Clients
  BY EmptySeq DEF D!Init, Clients, Receipts, Observed, D!Unseen, Requests
<1>2. DTypes
  BY <1>1 DEF D!Init, DTypes
<1>3. Knows(client)
  BY <1>1, EmptySeq DEF D!Init, Knows, Honest, InScope, Ledger, Waits, Recorded, NotForgotten, Untouched
<1> QED BY <1>2, <1>3 DEF D!Init, DInv, HeardTrue

(* An adjustment is dropped, waits, or has its outcome sent again.         *)
LEMMA ReceiveStep == ASSUME DInv, NEW a \in Adjustments, D!Receive(a) PROVE DInv'
<1> PICK s : s = D!Scoped
  OBVIOUS
<1>1. s \in Clients /\ Knows(s) /\ s.scope = gen
  BY ScopedKnows DEF DInv
<1>2. UNCHANGED <<gen, ready, reading, applied, heard>> /\ sentIn' = [sentIn EXCEPT ![a] = gen]
  BY DEF D!Receive
<1>3. sentIn[a] \in {0, gen} /\ gen \in Nat /\ gen # 0 /\ sentIn \in [Adjustments -> Nat]
  BY DEF D!Receive, DInv, DTypes
<1>4. CASE D!Remembered(s, a)
  <2>1. client' = D!SentAgain(s, a)
    BY <1>4 DEF D!Receive
  <2>2. sentIn' = sentIn
    <3>1. sentIn[a] = gen
      BY <1>1, <1>4 DEF Knows, Ledger, Recorded, D!Remembered
    <3> QED BY <1>2, <1>3, <3>1
  <2>3. Keeps(s, client')
    <3> DEFINE d == D!Disowned(s, a)
    <3>1. Keeps(s, d) /\ d \in Clients /\ d.receipts[a] # D!NoReceipt
      BY <1>1, <1>4, DisownKeeps DEF Keeps, D!Remembered
    <3>2. PICK r : r = [d.receipts[a] EXCEPT !.attempts = 0, !.request = "none", !.acked = FALSE]
      OBVIOUS
    <3>3. client' = [d EXCEPT !.receipts[a] = r]
      BY <2>1, <3>1, <3>2 DEF D!SentAgain, Clients
    <3>4. d.receipts[a] \in Receipts \ {D!NoReceipt}
      BY <3>1, ClientParts
    <3> HIDE DEF d
    <3>5. r \in Receipts /\ r # D!NoReceipt /\ r.status = d.receipts[a].status
      BY <3>2, <3>4 DEF Receipts, D!NoReceipt, Requests
    <3>6. Keeps(d, client')
      BY <3>1, <3>3, <3>5, ReceiptKeeps
    <3> QED BY <3>1, <3>6, KeepsTransitive
  <2> QED BY <1>1, <1>2, <2>2, <2>3, QuietStep DEF DInv, DTypes
<1>5. CASE ~D!Remembered(s, a)
  <2>1. s.receipts[a] = D!NoReceipt /\ Untouched(a)
    <3>1. s.receipts[a] = D!NoReceipt
      BY <1>5 DEF D!Remembered
    <3> QED BY <1>1, <1>3, <3>1 DEF Knows, Ledger, NotForgotten
  <2>2. /\ client' \in Clients /\ client'.scope = gen /\ client'.receipts = s.receipts
        /\ client'.wire = s.wire
        /\ client'.queue \in {s.queue, s.queue \union {a}}
    <3>1. client' = s \/ client' = [s EXCEPT !.queue = @ \union {a}]
      BY <1>5 DEF D!Receive
    <3> QED BY <1>1, <3>1 DEF Clients
  <2>3. Honest(client') /\ InScope(client')
    BY <1>1, <2>2 DEF Knows, Honest, InScope
  <2>4. Ledger(client)'
    <3> SUFFICES ASSUME NEW b \in Adjustments
                 PROVE  Waits(client, b)' /\ Recorded(client, b)' /\ NotForgotten(client, b)'
      BY DEF Ledger
    <3>1. Waits(s, b) /\ Recorded(s, b) /\ NotForgotten(s, b)
      BY <1>1 DEF Knows, Ledger
    <3>2. CASE b = a
      BY <1>2, <1>3, <2>1, <2>2, <3>2 DEF Waits, Recorded, NotForgotten, Untouched
    <3>3. CASE b # a
      BY <1>1, <1>2, <1>3, <2>2, <3>1, <3>3 DEF Waits, Recorded, NotForgotten, Untouched
    <3> QED BY <3>2, <3>3
  <2>5. Knows(client)'
    BY <1>2, <2>2, <2>3, <2>4 DEF Knows, Honest, InScope
  <2>6. HeardTrue'
    BY <1>2 DEF DInv, HeardTrue
  <2> QED BY <1>2, <1>3, <2>2, <2>5, <2>6 DEF DInv, DTypes
<1> QED BY <1>4, <1>5

(* Whatever becomes of a waiting adjustment is recorded as it happened.    *)
LEMMA OutcomeStep ==
  ASSUME DInv, NEW a \in Adjustments, NEW status \in D!Outcomes, NEW read \in BOOLEAN,
         a \in D!Scoped.queue, D!Outcome(a, status, read),
         UNCHANGED <<gen, ready, sentIn, heard>>, reading' \in Readings,
         applied' = IF status = "applied" THEN [applied EXCEPT ![a] = @ + 1] ELSE applied
  PROVE  DInv' /\ Untouched(a)
<1> PICK s : s = D!Scoped
  OBVIOUS
<1>1. s \in Clients /\ Knows(s) /\ s.scope = gen /\ a \in s.queue
  BY ScopedKnows DEF DInv
<1>2. PICK r : r = D!retain(status, read)
  OBVIOUS
<1>3. r \in Receipts /\ r # D!NoReceipt /\ r.status = status
  BY <1>2 DEF D!retain, Receipts, Requests, D!NoReceipt
<1>4. client' = [s EXCEPT !.queue = @ \ {a}, !.receipts[a] = r]
  BY <1>2 DEF D!Outcome
<1>5. /\ client' \in Clients /\ client'.scope = gen /\ client'.wire = s.wire
      /\ client'.queue = s.queue \ {a} /\ client'.receipts = [s.receipts EXCEPT ![a] = r]
  BY <1>1, <1>3, <1>4 DEF Clients
<1>6. s.receipts \in [Adjustments -> Receipts] /\ \A i \in DOMAIN s.wire : s.wire[i] \in Submissions
  BY <1>1, ClientParts
<1>7. sentIn[a] = gen /\ s.receipts[a] = D!NoReceipt /\ Untouched(a)
  BY <1>1 DEF Knows, Ledger, Waits, NotForgotten
<1>8. applied' \in [Adjustments -> {0, 1}] /\ \A b \in Adjustments : b # a => applied'[b] = applied[b]
  BY <1>7 DEF DInv, DTypes, Untouched
<1>9. applied'[a] = IF status = "applied" THEN 1 ELSE 0
  BY <1>7 DEF DInv, DTypes, Untouched
<1>10. Honest(client') /\ InScope(client')
  BY <1>1, <1>5, <1>6, <1>7 DEF Knows, Honest, InScope, Submissions
<1>11. Ledger(client)'
  <2> SUFFICES ASSUME NEW b \in Adjustments
               PROVE  Waits(client, b)' /\ Recorded(client, b)' /\ NotForgotten(client, b)'
    BY DEF Ledger
  <2>1. Waits(s, b) /\ Recorded(s, b) /\ NotForgotten(s, b)
    BY <1>1 DEF Knows, Ledger
  <2>2. gen # 0
    BY DEF DInv, DTypes
  <2>3. CASE b = a
    BY <1>3, <1>5, <1>6, <1>7, <1>9, <2>1, <2>2, <2>3 DEF Waits, Recorded, NotForgotten, DInv, DTypes
  <2>4. CASE b # a
    BY <1>1, <1>5, <1>6, <1>8, <2>1, <2>4 DEF Waits, Recorded, NotForgotten, Untouched
  <2> QED BY <2>3, <2>4
<1>12. Knows(client)'
  BY <1>5, <1>10, <1>11 DEF Knows, Honest, InScope
<1>13. HeardTrue'
  BY <1>7, <1>8 DEF DInv, HeardTrue, Untouched
<1> QED BY <1>5, <1>7, <1>8, <1>12, <1>13 DEF DInv, DTypes

(* What is on its way first, and what the client is left with.             *)
LEMMA ServeParts ==
  ASSUME DInv, NEW arrives \in BOOLEAN, NEW result \in {"ok", "failed", "lost"}, D!Serve(arrives, result),
         NEW m, m = Head(client.wire)
  PROVE  /\ m \in Submissions /\ Keeps(client, client') /\ client.scope = gen
         /\ m.of # "none" => /\ client.receipts[m.of] # D!NoReceipt
                             /\ m.status = client.receipts[m.of].status
<1> DEFINE c == [client EXCEPT !.wire = Tail(@)]
<1>1. client \in Clients /\ client.wire \in Seq(Submissions) /\ client.wire # <<>>
  BY DEF D!Serve, DInv, Knows, Clients
<1>2. /\ m \in Submissions /\ 1 \in DOMAIN client.wire /\ client.wire[1] = m
      /\ Tail(client.wire) \in Seq(Submissions)
      /\ \A i \in DOMAIN Tail(client.wire) :
           i + 1 \in DOMAIN client.wire /\ Tail(client.wire)[i] = client.wire[i + 1]
  BY <1>1, HeadTailProperties, LenProperties
<1>3. client.scope = gen
  BY <1>1 DEF DInv, Knows, InScope
<1>4. m.of # "none" => client.receipts[m.of] # D!NoReceipt /\ m.status = client.receipts[m.of].status
  BY <1>2 DEF DInv, Knows, Honest
<1>5. /\ c \in Clients /\ c.queue = client.queue /\ c.scope = client.scope
      /\ c.receipts = client.receipts /\ c.wire = Tail(client.wire)
  BY <1>1, <1>2 DEF Clients
<1>6. Honest(c)
  <2> HIDE DEF c
  <2> QED BY <1>2, <1>5 DEF DInv, Knows, Honest
<1>7. Keeps(client, c)
  <2> HIDE DEF c
  <2> QED BY <1>5, <1>6 DEF Keeps
<1>8. result # "lost" => result \in Requests
  BY DEF Requests
<1>9. CASE client' = c
  BY <1>2, <1>3, <1>4, <1>7, <1>9
<1>10. CASE result # "lost" /\ m.of = "none" /\ client' = [c EXCEPT !.observed.request = result]
  <2> HIDE DEF c
  <2>1. client' \in Clients
    BY <1>5, <1>8, <1>10 DEF Clients, Observed
  <2>2. Keeps(c, client')
    BY <1>5, <1>10, <2>1, SameWire DEF Clients
  <2> QED BY <1>2, <1>3, <1>4, <1>7, <2>2, KeepsTransitive
<1>11. CASE result # "lost" /\ m.of # "none" /\ client' = [c EXCEPT !.receipts[m.of].request = result]
  <2> HIDE DEF c
  <2>1. m.of \in Adjustments
    BY <1>2, <1>11 DEF Submissions
  <2>2. PICK r : r = [c.receipts[m.of] EXCEPT !.request = result]
    OBVIOUS
  <2>3. c.receipts[m.of] \in Receipts \ {D!NoReceipt}
    BY <1>4, <1>5, <1>11, <2>1, ClientParts
  <2>4. r \in Receipts /\ r # D!NoReceipt /\ r.status = c.receipts[m.of].status
    BY <1>8, <1>11, <2>2, <2>3 DEF Receipts, D!NoReceipt
  <2>5. client' = [c EXCEPT !.receipts[m.of] = r]
    BY <1>5, <1>11, <2>1, <2>2 DEF Clients
  <2>6. Keeps(c, client')
    BY <1>5, <2>1, <2>3, <2>4, <2>5, ReceiptKeeps
  <2> QED BY <1>2, <1>3, <1>4, <1>7, <2>6, KeepsTransitive
<1> QED BY <1>9, <1>10, <1>11 DEF D!Serve

(* What the server hears is what the receipt says.                         *)
LEMMA ServeStep ==
  ASSUME DInv, NEW arrives \in BOOLEAN, NEW result \in {"ok", "failed", "lost"}, D!Serve(arrives, result)
  PROVE  DInv'
<1> PICK m : m = Head(client.wire)
  OBVIOUS
<1>1. /\ m \in Submissions /\ Keeps(client, client') /\ client.scope = gen
      /\ m.of # "none" => client.receipts[m.of] # D!NoReceipt /\ m.status = client.receipts[m.of].status
  BY ServeParts
<1>2. /\ UNCHANGED <<gen, ready, reading, sentIn, applied>>
      /\ heard' = IF arrives /\ m.of # "none" THEN [heard EXCEPT ![m.of] = @ \union {m.status}] ELSE heard
  BY DEF D!Serve
<1>3. CASE heard' = heard
  BY <1>1, <1>2, <1>3, QuietStep DEF DInv, DTypes
<1>4. CASE heard' # heard
  <2>1. m.of \in Adjustments /\ client.receipts[m.of] \in Receipts \ {D!NoReceipt}
        /\ heard' = [heard EXCEPT ![m.of] = @ \union {m.status}]
    BY <1>1, <1>2, <1>4, ClientParts DEF Submissions, DInv, DTypes
  <2>2. /\ m.status \in D!Outcomes /\ sentIn[m.of] = gen
        /\ m.status = IF applied[m.of] = 1 THEN "applied" ELSE "rejected"
    <3>1. client.receipts[m.of].status \in D!Outcomes
      BY <2>1 DEF Receipts, D!NoReceipt
    <3>2. Recorded(client, m.of)
      BY <2>1 DEF DInv, Knows, Ledger
    <3>3. /\ sentIn[m.of] = gen
          /\ applied[m.of] = IF client.receipts[m.of].status = "applied" THEN 1 ELSE 0
      BY <1>1, <2>1, <3>2 DEF Recorded
    <3>4. m.of # "none"
      BY <1>2, <1>4
    <3> QED BY <1>1, <3>1, <3>3, <3>4 DEF D!Outcomes
  <2>3. heard' \in [Adjustments -> SUBSET D!Outcomes] /\ HeardTrue'
    BY <1>2, <2>1, <2>2 DEF DInv, HeardTrue, DTypes
  <2>4. Knows(client') /\ client' \in Clients
    BY <1>1, KeepsKnows DEF DInv, Keeps
  <2>5. \A a \in Adjustments : heard'[a] # heard[a] => a = m.of
    BY <2>1 DEF DInv, DTypes
  <2>6. Ledger(client)'
    <3> SUFFICES ASSUME NEW a \in Adjustments
                 PROVE  Waits(client, a)' /\ Recorded(client, a)' /\ NotForgotten(client, a)'
      BY DEF Ledger
    <3>1. Waits(client', a) /\ Recorded(client', a) /\ NotForgotten(client', a)
      BY <2>4 DEF Knows, Ledger
    <3>2. a = m.of => client'.receipts[a] # D!NoReceipt /\ sentIn[a] # 0
      BY <1>1, <2>1, <2>2 DEF Keeps, DInv, DTypes
    <3> QED BY <1>2, <2>5, <3>1, <3>2 DEF Waits, Recorded, NotForgotten, Untouched
  <2> QED BY <1>2, <2>3, <2>4, <2>6 DEF DInv, DTypes, Knows, Honest, InScope
<1> QED BY <1>3, <1>4

(* cancelGeneration: nothing is on its way any more.                       *)
LEMMA FenceStep == ASSUME DInv, D!Fence PROVE DInv'
<1>1. client' = [client EXCEPT !.wire = <<>>] /\ gen' = gen + 1 /\ ready' = FALSE
      /\ UNCHANGED <<reading, sentIn, applied, heard>>
  BY DEF D!Fence
<1>2. /\ client' \in Clients /\ client'.queue = client.queue /\ client'.scope = client.scope
      /\ client'.receipts = client.receipts /\ client'.wire = <<>>
  BY <1>1, EmptySeq DEF DInv, Knows, Clients
<1>3. Ledger(client)'
  BY <1>1, <1>2 DEF DInv, Knows, Ledger, Waits, Recorded, NotForgotten, Untouched
<1>4. Honest(client)' /\ InScope(client)'
  BY <1>1, <1>2, EmptySeq DEF DInv, Knows, Honest, InScope, DTypes, Clients
<1>5. Knows(client)' /\ HeardTrue'
  BY <1>1, <1>2, <1>3, <1>4 DEF DInv, Knows, HeardTrue
<1>6. DTypes'
  <2>1. gen' \in Nat \ {0}
    BY <1>1 DEF DInv, DTypes
  <2> QED BY <1>1, <1>2, <2>1 DEF DInv, DTypes
<1> QED BY <1>5, <1>6 DEF DInv

(* What becomes of a waiting adjustment.                                   *)
LEMMA ExpireOutcome ==
  ASSUME DInv, NEW a \in Adjustments, NEW readable \in BOOLEAN, D!Expire(a, readable)
  PROVE  DInv' /\ UNCHANGED <<applied, heard>>
BY OutcomeStep DEF D!Expire, D!Outcomes, DInv, DTypes
LEMMA ApplyOutcome ==
  ASSUME DInv, NEW a \in Adjustments, NEW throws \in BOOLEAN, NEW readable \in BOOLEAN,
         D!Apply(a, throws, readable)
  PROVE  /\ DInv' /\ Untouched(a) /\ heard' = heard
         /\ applied' = IF throws THEN applied ELSE [applied EXCEPT ![a] = @ + 1]
<1>1. reading' \in Readings
  BY DEF D!Apply, DInv, DTypes
<1> QED BY <1>1, OutcomeStep DEF D!Apply, D!Outcomes

LEMMA Step == DInv /\ [D!Next]_D!vars => DInv'
<1> SUFFICES ASSUME DInv, [D!Next]_D!vars PROVE DInv'
  OBVIOUS
<1>1. Knows(D!Scoped) /\ D!Scoped.scope = gen /\ D!Scoped \in Clients
  BY ScopedKnows DEF DInv
<1>2. CASE \E a \in Adjustments : D!Receive(a)
  BY <1>2, ReceiveStep
<1>3. CASE \E a \in Adjustments : D!Decide(a)
  BY <1>3, ExpireOutcome, ApplyOutcome DEF D!Decide
<1>4. CASE \E a \in Adjustments : \E readable, late, due, sent \in BOOLEAN : D!Report(a, readable, late, due, sent)
  <2>1. Keeps(D!Scoped, client')
    BY <1>4, ReportKeeps DEF DInv
  <2>2. UNCHANGED <<gen, ready, reading, sentIn, applied, heard>>
    BY <1>4 DEF D!Report
  <2> QED BY <1>1, <2>1, <2>2, QuietStep DEF DInv, DTypes
<1>5. CASE \E readable \in BOOLEAN : D!Observe(readable)
  <2>1. Keeps(D!Scoped, client') /\ UNCHANGED <<gen, ready, reading, sentIn, applied, heard>>
    BY <1>1, <1>5, ObserveKeeps DEF D!Observe, DInv
  <2> QED BY <1>1, <2>1, QuietStep DEF DInv, DTypes
<1>6. CASE D!ServeSteps
  BY <1>6, ServeStep DEF D!ServeSteps
<1>7. CASE D!Change
  BY <1>7 DEF D!Change, DInv, DTypes, Knows, Honest, InScope, Ledger, Waits, Recorded, NotForgotten,
              Untouched, HeardTrue
<1>8. CASE D!Fence
  BY <1>8, FenceStep
<1>9. CASE D!NewSession
  BY <1>9 DEF D!NewSession, DInv, DTypes, Knows, Honest, InScope, Ledger, Waits, Recorded, NotForgotten,
              Untouched, HeardTrue
<1>10. CASE UNCHANGED D!vars
  BY <1>10 DEF D!vars, DInv, DTypes, Knows, Honest, InScope, Ledger, Waits, Recorded, NotForgotten,
               Untouched, HeardTrue
<1> QED BY <1>2, <1>3, <1>4, <1>5, <1>6, <1>7, <1>8, <1>9, <1>10 DEF D!Next

-------------------------------------------------------------------------------
(* The theorems                                                            *)

(* The inductive invariant: the outcomes that disposition.lua retains are  *)
(* what happened, and an adjustment that it has no outcome of is untouched.*)
THEOREM DispositionInductive == D!Spec => []DInv
BY DInitInv, Step, PTL DEF D!Spec

(* What the server has heard is one outcome, and the true one.             *)
LEMMA SaidOnce ==
  ASSUME HeardTrue, NEW a \in Adjustments
  PROVE  heard[a] = {} \/ heard[a] = {IF applied[a] = 1 THEN "applied" ELSE "rejected"}
BY DEF HeardTrue

(* The result of a submission is what the server says of the adjustment,   *)
(* or what it has said of it before.                                       *)
LEMMA ServeIsSay ==
  ASSUME DInv, DInv', NEW arrives \in BOOLEAN, NEW result \in {"ok", "failed", "lost"}, D!Serve(arrives, result)
  PROVE  D!Promised!Next \/ UNCHANGED <<applied, [a \in Adjustments |-> D!Said(a)]>>
<1> DEFINE said == [a \in Adjustments |-> D!Said(a)]
<1> PICK m : m = Head(client.wire)
  OBVIOUS
<1>1. /\ UNCHANGED applied
      /\ heard' = IF arrives /\ m.of # "none" THEN [heard EXCEPT ![m.of] = @ \union {m.status}] ELSE heard
      /\ m.of \in Adjustments \union {"none"}
  BY ServeParts DEF D!Serve, Submissions
<1>2. CASE heard' = heard
  BY <1>1, <1>2 DEF D!Said
<1>3. CASE heard' # heard
  <2> PICK b \in Adjustments : b = m.of
    BY <1>1, <1>3
  <2>1. /\ \A a \in Adjustments : a # b => heard'[a] = heard[a]
        /\ heard'[b] # {} /\ applied[b] \in {0, 1}
    BY <1>1, <1>3 DEF DInv, DTypes
  <2>2. \A a \in Adjustments : a # b => D!Said(a)' = D!Said(a)
    BY <2>1 DEF D!Said
  <2>3. heard'[b] = {IF applied[b] = 1 THEN "applied" ELSE "rejected"}
    BY <1>1, <2>1, SaidOnce DEF DInv, HeardTrue
  <2>4. D!Said(b)' = IF applied[b] = 1 THEN "succeeded" ELSE "rejected"
    BY <2>3 DEF D!Said
  <2>5. heard[b] # {} => heard'[b] = heard[b]
    BY <2>3, SaidOnce DEF DInv
  <2>6. heard[b] # {} => D!Said(b)' = D!Said(b)
    BY <2>5 DEF D!Said
  <2>7. CASE heard[b] # {}
    <3>1. said' = said
      BY <2>2, <2>6, <2>7
    <3> QED BY <1>1, <3>1
  <2>8. CASE heard[b] = {}
    <3>1. said[b] = "nothing"
      BY <2>8 DEF D!Said
    <3>2. said' = [said EXCEPT ![b] = D!Said(b)']
      BY <2>2
    <3>3. D!Promised!Say(b, D!Said(b)')
      BY <1>1, <2>1, <2>4, <3>1, <3>2 DEF D!Promised!Say
    <3> QED BY <2>4, <3>3 DEF D!Promised!Next, D!Promised!Verdicts
  <2> QED BY <2>7, <2>8
<1> QED BY <1>2, <1>3

(* Every step is a deed, a word on one, or neither.                         *)
LEMMA DeedsStep ==
  ASSUME DInv, [D!Next]_D!vars
  PROVE  D!Promised!Next \/ UNCHANGED <<applied, [a \in Adjustments |-> D!Said(a)]>>
<1> DEFINE said == [a \in Adjustments |-> D!Said(a)]
<1>1. DInv'
  BY Step
<1>2. CASE UNCHANGED <<applied, heard>>
  BY <1>2 DEF D!Said
<1>3. CASE \E a \in Adjustments, throws, readable \in BOOLEAN : D!Apply(a, throws, readable)
  <2> PICK a \in Adjustments, throws \in BOOLEAN, readable \in BOOLEAN : D!Apply(a, throws, readable)
    BY <1>3
  <2>1. /\ Untouched(a) /\ heard' = heard
        /\ applied' = IF throws THEN applied ELSE [applied EXCEPT ![a] = @ + 1]
    BY ApplyOutcome
  <2>2. said' = said /\ said[a] = "nothing"
    BY <2>1 DEF D!Said, Untouched
  <2>3. ~throws => D!Promised!Do(a)
    BY <2>1, <2>2 DEF D!Promised!Do, Untouched
  <2> QED BY <2>1, <2>2, <2>3 DEF D!Promised!Next
<1>4. CASE D!ServeSteps
  BY <1>1, <1>4, ServeIsSay DEF D!ServeSteps
<1>5. \/ UNCHANGED <<applied, heard>> \/ D!ServeSteps
      \/ \E a \in Adjustments, throws, readable \in BOOLEAN : D!Apply(a, throws, readable)
  <2>1. CASE \E a \in Adjustments : D!Decide(a)
    BY <2>1, ExpireOutcome DEF D!Decide
  <2>2. CASE ~\E a \in Adjustments : D!Decide(a)
    <3>1. CASE \E a \in Adjustments : D!Receive(a)
      BY <3>1 DEF D!Receive
    <3>2. CASE \E a \in Adjustments : \E readable, late, due, sent \in BOOLEAN : D!Report(a, readable, late, due, sent)
      BY <3>2 DEF D!Report
    <3> QED BY <2>2, <3>1, <3>2 DEF D!Next, D!vars, D!Observe, D!Change, D!Fence, D!NewSession
  <2> QED BY <2>1, <2>2
<1> QED BY <1>2, <1>3, <1>4, <1>5

(* However often an adjustment is sent and its outcome reported, it is     *)
(* applied at most once, and the server hears one outcome, the true one:   *)
(* Disposition implements Deeds.                                           *)
THEOREM AppliesOnceAlone == D!Spec => D!AppliesOnce
<1>1. D!Init => D!Promised!Init
  BY DEF D!Init, D!Promised!Init, D!Said
<1>2. DInv /\ [D!Next]_D!vars => [D!Promised!Next]_<<applied, [a \in Adjustments |-> D!Said(a)]>>
  BY DeedsStep
<1> QED BY <1>1, <1>2, DispositionInductive, PTL DEF D!Spec, D!AppliesOnce, D!Promised!Spec, D!Promised!vars
-------------------------------------------------------------------------------
(* NPC commands                                                            *)

(* The actor and the player begin somewhere; "none" is no place.           *)
Setting ==
  /\ Home \in [N!Somebody -> Places] /\ "none" \notin Places
  /\ MaxCommands \in Nat /\ MaxGenerations \in Nat \ {0}

Sessions == 1..MaxGenerations
Verdict == {"succeeded", "failed", "rejected"}
Waited == [of : N!Commands, session : Sessions, age : {"fresh", "expired", "overdue"}]
Orders == [of : N!Commands, session : Sessions]
Answers == [of : N!Commands, verdict : Verdict]
Watched == [of : N!Commands, to : Places, session : Sessions, late : BOOLEAN]
Moves == [who : N!Somebody, to : Places, of : N!Commands]
PlaceOrNone == Places \union {"none"}
Saved == [ticket : PlaceOrNone, where : [N!Somebody -> Places], away : PlaceOrNone]

Types ==
  /\ gen \in Sessions /\ ready \in BOOLEAN
  /\ command \in [N!Commands -> N!Names \union {"none"}]
  /\ player \in Waited \union {N!Nothing}
  /\ toGlobal \in Seq(Orders) /\ toPlayer \in Seq(Answers)
  /\ ticket \in PlaceOrNone /\ away \in PlaceOrNone
  /\ pending \in Watched \union {N!Nothing}
  /\ teleports \in Seq(Moves) /\ Len(teleports) <= 1
  /\ where \in [N!Somebody -> Places] /\ moved \subseteq N!Commands
  /\ verdicts \in [N!Commands -> SUBSET Verdict]
  /\ file \in Saved \union {N!NoSave}

(* This is so of every instance.                                           *)
LEMMA SettingHolds == Setting
BY SideLanesAssumption, DiaryAssumption DEF Setting, N!Somebody

-------------------------------------------------------------------------------
(* Where everybody is.                                                     *)

(* Whoever is away is away from somewhere else, and has the way back.      *)
HasWayBack(t, a, w) == a # "none" => t = a /\ a # w["actor"]
(* A summons that is still to be carried out has its ticket, and no        *)
(* command but a summons or a return moves the actor.                      *)
SummonsHasTicket ==
  teleports # <<>> =>
    LET m == Head(teleports) IN
    /\ m.who = N!Mover(m.of) /\ command[m.of] \in {"npc.visit", "npc.teleport", "npc.return"}
    /\ command[m.of] = "npc.teleport" => ticket = where["actor"]
(* What a return waits for is the place on the ticket, which it gives up.  *)
ReturnWaitsForTicket ==
  pending # N!Nothing /\ command[pending.of] = "npc.return" => pending.to = ticket
(* What the engine is still to carry out is what is watched, if anything.  *)
WatchesTheMove == teleports # <<>> /\ pending # N!Nothing => Head(teleports).of = pending.of
Whereabouts ==
  /\ HasWayBack(ticket, away, where)
  /\ SummonsHasTicket /\ ReturnWaitsForTicket /\ WatchesTheMove
  /\ file # N!NoSave => HasWayBack(file.ticket, file.away, file.where)

-------------------------------------------------------------------------------
(* What is said.                                                           *)

(* The order for a command is no longer on its way.                        *)
Spent(c) == \A i \in DOMAIN toGlobal : toGlobal[i].of # c
(* Nothing has moved for a command, and nothing will.                      *)
NeverMoves(c) == Spent(c) /\ c \notin moved /\ \A i \in DOMAIN teleports : teleports[i].of # c
(* A command that was handed out and has reached the GLOBAL script.        *)
Known(c) == Spent(c) /\ command[c] # "none"
OrdersOnce ==
  /\ \A i \in DOMAIN toGlobal : command[toGlobal[i].of] # "none"
  /\ \A i, j \in DOMAIN toGlobal : toGlobal[i].of = toGlobal[j].of => i = j
AnswersHold ==
  \A i \in DOMAIN toPlayer :
    Known(toPlayer[i].of) /\ (toPlayer[i].verdict = "rejected" => NeverMoves(toPlayer[i].of))
MovesKnown ==
  /\ \A i \in DOMAIN teleports : Known(teleports[i].of)
  /\ \A c \in moved : Known(c)
  /\ pending # N!Nothing => Known(pending.of)
VerdictsHold ==
  /\ player # N!Nothing => command[player.of] # "none"
  /\ \A c \in N!Commands :
       /\ verdicts[c] # {} => command[c] # "none" /\ player.of # c
       /\ verdicts[c] = {} \/ \E v \in Verdict : verdicts[c] = {v}
       /\ "rejected" \in verdicts[c] => NeverMoves(c)
Orderly == OrdersOnce /\ AnswersHold /\ MovesKnown /\ VerdictsHold

(* NpcInv says nothing of what is still on its way: orders, verdicts,      *)
(* teleports and watched returns.                                          *)
NInv == Types /\ Whereabouts /\ Orderly

-------------------------------------------------------------------------------
(* Sequences of events                                                     *)

(* The head of a sequence, and what is left without it.                    *)
LEMMA TailFacts ==
  ASSUME NEW S, NEW s \in Seq(S), s # <<>>
  PROVE  /\ Head(s) \in S /\ Head(s) = s[1] /\ 1 \in DOMAIN s
         /\ Tail(s) \in Seq(S) /\ Len(Tail(s)) = Len(s) - 1
         /\ \A i \in DOMAIN Tail(s) : i + 1 \in DOMAIN s /\ i + 1 # 1 /\ Tail(s)[i] = s[i + 1]
<1>1. Len(s) \in Nat /\ Len(s) # 0 /\ DOMAIN s = 1..Len(s)
  BY EmptySeq, LenProperties
<1>2. /\ Head(s) \in S /\ Tail(s) \in Seq(S) /\ Len(Tail(s)) = Len(s) - 1
      /\ \A i \in 1..(Len(s) - 1) : Tail(s)[i] = s[i + 1]
  BY HeadTailProperties
<1>3. DOMAIN Tail(s) = 1..(Len(s) - 1)
  BY <1>2, LenProperties
<1> QED BY <1>1, <1>2, <1>3

(* A sequence with one more element.                                       *)
LEMMA AppendFacts ==
  ASSUME NEW S, NEW s \in Seq(S), NEW e \in S
  PROVE  /\ Append(s, e) \in Seq(S)
         /\ \A i \in DOMAIN Append(s, e) :
              \/ i \in DOMAIN s /\ Append(s, e)[i] = s[i]
              \/ i = Len(s) + 1 /\ Append(s, e)[i] = e
<1>1. Len(s) \in Nat /\ DOMAIN s = 1..Len(s)
  BY LenProperties
<1>2. /\ Append(s, e) \in Seq(S) /\ Len(Append(s, e)) = Len(s) + 1
      /\ \A i \in 1..Len(s) : Append(s, e)[i] = s[i]
      /\ Append(s, e)[Len(s) + 1] = e
  BY AppendProperties
<1>3. DOMAIN Append(s, e) = 1..(Len(s) + 1)
  BY <1>2, LenProperties
<1> QED BY <1>1, <1>2, <1>3

-------------------------------------------------------------------------------
(* Steps                                                                   *)

(* Every action of Next, by name: the cases of the proofs below.           *)
LEMMA NextCases ==
  ASSUME N!Next
  PROVE  \/ \E c \in N!Commands, name \in N!Names : N!Take(c, name)
         \/ N!Timeout \/ N!Hear \/ N!Poll \/ N!Wait \/ N!WaitOld \/ N!Fence \/ N!NewSession \/ N!Save \/ N!Load
         \/ \E available, throws, full \in BOOLEAN : N!Start(available, throws, full)
         \/ \E works \in BOOLEAN : N!Teleport(works)
         \/ \E who \in N!Somebody, place \in Places : N!Walk(who, place)
BY DEF N!Next, N!Teleporting

(* Nothing waits for no command.                                           *)
LEMMA NothingFacts ==
  /\ N!Nothing.of = 0 /\ N!Nothing \notin Waited /\ N!Nothing \notin Watched
  /\ N!NoSave \notin Saved /\ ~(0 \in N!Commands)
BY DEF N!Nothing, Waited, Watched, N!Commands, N!NoSave, Saved

(* What M.start does with an order: it refuses it, which is never said of  *)
(* a command that may still move somebody, or it makes the teleport.       *)
LEMMA StartCases ==
  ASSUME Setting, Types, NEW available \in BOOLEAN, NEW throws \in BOOLEAN, NEW full \in BOOLEAN,
         N!Start(available, throws, full), command[Head(toGlobal).of] # "none"
  PROVE  LET c == Head(toGlobal).of IN
         /\ c \in N!Commands /\ toGlobal # <<>> /\ toGlobal' = Tail(toGlobal) /\ teleports = <<>>
         /\ \/ /\ \E v \in Verdict : toPlayer' = Append(toPlayer, [of |-> c, verdict |-> v])
                /\ UNCHANGED <<pending, teleports>>
                /\ \/ UNCHANGED ticket
                   \/ ticket = "none" /\ pending = N!Nothing /\ ticket' = where["actor"]
            \/ /\ UNCHANGED toPlayer /\ pending = N!Nothing
               /\ command[c] \in {"npc.visit", "npc.teleport", "npc.return"}
               /\ ticket' = IF command[c] = "npc.teleport" THEN where["actor"] ELSE ticket
               /\ command[c] = "npc.teleport" => ticket = "none"
               /\ pending' \in Watched /\ pending'.of = c
               /\ command[c] = "npc.return" => pending'.to = ticket
               /\ \E m \in Moves : teleports' = <<m>> /\ m.of = c /\ m.who = N!Mover(c) /\ m.to = pending'.to
<1> DEFINE c == Head(toGlobal).of
<1>1. toGlobal # <<>> /\ toGlobal' = Tail(toGlobal) /\ teleports = <<>>
  BY DEF N!Start
<1>2. c \in N!Commands
  <2>1. Head(toGlobal) \in Orders
    BY <1>1, TailFacts DEF Types
  <2> QED BY <2>1 DEF Orders
<1>3. command[c] \in N!Names
  BY <1>2 DEF Types
<1>4. CASE N!Dead(Head(toGlobal)) \/ command[c] = "npc.status" \/ N!Refused(c, available)
  <2>1. /\ \E v \in Verdict : toPlayer' = Append(toPlayer, [of |-> c, verdict |-> v])
        /\ UNCHANGED <<ticket, pending, teleports>>
    BY <1>4 DEF N!Start, N!Emit, Verdict
  <2> QED BY <1>1, <1>2, <2>1
<1>5. CASE ~(N!Dead(Head(toGlobal)) \/ command[c] = "npc.status" \/ N!Refused(c, available))
  <2>1. N!Schedule(c, throws, full)
    BY <1>5 DEF N!Start
  <2>2. /\ command[c] \in {"npc.visit", "npc.teleport", "npc.return"}
        /\ command[c] = "npc.teleport" => ticket = "none"
        /\ command[c] = "npc.return" => ticket # "none"
        /\ pending = N!Nothing
    BY <1>3, <1>5 DEF N!Refused, N!Dead, N!Names
  <2>3. CASE throws \/ (N!Summons(c) /\ full)
    <3>1. /\ \E v \in Verdict : toPlayer' = Append(toPlayer, [of |-> c, verdict |-> v])
          /\ UNCHANGED <<pending, teleports>>
      BY <2>1, <2>3 DEF N!Schedule, N!Emit, Verdict
    <3>2. UNCHANGED ticket \/ (ticket = "none" /\ pending = N!Nothing /\ ticket' = where["actor"])
      BY <2>1, <2>2 DEF N!Schedule, N!Summons
    <3> QED BY <1>1, <1>2, <3>1, <3>2
  <2>4. CASE ~(throws \/ (N!Summons(c) /\ full))
    <3>1. N!Destination(c) \in Places
      BY <2>2 DEF N!Destination, Types, PlaceOrNone, N!Somebody
    <3>2. /\ UNCHANGED toPlayer
          /\ ticket' = IF command[c] = "npc.teleport" THEN where["actor"] ELSE ticket
          /\ pending' = [of |-> c, to |-> N!Destination(c), session |-> gen, late |-> FALSE]
          /\ teleports' = <<[who |-> N!Mover(c), to |-> N!Destination(c), of |-> c]>>
      BY <2>1, <2>4 DEF N!Schedule, N!Summons
    <3>3. pending' \in Watched /\ pending'.of = c /\ pending'.to = N!Destination(c)
      BY <3>1, <3>2, <1>2 DEF Watched, Types
    <3>4. [who |-> N!Mover(c), to |-> N!Destination(c), of |-> c] \in Moves
      BY <3>1, <1>2 DEF Moves, N!Mover, N!Somebody
    <3>5. command[c] = "npc.return" => N!Destination(c) = ticket
      BY DEF N!Destination
    <3>6. \E m \in Moves : teleports' = <<m>> /\ m.of = c /\ m.who = N!Mover(c) /\ m.to = pending'.to
      BY <3>2, <3>3, <3>4
    <3> QED BY <1>1, <1>2, <2>2, <3>2, <3>3, <3>5, <3>6
  <2> QED BY <2>3, <2>4
<1> QED BY <1>4, <1>5

(* The initial state satisfies the invariant.                              *)
LEMMA NInitInv == Setting /\ N!Init => NInv
<1> SUFFICES ASSUME Setting, N!Init PROVE NInv
  OBVIOUS
<1>1. /\ DOMAIN toGlobal = {} /\ DOMAIN toPlayer = {} /\ DOMAIN teleports = {} /\ Len(teleports) = 0
      /\ toGlobal \in Seq(Orders) /\ toPlayer \in Seq(Answers) /\ teleports \in Seq(Moves)
  BY EmptySeq, LenProperties DEF N!Init
<1>2. Types
  BY <1>1 DEF N!Init, Setting, Types, Sessions, N!Names, PlaceOrNone, N!Commands
<1>3. Whereabouts
  BY DEF N!Init, Whereabouts, HasWayBack, SummonsHasTicket, ReturnWaitsForTicket, WatchesTheMove
<1>4. Orderly
  BY <1>1 DEF N!Init, Orderly, OrdersOnce, AnswersHold, MovesKnown, VerdictsHold
<1> QED BY <1>2, <1>3, <1>4 DEF NInv

(* No step leaves the types.                                               *)
LEMMA TypesStep == Setting /\ Types /\ Orderly /\ [N!Next]_N!vars => Types'
<1> SUFFICES ASSUME Setting, Types, Orderly, [N!Next]_N!vars PROVE Types'
  OBVIOUS
<1> USE NothingFacts
<1>0. \A c \in N!Commands, v \in Verdict : N!Submit(c, v) => verdicts' \in [N!Commands -> SUBSET Verdict]
  BY DEF Types, N!Submit
<1>1. CASE UNCHANGED N!vars
  BY <1>1 DEF N!vars, N!events, N!engine, Types
<1>2. ASSUME NEW c \in N!Commands, NEW name \in N!Names, N!Take(c, name) PROVE Types'
  <2>1. toGlobal' \in Seq(Orders)
    BY <1>2, AppendFacts DEF N!Take, Types, Orders
  <2>2. player' \in Waited /\ command' \in [N!Commands -> N!Names \union {"none"}]
    BY <1>2 DEF N!Take, Types, Waited
  <2> QED BY <1>2, <2>1, <2>2 DEF N!Take, Types, N!engine
<1>3. CASE N!Timeout
  <2>1. player.of \in N!Commands
    BY <1>3 DEF N!Timeout, Types, Waited
  <2>2. verdicts' \in [N!Commands -> SUBSET Verdict]
    BY <1>3, <1>0, <2>1 DEF N!Timeout, Verdict
  <2> QED BY <1>3, <2>2 DEF N!Timeout, Types, N!engine, N!events
<1>4. CASE N!Hear
  <2>1. toPlayer # <<>> /\ Head(toPlayer) \in Answers /\ toPlayer' \in Seq(Answers)
    BY <1>4, TailFacts DEF N!Hear, Types
  <2>2. verdicts' \in [N!Commands -> SUBSET Verdict] /\ player' \in Waited \union {N!Nothing}
    BY <1>4, <1>0, <2>1 DEF N!Hear, Types, Answers
  <2> QED BY <1>4, <2>1, <2>2 DEF N!Hear, Types, N!engine
<1>5. ASSUME NEW available \in BOOLEAN, NEW throws \in BOOLEAN, NEW full \in BOOLEAN,
             N!Start(available, throws, full)
      PROVE  Types'
  <2> DEFINE c == Head(toGlobal).of
  <2>1. toGlobal # <<>>
    BY <1>5 DEF N!Start
  <2>2. command[c] # "none" /\ toGlobal' \in Seq(Orders) /\ Tail(toGlobal) \in Seq(Orders)
    BY <1>5, <2>1, TailFacts DEF N!Start, Types, Orderly, OrdersOnce
  <2>3. c \in N!Commands
    BY <1>5, <2>2, StartCases
  <2>4. ticket' \in PlaceOrNone
    BY <1>5, <2>2, StartCases DEF Types, PlaceOrNone, N!Somebody
  <2>5. toPlayer' \in Seq(Answers)
    <3>1. CASE UNCHANGED toPlayer
      BY <3>1 DEF Types
    <3>2. ASSUME NEW v \in Verdict, toPlayer' = Append(toPlayer, [of |-> c, verdict |-> v])
          PROVE  toPlayer' \in Seq(Answers)
      BY <3>2, <2>3, AppendFacts DEF Answers, Types
    <3> QED BY <1>5, <2>2, <3>1, <3>2, StartCases
  <2>6. pending' \in Watched \union {N!Nothing}
    BY <1>5, <2>2, StartCases DEF Types
  <2>7. teleports' \in Seq(Moves) /\ Len(teleports') <= 1
    <3>1. CASE UNCHANGED teleports
      BY <3>1 DEF Types
    <3>2. ASSUME NEW m \in Moves, teleports' = <<m>> PROVE teleports' \in Seq(Moves) /\ Len(teleports') <= 1
      BY <3>2
    <3> QED BY <1>5, <2>2, <3>1, <3>2, StartCases
  <2> QED BY <1>5, <2>2, <2>4, <2>5, <2>6, <2>7 DEF N!Start, Types
<1>6. CASE N!Poll
  <2>1. pending.of \in N!Commands
    BY <1>6 DEF N!Poll, Types, Watched
  <2>2. ticket' \in PlaceOrNone
    BY <1>6 DEF N!Poll, N!Settled, Types, PlaceOrNone
  <2>3. toPlayer' \in Seq(Answers)
    <3>1. CASE UNCHANGED toPlayer
      BY <3>1 DEF Types
    <3>2. ASSUME NEW v \in {"succeeded", "failed"}, toPlayer' = Append(toPlayer, [of |-> pending.of, verdict |-> v])
          PROVE  toPlayer' \in Seq(Answers)
      BY <3>2, <2>1, AppendFacts DEF Answers, Types, Verdict
    <3> QED BY <1>6, <3>1, <3>2 DEF N!Poll, N!Emit
  <2> QED BY <1>6, <2>2, <2>3 DEF N!Poll, Types, N!engine
<1>7. ASSUME NEW works \in BOOLEAN, N!Teleport(works) PROVE Types'
  <2> DEFINE t == Head(teleports)
  <2>1. /\ teleports # <<>> /\ t \in Moves /\ teleports' \in Seq(Moves)
        /\ Len(teleports') = Len(teleports) - 1
    BY <1>7, TailFacts DEF N!Teleport, Types
  <2>2. Len(teleports') <= 1
    BY <2>1, LenProperties DEF Types
  <2>3. t.who \in N!Somebody /\ t.to \in Places /\ t.of \in N!Commands
    BY <2>1 DEF Moves
  <2>4. where' \in [N!Somebody -> Places] /\ moved' \subseteq N!Commands
    BY <1>7, <2>3 DEF N!Teleport, Types
  <2>5. where["actor"] \in Places
    BY DEF Types, N!Somebody
  <2>6. away' \in PlaceOrNone
    BY <1>7, <2>3, <2>5 DEF N!Teleport, Types, N!Back, PlaceOrNone
  <2> QED BY <1>7, <2>1, <2>2, <2>4, <2>6 DEF N!Teleport, Types, N!events
<1>8. ASSUME NEW who \in N!Somebody, NEW place \in Places, N!Walk(who, place) PROVE Types'
  BY <1>8 DEF N!Walk, Types, N!Back, PlaceOrNone, N!events
<1>9. CASE N!Wait
  <2>1. player' \in Waited
    BY <1>9 DEF N!Wait, Types, Waited, N!Later
  <2>2. pending' \in Watched \union {N!Nothing}
    BY <1>9 DEF N!Wait, Types, Watched, Waited
  <2> QED BY <1>9, <2>1, <2>2 DEF N!Wait, Types, N!events, N!engine
<1>10. CASE N!WaitOld
  BY <1>10 DEF N!WaitOld, Types, Watched, N!events, N!engine
<1>11. CASE N!Fence
  <2>1. gen' \in Sessions
    BY <1>11 DEF N!Fence, Types, Sessions, Setting
  <2> QED BY <1>11, <2>1 DEF N!Fence, Types, N!events, N!engine
<1>12. CASE N!NewSession
  BY <1>12 DEF N!NewSession, Types, N!events, N!engine
<1>13. CASE N!Save
  BY <1>13 DEF N!Save, Types, Saved, N!events, N!engine
<1>14. CASE N!Load
  <2>1. file \in Saved /\ gen' \in Sessions
    BY <1>14 DEF N!Load, Types, Sessions, Setting
  <2>2. /\ toGlobal' \in Seq(Orders) /\ toPlayer' \in Seq(Answers) /\ teleports' \in Seq(Moves)
        /\ Len(teleports') <= 1
    BY <1>14, EmptySeq DEF N!Load
  <2>4. /\ UNCHANGED <<command, moved, verdicts, file>> /\ ready' \in BOOLEAN /\ pending' = N!Nothing /\ player' = N!Nothing
        /\ ticket' = file.ticket /\ away' = file.away /\ where' = file.where
    BY <1>14 DEF N!Load, N!Loaded
  <2>3. file.ticket \in PlaceOrNone /\ file.away \in PlaceOrNone /\ file.where \in [N!Somebody -> Places]
    BY <2>1 DEF Saved
  <2> QED BY <2>1, <2>2, <2>3, <2>4 DEF Types
<1> QED BY <1>1, <1>2, <1>3, <1>4, <1>5, <1>6, <1>7, <1>8, <1>9, <1>10, <1>11, <1>12, <1>13, <1>14, NextCases

(* Nobody is stranded by a step.                                           *)
LEMMA WhereStep == Setting /\ Types /\ Orderly /\ Whereabouts /\ [N!Next]_N!vars => Whereabouts'
<1> SUFFICES ASSUME Setting, Types, Orderly, Whereabouts, [N!Next]_N!vars PROVE Whereabouts'
  OBVIOUS
<1> USE NothingFacts DEF Whereabouts, HasWayBack, SummonsHasTicket, ReturnWaitsForTicket, WatchesTheMove
<1>0. teleports # <<>> =>
        LET m == Head(teleports) IN
        /\ m \in Moves /\ m.of \in N!Commands /\ command[m.of] # "none" /\ m.who = N!Mover(m.of)
        /\ Tail(teleports) = <<>>
  <2> SUFFICES ASSUME teleports # <<>>
               PROVE  /\ Head(teleports) \in Moves /\ Head(teleports).of \in N!Commands
                      /\ command[Head(teleports).of] # "none" /\ Tail(teleports) = <<>>
    OBVIOUS
  <2>1. /\ Head(teleports) \in Moves /\ Head(teleports) = teleports[1] /\ 1 \in DOMAIN teleports
        /\ Tail(teleports) \in Seq(Moves) /\ Len(Tail(teleports)) = Len(teleports) - 1
    BY TailFacts DEF Types
  <2>2. Len(teleports) \in Nat /\ Len(teleports) <= 1 /\ Len(Tail(teleports)) \in Nat
    BY <2>1, LenProperties DEF Types
  <2>3. Tail(teleports) = <<>>
    BY <2>1, <2>2, EmptySeq
  <2> QED BY <2>1, <2>3 DEF Moves, Orderly, MovesKnown, Known
<1>1. CASE UNCHANGED N!vars
  BY <1>1 DEF N!vars, N!events, N!engine, N!Mover
<1>2. ASSUME NEW c \in N!Commands, NEW name \in N!Names, N!Take(c, name) PROVE Whereabouts'
  <2>1. \A d \in N!Commands : command[d] # "none" => command'[d] = command[d]
    BY <1>2 DEF N!Take, Types
  <2>2. pending # N!Nothing => pending.of \in N!Commands /\ command[pending.of] # "none"
    BY DEF Types, Watched, Orderly, MovesKnown, Known
  <2>3. UNCHANGED <<pending, ticket, teleports, where, away, file>>
    BY <1>2 DEF N!Take, N!engine
  <2>4. teleports # <<>> => Head(teleports).of \in N!Commands /\ N!Mover(Head(teleports).of)' = N!Mover(Head(teleports).of)
    BY <1>0, <2>1, <2>3 DEF N!Mover
  <2> QED BY <1>0, <2>1, <2>2, <2>3, <2>4
<1>3. CASE N!Timeout
  BY <1>3 DEF N!Timeout, N!events, N!engine, N!Mover
<1>4. CASE N!Hear
  BY <1>4 DEF N!Hear, N!engine, N!Mover
<1>5. ASSUME NEW available \in BOOLEAN, NEW throws \in BOOLEAN, NEW full \in BOOLEAN,
             N!Start(available, throws, full)
      PROVE  Whereabouts'
  <2> DEFINE c == Head(toGlobal).of
  <2>1. command[c] # "none"
    BY <1>5, TailFacts DEF N!Start, Types, Orderly, OrdersOnce
  <2>2. UNCHANGED <<command, where, away, file>>
    BY <1>5 DEF N!Start
  <2>3. CASE UNCHANGED <<pending, teleports>> /\ (UNCHANGED ticket \/
                    (ticket = "none" /\ pending = N!Nothing /\ ticket' = where["actor"]))
    BY <1>5, <2>2, <2>3 DEF N!Start
  <2>4. ASSUME /\ command[c] \in {"npc.visit", "npc.teleport", "npc.return"}
               /\ ticket' = (IF command[c] = "npc.teleport" THEN where["actor"] ELSE ticket)
               /\ command[c] = "npc.teleport" => ticket = "none"
               /\ pending' \in Watched /\ pending'.of = c
               /\ command[c] = "npc.return" => pending'.to = ticket,
               NEW m \in Moves, teleports' = <<m>> /\ m.of = c /\ m.who = N!Mover(c)
        PROVE  Whereabouts'
    <3>1. teleports' = <<m>> /\ Head(<<m>>) = m
      BY <2>4
    <3>2. \A d \in N!Commands : N!Mover(d)' = N!Mover(d)
      BY <2>2 DEF N!Mover
    <3>3. HasWayBack(ticket', away, where)
      BY <2>4
    <3>4. SummonsHasTicket'
      BY <2>2, <2>4, <3>1, <3>2 DEF Moves
    <3>5. ReturnWaitsForTicket' /\ WatchesTheMove'
      BY <2>2, <2>4, <3>1
    <3> QED BY <2>2, <3>3, <3>4, <3>5
  <2> QED BY <1>5, <2>1, <2>3, <2>4, StartCases
<1>6. CASE N!Poll
  <2>1. UNCHANGED <<command, where, away, file, teleports>> /\ pending' = N!Nothing /\ pending # N!Nothing
    BY <1>6 DEF N!Poll, N!engine
  <2>2. CASE UNCHANGED ticket
    BY <2>1, <2>2 DEF N!Mover
  <2>3. CASE ticket' # ticket
    <3>1. command[pending.of] = "npc.return" /\ where[N!Mover(pending.of)] = pending.to /\ ticket' = "none"
      BY <1>6, <2>3 DEF N!Poll, N!Settled
    <3>2. where["actor"] = ticket
      BY <2>1, <3>1 DEF N!Mover
    <3>3. away = "none"
      BY <3>2
    <3> QED BY <2>1, <3>1, <3>3 DEF N!Mover
  <2> QED BY <2>2, <2>3
<1>7. ASSUME NEW works \in BOOLEAN, N!Teleport(works) PROVE Whereabouts'
  <2> DEFINE t == Head(teleports)
             w == [where EXCEPT ![t.who] = t.to]
  <2>1. /\ teleports # <<>> /\ teleports' = <<>>
        /\ UNCHANGED <<command, ticket, pending, file>>
    BY <1>7, <1>0 DEF N!Teleport
  <2>2. CASE ~works
    BY <1>7, <2>1, <2>2 DEF N!Teleport
  <2>3. CASE works
    <3>1. /\ where' = w
          /\ away' = N!Back(IF N!Summons(t.of) /\ away = "none" THEN where["actor"] ELSE away, w)
      BY <1>7, <2>3 DEF N!Teleport
    <3>2. CASE command[t.of] = "npc.teleport"
      <4>1. ticket = where["actor"] /\ away = "none"
        BY <1>0, <2>1, <3>2
      <4> QED BY <2>1, <3>1, <3>2, <4>1 DEF N!Back, N!Summons
    <3>3. CASE command[t.of] # "npc.teleport"
      BY <2>1, <3>1, <3>3 DEF N!Back, N!Summons
    <3> QED BY <3>2, <3>3
  <2> QED BY <2>2, <2>3
<1>8. ASSUME NEW who \in N!Somebody, NEW place \in Places, N!Walk(who, place) PROVE Whereabouts'
  BY <1>8 DEF N!Walk, N!Back, N!events
<1>9. CASE N!Wait
  <2>1. UNCHANGED <<command, ticket, where, away, file, teleports>> /\ teleports = <<>>
    BY <1>9 DEF N!Wait, N!engine
  <2>2. pending # N!Nothing => pending'.of = pending.of /\ pending'.to = pending.to
    BY <1>9 DEF N!Wait, Types, Watched
  <2>3. pending = N!Nothing => pending' = N!Nothing
    BY <1>9 DEF N!Wait, Types, Waited
  <2> QED BY <2>1, <2>2, <2>3
<1>10. CASE N!WaitOld
  <2>1. UNCHANGED <<command, ticket, where, away, file, teleports>> /\ teleports = <<>>
    BY <1>10 DEF N!WaitOld, N!engine
  <2>2. pending # N!Nothing /\ pending'.of = pending.of /\ pending'.to = pending.to
    BY <1>10 DEF N!WaitOld, Types, Watched
  <2> QED BY <2>1, <2>2
<1>11. CASE N!Fence
  BY <1>11 DEF N!Fence, N!events, N!engine, N!Mover
<1>12. CASE N!NewSession
  BY <1>12 DEF N!NewSession, N!events, N!engine, N!Mover
<1>13. CASE N!Save
  BY <1>13 DEF N!Save, N!events, N!engine
<1>14. CASE N!Load
  BY <1>14 DEF N!Load, N!Loaded
<1> QED BY <1>1, <1>2, <1>3, <1>4, <1>5, <1>6, <1>7, <1>8, <1>9, <1>10, <1>11, <1>12, <1>13, <1>14, NextCases

(* Whatever is under way belongs to a command.                             *)
LEMMA EventTypes ==
  ASSUME Types
  PROVE  /\ \A i \in DOMAIN toGlobal : toGlobal[i].of \in N!Commands
         /\ \A i \in DOMAIN toPlayer : toPlayer[i].of \in N!Commands
         /\ \A i \in DOMAIN teleports : teleports[i].of \in N!Commands
<1>1. /\ \A i \in DOMAIN toGlobal : toGlobal[i] \in Orders
      /\ \A i \in DOMAIN toPlayer : toPlayer[i] \in Answers
      /\ \A i \in DOMAIN teleports : teleports[i] \in Moves
  <2>1. \A S, s : s \in Seq(S) => \A i \in DOMAIN s : s[i] \in S
    BY LenProperties, ElementOfSeq
  <2> QED BY <2>1 DEF Types
<1> QED BY <1>1 DEF Orders, Answers, Moves

(* What is spent stays spent when no order is added, and nothing moves     *)
(* that could not move before.                                             *)
LEMMA SpentStays ==
  ASSUME Types, OrdersOnce, toGlobal' = toGlobal \/ (toGlobal # <<>> /\ toGlobal' = Tail(toGlobal))
  PROVE  /\ \A c : Spent(c) => Spent(c)'
         /\ \A i \in DOMAIN toGlobal' : \E j \in DOMAIN toGlobal : toGlobal'[i] = toGlobal[j]
         /\ \A i, j \in DOMAIN toGlobal' : toGlobal'[i].of = toGlobal'[j].of => i = j
         /\ toGlobal' # toGlobal => \A c : c = Head(toGlobal).of => Spent(c)'
<1>1. CASE toGlobal' = toGlobal
  BY <1>1 DEF Spent, OrdersOnce
<1>2. CASE toGlobal # <<>> /\ toGlobal' = Tail(toGlobal)
  <2>1. /\ Head(toGlobal) = toGlobal[1] /\ 1 \in DOMAIN toGlobal
        /\ \A i \in DOMAIN Tail(toGlobal) :
             i + 1 \in DOMAIN toGlobal /\ i + 1 # 1 /\ Tail(toGlobal)[i] = toGlobal[i + 1]
    BY <1>2, TailFacts DEF Types
  <2>2. DOMAIN Tail(toGlobal) \subseteq Nat
    BY <1>2, TailFacts, LenProperties DEF Types
  <2>3. \A c : Spent(c) => Spent(c)'
    BY <1>2, <2>1 DEF Spent
  <2>4. \A i, j \in DOMAIN toGlobal' : toGlobal'[i].of = toGlobal'[j].of => i = j
    BY <1>2, <2>1, <2>2 DEF OrdersOnce
  <2>5. \A c : c = toGlobal[1].of => Spent(c)'
    BY <1>2, <2>1 DEF OrdersOnce, Spent
  <2> QED BY <1>2, <2>1, <2>3, <2>4, <2>5
<1> QED BY <1>1, <1>2

(* A step that only moves what was to be moved leaves alone the commands   *)
(* that never move.                                                        *)
LEMMA NeverMovesStays ==
  ASSUME Types, OrdersOnce,
         toGlobal' = toGlobal \/ (toGlobal # <<>> /\ toGlobal' = Tail(toGlobal)),
         NEW c, NeverMoves(c), c \notin moved', \A i \in DOMAIN teleports' : teleports'[i].of # c
  PROVE  NeverMoves(c)'
BY SpentStays DEF NeverMoves

(* A step that changes neither orders, answers, moves nor verdicts.        *)
LEMMA SameOrder ==
  ASSUME Orderly, UNCHANGED <<command, toGlobal, toPlayer, teleports, moved, verdicts>>,
         player'.of = player.of, player' # N!Nothing => player # N!Nothing,
         pending' # N!Nothing => pending # N!Nothing /\ pending'.of = pending.of
  PROVE  Orderly'
BY DEF Orderly, OrdersOnce, AnswersHold, MovesKnown, VerdictsHold, Known, NeverMoves, Spent

(* An answer is added, and the order it answers is gone.                   *)
LEMMA AnswerAdded ==
  ASSUME Types, AnswersHold, NEW c \in N!Commands, NEW v \in Verdict,
         toPlayer' = Append(toPlayer, [of |-> c, verdict |-> v]), Known(c)',
         v = "rejected" => NeverMoves(c)',
         \A d : Known(d) => Known(d)', \A d : NeverMoves(d) => NeverMoves(d)'
  PROVE  AnswersHold'
<1>1. [of |-> c, verdict |-> v] \in Answers /\ toPlayer \in Seq(Answers)
  BY DEF Answers, Types
<1>2. \A i \in DOMAIN toPlayer' :
        \/ i \in DOMAIN toPlayer /\ toPlayer'[i] = toPlayer[i]
        \/ toPlayer'[i] = [of |-> c, verdict |-> v]
  BY <1>1, AppendFacts
<1> QED BY <1>2 DEF AnswersHold

(* A verdict is submitted on the command player.lua waits for, which then  *)
(* waits no more.                                                          *)
LEMMA VerdictSubmitted ==
  ASSUME Types, VerdictsHold, player # N!Nothing, player' = N!Nothing, UNCHANGED <<command, toGlobal, moved, teleports>>,
         NEW v \in Verdict, N!Submit(player.of, v) \/ UNCHANGED verdicts, v = "rejected" => NeverMoves(player.of)
  PROVE  VerdictsHold'
<1> USE NothingFacts
<1>1. player.of \in N!Commands /\ verdicts[player.of] = {} /\ command[player.of] # "none"
  BY DEF Types, Waited, VerdictsHold
<1>2. \A c : NeverMoves(c) => NeverMoves(c)'
  BY DEF NeverMoves, Spent
<1>3. \A c \in N!Commands : verdicts'[c] = verdicts[c] \/ (c = player.of /\ verdicts'[c] = {v})
  BY <1>1 DEF N!Submit, Types
<1>4. \A c \in N!Commands : player'.of # c
  OBVIOUS
<1> QED BY <1>1, <1>2, <1>3, <1>4 DEF VerdictsHold

(* No order is lost twice, and no verdict is wrong, after any step.        *)
LEMMA OrderlyStep == Setting /\ Types /\ Orderly /\ Whereabouts /\ [N!Next]_N!vars => Orderly'
<1> SUFFICES ASSUME Setting, Types, Orderly, Whereabouts, [N!Next]_N!vars PROVE Orderly'
  OBVIOUS
<1> USE NothingFacts DEF Orderly
<1>1. CASE UNCHANGED N!vars
  BY <1>1, SameOrder DEF N!vars, N!events, N!engine
<1>2. ASSUME NEW c \in N!Commands, NEW name \in N!Names, N!Take(c, name) PROVE Orderly'
  <2>1. /\ command[c] = "none" /\ command'[c] # "none" /\ player'.of = c /\ player' # N!Nothing
        /\ \A d \in N!Commands \ {c} : command'[d] = command[d]
        /\ UNCHANGED <<toPlayer, pending, teleports, moved, verdicts>>
    BY <1>2 DEF N!Take, Types, N!engine, N!Names, Waited
  <2>2. /\ toGlobal' \in Seq(Orders)
        /\ \A i \in DOMAIN toGlobal' :
             \/ i \in DOMAIN toGlobal /\ toGlobal'[i] = toGlobal[i]
             \/ i = Len(toGlobal) + 1 /\ toGlobal'[i].of = c
    BY <1>2, AppendFacts DEF N!Take, Types, Orders
  <2>3. \A i \in DOMAIN toGlobal : toGlobal[i].of \in N!Commands /\ toGlobal[i].of # c
    BY <2>1, EventTypes DEF OrdersOnce
  <2>4. OrdersOnce'
    BY <2>1, <2>2, <2>3 DEF OrdersOnce
  <2>5. \A d : d # c /\ Spent(d) => Spent(d)'
    BY <2>2 DEF Spent
  <2>6. \A d \in N!Commands : Known(d) => d # c /\ Known(d)'
    BY <2>1, <2>5 DEF Known
  <2>7. \A d : d # c /\ NeverMoves(d) => NeverMoves(d)'
    BY <2>1, <2>5 DEF NeverMoves
  <2>8. AnswersHold'
    BY <2>1, <2>6, <2>7, EventTypes DEF AnswersHold
  <2>9. MovesKnown'
    BY <2>1, <2>6, EventTypes DEF MovesKnown, Types, Watched
  <2>10. VerdictsHold'
    BY <2>1, <2>7 DEF VerdictsHold
  <2> QED BY <2>4, <2>8, <2>9, <2>10
<1>3. CASE N!Timeout
  <2>1. /\ player # N!Nothing /\ player' = N!Nothing /\ N!Submit(player.of, "failed")
        /\ UNCHANGED <<command, toGlobal, toPlayer, teleports, moved, pending>>
    BY <1>3 DEF N!Timeout, N!events, N!engine
  <2>2. VerdictsHold'
    BY <2>1, VerdictSubmitted DEF Verdict
  <2> QED BY <2>1, <2>2 DEF OrdersOnce, AnswersHold, MovesKnown, Known, NeverMoves, Spent
<1>4. CASE N!Hear
  <2> DEFINE e == Head(toPlayer)
  <2>1. /\ toPlayer # <<>> /\ toPlayer' = Tail(toPlayer)
        /\ UNCHANGED <<command, toGlobal, teleports, moved, pending>>
    BY <1>4 DEF N!Hear, N!engine
  <2>2. /\ e \in Answers /\ e = toPlayer[1] /\ 1 \in DOMAIN toPlayer
        /\ \A i \in DOMAIN toPlayer' : i + 1 \in DOMAIN toPlayer /\ toPlayer'[i] = toPlayer[i + 1]
    BY <2>1, TailFacts DEF Types
  <2>3. AnswersHold'
    BY <2>1, <2>2 DEF AnswersHold, Known, NeverMoves, Spent
  <2>4. VerdictsHold'
    <3>1. CASE e.of # player.of
      BY <1>4, <2>1, <3>1 DEF N!Hear, VerdictsHold, NeverMoves, Spent
    <3>2. CASE e.of = player.of
      <4>1. player # N!Nothing /\ player' = N!Nothing /\ (N!Submit(player.of, e.verdict) \/ UNCHANGED verdicts)
        BY <1>4, <2>2, <3>2 DEF N!Hear, Answers
      <4>2. e.verdict \in Verdict /\ (e.verdict = "rejected" => NeverMoves(player.of))
        BY <2>2, <3>2 DEF Answers, AnswersHold
      <4> QED BY <2>1, <4>1, <4>2, VerdictSubmitted
    <3> QED BY <3>1, <3>2
  <2> QED BY <2>1, <2>3, <2>4 DEF OrdersOnce, MovesKnown, Known, Spent
<1>5. ASSUME NEW available \in BOOLEAN, NEW throws \in BOOLEAN, NEW full \in BOOLEAN,
             N!Start(available, throws, full)
      PROVE  Orderly'
  <2>1. PICK c : c = Head(toGlobal).of
    OBVIOUS
  <2>2. /\ toGlobal # <<>> /\ toGlobal' = Tail(toGlobal) /\ teleports = <<>>
        /\ UNCHANGED <<command, player, moved, verdicts>>
    BY <1>5 DEF N!Start
  <2>3. command[c] # "none" /\ ~Spent(c)
    BY <2>1, <2>2, TailFacts DEF Types, OrdersOnce, Spent
  <2>4. c \in N!Commands
    BY <1>5, <2>1, <2>3, StartCases
  <2>5. /\ \A d : Spent(d) => Spent(d)'
        /\ \A i \in DOMAIN toGlobal' : \E j \in DOMAIN toGlobal : toGlobal'[i] = toGlobal[j]
        /\ \A i, j \in DOMAIN toGlobal' : toGlobal'[i].of = toGlobal'[j].of => i = j
    BY <2>2, SpentStays
  <2>6. Known(c)'
    <3>1. toGlobal' # toGlobal
      <4>1. Len(Tail(toGlobal)) = Len(toGlobal) - 1 /\ Len(toGlobal) \in Nat
        BY <2>2, TailFacts, LenProperties DEF Types
      <4>2. Len(Tail(toGlobal)) # Len(toGlobal)
        BY <4>1
      <4> QED BY <2>2, <4>2
    <3>2. Spent(c)'
      BY <2>1, <2>2, <3>1, SpentStays
    <3> QED BY <2>2, <2>3, <3>2 DEF Known
  <2>7. OrdersOnce'
    BY <2>2, <2>5 DEF OrdersOnce
  <2>8. \A d : Known(d) => Known(d)'
    BY <2>2, <2>5 DEF Known
  <2>9. c \notin moved
    BY <2>3 DEF MovesKnown, Known
  <2>10. \A i \in DOMAIN teleports' : teleports'[i].of = c
    <3>1. CASE UNCHANGED teleports
      BY <2>2, <3>1, EmptySeq
    <3>2. ASSUME NEW m \in Moves, teleports' = <<m>>, m.of = c PROVE \A i \in DOMAIN teleports' : teleports'[i].of = c
      BY <3>2
    <3> QED BY <1>5, <2>1, <2>3, <3>1, <3>2, StartCases
  <2>11. \A d : NeverMoves(d) => NeverMoves(d)'
    BY <2>2, <2>3, <2>5, <2>10 DEF NeverMoves
  <2>12. AnswersHold'
    <3>1. CASE UNCHANGED toPlayer
      BY <2>8, <2>11, <3>1 DEF AnswersHold
    <3>2. ASSUME NEW v \in Verdict, toPlayer' = Append(toPlayer, [of |-> c, verdict |-> v]), UNCHANGED teleports
          PROVE  AnswersHold'
      <4>1. NeverMoves(c)'
        BY <2>2, <2>6, <2>9, <3>2, EmptySeq DEF NeverMoves, Known
      <4> QED BY <2>4, <2>6, <2>8, <2>11, <3>2, <4>1, AnswerAdded
    <3> QED BY <1>5, <2>1, <2>3, <3>1, <3>2, StartCases
  <2>13. pending' = pending \/ (pending' # N!Nothing /\ pending'.of = c)
    BY <1>5, <2>1, <2>3, StartCases
  <2>14. MovesKnown'
    BY <2>2, <2>6, <2>8, <2>10, <2>13 DEF MovesKnown
  <2>15. VerdictsHold'
    BY <2>2, <2>11 DEF VerdictsHold
  <2> QED BY <2>7, <2>12, <2>14, <2>15
<1>6. CASE N!Poll
  <2>1. PICK c : c = pending.of
    OBVIOUS
  <2>2. /\ pending # N!Nothing /\ pending' = N!Nothing
        /\ UNCHANGED <<command, player, toGlobal, teleports, moved, verdicts>>
    BY <1>6 DEF N!Poll, N!engine
  <2>3. c \in N!Commands /\ Known(c)
    BY <2>1, <2>2 DEF Types, Watched, MovesKnown
  <2>4. (\A d : Known(d) => Known(d)') /\ (\A d : NeverMoves(d) => NeverMoves(d)')
    BY <2>2 DEF Known, NeverMoves, Spent
  <2>5. AnswersHold'
    <3>1. CASE UNCHANGED toPlayer
      BY <2>4, <3>1 DEF AnswersHold
    <3>2. ASSUME NEW v \in {"succeeded", "failed"}, toPlayer' = Append(toPlayer, [of |-> c, verdict |-> v])
          PROVE  AnswersHold'
      BY <2>3, <2>4, <3>2, AnswerAdded DEF Verdict
    <3> QED BY <1>6, <2>1, <3>1, <3>2 DEF N!Poll, N!Emit
  <2> QED BY <2>2, <2>4, <2>5 DEF OrdersOnce, MovesKnown, VerdictsHold
<1>7. ASSUME NEW works \in BOOLEAN, N!Teleport(works) PROVE Orderly'
  <2>1. PICK c : c = Head(teleports).of
    OBVIOUS
  <2>2. /\ teleports # <<>> /\ teleports' = Tail(teleports) /\ moved' \in {moved, moved \union {c}}
        /\ UNCHANGED <<command, player, toGlobal, toPlayer, pending, verdicts>>
    BY <1>7, <2>1 DEF N!Teleport, N!events
  <2>3. /\ Head(teleports) = teleports[1] /\ 1 \in DOMAIN teleports
        /\ \A i \in DOMAIN teleports' : i + 1 \in DOMAIN teleports /\ teleports'[i] = teleports[i + 1]
    BY <2>2, TailFacts DEF Types
  <2>4. Known(c) /\ \A d : Known(d) => Known(d)'
    BY <2>1, <2>2, <2>3 DEF MovesKnown, Known, Spent
  <2>5. \A d : NeverMoves(d) => NeverMoves(d)'
    BY <2>1, <2>2, <2>3 DEF NeverMoves, Spent
  <2> QED BY <2>2, <2>3, <2>4, <2>5 DEF OrdersOnce, AnswersHold, MovesKnown, VerdictsHold
<1>8. ASSUME NEW who \in N!Somebody, NEW place \in Places, N!Walk(who, place) PROVE Orderly'
  BY <1>8, SameOrder DEF N!Walk, N!events
<1>9. CASE N!Wait
  <2>1. player' # N!Nothing /\ player # N!Nothing /\ player'.of = player.of
    BY <1>9 DEF N!Wait, Types, Waited
  <2>2. pending' # N!Nothing => pending # N!Nothing /\ pending'.of = pending.of
    BY <1>9, <2>1 DEF N!Wait, Types, Watched, Waited
  <2> QED BY <1>9, <2>1, <2>2, SameOrder DEF N!Wait, N!events, N!engine
<1>10. CASE N!WaitOld
  <2>1. pending # N!Nothing /\ pending'.of = pending.of
    BY <1>10 DEF N!WaitOld, Types, Watched
  <2> QED BY <1>10, <2>1, SameOrder DEF N!WaitOld, N!events, N!engine
<1>11. CASE N!Fence
  BY <1>11, SameOrder DEF N!Fence, N!events, N!engine
<1>12. CASE N!NewSession
  BY <1>12, SameOrder DEF N!NewSession, N!events, N!engine
<1>13. CASE N!Save
  BY <1>13, SameOrder DEF N!Save, N!events, N!engine
<1>14. CASE N!Load
  <2>1. /\ DOMAIN toGlobal' = {} /\ DOMAIN toPlayer' = {} /\ DOMAIN teleports' = {}
        /\ pending' = N!Nothing /\ player' = N!Nothing /\ UNCHANGED <<command, moved, verdicts>>
    BY <1>14, EmptySeq DEF N!Load
  <2>2. \A c : Spent(c)'
    BY <2>1 DEF Spent
  <2> QED BY <2>1, <2>2 DEF OrdersOnce, AnswersHold, MovesKnown, VerdictsHold, Known, NeverMoves
<1> QED BY <1>1, <1>2, <1>3, <1>4, <1>5, <1>6, <1>7, <1>8, <1>9, <1>10, <1>11, <1>12, <1>13, <1>14, NextCases

-------------------------------------------------------------------------------
(* The theorems                                                            *)

(* The invariant is inductive: the actor has its way back, and no verdict  *)
(* on its way is wrong (M.start, M.poll, player.lua).                      *)
THEOREM NpcInductive == N!Spec => []NInv
<1>1. N!Init => NInv
  BY NInitInv, SettingHolds
<1>2. NInv /\ [N!Next]_N!vars => NInv'
  BY TypesStep, WhereStep, OrderlyStep, SettingHolds DEF NInv
<1> QED BY <1>1, <1>2, PTL DEF N!Spec

(* FiniteSets is one module, wherever it is extended.                      *)
LEMMA SameCardinality == \A S : N!Cardinality(S) = Cardinality(S)
BY DEF N!Cardinality, Cardinality

(* What NpcInv says follows from what is known of the events on the way.   *)
LEMMA NInvImplies == ASSUME NInv PROVE N!NpcInv
<1> USE NothingFacts, SettingHolds DEF NInv
<1>1. N!TypeOK
  <2>1. gen \in 1..MaxGenerations /\ ready \in BOOLEAN /\ Len(teleports) <= 1 /\ where \in [N!Somebody -> Places]
    BY DEF Types, Sessions
  <2>2. player.of \in 0..MaxCommands /\ pending.of \in 0..MaxCommands
    BY DEF Types, Waited, Watched, N!Commands, N!Nothing, Setting
  <2> QED BY <2>1, <2>2 DEF N!TypeOK, Types, PlaceOrNone
<1>2. N!NobodyIsStranded
  BY DEF N!NobodyIsStranded, Whereabouts, HasWayBack
<1>3. N!VerdictsAreTrue
  <2> SUFFICES ASSUME NEW c \in N!Commands
               PROVE  Cardinality(verdicts[c]) <= 1 /\ ("rejected" \in verdicts[c] => c \notin moved)
    BY SameCardinality DEF N!VerdictsAreTrue
  <2>1. verdicts[c] = {} \/ \E v \in Verdict : verdicts[c] = {v}
    BY DEF Orderly, VerdictsHold
  <2>2. Cardinality(verdicts[c]) <= 1
    <3>1. CASE verdicts[c] = {}
      BY <3>1, FS_EmptySet
    <3>2. ASSUME NEW v \in Verdict, verdicts[c] = {v} PROVE Cardinality(verdicts[c]) <= 1
      <4>1. Cardinality({v}) = 1  BY FS_Singleton
      <4> QED BY <3>2, <4>1
    <3> QED BY <2>1, <3>1, <3>2
  <2> QED BY <2>2 DEF Orderly, VerdictsHold, NeverMoves
<1> QED BY <1>1, <1>2, <1>3 DEF N!NpcInv

(* NpcInv of the runs: nobody that was summoned is without a way back, and *)
(* the server gets at most one verdict on a command, which is true         *)
(* (npc_manager.lua, player.lua).                                          *)
THEOREM NpcAlone == N!Spec => []N!NpcInv
<1>1. NInv => N!NpcInv
  BY NInvImplies
<1> QED BY <1>1, NpcInductive, PTL
-------------------------------------------------------------------------------
(* The lanes of SideLanes                                                  *)

(* The lane that runs keeps its invariant, and the sessions are numbered.  *)
Lanes ==
  /\ lane \in {"diary", "disposition", "npc"}
  /\ gen \in 1..MaxGenerations /\ ready \in BOOLEAN
  /\ lane = "disposition" => DInv
  /\ NInv

(* NPC commands do not notice the session of another lane.                 *)
LEMMA OtherSession ==
  ASSUME NInv, UNCHANGED npc, gen' \in 1..MaxGenerations, ready' \in BOOLEAN
  PROVE  NInv'
<1> USE DEF npc
<1>1. Types'
  BY DEF NInv, Types, Sessions
<1>2. Whereabouts'
  BY DEF NInv, Whereabouts, SummonsHasTicket, ReturnWaitsForTicket, WatchesTheMove, N!Mover
<1>3. Orderly'
  BY DEF NInv, Orderly, OrdersOnce, AnswersHold, MovesKnown, VerdictsHold, Known, NeverMoves, Spent
<1> QED BY <1>1, <1>2, <1>3 DEF NInv

(* Whichever of the lanes is running, its invariant holds, and the sessions *)
(* it went through were numbered in order (orchestrator.lua: fenceSession). *)
THEOREM LanesInvariant == LanesSpec => []Lanes
<1>1. LanesInit => Lanes
  BY DInitInv, NInitInv, SettingHolds, DiaryAssumption DEF LanesInit, Lanes, Init
<1>2. Lanes /\ [LanesNext]_LanesVars => Lanes'
  <2> SUFFICES ASSUME Lanes, [LanesNext]_LanesVars PROVE Lanes'  OBVIOUS
  <2>1. CASE lane = "diary" /\ Next /\ UNCHANGED <<lane, disposition, npc>>
    <3>1. \/ UNCHANGED gen /\ ready' \in BOOLEAN
          \/ Fence
      <4>1. CASE Steps  BY <4>1 DEF Steps, Ask, Submit, Fetch, Watch, Confirm, Lanes
      <4>2. CASE EngineSteps  BY <4>2 DEF EngineSteps, RunAction, Lanes
      <4>3. CASE AnswerSteps  BY <4>3 DEF AnswerSteps, AnswerQuery, AnswerReceipt, Lanes
      <4> QED  BY <2>1, <4>1, <4>2, <4>3 DEF Next, Reset, TimeOut, NewSession, Lanes
    <3>2. gen' \in 1..MaxGenerations /\ ready' \in BOOLEAN
      <4>1. MaxGenerations \in Nat  BY DiaryAssumption
      <4>2. gen \in 1..MaxGenerations /\ ready \in BOOLEAN  BY DEF Lanes
      <4>3. CASE UNCHANGED gen /\ ready' \in BOOLEAN  BY <4>2, <4>3
      <4>4. CASE Fence
        <5>1. gen < MaxGenerations /\ gen' = gen + 1 /\ ready' = FALSE  BY <4>4 DEF Fence
        <5>2. gen' \in 1..MaxGenerations  BY <4>1, <4>2, <5>1
        <5>3. ready' \in BOOLEAN  BY <5>1
        <5> QED  BY <5>2, <5>3
      <4> QED  BY <3>1, <4>3, <4>4
    <3> QED BY <2>1, <3>2, OtherSession DEF Lanes
  <2>2. CASE lane = "disposition" /\ D!Next /\ UNCHANGED <<lane, diary, npc>>
    <3>1. DInv'  BY <2>2, Step DEF Lanes
    <3>2. gen' = gen \/ D!Fence
      <4>1. CASE \E a \in Adjustments : D!Receive(a)  BY <4>1 DEF D!Receive
      <4>2. CASE \E a \in Adjustments : D!Decide(a)  BY <4>2 DEF D!Decide, D!Expire, D!Apply
      <4>3. CASE \E a \in Adjustments, readable, late, due, sent \in BOOLEAN : D!Report(a, readable, late, due, sent)
        BY <4>3 DEF D!Report
      <4>4. CASE \E readable \in BOOLEAN : D!Observe(readable)  BY <4>4 DEF D!Observe
      <4>5. CASE D!ServeSteps  BY <4>5 DEF D!ServeSteps, D!Serve
      <4> QED  BY <2>2, <4>1, <4>2, <4>3, <4>4, <4>5, Zenon DEF D!Next, D!Change, D!NewSession
    <3>3. gen' \in 1..MaxGenerations /\ ready' \in BOOLEAN
      BY <3>1, <3>2, DiaryAssumption DEF Lanes, D!Fence, DInv, DTypes
    <3> QED BY <2>2, <3>1, <3>3, OtherSession DEF Lanes
  <2>3. CASE lane = "npc" /\ N!Next /\ UNCHANGED <<lane, diary, disposition>>
    <3>1. NInv'  BY <2>3, TypesStep, WhereStep, OrderlyStep, SettingHolds DEF Lanes, NInv
    <3>2. gen' \in 1..MaxGenerations /\ ready' \in BOOLEAN  BY <3>1 DEF NInv, Types, Sessions
    <3> QED BY <2>3, <3>1, <3>2 DEF Lanes
  <2>4. CASE UNCHANGED LanesVars
    <3>1. UNCHANGED <<lane, gen, ready, npc, disposition>>
      BY <2>4 DEF LanesVars, vars
    <3>2. DInv => DInv'
      <4>1. UNCHANGED D!vars  BY <3>1 DEF D!vars, disposition
      <4> QED  BY <4>1, Step
    <3> QED  BY <3>1, <3>2, OtherSession DEF Lanes
  <2> QED BY <2>1, <2>2, <2>3, <2>4 DEF LanesNext
<1> QED BY <1>1, <1>2, PTL DEF LanesSpec

(* Nobody that an operator summons is stranded, and the server gets at     *)
(* most one verdict on a command, a true one, while the sessions are those *)
(* of any lane (npc_manager.lua, player.lua).                              *)
THEOREM NpcInvHolds == LanesSpec => []NpcInv
<1>1. Lanes => NpcInv
  BY NInvImplies DEF Lanes, NpcInv
<1> QED BY <1>1, LanesInvariant, PTL

(* An adjustment is applied at most once, and the server hears the true    *)
(* outcome: the lane of the dispositions implements Deeds                  *)
(* (disposition.lua).                                                      *)
THEOREM AppliesOnceHolds == LanesSpec => AppliesOnce
<1> DEFINE said == [a \in Adjustments |-> D!Said(a)]
<1>1. LanesInit => D!Promised!Init
  BY DEF LanesInit, D!Init, D!Promised!Init, D!Said
<1>2. Lanes /\ [LanesNext]_LanesVars => [D!Promised!Next]_<<applied, [a \in Adjustments |-> D!Said(a)]>>
  <2> SUFFICES ASSUME Lanes, [LanesNext]_LanesVars
               PROVE  D!Promised!Next \/ UNCHANGED <<applied, said>>
    OBVIOUS
  <2>1. CASE lane = "disposition" /\ D!Next
    BY <2>1, DeedsStep DEF Lanes
  <2>2. CASE UNCHANGED <<applied, heard>>
    BY <2>2 DEF D!Said
  <2> QED BY <2>1, <2>2 DEF LanesNext, LanesVars, disposition
<1> QED BY <1>1, <1>2, LanesInvariant, PTL DEF LanesSpec, AppliesOnce, D!AppliesOnce, D!Promised!Spec, D!Promised!vars
================================================================================
