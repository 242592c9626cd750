------------------------------ MODULE DiaryBooks ------------------------------
(***************************************************************************)
(* Diary books: the server offers a delivery until it has a receipt for it, *)
(* diary_books.lua fetches it, has the native bindings write it as a game   *)
(* record in the engine's queue and give the actor one copy, and sends the  *)
(* receipt.  Each phase has a deadline; giving up cancels the native work   *)
(* and the delivery is offered again.                                       *)
(***************************************************************************)
EXTENDS Naturals, Sequences

CONSTANTS
  Books,
  BookOf,          \* the book of each delivery; deliveries are numbered as the server makes them
  MaxAttempts,     \* receipts sent before giving up (5)
  MaxGenerations,  \* bound: sessions
  MaxTroubles      \* bound: failed or lost answers, spurious timeouts, pauses

ASSUME DiaryAssumption ==
  /\ BookOf \in Seq(Books)
  /\ MaxAttempts \in Nat \ {0} /\ MaxGenerations \in Nat \ {0} /\ MaxTroubles \in Nat

VARIABLES
  gen, ready,  \* the bridge's generation, and whether its session is open
  lua,         \* the state of diary_books.lua, and the scope it has seen: gen and ready
  native,      \* the m_diary* members of the bindings
  queue,       \* closures in the engine's queue; live: their serial is m_diarySerial
  text,        \* of a book's record: the delivery it was written from, 0: no record
  copies,      \* how many copies of a book were handed out
  told,        \* the receipt of a delivery the server has accepted
  net,         \* the request whose result is still to come
  troubles     \* how much of what MaxTroubles bounds has happened

world == <<text, copies>>
vars == <<gen, ready, lua, native, queue, world, told, net, troubles>>

Deliveries == 1..Len(BookOf)
Statuses == {"succeeded", "failed"}

\* finish, and M.reset, which also notes the scope it has seen
Idle(g, r) ==
  [gen |-> g, ready |-> r, phase |-> "none", book |-> 0, status |-> "none", attempts |-> 0]
\* cancelGeneration
Empty == [request |-> FALSE, book |-> 0, receipt |-> FALSE, ok |-> FALSE, dto |-> "none",
          pending |-> FALSE, state |-> "none", error |-> FALSE]

LuaStates ==
  [gen : 1..MaxGenerations, ready : BOOLEAN,
   phase : {"none", "query", "materializing", "receipt", "receipt_pending"},
   book : Deliveries \union {0}, status : Statuses \union {"none"}, attempts : 0..MaxAttempts]
NativeStates ==
  [request : BOOLEAN, book : Deliveries \union {0}, receipt : BOOLEAN, ok : BOOLEAN,
   dto : Statuses \union {"none"}, pending : BOOLEAN, state : Statuses \union {"none"},
   error : BOOLEAN]
Closures == [book : Deliveries, gen : 1..MaxGenerations, live : BOOLEAN]

TypeOK ==
  /\ gen \in 1..MaxGenerations /\ ready \in BOOLEAN
  /\ lua \in LuaStates /\ native \in NativeStates /\ queue \subseteq Closures
  /\ lua.phase \in {"materializing", "receipt", "receipt_pending"} => lua.book # 0
  /\ lua.phase \in {"receipt", "receipt_pending"} => lua.status \in Statuses
  /\ native.pending => native.state = "none"
  /\ text \in [Books -> Deliveries \union {0}] /\ copies \in [Books -> Nat]
  /\ told \in [Deliveries -> Statuses \union {"none"}]
  /\ net \in {"none", "query", "receipt"} /\ troubles \in 0..MaxTroubles
  /\ net = "query" => native.request
  /\ net = "receipt" => native.receipt

Init ==
  /\ gen = 1 /\ ready = TRUE
  /\ lua = Idle(1, TRUE) /\ native = Empty
  /\ queue = {} /\ text = [b \in Books |-> 0] /\ copies = [b \in Books |-> 0]
  /\ told = [d \in Deliveries |-> "none"] /\ troubles = 0
  /\ net = "none"

Trouble == troubles < MaxTroubles /\ troubles' = troubles + 1

--------------------------------------------------------------------------------
(* The bindings.                                                               *)

\* as Outdated, for a cancel that leaves the serial alone
OutdatedNever(q) == q
\* ++m_diarySerial
Outdated(q) == {[c EXCEPT !.live = FALSE] : c \in q}
cancelDiaryBook == native' = Empty /\ queue' = Outdated(queue) /\ net' = "none"

\* as Fresh, keeping what the last delivery came to
FreshButState == [native EXCEPT !.request = TRUE, !.book = 0, !.dto = "none", !.error = FALSE]
\* requestDiaryBook
Fresh == [native EXCEPT !.request = TRUE, !.book = 0, !.dto = "none", !.error = FALSE, !.state = "none"]
CanRequest == ready /\ ~native.request /\ ~native.receipt /\ ~native.pending

\* settleDiaryResult of a query.  The server offers its oldest delivery without a receipt.
Unanswered == {d \in Deliveries : told[d] = "none"}
Offers == IF Unanswered = {} THEN {0} ELSE {d \in Unanswered : \A e \in Unanswered : d <= e}
AnswerQuery(result) ==
  /\ net = "query" /\ net' = "none"
  /\ \/ /\ result = "book" /\ UNCHANGED troubles
        /\ \E d \in Offers : native' = [native EXCEPT !.request = FALSE, !.book = d]
     \/ result = "failed" /\ Trouble /\ native' = [native EXCEPT !.request = FALSE, !.error = TRUE]
     \/ result = "lost" /\ Trouble /\ UNCHANGED native
  /\ UNCHANGED <<gen, ready, lua, queue, world, told>>

\* settleDiaryResult of a receipt, which the server may have read although it failed
AnswerReceipt(arrives, result) ==
  /\ net = "receipt" /\ net' = "none"
  /\ told' = IF arrives /\ told[native.book] = "none" THEN [told EXCEPT ![native.book] = native.dto] ELSE told
  /\ \/ /\ result = "accepted" /\ arrives /\ UNCHANGED troubles
        /\ native' = [native EXCEPT !.receipt = FALSE, !.ok = TRUE]
     \/ /\ result = "failed" /\ Trouble
        /\ native' = [native EXCEPT !.receipt = FALSE, !.ok = FALSE, !.error = TRUE]
     \/ result = "lost" /\ Trouble /\ UNCHANGED native
  /\ UNCHANGED <<gen, ready, lua, queue, world>>

\* materializeDiaryBook: one closure at a time, none once there is a result
Materializable(d) == ready /\ native.book = d
Materialized(d) ==
  IF native.pending \/ native.state # "none" THEN UNCHANGED <<native, queue>>
  ELSE /\ native' = [native EXCEPT !.pending = TRUE]
       /\ queue' = queue \union {[book |-> d, gen |-> gen, live |-> TRUE]}

\* submitDiaryBookResult: the first receipt is frozen, and its status is the result's
Acceptable(d, status) ==
  /\ ready /\ native.book = d /\ ~native.receipt /\ ~native.pending
  /\ status = "succeeded" => native.state = "succeeded"
  /\ native.state \in {"none", status} /\ native.dto \in {"none", status}

--------------------------------------------------------------------------------
(* The closure in the engine's queue.                                          *)

Current(c) == c.live /\ ready /\ c.gen = gen
\* as Writes, giving a copy whenever the record is written
WritesAlways(b, d) == text' = [text EXCEPT ![b] = d] /\ copies' = [copies EXCEPT ![b] = @ + 1]
\* a new record comes with a copy, an existing one is written over
Writes(b, d) ==
  /\ text' = [text EXCEPT ![b] = d]
  /\ copies' = IF text[b] = 0 THEN [copies EXCEPT ![b] = @ + 1] ELSE copies

\* The wrong target, no target, no usable record, no room: "failed" leaves no record
\* behind that was not there, for a copy that cannot be added takes it away again.
RunAction(c, outcome) ==
  /\ c \in queue /\ queue' = queue \ {c}
  /\ IF ~Current(c) THEN outcome = "failed" /\ UNCHANGED <<native, world>>
     ELSE /\ native' = [native EXCEPT !.pending = FALSE, !.state = outcome]
          /\ IF outcome = "succeeded" /\ text[BookOf[c.book]] # c.book
             THEN Writes(BookOf[c.book], c.book) ELSE UNCHANGED world
  /\ UNCHANGED <<gen, ready, lua, told, net, troubles>>

--------------------------------------------------------------------------------
(* diary_books.lua: M.pump, one action per branch.                             *)

Here == lua.gen = gen /\ lua.ready = ready
Goes(phase) == lua' = [lua EXCEPT !.phase = phase]
Finishes == lua' = Idle(lua.gen, lua.ready)
Receipt(d, status) == lua' = [lua EXCEPT !.phase = "receipt", !.book = d, !.status = status, !.attempts = 0]
Abandons == Finishes /\ cancelDiaryBook

\* the scope has changed, or the lane is disabled for this frame: M.reset
Reset ==
  /\ IF Here THEN lua.phase # "none" /\ Trouble ELSE UNCHANGED troubles
  /\ lua' = Idle(gen, ready)
  /\ IF lua.phase # "none" THEN cancelDiaryBook ELSE UNCHANGED <<native, queue, net>>
  /\ UNCHANGED <<gen, ready, world, told>>

Ask(sent) ==
  /\ Here /\ ready /\ lua.phase = "none"
  /\ CanRequest /\ sent
  /\ native' = Fresh /\ net' = "query" /\ Goes("query")
  /\ UNCHANGED <<gen, ready, queue, world, told, troubles>>

\* the phases that wait, and what they wait for; a deadline passes early at most
\* MaxTroubles times, and always when nothing is going to come
Waiting == lua.phase \in {"query", "materializing", "receipt_pending"}
Answered == CASE lua.phase = "query" -> ~native.request
              [] lua.phase = "materializing" -> ~native.pending
              [] lua.phase = "receipt_pending" -> ~native.receipt
Hopeless == ~Answered /\ net = "none" /\ \A c \in queue : ~Current(c)
TimeOut ==
  /\ Here /\ ready /\ Waiting
  /\ IF Hopeless THEN UNCHANGED troubles ELSE Trouble
  /\ Abandons
  /\ UNCHANGED <<gen, ready, world, told>>

\* validBook
NoBook(d) == native.error \/ d = 0

\* phase "query": no book or an error ends it, a book whose actor is here is
\* materialised, and otherwise, or when the bindings refuse, it has failed
Fetch(present) ==
  /\ Here /\ ready /\ lua.phase = "query" /\ Answered
  /\ LET d == native.book IN
     IF NoBook(d) THEN Abandons
     ELSE IF present /\ Materializable(d)
       THEN Materialized(d) /\ lua' = [lua EXCEPT !.phase = "materializing", !.book = d] /\ UNCHANGED net
     ELSE Receipt(d, "failed") /\ UNCHANGED <<native, queue, net>>
  /\ UNCHANGED <<gen, ready, world, told, troubles>>

\* phase "materializing": diaryBookStatus
Watch ==
  /\ Here /\ ready /\ lua.phase = "materializing" /\ Answered
  /\ IF native.book = lua.book /\ native.state = "none" THEN Abandons
     ELSE Receipt(lua.book, IF native.book = lua.book THEN native.state ELSE "failed")
          /\ UNCHANGED <<native, queue, net>>
  /\ UNCHANGED <<gen, ready, world, told, troubles>>

\* phase "receipt_pending": pumpDiaryBookResult
Confirm ==
  /\ Here /\ ready /\ lua.phase = "receipt_pending" /\ Answered
  /\ IF native.ok THEN Finishes ELSE Goes("receipt")
  /\ UNCHANGED <<gen, ready, native, queue, world, told, net, troubles>>

\* phase "receipt": the outbound queue may refuse, which counts as an attempt
Submit(sent) ==
  /\ Here /\ ready /\ lua.phase = "receipt"
  /\ IF lua.attempts >= MaxAttempts THEN Abandons
     ELSE IF Acceptable(lua.book, lua.status)
       THEN /\ native' = [native EXCEPT !.dto = lua.status, !.receipt = sent,
                                       !.ok = IF sent THEN FALSE ELSE @, !.error = IF sent THEN FALSE ELSE @]
            /\ net' = IF sent THEN "receipt" ELSE net
            /\ lua' = [lua EXCEPT !.attempts = @ + 1, !.phase = IF sent THEN "receipt_pending" ELSE "receipt"]
            /\ UNCHANGED queue
     ELSE lua' = [lua EXCEPT !.attempts = @ + 1] /\ UNCHANGED <<native, queue, net>>
  /\ IF sent THEN UNCHANGED troubles ELSE Trouble
  /\ UNCHANGED <<gen, ready, world, told>>

--------------------------------------------------------------------------------
(* Interruptions: cancelGeneration, and the handshake that follows.            *)

Fence ==
  /\ ready /\ gen < MaxGenerations
  /\ gen' = gen + 1 /\ ready' = FALSE
  /\ native' = Empty /\ net' = "none"
  /\ UNCHANGED <<lua, queue, world, told, troubles>>

NewSession ==
  /\ ~ready /\ ready' = TRUE
  /\ UNCHANGED <<gen, lua, native, queue, world, told, net, troubles>>

EngineSteps == \E c \in queue, outcome \in Statuses : RunAction(c, outcome)
AnswerSteps == \/ \E result \in {"book", "failed", "lost"} : AnswerQuery(result)
               \/ \E arrives \in BOOLEAN, result \in {"accepted", "failed", "lost"} : AnswerReceipt(arrives, result)
Steps == \/ \E sent \in BOOLEAN : Ask(sent) \/ Submit(sent)
         \/ \E present \in BOOLEAN : Fetch(present)
         \/ Watch \/ Confirm

Next == Reset \/ TimeOut \/ Steps \/ EngineSteps \/ AnswerSteps \/ Fence \/ NewSession
Spec == Init /\ [][Next]_vars

--------------------------------------------------------------------------------
(* Properties.                                                                 *)

\* A book is handed out at most once, however often its delivery is abandoned,
\* offered again and written again, and the server hears of a success only when
\* it has been handed out.
Said(b) == IF \E d \in Deliveries : BookOf[d] = b /\ told[d] = "succeeded" THEN "succeeded" ELSE "nothing"
Promised == INSTANCE Deeds WITH Ids <- Books, done <- copies, said <- [b \in Books |-> Said(b)]
KeepsItsWord == Promised!Spec

\* The receipt of a success means that very text, or a later one: the book's record
\* was written from the delivery, not left as an earlier one made it.
SuccessMeansWritten ==
  \A d \in Deliveries : told[d] = "succeeded" => text[BookOf[d]] >= d

\* A record is written only while GLOBAL waits for this very delivery: what it gave
\* up, or another session began, stays away although its closure still runs.
OnlyWhatIsAwaited ==
  [][\A b \in Books : text'[b] # text[b] =>
       lua.phase = "materializing" /\ lua.book = text'[b] /\ Here]_vars

\* When GLOBAL asks for the next delivery the bindings have nothing left over that
\* would refuse it (requestDiaryBook: diary_request_pending).
FreeToAsk == lua.phase = "none" => ~native.request /\ ~native.receipt /\ ~native.pending

\* Between any two steps: the receipts are true, and nothing blocks the next book.
DiaryInv == TypeOK /\ SuccessMeansWritten /\ FreeToAsk

\* Every delivery has its receipt.
AllTold == \A d \in Deliveries : told[d] # "none"
================================================================================
