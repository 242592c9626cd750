----------------------------- MODULE Disposition -----------------------------
(***************************************************************************)
(* Disposition: the server adjusts how an actor feels about the player, and *)
(* disposition.lua applies each adjustment, keeps its outcome for the rest  *)
(* of the session and reports it until the server has it; whenever the      *)
(* game's own reading changes the server is told.  An adjustment may be     *)
(* sent again; submissions and their results may fail or be lost.  One      *)
(* actor, who is also the one the conversation observes.                    *)
(***************************************************************************)
EXTENDS Naturals, Sequences, FiniteSets

CONSTANTS
  Adjustments,
  Readings,     \* what the game may show as the actor's disposition
  QueueCap,     \* adjustments that wait (16)
  ReceiptCap,   \* adjustments of a session (128)
  OutCap,       \* requests on their way (the outbound queue)
  MaxAttempts,  \* submissions of a receipt (5)
  MaxSessions,  \* bound
  MaxMishaps,   \* bound: results failed or lost, attempts wasted
  MaxChanges    \* bound: how often the game itself changes its reading

VARIABLES
  session, open,  \* the bridge's generation, and whether its session is open
  client,         \* the state of disposition.lua, with what m_dispositionReceipts has of
                  \* its requests, and wire: the submissions still to be answered
  reading,        \* what the game shows
  sentIn,         \* the session an adjustment was made in, 0 before
  applied,        \* how often an adjustment was applied
  heard,          \* the outcomes of an adjustment the server has accepted
  belief,         \* the reading the server was told last
  mishaps, changes, lost   \* how much of what is bounded happened; a result was lost

vars == <<session, open, client, reading, sentIn, applied, heard, belief, mishaps, changes, lost>>

Outcomes == {"applied", "rejected"}
NoReceipt == [status |-> "none"]
Unseen == [reading |-> "unknown", request |-> "none"]

\* M.reset
Blank(c) == [c EXCEPT !.queue = {}, !.receipts = [a \in Adjustments |-> NoReceipt],
                      !.observed = Unseen, !.scope = session]
\* scope: the first call in another session forgets everything
Scoped == IF client.scope = session THEN client ELSE Blank(client)

Init ==
  /\ session = 1 /\ open = TRUE
  /\ client = [queue |-> {}, receipts |-> [a \in Adjustments |-> NoReceipt], observed |-> Unseen,
               scope |-> 1, wire |-> <<>>]
  /\ reading \in Readings /\ sentIn = [a \in Adjustments |-> 0]
  /\ applied = [a \in Adjustments |-> 0] /\ heard = [a \in Adjustments |-> {}]
  /\ belief = "unknown" /\ mishaps = 0 /\ changes = 0 /\ lost = FALSE

--------------------------------------------------------------------------------
(* The bindings: submitDisposition and pumpDispositionResult.  A request is       *)
(* "pending", then "ok" or "failed" until its result is taken.                    *)

Accepts(c) == Len(c.wire) < OutCap
\* a submission for a receipt, or for the observation ("none")
submitDisposition(c, of, status) ==
  [c EXCEPT !.wire = Append(@, [of |-> of, status |-> status, reading |-> reading, awaited |-> TRUE])]
\* whoever waited for a result of this kind waits no more
Disowned(c, of) ==
  [c EXCEPT !.wire = [i \in DOMAIN @ |-> IF @[i].of = of THEN [@[i] EXCEPT !.awaited = FALSE] ELSE @[i]]]

--------------------------------------------------------------------------------
(* disposition.lua.                                                            *)

\* M.observe: the server is told of a reading once, and again when that failed
observe(c, readable) ==
  LET same == c.observed.reading = reading
      request == c.observed.request
  IN IF ~readable THEN c
     ELSE IF same /\ request # "failed"
          THEN IF request = "ok" THEN [c EXCEPT !.observed.request = "none"] ELSE c
     ELSE IF Accepts(c)
          THEN [submitDisposition(Disowned(c, "none"), "none", "none") EXCEPT
                  !.observed = [reading |-> reading, request |-> "pending"]]
     ELSE IF same THEN [c EXCEPT !.observed = Unseen] ELSE c

\* as Remembered, for a client without receipts
RememberedNever(c, a) == FALSE
\* M.receive: the outcome of an adjustment that comes again is only sent again
Remembered(c, a) == c.receipts[a] # NoReceipt
SentAgain(c, a) ==
  [Disowned(c, a) EXCEPT !.receipts[a] = [@ EXCEPT !.attempts = 0, !.request = "none", !.acked = FALSE]]
Room(c) ==
  LET made == Cardinality({a \in Adjustments : c.receipts[a] # NoReceipt})
  IN Cardinality(c.queue) < QueueCap /\ made + Cardinality(c.queue) < ReceiptCap
Receive(a) ==
  /\ open /\ sentIn[a] \in {0, session}
  /\ sentIn' = [sentIn EXCEPT ![a] = session]
  /\ client' = IF Remembered(Scoped, a) THEN SentAgain(Scoped, a)
               ELSE IF a \in Scoped.queue \/ ~Room(Scoped) THEN Scoped
               ELSE [Scoped EXCEPT !.queue = @ \union {a}]
  /\ UNCHANGED <<session, open, reading, applied, heard, belief, mishaps, changes, lost>>

\* retain: the outcome, before anything is sent; read: there is a reading to send with it
retain(status, read) ==
  [status |-> status, read |-> read, acked |-> FALSE, request |-> "none", attempts |-> 0]
Outcome(a, status, read) ==
  client' = [Scoped EXCEPT !.queue = @ \ {a}, !.receipts[a] = retain(status, read)]

\* M.pump for one waiting adjustment: it has expired, or the game takes it or throws.
\* While the world is paused or a dialogue is open it only expires.
Expire(a, readable) ==
  /\ open /\ a \in Scoped.queue
  /\ Outcome(a, "rejected", readable)
  /\ UNCHANGED <<session, open, reading, sentIn, applied, heard, belief, mishaps, changes, lost>>
Apply(a, throws, readable) ==
  /\ open /\ a \in Scoped.queue
  /\ IF throws THEN UNCHANGED <<reading, applied>>
     ELSE reading' \in Readings /\ applied' = [applied EXCEPT ![a] = @ + 1]
  /\ Outcome(a, IF throws THEN "rejected" ELSE "applied", readable)
  /\ UNCHANGED <<session, open, sentIn, heard, belief, mishaps, changes, lost>>

\* a receipt waits for its result, half a minute at most
Awaits(r, late) == r.request = "pending" /\ ~late

\* as Confirmed, keeping the reading that was observed before
ConfirmedButReading(c, a, readable) ==
  observe([c EXCEPT !.receipts[a].acked = TRUE, !.receipts[a].request = "none"], readable)
\* the server has the receipt: tell it the present reading too
Confirmed(c, a, readable) ==
  observe([Disowned(c, "none") EXCEPT !.receipts[a].acked = TRUE, !.receipts[a].request = "none",
                                      !.observed = Unseen], readable)

\* M.pump for one receipt: its result, then the next attempt if one is due
Settled(c, a, late, readable) ==
  LET r == c.receipts[a]
  IN IF r.request = "none" \/ Awaits(r, late) THEN c
     ELSE IF r.request = "ok" THEN Confirmed(c, a, readable)
     ELSE [Disowned(c, a) EXCEPT !.receipts[a].request = "none"]
Due(r) == r.read /\ ~r.acked /\ r.request = "none" /\ r.attempts < MaxAttempts
Sends(c, readable, sent) == readable /\ sent /\ Accepts(c)
Attempt(c, a, readable, sent) ==
  LET d == [c EXCEPT !.receipts[a].attempts = @ + 1]
  IN IF Sends(c, readable, sent)
     THEN [submitDisposition(d, a, d.receipts[a].status) EXCEPT !.receipts[a].request = "pending"]
     ELSE d
Awaited(c, a) == \E i \in DOMAIN c.wire : c.wire[i].of = a /\ c.wire[i].awaited
Report(a, readable, late, due, sent) ==
  /\ open /\ Scoped.receipts[a] # NoReceipt
  /\ LET c == [Scoped EXCEPT !.receipts[a].read = @ \/ readable]
         d == Settled(c, a, late, readable)
         attempt == due /\ Due(d.receipts[a])
         wasted == \/ attempt /\ ~Sends(d, readable, sent)
                   \/ Awaited(c, a) /\ ~Awaited(d, a)
     IN /\ client' = IF attempt THEN Attempt(d, a, readable, sent) ELSE d
        /\ IF wasted THEN mishaps < MaxMishaps /\ mishaps' = mishaps + 1 ELSE UNCHANGED mishaps
  /\ UNCHANGED <<session, open, reading, sentIn, applied, heard, belief, changes, lost>>

\* global.lua observes the target of the conversation once a second
Observe(readable) ==
  /\ open /\ client' = observe(Scoped, readable)
  /\ UNCHANGED <<session, open, reading, sentIn, applied, heard, belief, mishaps, changes, lost>>

--------------------------------------------------------------------------------
(* The transport and the server, the game, interruptions.                      *)

\* settleDispositionResult of the oldest submission; the server may have read it
\* although it failed, and a full inbound queue loses the result
Serve(arrives, result) ==
  /\ client.wire # <<>> /\ (result = "ok" => arrives)
  /\ LET m == Head(client.wire)
         c == [client EXCEPT !.wire = Tail(@)]
     IN /\ client' = IF result = "lost" \/ ~m.awaited THEN c
                     ELSE IF m.of = "none" THEN [c EXCEPT !.observed.request = result]
                     ELSE [c EXCEPT !.receipts[m.of].request = result]
        /\ belief' = IF arrives THEN m.reading ELSE belief
        /\ heard' = IF arrives /\ m.of # "none" THEN [heard EXCEPT ![m.of] = @ \union {m.status}] ELSE heard
  /\ IF result = "ok" THEN UNCHANGED mishaps ELSE mishaps < MaxMishaps /\ mishaps' = mishaps + 1
  /\ lost' = (lost \/ result = "lost")
  /\ UNCHANGED <<session, open, reading, sentIn, applied, changes>>

\* a bribe, a spell, a crime
Change ==
  /\ changes < MaxChanges /\ changes' = changes + 1
  /\ reading' \in Readings \ {reading}
  /\ UNCHANGED <<session, open, client, sentIn, applied, heard, belief, mishaps, lost>>

\* cancelGeneration forgets the submissions; disposition.lua is not told
Fence ==
  /\ open /\ session < MaxSessions
  /\ session' = session + 1 /\ open' = FALSE
  /\ client' = [client EXCEPT !.wire = <<>>]
  /\ belief' = "unknown"
  /\ UNCHANGED <<reading, sentIn, applied, heard, mishaps, changes, lost>>
NewSession ==
  /\ ~open /\ open' = TRUE
  /\ UNCHANGED <<session, client, reading, sentIn, applied, heard, belief, mishaps, changes, lost>>

Decide(a) == \E readable \in BOOLEAN : Expire(a, readable) \/ \E throws \in BOOLEAN : Apply(a, throws, readable)
ServeSteps == \E arrives \in BOOLEAN, result \in {"ok", "failed", "lost"} : Serve(arrives, result)
Next ==
  \/ \E a \in Adjustments : \/ Receive(a) \/ Decide(a)
                            \/ \E readable, late, due, sent \in BOOLEAN : Report(a, readable, late, due, sent)
  \/ \E readable \in BOOLEAN : Observe(readable)
  \/ ServeSteps \/ Change \/ Fence \/ NewSession
Spec == Init /\ [][Next]_vars

--------------------------------------------------------------------------------
(* Properties.                                                                 *)

\* An adjustment is applied at most once however often it is sent and reported,
\* the server hears one outcome, "applied" only of what was applied and "rejected"
\* only of what never will be (M.receive, retain).
Said(a) == IF heard[a] = {} THEN "nothing"
           ELSE IF heard[a] = {"applied"} THEN "succeeded"
           ELSE IF heard[a] = {"rejected"} THEN "rejected" ELSE "contradiction"
Promised == INSTANCE Deeds WITH Ids <- Adjustments, done <- applied, said <- [a \in Adjustments |-> Said(a)]
AppliesOnce == Promised!Spec

\* The outcome of an adjustment of this session has reached the server.
OutcomesKnown == \A a \in Adjustments :
  client.scope = session /\ (a \in client.queue \/ client.receipts[a] # NoReceipt)
    => heard[a] # {} \/ sentIn[a] # session

\* The server believes what the game shows, although receipts carry readings of their
\* own past the cache of M.observe.  Two cases are left out, and described in the
\* README: a lost result leaves its observation waiting for ever, and a receipt that
\* is given up may have arrived all the same.
GivenUp == \E a \in Adjustments : LET r == client.receipts[a] IN
             r # NoReceipt /\ ~r.acked /\ r.attempts = MaxAttempts
ReadingKnown == belief = reading \/ ~open \/ lost \/ GivenUp
================================================================================
