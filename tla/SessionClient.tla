----------------------------- MODULE SessionClient -----------------------------
(***************************************************************************)
(* The session that the Lua bindings keep over the bridge: the choice of a *)
(* character, the handshake and its retries, the event cursor, the         *)
(* requests that scripts wait for, and the two lanes that drain results    *)
(* (poll, driven by the GLOBAL script, and the pumps that go on while the  *)
(* game is paused).                                                        *)
(*                                                                         *)
(* The bridge is BridgeService reduced to what its user can tell: a        *)
(* request is executed at the head of the outbound queue, and whether its  *)
(* execution has begun is a choice wherever it matters.  The server is     *)
(* external.  Ids are reused once nothing holds them, which no user can    *)
(* tell from fresh ones; 0 is no id.  Clocks are a choice: a moment that   *)
(* the code waits for may or may not have come.                            *)
(***************************************************************************)
EXTENDS Parts, FiniteSets, SequencesExt, FiniteSetsExt

CONSTANTS
  OutCap,         \* capacity of the bridge's outbound queue
  InCap,          \* capacity of its inbound queue, without the reserve for cancellations
  DeferCap,       \* kDeferredResultCapacity
  PumpBatch,      \* kControlsPumpBatch
  PollMax,        \* results that one poll drains
  ReceiptCap,     \* pending dispositions and commentary: 128 and 32 in the code
  MaxAttempts,    \* attempts at one handshake, 3 in the code
  MenuClips,      \* media ids that the server gives to menu lines
  SpeechClips,    \* media ids that it gives to spoken lines
  Uses,           \* the requests that scripts make in this instance
  MaxAsks,        \* bound on what scripts and the player do
  MaxGenerations, \* bound on fences
  MaxEvents       \* bound on the events of one session

ASSUME CapacityAssumption ==
  /\ {OutCap, InCap, DeferCap, PumpBatch, PollMax, ReceiptCap, MaxAttempts} \subseteq Nat \ {0}
  /\ MaxGenerations \in Nat \ {0} /\ {MaxAsks, MaxEvents} \subseteq Nat
  /\ MenuClips \cap SpeechClips = {} /\ 0 \notin MenuClips \cup SpeechClips

VARIABLES
  client,   \* NativeClient, with the queues of its bridge
  server,   \* the sessions that the server has opened
  loads,    \* the generations that a loaded save began
  lost,     \* requests of this generation whose result a full inbound queue refused
  cut,      \* downloads that the last fence cut off, whose clips stay in the table
  plays,    \* what PLAYER and the actors do with the clips of menu lines
  asks      \* what scripts and the player have done
vars == <<client, server, loads, lost, cut, plays, asks>>

NoSnapshot == [key |-> 0, loaded |-> FALSE]
Fresh0 ==
  [gen |-> 1, halted |-> FALSE, status |-> "waiting_identity",
   session |-> 0, cursor |-> 0, seen |-> <<>>,
   prepared |-> FALSE, bound |-> FALSE, rejected |-> FALSE,
   init |-> 0, attempts |-> 0, retry |-> FALSE, snapshot |-> NoSnapshot, made |-> 0,
   loaded |-> FALSE, waiting |-> FALSE,
   poll |-> 0, wait |-> {}, kept |-> {}, latest |-> 0,
   menus |-> <<>>, media |-> <<>>,
   out |-> <<>>, inbound |-> <<>>, deferred |-> <<>>]

(* said: the lines that PLAYER has handed to their actor; due: the releases *)
(* of a clip that follow from that; released: the clips that were released  *)
(* and not downloaded again since.                                          *)
NoPlays == [said |-> {}, due |-> [clip \in MenuClips |-> 0], released |-> {}]

Init ==
  /\ client = Fresh0 /\ server = <<>> /\ loads = {} /\ lost = {} /\ cut = {}
  /\ plays = NoPlays /\ asks = 0

readyUnlessMenus(c) == c.session # 0 /\ c.status = "ready" /\ DOMAIN c.menus = {}
ready(c) == c.session # 0 /\ c.status = "ready"
selected(c) == c.prepared /\ c.bound

--------------------------------------------------------------------------------
(* The bridge, as its user sees it.                                        *)

Ids(s) == {s[i].id : i \in DOMAIN s}

(* Tables of what is prepared, by id.                                      *)
With(f, x, v) == [y \in DOMAIN f \cup {x} |-> IF y = x THEN v ELSE f[y]]
Without(f, S) == [x \in DOMAIN f \ S |-> f[x]]

(* Nobody will get the results of these.                                   *)
Gone == lost \cup cut
Held(c) ==
  {c.init, c.poll, c.latest} \cup {w[2] : w \in c.wait \cup c.kept} \cup DOMAIN c.menus
    \cup {c.media[m].id : m \in DOMAIN c.media}
    \cup Ids(c.out) \cup Ids(c.inbound) \cup Ids(c.deferred) \cup Gone
FreshId(c) == CHOOSE i \in 1..(Cardinality(Held(c)) + 1) :
                i \notin Held(c) /\ \A j \in 1..(i - 1) : j \in Held(c)

CanSend(c) == ~c.halted /\ Len(c.out) < OutCap
enqueue(c, kind, data) ==
  [c EXCEPT !.out = Append(@, [id |-> FreshId(c), gen |-> c.gen, kind |-> kind,
                               data |-> data, cancelled |-> FALSE])]

Result(q, code, data) == [id |-> q.id, gen |-> q.gen, kind |-> q.kind, code |-> code, data |-> data]
Failures == {"retry", "reject", "fatal"}

(* A cancellation may use the reserve of the inbound queue.                *)
publishCancelled(c, q) ==
  IF Len(c.inbound) > InCap THEN c
  ELSE [c EXCEPT !.inbound = Append(@, Result(q, "cancelled", <<>>))]

(* begun: the head of the outbound queue is being executed.                *)
cancel(c, id, begun) ==
  LET at == {i \in DOMAIN c.out : c.out[i].id = id /\ ~c.out[i].cancelled} IN
  IF c.halted \/ at = {} THEN c
  ELSE IF begun /\ 1 \in at /\ c.out[1].gen = c.gen
    THEN publishCancelled([c EXCEPT !.out = Tail(@)], c.out[1])
    ELSE [c EXCEPT !.out = [i \in DOMAIN c.out |-> [c.out[i] EXCEPT !.cancelled = @ \/ i \in at]]]

--------------------------------------------------------------------------------
(* The handshake and the event poll.                                       *)

(* Retries send the same body under the same key.                          *)
SnapshotEachTime(c) == [key |-> c.made + 1, loaded |-> c.loaded]
Snapshot(c) == IF c.snapshot.key # 0 THEN c.snapshot ELSE [key |-> c.made + 1, loaded |-> c.loaded]

AttemptsUncounted(c) == c.attempts
Attempts(c) == c.attempts + 1

beginSession(c) ==
  IF ~selected(c) \/ c.init # 0 \/ c.waiting THEN c
  ELSE
    LET d == [c EXCEPT !.retry = FALSE, !.attempts = Attempts(c),
                       !.snapshot = Snapshot(c), !.made = Snapshot(c).key]
    IN  IF CanSend(d) THEN [enqueue(d, "init", <<d.snapshot.key, d.snapshot.loaded>>) EXCEPT !.init = FreshId(d)]
        ELSE [d EXCEPT !.status = "error"]

schedulePoll(c, due) ==
  IF ~ready(c) \/ c.poll # 0 \/ ~due \/ ~CanSend(c) THEN c
  ELSE [enqueue(c, "poll", <<c.cursor>>) EXCEPT !.poll = FreshId(c)]

dropPoll(c, begun) == [cancel(c, c.poll, begun) EXCEPT !.poll = 0]

--------------------------------------------------------------------------------
(* What one result does to the client.                                     *)

(* The slots that a result can settle in either lane: the disposition      *)
(* receipt and the rewritten line stay until a script takes them.          *)
Settles(c, r, kind) == r.kind = kind /\ <<kind, r.id>> \in c.wait
settle(c, R) ==
  [c EXCEPT !.wait = @ \ {<<r.kind, r.id>> : r \in R},
            !.kept = @ \cup {<<r.kind, r.id>> : r \in {r \in R : r.kind \in {"disposition", "autochat"}}}]

MenusOn(c, clips) == {d \in DOMAIN c.menus : c.menus[d].clip \in clips}
SetMenus(c, ids, state) ==
  [c EXCEPT !.menus = [d \in DOMAIN @ |-> IF d \in ids THEN [@[d] EXCEPT !.state = state] ELSE @[d]]]
SetMedia(c, clips, state) ==
  SetMenus([c EXCEPT !.media = [m \in DOMAIN @ |-> IF m \in clips THEN [state |-> state, id |-> 0] ELSE @[m]]],
           MenusOn(c, clips), state)

prepareMenuDialogueMedia(c, d, clip) ==
  LET known == clip \in DOMAIN c.media
      state == IF known THEN c.media[clip].state ELSE IF CanSend(c) THEN "preparing" ELSE "failed"
      e == [c EXCEPT !.menus[d] = [state |-> state, clip |-> clip]]
  IN  IF known \/ ~CanSend(c) THEN e
      ELSE [enqueue(e, "media", <<clip>>) EXCEPT
              !.media = With(@, clip, [state |-> "preparing", id |-> FreshId(e)])]

InitFailed(c, r) ==
  [c EXCEPT !.init = 0, !.retry = r.code = "retry" /\ c.attempts < MaxAttempts,
            !.rejected = r.code = "reject"]

Failed(c, r) ==
  LET clips == {m \in DOMAIN c.media : c.media[m].id = r.id}
      d == IF r.id = c.init THEN InitFailed(c, r) ELSE c
      e == [d EXCEPT !.wait = @ \ {<<"turn", r.id>>, <<"controls", r.id>>},
                     !.poll = IF @ = r.id THEN 0 ELSE @,
                     !.status = IF c.session = 0 THEN "error"
                                ELSE IF clips = {} \/ r.id = c.poll THEN "ready" ELSE @]
      f == SetMenus(e, {x \in DOMAIN e.menus : x = r.id /\ e.menus[x].state = "requesting"}, "failed")
  IN  SetMedia(f, clips, "failed")

Accepted(c, r) ==
  [c EXCEPT !.rejected = FALSE, !.loaded = FALSE, !.session = r.data[1], !.cursor = 0, !.seen = <<>>,
            !.status = "ready", !.init = 0]

(* The events of a batch are numbered from the cursor of its request.      *)
AnyPoll(c, r) == r.kind = "poll" /\ r.code = "ok"
OwnPoll(c, r) == r.kind = "poll" /\ r.id = c.poll
Events(c, r) ==
  IF r.code # "ok" THEN [c EXCEPT !.poll = 0]
  ELSE [c EXCEPT !.poll = 0, !.cursor = r.data[2],
                 !.seen = @ \o [i \in 1..(r.data[2] - r.data[1]) |-> r.data[1] + i]]

Handle(c, r) ==
  IF \E k \in {"disposition", "debug", "autochat", "comment"} : Settles(c, r, k) THEN settle(c, {r})
  ELSE IF r.code \in Failures THEN Failed(c, r)
  ELSE
    LET d == IF r.kind = "init" /\ r.code = "ok" /\ r.id = c.init THEN Accepted(c, r)
             ELSE IF OwnPoll(c, r) THEN Events(c, r)
             ELSE IF r.kind = "media" /\ r.code = "ok"
               THEN IF r.data[1] \in DOMAIN c.media THEN SetMedia(c, {r.data[1]}, "ready") ELSE c
             ELSE IF r.kind = "menu" /\ r.code = "ok"
               THEN IF r.id \in DOMAIN c.menus THEN prepareMenuDialogueMedia(c, r.id, r.data[1]) ELSE c
             ELSE IF Settles(c, r, "controls") THEN settle(c, {r}) ELSE c
    IN [d EXCEPT !.wait = @ \ {<<"turn", r.id>>}]

HandleAll(c, results) == FoldLeft(Handle, c, results)

(* What BridgeService::poll returns; the queue loses what was drained.     *)
Current(c, n) == {i \in DOMAIN c.inbound : i <= n /\ c.inbound[i].gen = c.gen}
Drained(c, n) == Part(c.inbound, Current(c, n))
Rest(c, n) == SubSeq(c.inbound, n + 1, Len(c.inbound))

--------------------------------------------------------------------------------
(* Steps.  Asks counts what the scripts and the player do.                 *)

Ask == asks < MaxAsks /\ asks' = asks + 1
ByScript(kind) == kind \in Uses /\ Ask /\ ready(client) /\ CanSend(client)
Elsewhere == UNCHANGED <<server, loads, lost, cut>>
Quiet == Elsewhere /\ UNCHANGED plays

(* A line that is gone can be said no more, and a clip that is being       *)
(* downloaded again is no longer a released one.                           *)
PlaysAfter(c) == [plays EXCEPT !.said = @ \cap DOMAIN c.menus, !.released = @ \ DOMAIN c.media]

(* due: the moments of the next retry and of the next poll have come.      *)
Polled(c, due) ==
  LET d == [HandleAll(c, c.deferred \o Drained(c, PollMax)) EXCEPT
              !.deferred = <<>>, !.inbound = Rest(c, PollMax)]
      e == IF d.retry /\ due THEN beginSession(d) ELSE d
  IN  schedulePoll(e, due)
Poll(due) == client' = Polled(client, due) /\ plays' = PlaysAfter(client') /\ Elsewhere /\ UNCHANGED asks

(* A pump drains a batch while the game is paused, settles its own kind    *)
(* and leaves the rest to the next poll.                                   *)
Own(c, kind) == {i \in Current(c, PumpBatch) : Settles(c, c.inbound[i], kind)}
Spared(c, kind) == Part(c.inbound, Current(c, PumpBatch) \ Own(c, kind))
DeferInFront(c, kind) == Spared(c, kind) \o c.deferred
DeferNothing(c, kind) == c.deferred
Deferred(c, kind) == c.deferred \o Spared(c, kind)
Pumped(c, kind) ==
  IF Len(c.deferred) + PumpBatch > DeferCap THEN c
  ELSE [settle(c, {c.inbound[i] : i \in Own(c, kind)}) EXCEPT
          !.inbound = Rest(c, PumpBatch), !.deferred = Deferred(c, kind)]
Receipts(c, kind) == {w \in c.wait \cup c.kept : w[1] = kind}

pump(kind) ==
  /\ \/ kind \in {"controls", "debug"} /\ \E w \in client.wait : w[1] = kind
     \/ kind = "autochat" /\ Receipts(client, kind) # {}
  /\ client' = Pumped(client, kind) /\ Quiet /\ UNCHANGED asks

(* The receipt that a script asks for is handed over once it is settled.   *)
pumpDispositionResult ==
  /\ \E w \in Receipts(client, "disposition") :
       client' = [Pumped(client, "disposition") EXCEPT !.kept = @ \ {w}]
  /\ Quiet /\ UNCHANGED asks

submitTurn ==
  /\ ByScript("turn")
  /\ client' = [enqueue(client, "turn", <<>>) EXCEPT
                  !.wait = @ \cup {<<"turn", FreshId(client)>>}, !.latest = FreshId(client)]
  /\ Quiet

cancelTurn(begun) ==
  /\ Ask /\ ready(client) /\ client.latest # 0
  /\ LET c == dropPoll(cancel(client, client.latest, begun), begun)
         d == [c EXCEPT !.wait = @ \ {<<"turn", c.latest>>}]
     IN  client' = IF CanSend(d) THEN [enqueue(d, "interruption", <<>>) EXCEPT !.latest = 0] ELSE d
  /\ Quiet

(* requestControls and selectControl share one slot.                       *)
requestOne(kind) ==
  /\ kind \in {"controls", "debug"} /\ ByScript(kind)
  /\ ~\E w \in client.wait : w[1] = kind
  /\ client' = [enqueue(client, kind, <<>>) EXCEPT !.wait = @ \cup {<<kind, FreshId(client)>>}]
  /\ Quiet

submitDisposition ==
  /\ ByScript("disposition")
  /\ LET full == Cardinality(Receipts(client, "disposition")) >= ReceiptCap
         c == IF full THEN [client EXCEPT !.kept = @ \ Receipts(client, "disposition")] ELSE client
     IN  client' = IF Cardinality(Receipts(c, "disposition")) >= ReceiptCap THEN c
                   ELSE [enqueue(c, "disposition", <<>>) EXCEPT !.wait = @ \cup {<<"disposition", FreshId(c)>>}]
  /\ Quiet

(* old: the commentary that has waited for 30 seconds.                     *)
submitComment ==
  /\ ByScript("comment")
  /\ \E old \in SUBSET Receipts(client, "comment") :
       LET c == [client EXCEPT !.wait = @ \ old] IN
       client' = IF Cardinality(Receipts(c, "comment")) >= ReceiptCap THEN c
                 ELSE [enqueue(c, "comment", <<>>) EXCEPT !.wait = @ \cup {<<"comment", FreshId(c)>>}]
  /\ Quiet

(* The two requests that a paused player waits for take the poll's place.  *)
requestPlayerAutochat(begun) ==
  /\ "autochat" \in Uses /\ Ask /\ ready(client) /\ Receipts(client, "autochat") = {}
  /\ LET c == dropPoll(client, begun) IN
     client' = IF CanSend(c) THEN [enqueue(c, "autochat", <<>>) EXCEPT !.wait = @ \cup {<<"autochat", FreshId(c)>>}]
               ELSE c
  /\ Quiet
(* There is one at a time.                                                 *)
WithoutAutochat(c, begun) ==
  LET own == {w \in c.wait : w[1] = "autochat"} IN
  [cancel(c, IF own = {} THEN 0 ELSE (CHOOSE w \in own : TRUE)[2], begun) EXCEPT
     !.wait = @ \ Receipts(c, "autochat"), !.kept = @ \ Receipts(c, "autochat")]
cancelPlayerAutochat(begun) ==
  /\ Ask /\ Receipts(client, "autochat") # {}
  /\ client' = WithoutAutochat(client, begun) /\ Quiet

requestMenuDialogueTts(begun) ==
  /\ "menu" \in Uses /\ Ask /\ ready(client)
  /\ LET c == dropPoll(client, begun) IN
     client' = IF CanSend(c)
               THEN [enqueue(c, "menu", <<>>) EXCEPT
                       !.menus = With(@, FreshId(c), [state |-> "requesting", clip |-> 0])]
               ELSE c
  /\ Quiet
WithoutMenuAndClip(c, d, begun) ==
  LET clip == c.menus[d].clip
      e == [cancel(c, IF c.menus[d].state = "requesting" THEN d ELSE 0, begun)
              EXCEPT !.menus = Without(@, {d})]
  IN  IF clip \notin DOMAIN e.media THEN e
      ELSE [cancel(e, e.media[clip].id, begun) EXCEPT !.media = Without(@, {clip})]
WithoutMenu(c, d, begun) ==
  LET clip == c.menus[d].clip
      e == [cancel(c, IF c.menus[d].state = "requesting" THEN d ELSE 0, begun)
              EXCEPT !.menus = Without(@, {d})]
  IN  IF clip = 0 \/ MenusOn(e, {clip}) # {} \/ clip \notin DOMAIN e.media THEN e
      ELSE [cancel(e, e.media[clip].id, begun) EXCEPT !.media = Without(@, {clip})]
cancelMenuDialogueTts(begun) ==
  /\ Ask /\ \E d \in DOMAIN client.menus : client' = WithoutMenu(client, d, begun)
  /\ plays' = PlaysAfter(client') /\ Elsewhere

(* PLAYER hands a line that is ready to its actor, once.                   *)
speakMenuClip ==
  /\ \E d \in DOMAIN client.menus \ plays.said :
       /\ client.menus[d].state = "ready"
       /\ plays' = [plays EXCEPT !.said = @ \cup {d}, !.due[client.menus[d].clip] = @ + 1]
  /\ Elsewhere /\ UNCHANGED <<client, asks>>

prepareMedia ==
  /\ ByScript("media")
  /\ \E clip \in SpeechClips :
       client' = [enqueue(client, "media", <<clip>>) EXCEPT
                    !.media = With(@, clip, [state |-> "preparing", id |-> FreshId(client)])]
  /\ Quiet
(* A release asks no menu line whether it waits for the clip.              *)
Released(c, clip, begun) ==
  IF clip \notin DOMAIN c.media THEN c
  ELSE [cancel(c, c.media[clip].id, begun) EXCEPT !.media = Without(@, {clip})]
releaseSpeech(begun) ==
  /\ "media" \in Uses /\ Ask
  /\ \E clip \in DOMAIN client.media \cap SpeechClips : client' = Released(client, clip, begun)
  /\ Quiet
(* Every line that was handed over is released once at most: at its end,   *)
(* when it is stopped or replaced, or when it cannot be played; perhaps    *)
(* long after PLAYER has cancelled it.                                     *)
releaseMenuClip(begun) ==
  /\ \E clip \in MenuClips :
       /\ plays.due[clip] > 0 /\ client' = Released(client, clip, begun)
       /\ plays' = [plays EXCEPT !.due[clip] = @ - 1, !.released = @ \cup {clip}]
  /\ Elsewhere /\ UNCHANGED asks
releaseMedia(begun) == releaseSpeech(begun) \/ releaseMenuClip(begun)

--------------------------------------------------------------------------------
(* Identity and generations.                                               *)

Configured(c) ==
  IF ~selected(c) THEN [c EXCEPT !.status = "waiting_identity"]
  ELSE IF c.session = 0 THEN [beginSession(c) EXCEPT !.status = "connecting"] ELSE c

(* configureCharacter with mode new_game or load.  A new game is bound as  *)
(* new; a save says how its character is bound, and the script binds one   *)
(* that does not as existing, in the same call.  Which of the two it is    *)
(* makes no difference here.                                               *)
prepare ==
  /\ ~client.prepared
  /\ client' = Configured([client EXCEPT !.prepared = TRUE, !.bound = TRUE])
  /\ Quiet /\ UNCHANGED asks

(* Modes existing and new, after the server rejected the character.  No    *)
(* script makes this call yet; it is taken to be made once the rejected    *)
(* handshake is over, and in its generation.                               *)
choose ==
  /\ Ask /\ client.prepared /\ client.rejected /\ client.init = 0
  /\ client' = Configured([client EXCEPT !.bound = TRUE, !.snapshot = NoSnapshot, !.attempts = 0,
                                         !.retry = FALSE, !.rejected = FALSE])
  /\ Quiet

(* A load and a new game change the identity; an interruption keeps it.    *)
cancelGeneration(kind, begun) ==
  /\ ~client.halted /\ client.gen < MaxGenerations
  /\ LET c == client
         loadedSave == kind = "load"
         identityChange == kind # "interrupt"
         running == c.out # <<>> /\ (c.out[1].gen # c.gen \/ (begun /\ ~c.out[1].cancelled))
         menuClips == {c.menus[d].clip : d \in DOMAIN c.menus}
         d == [Fresh0 EXCEPT
                 !.gen = c.gen + 1, !.made = c.made, !.seen = c.seen, !.cursor = c.cursor,
                 !.prepared = c.prepared /\ ~identityChange,
                 !.bound = c.bound /\ ~identityChange,
                 !.rejected = c.rejected /\ ~identityChange,
                 !.loaded = loadedSave, !.waiting = loadedSave,
                 !.media = Without(c.media, menuClips),
                 !.out = IF running THEN <<[c.out[1] EXCEPT !.cancelled = TRUE]>> ELSE <<>>,
                 !.inbound = Part(c.inbound, {i \in DOMAIN c.inbound : c.inbound[i].gen # c.gen})]
         e == beginSession(d)
     IN  /\ client' = [e EXCEPT !.status = IF selected(e) THEN "connecting" ELSE "waiting_identity"]
         /\ loads' = IF loadedSave THEN loads \cup {c.gen + 1} ELSE loads
         /\ cut' = {d.media[m].id : m \in DOMAIN d.media} \ {0} /\ lost' = {}
         /\ plays' = PlaysAfter(client')
  /\ UNCHANGED <<server, asks>>

(* The calendar of the loaded save has been read, or could not be.         *)
finishLoadedSave ==
  /\ client.waiting /\ client' = beginSession([client EXCEPT !.waiting = FALSE])
  /\ Quiet /\ UNCHANGED asks

halt ==
  /\ "halt" \in Uses /\ Ask /\ ~client.halted
  /\ client' = [client EXCEPT !.halted = TRUE, !.gen = @ + 1, !.out = <<>>, !.inbound = <<>>,
                              !.wait = {w \in @ : w[1] # "turn"}, !.latest = 0, !.status = "halted"]
  /\ Quiet

--------------------------------------------------------------------------------
(* The worker, the network and the server.                                 *)

Opened(q) == \E i \in DOMAIN server : server[i].key = q.data[1]
Open(q) == IF Opened(q) THEN server
           ELSE Append(server, [key |-> q.data[1], gen |-> q.gen, loaded |-> q.data[2], events |-> 0])

(* The result of the head joins the inbound queue, or finds it full.       *)
Deliver(q, code, data) ==
  IF Len(client.inbound) < InCap
  THEN /\ client' = [client EXCEPT !.out = Tail(@), !.inbound = Append(@, Result(q, code, data))]
       /\ UNCHANGED <<lost, cut, plays>>
  ELSE /\ client' = [client EXCEPT !.out = Tail(@)] /\ lost' = lost \cup {q.id}
       /\ UNCHANGED <<cut, plays>>

Head1(kind) == client.out # <<>> /\ ~Head(client.out).cancelled /\ Head(client.out).kind = kind
FinishInit ==
  /\ Head1("init") /\ UNCHANGED <<loads, asks>>
  /\ LET q == Head(client.out) IN
     \/ server' = Open(q) /\ Deliver(q, "ok", <<q.data[1]>>)
     \/ server' = Open(q) /\ Deliver(q, "retry", <<>>)
     \/ \E code \in Failures : (code = "retry" \/ ~Opened(q)) /\ UNCHANGED server /\ Deliver(q, code, <<>>)

FinishPollOk ==
  /\ Head1("poll") /\ UNCHANGED <<server, loads, asks>>
  /\ LET q == Head(client.out) IN
     \E i \in DOMAIN server : \E upto \in q.data[1]..server[i].events :
       /\ server[i].key = client.session
       /\ server[i].events > q.data[1] => upto > q.data[1]
       /\ Deliver(q, "ok", <<q.data[1], upto>>)

FinishOther ==
  /\ client.out # <<>> /\ UNCHANGED <<server, loads, asks>>
  /\ LET q == Head(client.out) IN
     /\ ~q.cancelled
     /\ \/ q.kind # "init" /\ Deliver(q, "retry", <<>>)
        \/ q.kind = "menu" /\ \E clip \in MenuClips : Deliver(q, "ok", <<clip>>)
        \/ q.kind \notin {"init", "poll", "menu"} /\ Deliver(q, "ok", q.data)

(* A cancelled request: it was still queued, or a fence caught it while it *)
(* was executed and the server may have opened the session it asked for.   *)
FinishCancelled ==
  /\ client.out # <<>> /\ Head(client.out).cancelled
  /\ LET q == Head(client.out) IN
     /\ client' = publishCancelled([client EXCEPT !.out = Tail(@)], q)
     /\ server' \in (IF q.kind = "init" THEN {server, Open(q)} ELSE {server})
  /\ UNCHANGED <<loads, lost, cut, plays, asks>>

ServerEvent ==
  /\ \E i \in DOMAIN server : server[i].events < MaxEvents /\ server' = [server EXCEPT ![i].events = @ + 1]
  /\ UNCHANGED <<client, loads, lost, cut, plays, asks>>

Finish == FinishInit \/ FinishPollOk \/ FinishOther \/ FinishCancelled

Next ==
  \/ \E due \in BOOLEAN : Poll(due)
  \/ \E kind \in {"controls", "debug", "autochat"} : pump(kind)
  \/ \E kind \in {"controls", "debug"} : requestOne(kind)
  \/ pumpDispositionResult \/ submitTurn \/ submitDisposition \/ submitComment \/ prepareMedia \/ speakMenuClip
  \/ \E begun \in BOOLEAN :
       \/ cancelTurn(begun) \/ requestPlayerAutochat(begun) \/ cancelPlayerAutochat(begun)
       \/ requestMenuDialogueTts(begun) \/ cancelMenuDialogueTts(begun) \/ releaseMedia(begun)
       \/ \E kind \in {"load", "new_game", "interrupt"} : cancelGeneration(kind, begun)
  \/ prepare \/ choose \/ finishLoadedSave \/ halt
  \/ Finish \/ ServerEvent

Spec == Init /\ [][Next]_vars

(* GLOBAL polls on every update and its clock goes on; the worker and the  *)
(* network answer every request in the end; the server is not down for     *)
(* ever: a poll that is sent again and again is answered some time.        *)
(* FairPoll is WF_vars(Poll(TRUE)): a poll is always possible, and a step  *)
(* when it changes the client.                                             *)
FairPoll == <>[](Polled(client, TRUE) # client) => []<><<Poll(TRUE)>>_vars
FairSpec ==
  /\ Spec /\ FairPoll /\ WF_vars(Finish) /\ SF_vars(FinishPollOk) /\ WF_vars(finishLoadedSave)

--------------------------------------------------------------------------------
TypeOK ==
  /\ client.status \in {"waiting_identity", "connecting", "ready", "error", "halted"}
  /\ client.gen \in 1..(MaxGenerations + 1) /\ client.cursor \in 0..MaxEvents
  /\ client.attempts \in Nat /\ Len(client.out) <= OutCap /\ Len(client.inbound) <= InCap + 1
  /\ Len(client.deferred) <= DeferCap
  /\ \A d \in DOMAIN client.menus : client.menus[d].state \in {"requesting", "preparing", "ready", "failed"}

(* Every event of a session reaches the GLOBAL script once and in order,   *)
(* up to the cursor, although polls are cancelled half way, answered after *)
(* they were given up, or drained by a pump and replayed.                  *)
EventsInOrder == client.seen = [i \in 1..client.cursor |-> i]

(* Whoever waits for an answer waits for one that is still to come, that   *)
(* has come, or that a full inbound queue refused: no cancellation, pump,  *)
(* replay or fence forgets a request that someone still awaits.  The one   *)
(* exception are the downloads of spoken lines: a fence cuts them off and  *)
(* leaves their clips in the table, being prepared for ever.               *)
Coming(id) ==
  \/ \E i \in DOMAIN client.out : client.out[i].id = id /\ ~client.out[i].cancelled
  \/ \E i \in DOMAIN client.inbound : LET r == client.inbound[i] IN
       r.id = id /\ r.gen = client.gen /\ r.code # "cancelled"
  \/ id \in Ids(client.deferred) \/ id \in lost
Awaited ==
  ({client.init, client.poll} \cup {w[2] : w \in client.wait}
    \cup {d \in DOMAIN client.menus : client.menus[d].state = "requesting"}) \ {0}
Downloading == {client.media[m].id : m \in DOMAIN client.media} \ {0}
NobodyWaitsForNothing ==
  \/ client.halted
  \/ (\A id \in Awaited : Coming(id)) /\ (\A id \in Downloading : Coming(id) \/ id \in cut)

(* A menu line that is being prepared follows a download that will move it *)
(* on, also when it shares the clip with a line that was cancelled.  Only  *)
(* a release takes the clip from under it: it is then being prepared until *)
(* PLAYER cancels it or another line downloads the clip again.             *)
MenuFollowsItsClip ==
  \A d \in DOMAIN client.menus : client.menus[d].state = "preparing" =>
    LET clip == client.menus[d].clip IN
    IF clip \in DOMAIN client.media THEN client.media[clip].id # 0 ELSE clip \in plays.released

(* However often a handshake is retried, and whatever becomes of its       *)
(* answers, a generation opens one session, and the client uses that one.  *)
OneSessionPerGeneration ==
  /\ \A i, j \in DOMAIN server : server[i].gen = server[j].gen => i = j
  /\ client.session # 0 => \E i \in DOMAIN server :
       server[i].key = client.session /\ (client.halted \/ server[i].gen = client.gen)

(* A session says that a save was loaded exactly if a load's fence began   *)
(* its generation, through retries under one key, a rejected character and *)
(* the fences before and after.  A fence of the player's that overtakes a  *)
(* load before its session opens begins a generation of its own, and no    *)
(* session tells the server of that load.                                  *)
LoadedAsBegun == \A i \in DOMAIN server : server[i].loaded <=> server[i].gen \in loads

(* Sessions as the server sees them: one a generation, marked as a loaded  *)
(* save exactly if a load began the generation.                            *)
SessionInv == TypeOK /\ OneSessionPerGeneration /\ LoadedAsBegun

(* What the GLOBAL lane is promised about results.                         *)
Box == INSTANCE Mailbox WITH
  box <- SelectSeq(client.deferred \o client.inbound, LAMBDA r : r.gen = client.gen),
  epoch <- client.gen, Pumped <- LAMBDA r : r.kind \in {"controls", "debug", "autochat", "disposition"}
ResultsInOrder == Box!Spec

(* A session that stays gets every event of the server, unless the poll    *)
(* was answered into a full inbound queue.                                 *)
Behind(n) ==
  /\ client.session # 0 /\ client.cursor < n
  /\ \E i \in DOMAIN server : server[i].key = client.session /\ server[i].events >= n
EventsArrive == \A n \in 1..MaxEvents : Behind(n) ~> (~Behind(n) \/ client.halted \/ lost # {})

(* A handshake is decided: a chosen character gets its session, or the     *)
(* attempts end with an error that nothing will change by itself.          *)
HandshakeEnds ==
  (selected(client) /\ client.session = 0)
    ~> \/ client.session # 0 \/ ~selected(client)
       \/ client.init = 0 /\ ~client.retry /\ ~client.waiting
       \/ client.halted \/ lost # {}
================================================================================
