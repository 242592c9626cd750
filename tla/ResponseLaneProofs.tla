--------------------------- MODULE ResponseLaneProofs ---------------------------
(***************************************************************************)
(* Proofs about ResponseLane for every script, every set of actors and      *)
(* every bound: clips are released with their lines, a confirmation belongs *)
(* to the command the lane waits for, nothing is reported twice, and what   *)
(* continues a line is heard only after that line; and, while the actors    *)
(* stay agents, everything is reported and nobody speaks what the lane has  *)
(* left behind.                                                             *)
(***************************************************************************)
EXTENDS ResponseLane, PartsProofs, FiniteSetTheorems

-------------------------------------------------------------------------------
(* The inductive invariants                                                *)

(* A letter of the lane names the line or the command it is about.         *)
Lettered(m) ==
  /\ m.msg \in {"SPEAK", "SUBTITLE"} => m.line \in Dialogue
  /\ m.msg \in {"ACTION", "REJECT"} => m.line \in Commands
  /\ m.msg \notin {"SPEAK", "SUBTITLE", "ACTION", "REJECT"} => m.line = NoLine
  /\ m.gen \in 1..gen

Noticed(n) ==
  /\ n.msg = "speech" => n.line \in Dialogue
  /\ n.msg = "result" => n.line \in Commands
  /\ n.msg = "inactive" => n.line = NoLine

Mail ==
  /\ toActors \in Seq(Messages) /\ \A i \in DOMAIN toActors : Lettered(toActors[i])
  /\ toGlobal \in Seq(Notices) /\ \A i \in DOMAIN toGlobal : Noticed(toGlobal[i])

(* No line is queued twice, and the active one is the first.               *)
Orderly(q) ==
  /\ \A i, j \in DOMAIN q.items : q.items[i].line = q.items[j].line => i = j
  /\ Queued(q) \subseteq q.seen
  /\ q.active # NoLine => q.items # <<>> /\ q.items[1].line = q.active

(* The types, in three parts.                                              *)
QueueTypes ==
  /\ queue \in Queues /\ confirm \subseteq Commands
  /\ media \in [Dialogue -> {"none", "preparing", "ready", "failed"}]
  /\ delivered \in [Dialogue -> Nat] /\ results \in [Commands -> Nat]

Scripts == [attached : BOOLEAN, gen : 1..gen, speech : Dialogue \cup {NoLine},
            face : Commands \cup {NoLine}]
ActorTypes == gen \in Nat \ {0} /\ actor \in [Actors -> Scripts]

TurnStates == [id : Turns \cup {0}, terminal : BOOLEAN]
ChainStates == [id : Turns \cup {0}, cancelled : BOOLEAN, inFlight : BOOLEAN,
                prefetch : LineIds \cup {NoLine}, discard : Turns \cup {0}]
ProbeStates == [stage : {"none", "states", "context"},
                turn : Turns \cup {0}, chain : Turns \cup {0}]
Handlers == [at : {"idle", "poll", "prefetch", "pump", "followup", "probe"},
             then : {"none", "poll", "status"}, advance : BOOLEAN]

TurnTypes ==
  /\ turn \in TurnStates /\ nextTurn \in 1..(Len(Script) + 1)
  /\ origin \in [Turns -> Dialogue \cup {NoLine}]
  /\ rechat \in ChainStates /\ probe \in ProbeStates
  /\ speech \in BOOLEAN /\ voice \in BOOLEAN /\ seed \in BOOLEAN /\ ai \in BOOLEAN
  /\ followups \in Seq(Commands) /\ pc \in Handlers
  /\ stops \in Nat /\ moves \in Nat

GroupTypes == attachments \subseteq Actors /\ registry \subseteq Actors /\ present \subseteq Actors

(* What the handlers of the lane rely on.                                  *)
QueueInv == QueueTypes /\ Orderly(queue) /\ NoMediaLeft /\ ConfirmationIsCurrent

Lane == QueueInv /\ ActorTypes /\ GroupTypes /\ Mail

(* Where a line or a command is.                                           *)
Waits(l) == l \in Queued(queue) /\ queue.active # l
Asked(c) == c \in Queued(queue) /\ (queue.active # c \/ c \in confirm)
Has(s, x) == \E i \in DOMAIN s : s[i].line = x
Once(s, x) == \A i, j \in DOMAIN s : s[i].line = x /\ s[j].line = x => i = j
Speaks(l) == \E a \in Actors : actor[a].speech = l
Faces(c) == \E a \in Actors : actor[a].face = c
OneVoice(l) == \A a, b \in Actors : actor[a].speech = l /\ actor[b].speech = l => a = b
OneFace(c) == \A a, b \in Actors : actor[a].face = c /\ actor[b].face = c => a = b

(* A dialogue line is in one place at most, in none before it is seen.     *)
LineOnce(l) ==
  /\ Once(toActors, l) /\ OneVoice(l) /\ delivered[l] \in {0, 1}
  /\ Waits(l) => ~Has(toActors, l) /\ ~Speaks(l) /\ delivered[l] = 0
  /\ Has(toActors, l) => ~Speaks(l) /\ delivered[l] = 0
  /\ Speaks(l) => delivered[l] = 0
  /\ l \notin queue.seen => ~Has(toActors, l) /\ ~Speaks(l) /\ delivered[l] = 0

(* So is a command, whose answer takes a while to arrive.                  *)
CommandOnce(c) ==
  /\ Once(toActors, c) /\ OneFace(c) /\ Once(toGlobal, c) /\ results[c] \in {0, 1}
  /\ Asked(c) => ~Has(toActors, c) /\ ~Faces(c) /\ ~Has(toGlobal, c) /\ results[c] = 0
  /\ Has(toActors, c) => ~Faces(c) /\ ~Has(toGlobal, c) /\ results[c] = 0
  /\ Faces(c) => ~Has(toGlobal, c) /\ results[c] = 0
  /\ Has(toGlobal, c) => results[c] = 0
  /\ c \notin queue.seen => ~Has(toActors, c) /\ ~Faces(c) /\ ~Has(toGlobal, c) /\ results[c] = 0

(* A speech status is sent with the delivery result.                       *)
StatusAfterResult ==
  \A i \in DOMAIN toGlobal : toGlobal[i].msg = "speech" => delivered[toGlobal[i].line] = 1

Ledgers ==
  /\ \A l \in Dialogue : LineOnce(l)
  /\ \A c \in Commands : CommandOnce(c)
  /\ StatusAfterResult

(* While every actor is an agent, a line the lane has taken is somewhere.  *)
Agents == attachments = Actors

Accounted(l) ==
  l \in queue.seen => Waits(l) \/ Has(toActors, l) \/ Speaks(l) \/ delivered[l] = 1

StopAt(i, a) == toActors[i].to = a /\ toActors[i].msg \in {"STOP_SPEECH", "STOP", "DETACH"}
Spoken(i) == toActors[i].msg = "SPEAK"

(* What was told to speak is told to stop, in this order, before another   *)
(* is told to speak.                                                       *)
Voices ==
  /\ \A a \in Actors : actor[a].speech # NoLine =>
       /\ actor[a].speech = queue.active \/ StopComing(a)
       /\ actor[a].speech = queue.active => First.media
       /\ \A i \in DOMAIN toActors : Spoken(i) => \E j \in 1..(i - 1) : StopAt(j, a)
  /\ \A i \in DOMAIN toActors : Spoken(i) =>
       /\ \/ toActors[i].line = queue.active
          \/ \E j \in (i + 1)..Len(toActors) : StopAt(j, toActors[i].to)
       /\ toActors[i].line = queue.active => First.media
       /\ \A k \in (i + 1)..Len(toActors) : Spoken(k) =>
            \E j \in (i + 1)..(k - 1) : StopAt(j, toActors[i].to)

OneAtATime ==
  \A a, b \in Actors : actor[a].speech # NoLine /\ actor[b].speech # NoLine => a = b

Staying ==
  /\ registry = Actors
  /\ \A l \in Dialogue : Accounted(l)
  /\ Voices /\ OneAtATime

-------------------------------------------------------------------------------
(* Letters and notices in a sequence                                       *)

LEMMA HasAppend ==
  ASSUME NEW E, NEW s \in Seq(E), NEW e \in E, NEW x
  PROVE  /\ Has(Append(s, e), x) <=> Has(s, x) \/ e.line = x
         /\ Once(s, x) /\ ~(Has(s, x) /\ e.line = x) => Once(Append(s, e), x)
<1>1. Len(Append(s, e)) = Len(s) + 1 /\ Append(s, e)[Len(s) + 1] = e
  OBVIOUS
<1>2. \A i \in 1..Len(s) : Append(s, e)[i] = s[i]
  OBVIOUS
<1>3. DOMAIN s = 1..Len(s) /\ DOMAIN Append(s, e) = 1..(Len(s) + 1)
  OBVIOUS
<1>4. \A i \in 1..(Len(s) + 1) : i \in 1..Len(s) \/ i = Len(s) + 1
  OBVIOUS
<1>5. Has(Append(s, e), x) <=> Has(s, x) \/ e.line = x
  BY <1>1, <1>2, <1>3, <1>4 DEF Has
<1>6. ASSUME Once(s, x), ~(Has(s, x) /\ e.line = x) PROVE Once(Append(s, e), x)
  BY <1>1, <1>2, <1>3, <1>4, <1>6 DEF Has, Once
<1> QED  BY <1>5, <1>6

LEMMA HasConcat ==
  ASSUME NEW E, NEW s \in Seq(E), NEW t \in Seq(E), NEW x
  PROVE  /\ Has(s \o t, x) <=> Has(s, x) \/ Has(t, x)
         /\ Once(s, x) /\ Once(t, x) /\ ~(Has(s, x) /\ Has(t, x)) => Once(s \o t, x)
<1>1. Len(s \o t) = Len(s) + Len(t) /\ s \o t \in Seq(E)
  OBVIOUS
<1>2. /\ \A i \in 1..Len(s) : (s \o t)[i] = s[i]
      /\ \A i \in 1..Len(t) : (s \o t)[Len(s) + i] = t[i]
  OBVIOUS
<1>3. DOMAIN s = 1..Len(s) /\ DOMAIN t = 1..Len(t) /\ DOMAIN (s \o t) = 1..(Len(s) + Len(t))
  BY <1>1
<1>4. \A i \in 1..(Len(s) + Len(t)) : i \in 1..Len(s) \/ \E j \in 1..Len(t) : i = Len(s) + j
  <2> SUFFICES ASSUME NEW i \in 1..(Len(s) + Len(t)), i \notin 1..Len(s)
               PROVE  \E j \in 1..Len(t) : i = Len(s) + j
    OBVIOUS
  <2>1. i - Len(s) \in 1..Len(t) /\ i = Len(s) + (i - Len(s))  OBVIOUS
  <2> QED  BY <2>1
<1>5. Has(s \o t, x) <=> Has(s, x) \/ Has(t, x)
  <2>1. ASSUME NEW i \in DOMAIN (s \o t), (s \o t)[i].line = x PROVE Has(s, x) \/ Has(t, x)
    <3>1. CASE i \in 1..Len(s)  BY <1>2, <1>3, <2>1, <3>1 DEF Has
    <3>2. CASE \E j \in 1..Len(t) : i = Len(s) + j  BY <1>2, <1>3, <2>1, <3>2 DEF Has
    <3> QED  BY <1>3, <1>4, <3>1, <3>2
  <2>2. Has(s, x) => Has(s \o t, x)
    BY <1>2, <1>3 DEF Has
  <2>3. ASSUME NEW i \in DOMAIN t, t[i].line = x PROVE Has(s \o t, x)
    <3>1. Len(s) + i \in DOMAIN (s \o t) /\ (s \o t)[Len(s) + i].line = x
      BY <1>2, <1>3, <2>3
    <3> QED  BY <3>1 DEF Has
  <2> QED  BY <2>1, <2>2, <2>3 DEF Has
<1>6. ASSUME Once(s, x), Once(t, x), ~(Has(s, x) /\ Has(t, x)) PROVE Once(s \o t, x)
  <2> SUFFICES ASSUME NEW i \in DOMAIN (s \o t), NEW j \in DOMAIN (s \o t),
                      (s \o t)[i].line = x, (s \o t)[j].line = x
               PROVE  i = j
    BY DEF Once
  <2>1. ASSUME NEW k \in DOMAIN (s \o t), (s \o t)[k].line = x
        PROVE  \/ k \in DOMAIN s /\ s[k].line = x /\ Has(s, x)
               \/ \E l \in DOMAIN t : k = Len(s) + l /\ t[l].line = x /\ Has(t, x)
    <3>1. CASE k \in 1..Len(s)  BY <1>2, <1>3, <2>1, <3>1 DEF Has
    <3>2. CASE \E l \in 1..Len(t) : k = Len(s) + l  BY <1>2, <1>3, <2>1, <3>2 DEF Has
    <3> QED  BY <1>3, <1>4, <2>1, <3>1, <3>2
  <2>2. CASE Has(s, x)  BY <1>6, <2>1, <2>2 DEF Once
  <2>3. CASE ~Has(s, x)  BY <1>6, <2>1, <2>3 DEF Once
  <2> QED  BY <2>2, <2>3
<1> QED  BY <1>5, <1>6

LEMMA HasTail ==
  ASSUME NEW E, NEW s \in Seq(E), s # <<>>, NEW x
  PROVE  /\ Has(s, x) <=> s[1].line = x \/ Has(Tail(s), x)
         /\ Once(s, x) => Once(Tail(s), x) /\ ~(s[1].line = x /\ Has(Tail(s), x))
<1>1. /\ Len(Tail(s)) = Len(s) - 1 /\ Len(s) > 0
      /\ \A i \in 1..(Len(s) - 1) : Tail(s)[i] = s[i + 1]
  OBVIOUS
<1>2. DOMAIN s = 1..Len(s) /\ DOMAIN Tail(s) = 1..(Len(s) - 1)
  BY <1>1
<1>3. \A i \in 1..Len(s) : i = 1 \/ \E j \in 1..(Len(s) - 1) : i = j + 1
  <2> SUFFICES ASSUME NEW i \in 1..Len(s), i # 1
               PROVE  \E j \in 1..(Len(s) - 1) : i = j + 1
    OBVIOUS
  <2>1. i - 1 \in 1..(Len(s) - 1) /\ i = (i - 1) + 1  OBVIOUS
  <2> QED  BY <2>1
<1>4. Has(s, x) <=> s[1].line = x \/ Has(Tail(s), x)
  <2>1. ASSUME NEW i \in DOMAIN s, s[i].line = x PROVE s[1].line = x \/ Has(Tail(s), x)
    <3>1. CASE \E j \in 1..(Len(s) - 1) : i = j + 1  BY <1>1, <1>2, <2>1, <3>1 DEF Has
    <3> QED  BY <1>2, <1>3, <2>1, <3>1
  <2>2. s[1].line = x => Has(s, x)
    <3>1. 1 \in DOMAIN s  BY <1>1, <1>2
    <3> QED  BY <3>1 DEF Has
  <2>3. ASSUME NEW i \in DOMAIN Tail(s), Tail(s)[i].line = x PROVE Has(s, x)
    <3>1. i + 1 \in DOMAIN s /\ s[i + 1].line = x  BY <1>1, <1>2, <2>3
    <3> QED  BY <3>1 DEF Has
  <2> QED  BY <2>1, <2>2, <2>3 DEF Has
<1>5. ASSUME Once(s, x) PROVE Once(Tail(s), x) /\ ~(s[1].line = x /\ Has(Tail(s), x))
  <2>1. \A i, j \in 1..(Len(s) - 1) : i + 1 = j + 1 => i = j  OBVIOUS
  <2>2. \A i \in 1..(Len(s) - 1) : i + 1 \in 1..Len(s) /\ i + 1 # 1 /\ 1 \in 1..Len(s)  BY <1>1
  <2>3. Once(Tail(s), x)
    BY <1>1, <1>2, <1>5, <2>1, <2>2 DEF Once
  <2>4. ~(s[1].line = x /\ Has(Tail(s), x))
    BY <1>1, <1>2, <1>5, <2>2 DEF Has, Once
  <2> QED  BY <2>3, <2>4
<1> QED  BY <1>4, <1>5

LEMMA HasNone == ASSUME NEW x PROVE ~Has(<<>>, x) /\ Once(<<>>, x)
BY DEF Has, Once

LEMMA HasOne ==
  ASSUME NEW e, NEW x
  PROVE  (Has(<<e>>, x) <=> e.line = x) /\ Once(<<e>>, x)
BY DEF Has, Once

LEMMA HasTwo ==
  ASSUME NEW e, NEW f, NEW x
  PROVE  /\ Has(<<e, f>>, x) <=> e.line = x \/ f.line = x
         /\ ~(e.line = x /\ f.line = x) => Once(<<e, f>>, x)
<1>1. DOMAIN <<e, f>> = {1, 2} /\ <<e, f>>[1] = e /\ <<e, f>>[2] = f  OBVIOUS
<1> QED  BY <1>1 DEF Has, Once

-------------------------------------------------------------------------------
(* The operations of the queue                                             *)

LEMMA IsSeq ==
  ASSUME NEW S, NEW n \in Nat, NEW f \in [1..n -> S] PROVE f \in Seq(S) /\ Len(f) = n
OBVIOUS

(* r has the lines of q and those it has seen since.                       *)
Grows(q, r) ==
  /\ r \in Queues /\ Orderly(r) /\ r.active = q.active
  /\ q.seen \subseteq r.seen /\ Queued(r) = Queued(q) \cup (r.seen \ q.seen)
  /\ q.items # <<>> => r.items # <<>> /\ (q.items[1].media => r.items[1].media)

(* r is q without some lines.                                              *)
Drops(q, r, gone) ==
  /\ r \in Queues /\ Orderly(r) /\ r.seen = q.seen
  /\ Queued(r) = Queued(q) \ gone
  /\ r.active = IF q.active \in gone THEN NoLine ELSE q.active
  /\ r.active # NoLine => r.items[1] = q.items[1]

LEMMA ItemFound ==
  ASSUME NEW q \in Queues, Orderly(q), NEW l \in Queued(q)
  PROVE  /\ ItemOf(q, l) \in Items /\ ItemOf(q, l).line = l
         /\ \E i \in DOMAIN q.items : q.items[i] = ItemOf(q, l)
         /\ \A i \in DOMAIN q.items : q.items[i].line = l => q.items[i] = ItemOf(q, l)
<1> DEFINE k == CHOOSE i \in DOMAIN q.items : q.items[i].line = l
<1>1. k \in DOMAIN q.items /\ q.items[k].line = l  BY DEF Queued
<1>2. q.items \in Seq(Items)  BY DEF Queues
<1>3. ItemOf(q, l) = q.items[k]  BY DEF ItemOf
<1> HIDE DEF k
<1>4. q.items[k] \in Items  BY <1>1, <1>2
<1> QED  BY <1>1, <1>3, <1>4 DEF Orderly

LEMMA Relabelled ==
  ASSUME NEW q \in Queues, Orderly(q), NEW s \in Seq(Items), Len(s) = Len(q.items),
         \A i \in DOMAIN q.items : s[i].line = q.items[i].line,
         q.items # <<>> => (q.items[1].media => s[1].media)
  PROVE  Grows(q, [q EXCEPT !.items = s])
<1> DEFINE r == [q EXCEPT !.items = s]
<1>1. q.items \in Seq(Items)  BY DEF Queues
<1>2. DOMAIN s = DOMAIN q.items  BY <1>1
<1>3. r.items = s /\ r.active = q.active /\ r.seen = q.seen /\ r \in Queues  BY DEF Queues
<1> HIDE DEF r
<1>4. Queued(r) = Queued(q)  BY <1>2, <1>3 DEF Queued
<1>5. q.items # <<>> => s # <<>> /\ 1 \in DOMAIN q.items  BY <1>1
<1>6. Orderly(r)  BY <1>2, <1>3, <1>4, <1>5 DEF Orderly
<1> QED  BY <1>3, <1>4, <1>5, <1>6 DEF Grows, r

LEMMA WithItemGrows ==
  ASSUME NEW q \in Queues, Orderly(q), NEW l \in Queued(q), NEW v \in Items, v.line = l,
         ItemOf(q, l).media => v.media
  PROVE  Grows(q, WithItem(q, l, v))
<1> DEFINE s == [i \in DOMAIN q.items |-> IF q.items[i].line = l THEN v ELSE q.items[i]]
<1>1. q.items \in Seq(Items)  BY DEF Queues
<1>2. s \in Seq(Items) /\ Len(s) = Len(q.items)
  <2>1. \A i \in DOMAIN q.items : s[i] \in Items  BY <1>1
  <2>2. DOMAIN q.items = 1..Len(q.items) /\ Len(q.items) \in Nat  BY <1>1
  <2>3. s \in [1..Len(q.items) -> Items]  BY <2>1, <2>2
  <2> HIDE DEF s
  <2> QED  BY <2>2, <2>3, IsSeq
<1>3. \A i \in DOMAIN q.items : s[i].line = q.items[i].line  OBVIOUS
<1>4. q.items # <<>> => (q.items[1].media => s[1].media)
  <2> SUFFICES ASSUME q.items # <<>>, q.items[1].media PROVE s[1].media  OBVIOUS
  <2>1. 1 \in DOMAIN q.items  BY <1>1
  <2> QED  BY <2>1, ItemFound
<1>5. WithItem(q, l, v) = [q EXCEPT !.items = s]  BY DEF WithItem
<1> HIDE DEF s
<1> QED  BY <1>2, <1>3, <1>4, <1>5, Relabelled

LEMMA WithStatusGrows ==
  ASSUME NEW q \in Queues, Orderly(q), NEW l \in Queued(q), NEW s \in Statuses
  PROVE  Grows(q, WithStatus(q, l, s))
<1> DEFINE v == [ItemOf(q, l) EXCEPT !.status = s]
<1>1. v \in Items /\ v.line = l /\ v.media = ItemOf(q, l).media  BY ItemFound DEF Items
<1> HIDE DEF v
<1> QED  BY <1>1, WithItemGrows DEF WithStatus, v

LEMMA GrowsItself ==
  ASSUME NEW q \in Queues, Orderly(q) PROVE Grows(q, q)
BY DEF Grows

LEMMA AttachMediaGrows ==
  ASSUME NEW q \in Queues, Orderly(q), NEW l, CanAttachMedia(q, l)
  PROVE  Grows(q, AttachMedia(q, l))
<1> DEFINE v == [ItemOf(q, l) EXCEPT !.media = TRUE, !.status = "new"]
<1>1. l \in Queued(q)  BY DEF CanAttachMedia
<1>2. v \in Items /\ v.line = l /\ v.media = TRUE
  <2>1. \A m \in Items : LET w == [m EXCEPT !.media = TRUE, !.status = "new"]
                        IN  w \in Items /\ w.line = m.line /\ w.media = TRUE
    BY DEF Items, Statuses
  <2> QED  BY <1>1, <2>1, ItemFound
<1> HIDE DEF v
<1> QED  BY <1>1, <1>2, WithItemGrows DEF AttachMedia, v

LEMMA ConsumeGrows ==
  ASSUME NEW q \in Queues, Orderly(q) PROVE Grows(q, ConsumeRechat(q))
<1> DEFINE r == ConsumeRechat(q)
<1>1. /\ r.items = q.items /\ r.active = q.active /\ r.seen = q.seen
      /\ r \in Queues
  BY DEF Queues, ConsumeRechat
<1> HIDE DEF r
<1>2. Queued(r) = Queued(q)  BY <1>1 DEF Queued
<1> QED  BY <1>1, <1>2 DEF Grows, Orderly, r

LEMMA PreparedGrows ==
  ASSUME NEW q \in Queues, Orderly(q), NEW lines, NEW refused
  PROVE  Grows(q, Prepared(q, lines, refused))
<1> DEFINE s == [i \in DOMAIN q.items |->
                   CASE q.items[i].line \in refused -> [q.items[i] EXCEPT !.status = "failed"]
                     [] q.items[i].line \in lines   -> [q.items[i] EXCEPT !.status = "preparing"]
                     [] OTHER                       -> q.items[i]]
<1>1. q.items \in Seq(Items)  BY DEF Queues
<1>2. \A i \in DOMAIN q.items :
        s[i] \in Items /\ s[i].line = q.items[i].line /\ s[i].media = q.items[i].media
  <2> SUFFICES ASSUME NEW i \in DOMAIN q.items
               PROVE  s[i] \in Items /\ s[i].line = q.items[i].line /\ s[i].media = q.items[i].media
    OBVIOUS
  <2>1. q.items[i] \in Items  BY <1>1
  <2>2. \A t \in Statuses : LET v == [q.items[i] EXCEPT !.status = t]
                            IN  v \in Items /\ v.line = q.items[i].line /\ v.media = q.items[i].media
    BY <2>1 DEF Items
  <2>3. "failed" \in Statuses /\ "preparing" \in Statuses  BY DEF Statuses
  <2> QED  BY <2>1, <2>2, <2>3
<1>3. DOMAIN q.items = 1..Len(q.items) /\ Len(q.items) \in Nat  BY <1>1
<1>4. s \in Seq(Items) /\ Len(s) = Len(q.items)
  <2>1. s \in [1..Len(q.items) -> Items]  BY <1>2, <1>3
  <2> HIDE DEF s
  <2> QED  BY <1>3, <2>1, IsSeq
<1>5. q.items # <<>> => 1 \in DOMAIN q.items  BY <1>1
<1>6. Prepared(q, lines, refused) = [q EXCEPT !.items = s]  BY DEF Prepared
<1> HIDE DEF s
<1> QED  BY <1>2, <1>4, <1>5, <1>6, Relabelled

LEMMA GrowsTwice ==
  ASSUME NEW q, NEW o, NEW r, Grows(q, o), Grows(o, r) PROVE Grows(q, r)
<1>1. Queued(r) = Queued(q) \cup (r.seen \ q.seen)  BY DEF Grows
<1> QED  BY <1>1 DEF Grows

(* New lines are added at the end.                                         *)
LEMMA Extended ==
  ASSUME NEW q \in Queues, Orderly(q), NEW r \in Queues, NEW add \in Seq(Items),
         r.items = q.items \o add, r.active = q.active,
         r.seen = q.seen \cup {add[i].line : i \in DOMAIN add},
         \A i \in DOMAIN add : add[i].line \notin q.seen,
         \A i, j \in DOMAIN add : add[i].line = add[j].line => i = j
  PROVE  Grows(q, r)
<1> DEFINE n == Len(q.items)
<1>1. q.items \in Seq(Items) /\ n \in Nat  BY DEF Queues
<1>2. /\ DOMAIN q.items = 1..n /\ DOMAIN add = 1..Len(add) /\ Len(add) \in Nat
      /\ DOMAIN r.items = 1..(n + Len(add))
      /\ \A i \in 1..n : r.items[i] = q.items[i]
      /\ \A i \in 1..Len(add) : r.items[n + i] = add[i]
  BY <1>1
<1> HIDE DEF n
<1>3. ASSUME NEW k \in DOMAIN r.items
      PROVE  \/ k \in DOMAIN q.items /\ r.items[k] = q.items[k] /\ r.items[k].line \in q.seen
             \/ \E i \in DOMAIN add : k = n + i /\ r.items[k] = add[i] /\ r.items[k].line \notin q.seen
  <2>1. CASE k \in 1..n
    <3>1. k \in DOMAIN q.items /\ r.items[k] = q.items[k]  BY <1>2, <2>1
    <3>2. q.items[k].line \in Queued(q)  BY <3>1 DEF Queued
    <3> QED  BY <3>1, <3>2 DEF Orderly
  <2>2. CASE k \notin 1..n
    <3>1. k - n \in 1..Len(add) /\ k = n + (k - n)  BY <1>1, <1>2, <2>2
    <3> QED  BY <1>2, <3>1
  <2> QED  BY <2>1, <2>2
<1>4. \A i, j \in DOMAIN r.items : r.items[i].line = r.items[j].line => i = j
  <2> SUFFICES ASSUME NEW i \in DOMAIN r.items, NEW j \in DOMAIN r.items,
                      r.items[i].line = r.items[j].line
               PROVE  i = j
    OBVIOUS
  <2>1. CASE r.items[i].line \in q.seen
    <3>1. i \in DOMAIN q.items /\ j \in DOMAIN q.items /\ q.items[i].line = q.items[j].line
      BY <1>3, <2>1
    <3> QED  BY <3>1 DEF Orderly
  <2>2. CASE r.items[i].line \notin q.seen
    <3>1. PICK a \in DOMAIN add : i = n + a /\ r.items[i] = add[a]  BY <1>3, <2>2
    <3>2. PICK b \in DOMAIN add : j = n + b /\ r.items[j] = add[b]  BY <1>3, <2>2
    <3> QED  BY <3>1, <3>2
  <2> QED  BY <2>1, <2>2
<1>5. \A l : l \in Queued(r) <=> l \in Queued(q) \/ \E i \in DOMAIN add : add[i].line = l
  <2>1. ASSUME NEW k \in DOMAIN r.items
        PROVE  r.items[k].line \in Queued(q) \/ \E i \in DOMAIN add : add[i].line = r.items[k].line
    BY <1>3 DEF Queued
  <2>2. ASSUME NEW k \in DOMAIN q.items PROVE q.items[k].line \in Queued(r)
    <3>1. k \in DOMAIN r.items /\ r.items[k] = q.items[k]  BY <1>1, <1>2
    <3> QED  BY <3>1 DEF Queued
  <2>3. ASSUME NEW i \in DOMAIN add PROVE add[i].line \in Queued(r)
    <3>1. n + i \in DOMAIN r.items /\ r.items[n + i] = add[i]  BY <1>1, <1>2
    <3> QED  BY <3>1 DEF Queued
  <2>4. \A l \in Queued(r) : l \in Queued(q) \/ \E i \in DOMAIN add : add[i].line = l
    BY <2>1 DEF Queued
  <2>5. \A l \in Queued(q) : l \in Queued(r)
    BY <2>2 DEF Queued
  <2> QED  BY <2>3, <2>4, <2>5
<1>6. Queued(r) = Queued(q) \cup (r.seen \ q.seen)
  <2>1. \A l : l \in r.seen \ q.seen <=> \E i \in DOMAIN add : add[i].line = l  OBVIOUS
  <2> QED  BY <1>5, <2>1
<1>7. Queued(r) \subseteq r.seen  BY <1>6 DEF Orderly
<1>8. q.items # <<>> => r.items # <<>> /\ r.items[1] = q.items[1]
  <2> SUFFICES ASSUME q.items # <<>> PROVE r.items # <<>> /\ r.items[1] = q.items[1]  OBVIOUS
  <2>1. 1 \in 1..n /\ 1 \in DOMAIN r.items  BY <1>1, <1>2
  <2>2. r.items # <<>>  BY <2>1
  <2> QED  BY <1>2, <2>1, <2>2
<1>9. Orderly(r)  BY <1>4, <1>7, <1>8 DEF Orderly
<1> QED  BY <1>6, <1>8, <1>9 DEF Grows

LEMMA StreamedGrows ==
  ASSUME NEW q \in Queues, Orderly(q), NEW l \in Dialogue
  PROVE  Grows(q, EnqueueDialogueEvent(q, l))
<1>1. CASE l \in q.seen  BY <1>1, GrowsItself DEF EnqueueDialogueEvent
<1>2. CASE l \notin q.seen
  <2> DEFINE item == [line |-> l, status |-> "waiting_media", media |-> FALSE, final |-> FALSE]
             r == EnqueueDialogueEvent(q, l)
  <2>1. item \in Items /\ item.line = l  BY DEF Items, LineIds, Statuses
  <2>2. /\ r.items = Append(q.items, item) /\ r.active = q.active /\ r.seen = q.seen \cup {l}
        /\ r.pendingRechat = q.pendingRechat /\ r.played = q.played
        /\ r = [items |-> r.items, active |-> r.active, pendingRechat |-> r.pendingRechat,
                played |-> r.played, seen |-> r.seen]
    BY <1>2 DEF EnqueueDialogueEvent, Queues
  <2> HIDE DEF item, r
  <2>3. q.items \in Seq(Items) /\ l \in LineIds  BY DEF Queues, LineIds
  <2>4. Append(q.items, item) = q.items \o <<item>> /\ Append(q.items, item) \in Seq(Items)
    BY <2>1, <2>3
  <2>5. r \in Queues  BY <2>2, <2>3, <2>4 DEF Queues
  <2>6. DOMAIN <<item>> = {1} /\ <<item>>[1] = item /\ <<item>> \in Seq(Items)  BY <2>1
  <2>7. {<<item>>[i].line : i \in DOMAIN <<item>>} = {l}  BY <2>1, <2>6
  <2> DEFINE add == <<item>>
  <2>8. add \in Seq(Items) /\ r.items = q.items \o add /\ r.seen = q.seen \cup {add[i].line : i \in DOMAIN add}
        /\ DOMAIN add = {1} /\ add[1].line = l
    BY <2>1, <2>2, <2>4, <2>6, <2>7
  <2> HIDE DEF add
  <2>9. Grows(q, r)  BY <1>2, <2>2, <2>5, <2>8, Extended
  <2> QED  BY <2>9 DEF r
<1> QED  BY <1>1, <1>2

LEMMA FinalGrows ==
  ASSUME NEW q \in Queues, Orderly(q), NEW l
  PROVE  Grows(q, MarkFinal(q, l)) /\ MarkFinal(q, l).seen = q.seen
         /\ MarkFinal(q, l).pendingRechat = q.pendingRechat /\ MarkFinal(q, l).played = q.played
<1>1. CASE l \notin Queued(q)  BY <1>1, GrowsItself DEF MarkFinal
<1>2. CASE l \in Queued(q)
  <2> DEFINE v == [ItemOf(q, l) EXCEPT !.final = TRUE]
  <2>1. \A m \in Items : LET w == [m EXCEPT !.final = TRUE]
                        IN  w \in Items /\ w.line = m.line /\ w.media = m.media
    BY DEF Items
  <2>2. v \in Items /\ v.line = l /\ v.media = ItemOf(q, l).media  BY <1>2, <2>1, ItemFound
  <2> HIDE DEF v
  <2>3. Grows(q, WithItem(q, l, v))  BY <1>2, <2>2, WithItemGrows
  <2>4. /\ WithItem(q, l, v).seen = q.seen /\ WithItem(q, l, v).pendingRechat = q.pendingRechat
        /\ WithItem(q, l, v).played = q.played
    BY DEF WithItem, Queues
  <2> QED  BY <1>2, <2>3, <2>4 DEF MarkFinal, v
<1> QED  BY <1>1, <1>2

LEMMA NewItemOk ==
  ASSUME NEW l \in LineIds, NEW mute, NEW embedded, NEW last
  PROVE  NewItem(l, mute, embedded, last) \in Items /\ NewItem(l, mute, embedded, last).line = l
<1> DEFINE s == CASE l \in Commands                  -> "queued"
                  [] l \in Dialogue /\ l \in embedded -> "new"
                  [] l \in mute \ embedded            -> "subtitle_ready"
                  [] OTHER                            -> "waiting_media"
<1>1. s \in Statuses  BY LaneAssumption DEF Statuses
<1> HIDE DEF s
<1>2. NewItem(l, mute, embedded, last)
        = [line |-> l, status |-> s, media |-> l \in embedded, final |-> l = last]
  BY Zenon DEF NewItem, s
<1>3. (l \in embedded) \in BOOLEAN /\ (l = last) \in BOOLEAN  OBVIOUS
<1>4. \A m, f \in BOOLEAN :
        LET w == [line |-> l, status |-> s, media |-> m, final |-> f]
        IN  w \in Items /\ w.line = l
  BY <1>1 DEF Items
<1> QED  BY <1>2, <1>3, <1>4, Zenon

LEMMA EnqueueGrows ==
  ASSUME NEW q \in Queues, Orderly(q), NEW t \in Turns, NEW mute, NEW embedded
  PROVE  Grows(q, Enqueue(q, Script[t].lines, Script[t].commands, mute, embedded))
<1> DEFINE lines == Script[t].lines
           commands == Script[t].commands
           all == lines \o commands
           I == {i \in DOMAIN all : all[i] \notin q.seen}
           new == Part(all, I)
           last == lines[Len(lines)]
           add == [i \in 1..Len(new) |-> NewItem(new[i], mute, embedded, last)]
           old == IF last \in q.seen THEN MarkFinal(q, last) ELSE q
           r == [old EXCEPT !.items = @ \o add,
                            !.seen = @ \cup ToSet(new),
                            !.pendingRechat = @ \/ /\ last \in q.seen
                                                   /\ last \notin Queued(q)
                                                   /\ last \in q.played]
<1>1. Enqueue(q, lines, commands, mute, embedded) = r
  BY Zenon DEF Enqueue
<1>2. /\ lines \in Seq(Dialogue) /\ commands \in Seq(Commands)
      /\ IsInjective(lines) /\ IsInjective(commands)
  <2> DEFINE Responses == [lines : Seq(Dialogue), commands : Seq(Commands)]
  <2>1. Script \in Seq(Responses)
    BY ScriptAssumption
  <2>2. t \in DOMAIN Script  BY DEF Turns
  <2> HIDE DEF Responses
  <2>4. Script[t] \in Responses
    BY <2>1, <2>2
  <2>3. Script[t] \in [lines : Seq(Dialogue), commands : Seq(Commands)]
    BY <2>4 DEF Responses
  <2> QED  BY <2>3, ScriptAssumption
<1> HIDE DEF lines, commands, last
<1>3. all \in Seq(LineIds)
  <2>1. lines \in Seq(LineIds) /\ commands \in Seq(LineIds)  BY <1>2 DEF LineIds
  <2> QED  BY <2>1
<1>4. \A i, j \in DOMAIN all : all[i] = all[j] => i = j
  <2> DEFINE n == Len(lines)
  <2>1. /\ n \in Nat /\ DOMAIN lines = 1..n /\ DOMAIN commands = 1..Len(commands)
        /\ Len(commands) \in Nat /\ DOMAIN all = 1..(n + Len(commands))
        /\ \A i \in 1..n : all[i] = lines[i] /\ lines[i] \in Dialogue
        /\ \A i \in 1..Len(commands) : all[n + i] = commands[i] /\ commands[i] \in Commands
    BY <1>2
  <2> HIDE DEF n, all
  <2>2. ASSUME NEW k \in DOMAIN all
        PROVE  \/ k \in DOMAIN lines /\ all[k] = lines[k] /\ all[k] \in Dialogue
               \/ \E i \in DOMAIN commands : k = n + i /\ all[k] = commands[i] /\ all[k] \in Commands
    <3>1. CASE k \in 1..n  BY <2>1, <3>1
    <3>2. CASE k \notin 1..n
      <4>1. k - n \in 1..Len(commands) /\ k = n + (k - n)  BY <2>1, <3>2
      <4> QED  BY <2>1, <4>1
    <3> QED  BY <3>1, <3>2
  <2> SUFFICES ASSUME NEW i \in DOMAIN all, NEW j \in DOMAIN all, all[i] = all[j] PROVE i = j
    OBVIOUS
  <2>3. CASE all[i] \in Dialogue
    <3>1. all[i] \notin Commands /\ all[j] \notin Commands  BY <2>3, LaneAssumption
    <3>2. i \in DOMAIN lines /\ j \in DOMAIN lines /\ lines[i] = lines[j]  BY <2>2, <3>1
    <3> QED  BY <1>2, <3>2 DEF IsInjective
  <2>4. CASE all[i] \notin Dialogue
    <3>1. PICK a \in DOMAIN commands : i = n + a /\ all[i] = commands[a]  BY <2>2, <2>4
    <3>2. PICK b \in DOMAIN commands : j = n + b /\ all[j] = commands[b]  BY <2>2, <2>4
    <3>3. a = b  BY <1>2, <3>1, <3>2 DEF IsInjective
    <3> QED  BY <3>1, <3>2, <3>3
  <2> QED  BY <2>3, <2>4
<1> HIDE DEF all, I
<1>5. new \in Seq(LineIds) /\ \E m : Enumerates(new, m, all, I, Len(all))
  BY <1>3, PartEnumerates
<1>6. PICK m : Enumerates(new, m, all, I, Len(all))  BY <1>5
<1> HIDE DEF new
<1>7. \A i \in 1..Len(new) :
        new[i] = all[m[i]] /\ m[i] \in DOMAIN all /\ new[i] \notin q.seen /\ new[i] \in LineIds
  <2> SUFFICES ASSUME NEW i \in 1..Len(new)
               PROVE  /\ new[i] = all[m[i]] /\ m[i] \in DOMAIN all
                      /\ new[i] \notin q.seen /\ new[i] \in LineIds
    OBVIOUS
  <2>1. m[i] \in I /\ new[i] = all[m[i]]  BY <1>6 DEF Enumerates
  <2>2. m[i] \in DOMAIN all /\ all[m[i]] \notin q.seen  BY <2>1 DEF I
  <2>3. all[m[i]] \in LineIds  BY <1>3, <2>2
  <2> QED  BY <2>1, <2>2, <2>3
<1>8. \A i, j \in 1..Len(new) : new[i] = new[j] => i = j
  <2> SUFFICES ASSUME NEW i \in 1..Len(new), NEW j \in 1..Len(new), new[i] = new[j] PROVE i = j
    OBVIOUS
  <2>1. m[i] = m[j]  BY <1>4, <1>7
  <2>2. m[i] \in 1..Len(all)  BY <1>6 DEF Enumerates
  <2>3. ~(i < j) /\ ~(j < i)  BY <1>3, <1>6, <2>1, <2>2 DEF Enumerates
  <2> QED  BY <1>5, <2>3
<1>9. \A i \in 1..Len(new) : add[i] \in Items /\ add[i].line = new[i]
  BY <1>7, NewItemOk
<1>10. Len(new) \in Nat /\ DOMAIN new = 1..Len(new) /\ DOMAIN add = 1..Len(new)  BY <1>5
<1>11. add \in Seq(Items)
  <2>1. add \in [1..Len(new) -> Items]  BY <1>9
  <2> HIDE DEF add
  <2> QED  BY <1>10, <2>1, IsSeq
<1> HIDE DEF add
<1>12. ToSet(new) = {add[i].line : i \in DOMAIN add}
  BY <1>9, <1>10 DEF ToSet
<1>13. Grows(q, old) /\ old.seen = q.seen
  BY FinalGrows, GrowsItself
<1> HIDE DEF old
<1>14. old \in Queues /\ Orderly(old)  BY <1>13 DEF Grows
<1>15. /\ r.items = old.items \o add /\ r.active = old.active
       /\ r.seen = old.seen \cup {add[i].line : i \in DOMAIN add}
  BY <1>12, <1>14 DEF Queues
<1>16. r \in Queues
  <2>1. old.items \in Seq(Items) /\ old.items \o add \in Seq(Items)  BY <1>11, <1>14 DEF Queues
  <2>2. ToSet(new) \subseteq LineIds  BY <1>7, <1>10 DEF ToSet
  <2>3. old.seen \cup ToSet(new) \in SUBSET LineIds  BY <1>14, <2>2 DEF Queues
  <2> DEFINE p == old.pendingRechat \/ /\ last \in q.seen
                                       /\ last \notin Queued(q)
                                       /\ last \in q.played
  <2>4. p \in BOOLEAN  OBVIOUS
  <2>5. r = [old EXCEPT !.items = old.items \o add, !.seen = old.seen \cup ToSet(new),
                        !.pendingRechat = p]
    OBVIOUS
  <2> HIDE DEF p, r
  <2> QED  BY <1>14, <2>1, <2>3, <2>4, <2>5 DEF Queues
<1> HIDE DEF r
<1>17. \A i \in DOMAIN add : add[i].line \notin old.seen  BY <1>7, <1>9, <1>10, <1>13
<1>18. \A i, j \in DOMAIN add : add[i].line = add[j].line => i = j  BY <1>8, <1>9, <1>10
<1>19. Grows(old, r)  BY <1>11, <1>14, <1>15, <1>16, <1>17, <1>18, Extended
<1> QED  BY <1>1, <1>13, <1>19, GrowsTwice DEF lines, commands

LEMMA HeadDrops ==
  ASSUME NEW q \in Queues, Orderly(q), q.items # <<>>
  PROVE  /\ Drops(q, RemoveHead(q), {q.items[1].line}) /\ RemoveHead(q).active = NoLine
         /\ Drops(q, FailHead(q), {q.items[1].line}) /\ FailHead(q).active = NoLine
         /\ q.active \in Dialogue => \A status :
                        /\ Drops(q, Completed(q, status), {q.items[1].line})
                        /\ Completed(q, status).active = NoLine
                        /\ Drops(q, ConsumeRechat(Completed(q, status)), {q.items[1].line})
                        /\ ConsumeRechat(Completed(q, status)).active = NoLine
<1> DEFINE gone == {q.items[1].line}
<1>1. q.items \in Seq(Items)  BY DEF Queues
<1>2. /\ Len(Tail(q.items)) = Len(q.items) - 1 /\ Len(q.items) > 0
      /\ Tail(q.items) \in Seq(Items)
      /\ DOMAIN Tail(q.items) = 1..(Len(q.items) - 1) /\ DOMAIN q.items = 1..Len(q.items)
      /\ \A i \in 1..(Len(q.items) - 1) : Tail(q.items)[i] = q.items[i + 1]
  BY <1>1
<1>3. ASSUME NEW r \in Queues, r.items = Tail(q.items), r.active = NoLine, r.seen = q.seen
      PROVE  Drops(q, r, gone)
  <2>1. \A i \in DOMAIN r.items : i + 1 \in DOMAIN q.items /\ r.items[i] = q.items[i + 1]
    BY <1>2, <1>3
  <2>2. \A i, j \in DOMAIN r.items : r.items[i].line = r.items[j].line => i = j
    <3> SUFFICES ASSUME NEW i \in DOMAIN r.items, NEW j \in DOMAIN r.items,
                        r.items[i].line = r.items[j].line
                 PROVE  i = j
      OBVIOUS
    <3>1. i + 1 = j + 1  BY <2>1 DEF Orderly
    <3> QED  BY <1>2, <1>3, <3>1
  <2>3. \A l \in Queued(r) : l \in Queued(q) \ gone
    <3> SUFFICES ASSUME NEW i \in DOMAIN r.items PROVE r.items[i].line \in Queued(q) \ gone
      BY DEF Queued
    <3>1. i + 1 \in DOMAIN q.items /\ r.items[i] = q.items[i + 1]  BY <2>1
    <3>2. 1 \in DOMAIN q.items /\ i + 1 # 1  BY <1>2, <1>3
    <3>3. q.items[i + 1].line # q.items[1].line  BY <3>1, <3>2 DEF Orderly
    <3> QED  BY <3>1, <3>3 DEF Queued
  <2>4. \A l \in Queued(q) \ gone : l \in Queued(r)
    <3> SUFFICES ASSUME NEW i \in DOMAIN q.items, q.items[i].line \notin gone
                 PROVE  q.items[i].line \in Queued(r)
      BY DEF Queued
    <3>1. i # 1  OBVIOUS
    <3>2. i - 1 \in DOMAIN r.items /\ (i - 1) + 1 = i  BY <1>2, <1>3, <3>1
    <3>3. r.items[i - 1] = q.items[i]  BY <2>1, <3>2
    <3> QED  BY <3>2, <3>3 DEF Queued
  <2>5. Queued(r) = Queued(q) \ gone  BY <2>3, <2>4
  <2>6. Orderly(r)  BY <1>3, <2>2, <2>5 DEF Orderly
  <2>7. r.active = IF q.active \in gone THEN NoLine ELSE q.active
    BY <1>3 DEF Orderly
  <2> QED  BY <1>3, <2>5, <2>6, <2>7 DEF Drops
<1>4. ASSUME NEW r \in Queues, Drops(q, r, gone), r.active = NoLine
      PROVE  Drops(q, ConsumeRechat(r), gone) /\ ConsumeRechat(r).active = NoLine
             /\ ConsumeRechat(r) \in Queues
  <2>1. Grows(r, ConsumeRechat(r))  BY <1>4, ConsumeGrows DEF Drops
  <2>2. ConsumeRechat(r).seen = r.seen  BY DEF ConsumeRechat, Queues
  <2>3. Queued(ConsumeRechat(r)) = Queued(r)  BY <2>1, <2>2 DEF Grows
  <2> QED  BY <1>4, <2>1, <2>2, <2>3 DEF Grows, Drops
<1>5. /\ RemoveHead(q) \in Queues /\ RemoveHead(q).items = Tail(q.items)
      /\ RemoveHead(q).active = NoLine /\ RemoveHead(q).seen = q.seen
  BY <1>2 DEF RemoveHead, Queues
<1>6. Drops(q, RemoveHead(q), gone)  BY <1>3, <1>5
<1>7. Drops(q, FailHead(q), gone) /\ FailHead(q).active = NoLine
  BY <1>4, <1>5, <1>6 DEF FailHead
<1>8. ASSUME q.active \in Dialogue, NEW status
      PROVE  Drops(q, Completed(q, status), gone) /\ Completed(q, status).active = NoLine
             /\ Completed(q, status) \in Queues
  <2> DEFINE item == ItemOf(q, q.active)
             p == [q EXCEPT !.played = @ \cup {item.line}, !.pendingRechat = @ \/ item.final]
  <2>1. CASE status = "played"
    <3>1. q.active \in Queued(q)
      <4>1. q.active # NoLine  BY <1>8, LaneAssumption
      <4>2. 1 \in DOMAIN q.items /\ q.items[1].line = q.active  BY <1>2, <4>1 DEF Orderly
      <4> QED  BY <4>2 DEF Queued
    <3>2. item \in Items /\ item.line \in Dialogue  BY <1>8, <3>1, ItemFound
    <3> HIDE DEF item
    <3>3. item.final \in BOOLEAN  BY <3>2 DEF Items
    <3>4. q.played \cup {item.line} \in SUBSET Dialogue  BY <3>2 DEF Queues
    <3>5. \A played \in SUBSET Dialogue, due \in BOOLEAN :
            LET o == RemoveHead([q EXCEPT !.played = played, !.pendingRechat = due])
            IN  o \in Queues /\ o.items = Tail(q.items) /\ o.active = NoLine /\ o.seen = q.seen
      BY <1>2 DEF RemoveHead, Queues
    <3>6. (q.pendingRechat \/ item.final) \in BOOLEAN  OBVIOUS
    <3>7. Completed(q, status) = RemoveHead([q EXCEPT !.played = q.played \cup {item.line},
                                                     !.pendingRechat = q.pendingRechat \/ item.final])
      BY <2>1 DEF Completed, item
    <3> QED  BY <1>3, <3>4, <3>5, <3>6, <3>7, Zenon
  <2>2. CASE status # "played"
    <3>1. Completed(q, status) = RemoveHead(q)  BY <2>2 DEF Completed
    <3> QED  BY <1>5, <1>6, <3>1
  <2> QED  BY <2>1, <2>2
<1> QED  BY <1>4, <1>5, <1>6, <1>7, <1>8

LEMMA CancelDrops ==
  ASSUME NEW q \in Queues, Orderly(q)
  PROVE  Drops(q, Cancel(q), Queued(q)) /\ Cancel(q).active = NoLine /\ Cancel(q).items = <<>>
<1> DEFINE r == Cancel(q)
<1>1. /\ r.items = <<>> /\ r.active = NoLine /\ r.seen = q.seen /\ r \in Queues
  <2>1. <<>> \in Seq(Items)  OBVIOUS
  <2>2. [q EXCEPT !.items = <<>>, !.active = NoLine, !.pendingRechat = FALSE] \in Queues
    BY <2>1 DEF Queues
  <2> QED  BY <2>2 DEF Cancel, Queues
<1>2. q.active # NoLine => q.active \in Queued(q)
  <2>1. q.items # <<>> => 1 \in DOMAIN q.items  BY DEF Queues
  <2> QED  BY <2>1 DEF Orderly, Queued
<1> HIDE DEF r
<1>3. Queued(r) = {}  BY <1>1 DEF Queued
<1>4. Orderly(r)  BY <1>1, <1>3 DEF Orderly
<1> QED  BY <1>1, <1>2, <1>3, <1>4 DEF Drops, r

LEMMA CancelActionsDrops ==
  ASSUME NEW q \in Queues, Orderly(q), NEW asked \in BOOLEAN
  PROVE  Drops(q, CancelActions(q, asked), CancelledActions(q, asked))
<1> DEFINE gone == CancelledActions(q, asked)
           I == {i \in DOMAIN q.items : q.items[i].line \notin gone}
           s == Part(q.items, I)
           r == CancelActions(q, asked)
<1>1. q.items \in Seq(Items)  BY DEF Queues
<1>2. s \in Seq(Items) /\ \E m : Enumerates(s, m, q.items, I, Len(q.items))
  BY <1>1, PartEnumerates
<1>3. PICK m : Enumerates(s, m, q.items, I, Len(q.items))  BY <1>2
<1>4. r.items = s /\ r.active = (IF q.active \in gone THEN NoLine ELSE q.active) /\ r.seen = q.seen
      /\ r \in Queues
  BY <1>2 DEF CancelActions, Queues
<1> HIDE DEF s, r, gone
<1>5. DOMAIN s = 1..Len(s) /\ Len(s) \in Nat /\ DOMAIN q.items = 1..Len(q.items) /\ Len(q.items) \in Nat
  BY <1>1, <1>2
<1>6. \A j \in DOMAIN s : m[j] \in DOMAIN q.items /\ s[j] = q.items[m[j]] /\ s[j].line \notin gone
  BY <1>3, <1>5 DEF Enumerates
<1>7. \A i, j \in DOMAIN s : s[i].line = s[j].line => i = j
  <2> SUFFICES ASSUME NEW i \in DOMAIN s, NEW j \in DOMAIN s, s[i].line = s[j].line PROVE i = j
    OBVIOUS
  <2>1. m[i] = m[j] /\ m[i] \in Nat  BY <1>5, <1>6 DEF Orderly
  <2>2. ~(i < j) /\ ~(j < i)  BY <1>3, <1>5, <2>1 DEF Enumerates
  <2> QED  BY <1>5, <2>2
<1>8. Queued(r) = Queued(q) \ gone
  <2>1. \A l \in Queued(r) : l \in Queued(q) \ gone  BY <1>4, <1>6 DEF Queued
  <2>2. ASSUME NEW i \in DOMAIN q.items, q.items[i].line \notin gone
        PROVE  q.items[i].line \in Queued(r)
    <3>1. i \in I \cap (1..Len(q.items))  BY <1>5, <2>2
    <3>2. PICK j \in DOMAIN s : m[j] = i  BY <1>3, <1>5, <3>1 DEF Enumerates
    <3> QED  BY <1>4, <1>6, <3>2 DEF Queued
  <2>3. \A l \in Queued(q) \ gone : l \in Queued(r)  BY <2>2 DEF Queued
  <2> QED  BY <2>1, <2>3
<1>9. ASSUME r.active # NoLine PROVE s # <<>> /\ s[1] = q.items[1]
  <2>1. r.active = q.active /\ q.active \notin gone  BY <1>4, <1>9
  <2>2. 1 \in DOMAIN q.items /\ q.items[1].line = q.active  BY <1>5, <1>9, <2>1 DEF Orderly
  <2>3. 1 \in I \cap (1..Len(q.items))  BY <1>5, <2>1, <2>2
  <2>4. PICK j \in DOMAIN s : m[j] = 1  BY <1>3, <1>5, <2>3 DEF Enumerates
  <2>5. ~(1 < j)
    <3> SUFFICES ASSUME 1 < j PROVE FALSE  OBVIOUS
    <3>1. 1 \in DOMAIN s  BY <1>5, <2>4
    <3>2. m[1] < m[j] /\ m[1] \in 1..Len(q.items)  BY <1>3, <1>5, <1>6, <2>4, <3>1 DEF Enumerates
    <3> QED  BY <1>5, <2>4, <3>2
  <2>6. j = 1  BY <1>5, <2>4, <2>5
  <2> QED  BY <1>6, <2>4, <2>6
<1>10. Orderly(r)
  <2>1. q.active # NoLine => q.items # <<>> /\ q.items[1].line = q.active  BY DEF Orderly
  <2>2. r.active # NoLine => r.items # <<>> /\ r.items[1].line = r.active
    BY <1>4, <1>9, <2>1
  <2>3. Queued(r) \subseteq r.seen  BY <1>4, <1>8 DEF Orderly
  <2> QED  BY <1>4, <1>7, <2>2, <2>3 DEF Orderly
<1> QED  BY <1>4, <1>8, <1>9, <1>10 DEF Drops, gone, r

(* The first line is handed over.                                          *)
LEMMA DispatchMarks ==
  ASSUME NEW q \in Queues, Orderly(q), q.items # <<>>, q.active = NoLine
  PROVE  LET r == MarkDispatched(q)
         IN  /\ r \in Queues /\ Orderly(r) /\ r.active = q.items[1].line /\ r.seen = q.seen
             /\ Queued(r) = Queued(q) /\ r.active \in Queued(q) /\ r.items # <<>>
             /\ q.items[1].media => r.items[1].media
<1> DEFINE l == q.items[1].line
           o == WithStatus(q, l, "active")
           r == MarkDispatched(q)
<1>1. 1 \in DOMAIN q.items /\ q.items[1] \in Items  BY DEF Queues
<1>2. l \in Queued(q) /\ l \in LineIds  BY <1>1 DEF Queued, Items
<1>3. Grows(q, o)  BY <1>2, WithStatusGrows DEF Statuses
<1>4. o.seen = q.seen  BY DEF WithStatus, WithItem, Queues
<1>5. r = [o EXCEPT !.active = l]  BY DEF MarkDispatched
<1>6. o.items[1].line = l
  <2>1. o.items[1] = [ItemOf(q, l) EXCEPT !.status = "active"]
    BY <1>1 DEF WithStatus, WithItem, Queues
  <2> QED  BY <1>2, <2>1, ItemFound DEF Items
<1> HIDE DEF o, r, l
<1>7. r \in Queues /\ r.items = o.items /\ r.active = l /\ r.seen = q.seen
  BY <1>2, <1>3, <1>4, <1>5 DEF Grows, Queues
<1>8. Queued(r) = Queued(q)  BY <1>3, <1>4, <1>7 DEF Grows, Queued
<1>9. r.items # <<>> /\ (q.items[1].media => r.items[1].media)
  BY <1>3, <1>7 DEF Grows
<1>10. Orderly(r)  BY <1>3, <1>4, <1>6, <1>7, <1>8, <1>9 DEF Grows, Orderly
<1> QED  BY <1>2, <1>7, <1>8, <1>9, <1>10 DEF l, r

-------------------------------------------------------------------------------
(* Kinds of steps                                                          *)

(* The lane takes something up, without letting go of anything.            *)
Undisturbed ==
  /\ UNCHANGED <<toActors, toGlobal, actor, delivered, results, confirm, gen>>
  /\ Grows(queue, queue')
  /\ media' \in [Dialogue -> {"none", "preparing", "ready", "failed"}]
  /\ \A l \in Dialogue : media'[l] # "none" => media[l] # "none" \/ l \in Queued(queue)

QuietStep ==
  \/ PollEvent \/ PollEnd \/ (\E refused \in SUBSET Dialogue : Prefetch(refused))
  \/ PumpStops \/ PumpPrepares \/ PumpMediaReady
  \/ SubmitFollowUp \/ LoseFollowUp \/ HandlerEnds
  \/ SubmitTranscript \/ EnableAi \/ PlayerSpeechComplete \/ SubmitAutonomy
  \/ ProbeEnds \/ ContextTimesOut \/ RechatContext
  \/ \E l \in Dialogue, outcome \in {"ready", "failed"} : MediaSettles(l, outcome)

LEMMA ScriptLines ==
  ASSUME NEW t \in Turns
  PROVE  Script[t].lines \in Seq(Dialogue) /\ Script[t].commands \in Seq(Commands)
<1> DEFINE Responses == [lines : Seq(Dialogue), commands : Seq(Commands)]
<1>1. Script \in Seq(Responses)  BY ScriptAssumption
<1>2. t \in DOMAIN Script  BY DEF Turns
<1> HIDE DEF Responses
<1>3. Script[t] \in Responses  BY <1>1, <1>2
<1> QED  BY <1>3 DEF Responses

LEMMA QuietCases == Lane /\ TurnTypes /\ QuietStep => Undisturbed
<1> SUFFICES ASSUME Lane, TurnTypes, QuietStep PROVE Undisturbed  OBVIOUS
<1> USE DEF Lane, QueueInv, QueueTypes
<1>0. Grows(queue, queue)  BY GrowsItself
<1>1. ASSUME NEW l \in Dialogue, PollDialogue(l) PROVE Undisturbed
  <2>1. Grows(queue, queue')  BY <1>0, <1>1, StreamedGrows DEF PollDialogue
  <2> QED  BY <1>1, <2>1 DEF PollDialogue, Undisturbed, actorVars, actionVars
<1>2. ASSUME NEW l \in Dialogue, PollMedia(l) PROVE Undisturbed
  <2>1. Grows(queue, queue')  BY <1>0, <1>2, AttachMediaGrows DEF PollMedia
  <2> QED  BY <1>2, <2>1 DEF PollMedia, Undisturbed, actorVars, actionVars
<1>3. ASSUME NEW e \in SUBSET Dialogue, PollResponse(e) PROVE Undisturbed
  <2>1. turn.id \in Turns  BY <1>3 DEF PollResponse, Listening, TurnTypes, TurnStates
  <2>2. Grows(queue, queue')  BY <1>0, <1>3, <2>1, EnqueueGrows DEF PollResponse
  <2> QED  BY <1>3, <2>2 DEF PollResponse, Undisturbed, actorVars, actionVars
<1>4. ASSUME NEW c \in Commands, PollIntent(c) PROVE Undisturbed
  <2>1. Grows(queue, queue')
    BY <1>0, <1>4, WithStatusGrows DEF PollIntent, CanAttachAction, AttachAction, Statuses
  <2> QED  BY <1>4, <2>1 DEF PollIntent, Undisturbed, actorVars, actionVars
<1>5. CASE TransportFailure \/ (\E ok \in BOOLEAN : PollTerminal(ok)) \/ PollEnd \/ PumpStops
  BY <1>0, <1>5 DEF TransportFailure, PollTerminal, PollEnd, PumpStops, Undisturbed,
       laneVars, actorVars, actionVars
<1>6. ASSUME NEW refused \in SUBSET Dialogue, Prefetch(refused) PROVE Undisturbed
  <2>1. Prefetchable \subseteq Queued(queue)  BY DEF Prefetchable, Queued
  <2>2. Grows(queue, queue')  BY <1>0, <1>6, PreparedGrows DEF Prefetch, laneVars
  <2>3. /\ media' \in [Dialogue -> {"none", "preparing", "ready", "failed"}]
        /\ \A l \in Dialogue : media'[l] # "none" => media[l] # "none" \/ l \in Queued(queue)
    BY <1>6, <2>1 DEF Prefetch, laneVars
  <2> QED  BY <1>6, <2>2, <2>3 DEF Prefetch, Undisturbed, laneVars, actorVars, actionVars
<1>7. ASSUME PumpPrepares \/ PumpMediaReady PROVE Undisturbed
  <2>1. 1 \in DOMAIN queue.items
    BY <1>7 DEF PumpPrepares, PumpMediaReady, Pumping, Queues
  <2>2. First.line \in Queued(queue)  BY <2>1 DEF Queued, First
  <2>3. Grows(queue, queue')
    BY <1>7, <2>2, WithStatusGrows DEF PumpPrepares, PumpMediaReady, Statuses
  <2>4. /\ media' \in [Dialogue -> {"none", "preparing", "ready", "failed"}]
        /\ \A l \in Dialogue : media'[l] # "none" => media[l] # "none" \/ l \in Queued(queue)
    BY <1>7, <2>2 DEF PumpPrepares, PumpMediaReady
  <2> QED
    BY <1>7, <2>3, <2>4 DEF PumpPrepares, PumpMediaReady, Undisturbed, actorVars, actionVars
<1>8. CASE SubmitFollowUp \/ LoseFollowUp \/ SubmitTranscript \/ EnableAi
             \/ PlayerSpeechComplete \/ SubmitAutonomy \/ ProbeEnds \/ ContextTimesOut \/ RechatContext
  BY <1>0, <1>8 DEF SubmitFollowUp, LoseFollowUp, SubmitTranscript, EnableAi, PlayerSpeechComplete,
       SubmitAutonomy, ProbeEnds, ContextTimesOut, RechatContext, Undisturbed, laneVars, actorVars, actionVars
<1>9. CASE HandlerEnds
  BY <1>0, <1>9, ConsumeGrows DEF HandlerEnds, Undisturbed, actorVars, actionVars
<1>10. ASSUME NEW l \in Dialogue, NEW outcome \in {"ready", "failed"}, MediaSettles(l, outcome)
       PROVE  Undisturbed
  BY <1>0, <1>10 DEF MediaSettles, Undisturbed, actorVars, actionVars
<1> QED
  BY <1>1, <1>2, <1>3, <1>4, <1>5, <1>6, <1>7, <1>8, <1>9, <1>10 DEF QuietStep, PollEvent

(* What a handler of the lane does to a line: it leaves it where it is (or *)
(* takes it up), reports it itself, or hands it to an actor.               *)
LineMoves(extra, l) ==
  \/ /\ (Waits(l)' <=> Waits(l) \/ l \in queue'.seen \ queue.seen)
     /\ delivered'[l] = delivered[l] /\ ~Has(extra, l)
  \/ Waits(l) /\ ~Waits(l)' /\ delivered'[l] = delivered[l] + 1 /\ ~Has(extra, l)
  \/ Waits(l) /\ ~Waits(l)' /\ delivered'[l] = delivered[l] /\ Has(extra, l) /\ Once(extra, l)

CommandMoves(extra, c) ==
  \/ /\ Asked(c)' => Asked(c) \/ c \in queue'.seen \ queue.seen
     /\ results'[c] = results[c] /\ ~Has(extra, c)
  \/ Asked(c) /\ ~Asked(c)' /\ results'[c] = results[c] + 1 /\ ~Has(extra, c)
  \/ Asked(c) /\ ~Asked(c)' /\ results'[c] = results[c] /\ Has(extra, c) /\ Once(extra, c)
  \/ /\ Has(toGlobal, c) /\ ~Has(toGlobal', c) /\ ~Asked(c)'
     /\ results'[c] = results[c] + 1 /\ ~Has(extra, c)

StopsAll(extra) ==
  \A a \in Actors : \E i \in DOMAIN extra :
    extra[i].to = a /\ extra[i].msg \in {"STOP_SPEECH", "STOP", "DETACH"}

(* Nobody was told to speak line l, or all have reported it.               *)
Unvoiced(l) ==
  /\ ~Speaks(l)
  /\ \A i \in DOMAIN toActors : ~(Spoken(i) /\ toActors[i].line = l)

(* A step of the lane that tells nobody to speak keeps its active line, or *)
(* tells all to stop, or nobody was speaking that line.                    *)
VoiceMoves(extra) ==
  /\ \A i \in DOMAIN extra : extra[i].msg # "SPEAK"
  /\ queue'.active \notin Dialogue \/ queue'.active = queue.active
  /\ queue'.active = queue.active /\ queue.active # NoLine => (First.media => queue'.items[1].media)
  /\ \/ queue'.active = queue.active \/ queue.active \notin Dialogue
     \/ registry = Actors /\ Agents => StopsAll(extra)
     \/ Ledgers /\ Staying => Unvoiced(queue.active)

(* A step of the lane: it appends to what is on its way to the actors and  *)
(* takes at most one notice.                                               *)
LaneMoves(extra) ==
  /\ extra \in Seq(Messages) /\ toActors' = toActors \o extra
  /\ \A i \in DOMAIN extra : Lettered(extra[i])
  /\ gen' \in Nat /\ gen \leq gen' /\ actor' = actor
  /\ toGlobal' = toGlobal \/ (toGlobal # <<>> /\ toGlobal' = Tail(toGlobal))
  /\ queue.seen \subseteq queue'.seen
  /\ \A l \in Dialogue : LineMoves(extra, l)
  /\ \A c \in Commands : CommandMoves(extra, c)

-------------------------------------------------------------------------------
(* Signals to all actors                                                   *)

LEMMA Listed ==
  ASSUME NEW S, IsFiniteSet(S)
  PROVE  /\ SetToSeq(S) \in Seq(S)
         /\ \A x \in S : \E i \in DOMAIN SetToSeq(S) : SetToSeq(S)[i] = x
<1> DEFINE n == Cardinality(S)
           F == {f \in [1..n -> S] : IsInjective(f)}
           s == SetToSeq(S)
<1>1. n \in Nat /\ ExistsBijection(1..n, S)  BY FS_CardinalityType
<1>2. PICK g : g \in Bijection(1..n, S)  BY <1>1 DEF ExistsBijection
<1>3. g \in F  BY <1>2 DEF Bijection, Injection
<1>4. s = CHOOSE f \in [1..n -> S] : IsInjective(f)  BY DEF SetToSeq
<1> HIDE DEF s
<1>5. s \in [1..n -> S] /\ IsInjective(s)  BY <1>3, <1>4
<1>6. s \in Injection(1..n, S)  BY <1>5 DEF Injection
<1>7. Cardinality(1..n) = n  BY <1>1, FS_Interval
<1> HIDE DEF n
<1>8. s \in Surjection(1..n, S)  BY <1>6, <1>7, FS_Injection DEF n
<1>9. s \in Seq(S) /\ DOMAIN s = 1..n  BY <1>1, <1>5
<1> QED  BY <1>8, <1>9 DEF Surjection, s

LEMMA Signals ==
  ASSUME GroupTypes, gen \in Nat \ {0},
         NEW m \in {"STOP_SPEECH", "STOP", "HALT_ACTIONS"}
  PROVE  /\ SignalAll(m) \in Seq(Messages)
         /\ \A i \in DOMAIN SignalAll(m) :
              LET e == SignalAll(m)[i] IN e.msg = m /\ e.line = NoLine /\ e.gen = gen
         /\ registry = Actors /\ Agents => 
              \A a \in Actors : \E i \in DOMAIN SignalAll(m) : SignalAll(m)[i].to = a
<1> DEFINE S == attachments \cap registry
           s == SetToSeq(S)
           r == SignalAll(m)
<1>1. S \in SUBSET Actors /\ IsFiniteSet(S)
  BY FS_Subset, ScriptAssumption DEF GroupTypes
<1>2. s \in Seq(S) /\ \A x \in S : \E i \in DOMAIN s : s[i] = x  BY <1>1, Listed
<1>3. r = [i \in DOMAIN s |-> To(s[i], m, NoLine)]  BY DEF SignalAll
<1> HIDE DEF s, r
<1>4. \A i \in DOMAIN s : s[i] \in S  BY <1>2
<1> HIDE DEF S
<1>5. \A i \in DOMAIN s : r[i] \in Messages /\ r[i].to = s[i] /\ r[i].msg = m
                         /\ r[i].line = NoLine /\ r[i].gen = gen
  BY <1>1, <1>3, <1>4 DEF To, Messages
<1>6. DOMAIN s = 1..Len(s) /\ Len(s) \in Nat  BY <1>2
<1>7. r \in [1..Len(s) -> Messages]  BY <1>3, <1>5, <1>6
<1>8. r \in Seq(Messages) /\ DOMAIN r = DOMAIN s  BY <1>6, <1>7, IsSeq
<1>9. registry = Actors /\ Agents => S = Actors  BY DEF Agents, S
<1> QED  BY <1>2, <1>5, <1>8, <1>9 DEF r

LEMMA EmptyTail == \A S : \A s \in Seq(S) : <<>> \in Seq(S) /\ s \o <<>> = s
OBVIOUS

(* The active line is queued.                                              *)
LEMMA ActiveIsFirst ==
  ASSUME NEW q \in Queues, Orderly(q)
  PROVE  /\ q.items # <<>> => q.items[1].line \in Queued(q) /\ q.items[1] \in Items
         /\ q.active # NoLine => q.active \in Queued(q) /\ q.items # <<>> /\ q.items[1].line = q.active
<1>1. q.items # <<>> => 1 \in DOMAIN q.items /\ q.items[1] \in Items  BY DEF Queues
<1> QED  BY <1>1 DEF Orderly, Queued

LEMMA QuietMoves == Lane /\ Undisturbed => QueueInv' /\ LaneMoves(<<>>) /\ VoiceMoves(<<>>)
<1> SUFFICES ASSUME Lane, Undisturbed PROVE QueueInv' /\ LaneMoves(<<>>) /\ VoiceMoves(<<>>)  OBVIOUS
<1>1. queue' \in Queues /\ Orderly(queue') /\ queue'.active = queue.active
      /\ queue.seen \subseteq queue'.seen
      /\ Queued(queue') = Queued(queue) \cup (queue'.seen \ queue.seen)
      /\ (queue.items # <<>> => (First.media => queue'.items[1].media))
  BY DEF Undisturbed, Grows, First
<1>2. queue.active # NoLine => queue.active \in Queued(queue) /\ queue.items # <<>>
  BY ActiveIsFirst DEF Lane, QueueInv, QueueTypes
<1>3. Queued(queue) \subseteq queue.seen  BY DEF Lane, QueueInv, Orderly
<1>4. ASSUME NEW l \in LineIds
      PROVE  Waits(l)' <=> Waits(l) \/ l \in queue'.seen \ queue.seen
  <2>1. l # NoLine  BY LaneAssumption DEF LineIds
  <2> QED  BY <1>1, <1>2, <1>3, <2>1 DEF Waits
<1>5. ASSUME NEW c \in Commands
      PROVE  Asked(c)' => Asked(c) \/ c \in queue'.seen \ queue.seen
  BY <1>1, <1>2, <1>3 DEF Asked, Undisturbed
<1>6. QueueInv'
  <2>1. QueueTypes'  BY <1>1 DEF Undisturbed, Lane, QueueInv, QueueTypes
  <2>2. NoMediaLeft'  BY <1>1 DEF Undisturbed, Lane, QueueInv, NoMediaLeft
  <2>3. ConfirmationIsCurrent'  BY <1>1 DEF Undisturbed, Lane, QueueInv, ConfirmationIsCurrent
  <2> QED  BY <1>1, <2>1, <2>2, <2>3 DEF QueueInv
<1>7. LaneMoves(<<>>)
  <2>1. <<>> \in Seq(Messages) /\ toActors' = toActors \o <<>>
    BY EmptyTail DEF Undisturbed, Lane, Mail
  <2>2. gen' \in Nat /\ gen \leq gen' /\ actor' = actor /\ toGlobal' = toGlobal
    BY DEF Undisturbed, Lane, ActorTypes
  <2>3. \A l \in Dialogue : LineMoves(<<>>, l)
    BY <1>4, HasNone DEF LineMoves, Undisturbed, LineIds
  <2>4. \A c \in Commands : CommandMoves(<<>>, c)
    BY <1>5, HasNone DEF CommandMoves, Undisturbed
  <2> QED  BY <1>1, <2>1, <2>2, <2>3, <2>4 DEF LaneMoves
<1>8. VoiceMoves(<<>>)  BY <1>1, <1>2 DEF VoiceMoves
<1> QED  BY <1>6, <1>7, <1>8

-------------------------------------------------------------------------------
(* The steps that let go of lines                                          *)

LetGoes(extra) == QueueInv' /\ LaneMoves(extra) /\ VoiceMoves(extra)

(* An interruption.                                                        *)
Interrupts(signals) ==
  /\ CancelResponseLane(signals) /\ confirm' = {}
  /\ UNCHANGED <<actor, toGlobal>> /\ gen' \in {gen, gen + 1}

LEMMA InterruptsLetGo ==
  ASSUME Lane, NEW signals \in Seq(Messages), Interrupts(signals),
         registry = Actors /\ Agents => StopsAll(signals),
         \A i \in DOMAIN signals : /\ signals[i].msg \in {"STOP_SPEECH", "STOP"}
                                   /\ signals[i].line = NoLine /\ signals[i].gen = gen
  PROVE  LetGoes(signals)
<1> USE DEF Lane, QueueInv, QueueTypes
<1>1. /\ queue' \in Queues /\ Orderly(queue') /\ queue'.active = NoLine /\ queue'.items = <<>>
      /\ Queued(queue') = {} /\ queue'.seen = queue.seen
  BY CancelDrops DEF Interrupts, CancelResponseLane, Drops
<1>2. \A x \in LineIds : ~Has(signals, x)
  BY LaneAssumption DEF Has, LineIds
<1>3. QueueTypes'
  BY <1>1 DEF Interrupts, CancelResponseLane, ReportLines, Release
<1>4. NoMediaLeft'
  BY <1>1 DEF Interrupts, CancelResponseLane, Release, NoMediaLeft
<1>5. QueueInv'  BY <1>1, <1>3, <1>4 DEF Interrupts, ConfirmationIsCurrent
<1>6. ASSUME NEW l \in Dialogue PROVE LineMoves(signals, l)
  <2>1. ~Waits(l)' /\ ~Has(signals, l)  BY <1>1, <1>2 DEF Waits, LineIds
  <2>2. delivered'[l] = delivered[l] + (IF Waits(l) THEN 1 ELSE 0)
    BY DEF Interrupts, CancelResponseLane, ReportLines, Undelivered, Waits
  <2>3. delivered[l] \in Nat  OBVIOUS
  <2> QED  BY <1>1, <2>1, <2>2, <2>3 DEF LineMoves
<1>7. ASSUME NEW c \in Commands PROVE CommandMoves(signals, c)
  <2>1. ~Asked(c)' /\ ~Has(signals, c)  BY <1>1, <1>2 DEF Asked, LineIds
  <2> QED  BY <2>1 DEF CommandMoves, Interrupts, CancelResponseLane
<1>8. LaneMoves(signals)
  <2>1. gen' \in Nat /\ gen \leq gen'  BY DEF ActorTypes, Interrupts
  <2>2. \A i \in DOMAIN signals : Lettered(signals[i])  BY DEF Lettered, ActorTypes
  <2> QED  BY <1>1, <1>6, <1>7, <2>1, <2>2 DEF LaneMoves, Interrupts, CancelResponseLane
<1>9. VoiceMoves(signals)
  BY <1>1, LaneAssumption DEF VoiceMoves
<1> QED  BY <1>5, <1>8, <1>9 DEF LetGoes

LEMMA InterruptCases ==
  ASSUME Lane,
         SubmitTyped \/ InterruptOnly \/ Interrupt(SignalAll("STOP_SPEECH"))
           \/ Interrupt(StopSpeechAndWork) \/ DisableAi
  PROVE  \E extra : LetGoes(extra)
<1> DEFINE S == SignalAll("STOP_SPEECH")
           W == SignalAll("STOP")
           B == S \o W
<1>1. /\ S \in Seq(Messages) /\ W \in Seq(Messages)
      /\ \A i \in DOMAIN S : S[i].msg = "STOP_SPEECH" /\ S[i].line = NoLine /\ S[i].gen = gen
      /\ \A i \in DOMAIN W : W[i].msg = "STOP" /\ W[i].line = NoLine /\ W[i].gen = gen
      /\ registry = Actors /\ Agents => \A a \in Actors : \E i \in DOMAIN S : S[i].to = a
  BY Signals DEF Lane, ActorTypes
<1> HIDE DEF S, W
<1>2. registry = Actors /\ Agents => StopsAll(S)  BY <1>1 DEF StopsAll
<1>3. B \in Seq(Messages) /\ DOMAIN B = 1..(Len(S) + Len(W))
      /\ DOMAIN S = 1..Len(S) /\ DOMAIN W = 1..Len(W) /\ Len(S) \in Nat /\ Len(W) \in Nat
  BY <1>1
<1>4. \A i \in DOMAIN B : (i \in DOMAIN S /\ B[i] = S[i]) \/ (i - Len(S) \in DOMAIN W /\ B[i] = W[i - Len(S)])
  BY <1>1, <1>3
<1>5. \A i \in DOMAIN S : i \in DOMAIN B /\ B[i] = S[i]  BY <1>1, <1>3
<1> HIDE DEF B
<1>6. registry = Actors /\ Agents => StopsAll(B)  BY <1>2, <1>5 DEF StopsAll
<1>7. \A i \in DOMAIN B : B[i].msg \in {"STOP_SPEECH", "STOP"} /\ B[i].line = NoLine /\ B[i].gen = gen
  BY <1>1, <1>4
<1>8. Interrupts(S) \/ Interrupts(B)
  BY DEF SubmitTyped, InterruptOnly, InterruptForPlayerInput, Interrupt, DisableAi, ForgetActions,
         StopSpeechAndWork, Interrupts, CancelResponseLane, S, W, B
<1>9. CASE Interrupts(S)  BY <1>1, <1>2, <1>9, InterruptsLetGo
<1>10. CASE Interrupts(B)  BY <1>3, <1>6, <1>7, <1>10, InterruptsLetGo
<1> QED  BY <1>8, <1>9, <1>10

(* Lines leave the queue, and their clips with them.                       *)
LEMMA Leaves ==
  ASSUME Lane, NEW gone \in SUBSET LineIds, Drops(queue, queue', gone),
         media' = [l \in Dialogue |-> IF l \in gone THEN "none" ELSE media[l]]
  PROVE  /\ queue' \in Queues /\ Orderly(queue') /\ NoMediaLeft'
         /\ media' \in [Dialogue -> {"none", "preparing", "ready", "failed"}]
         /\ queue'.seen = queue.seen /\ queue'.active \in {queue.active, NoLine}
         /\ Queued(queue') = Queued(queue) \ gone
         /\ \A l \in LineIds : Waits(l)' <=> Waits(l) /\ l \notin gone
<1>1. /\ queue' \in Queues /\ Orderly(queue') /\ queue'.seen = queue.seen
      /\ Queued(queue') = Queued(queue) \ gone
      /\ queue'.active = IF queue.active \in gone THEN NoLine ELSE queue.active
  BY DEF Drops
<1>2. media \in [Dialogue -> {"none", "preparing", "ready", "failed"}] /\ NoMediaLeft
  BY DEF Lane, QueueInv, QueueTypes
<1>3. NoMediaLeft'  BY <1>1, <1>2 DEF NoMediaLeft
<1>4. ASSUME NEW l \in LineIds PROVE Waits(l)' <=> Waits(l) /\ l \notin gone
  <2>1. l # NoLine  BY LaneAssumption DEF LineIds
  <2> QED  BY <1>1, <2>1 DEF Waits
<1> QED  BY <1>1, <1>2, <1>3, <1>4

LEMMA NothingTold ==
  ASSUME Lane, toActors' = toActors, actor' = actor, gen' = gen,
         toGlobal' = toGlobal \/ (toGlobal # <<>> /\ toGlobal' = Tail(toGlobal)),
         queue.seen \subseteq queue'.seen,
         \A l \in Dialogue : LineMoves(<<>>, l), \A c \in Commands : CommandMoves(<<>>, c)
  PROVE  LaneMoves(<<>>)
<1>1. <<>> \in Seq(Messages) /\ toActors' = toActors \o <<>>  BY EmptyTail DEF Lane, Mail
<1>2. gen' \in Nat /\ gen \leq gen'  BY DEF Lane, ActorTypes
<1> QED  BY <1>1, <1>2 DEF LaneMoves

LEMMA OneTold ==
  ASSUME Lane, NEW e \in Messages, Lettered(e), toActors' = Append(toActors, e), actor' = actor,
         gen' = gen, toGlobal' = toGlobal, queue.seen \subseteq queue'.seen,
         \A l \in Dialogue : LineMoves(<<e>>, l), \A c \in Commands : CommandMoves(<<e>>, c)
  PROVE  LaneMoves(<<e>>)
<1>1. <<e>> \in Seq(Messages) /\ toActors' = toActors \o <<e>>  BY DEF Lane, Mail
<1>2. gen' \in Nat /\ gen \leq gen'  BY DEF Lane, ActorTypes
<1>3. \A i \in DOMAIN <<e>> : Lettered(<<e>>[i])  OBVIOUS
<1> QED  BY <1>1, <1>2, <1>3 DEF LaneMoves

LEMMA PumpGivesUpCase == ASSUME Lane, PumpGivesUp PROVE LetGoes(<<>>)
<1> USE DEF Lane, QueueInv, QueueTypes
<1> DEFINE d == First.line
<1>1. queue.items # <<>> /\ queue.active = NoLine /\ d \in Dialogue
  BY DEF PumpGivesUp, Pumping
<1>2. d \in Queued(queue)  BY <1>1, ActiveIsFirst DEF First
<1>3. Drops(queue, queue', {d}) /\ queue'.active = NoLine
  BY <1>1, HeadDrops DEF PumpGivesUp, GiveUpHead, First
<1>4. media' = [l \in Dialogue |-> IF l \in {d} THEN "none" ELSE media[l]]
      /\ delivered' = [l \in Dialogue |-> delivered[l] + (IF l \in {d} THEN 1 ELSE 0)]
      /\ UNCHANGED <<results, confirm, toActors, toGlobal, actor, gen>>
  BY DEF PumpGivesUp, GiveUpHead, Release, ReportLines, actionVars, actorVars
<1> HIDE DEF d
<1>5. {d} \in SUBSET LineIds  BY <1>1 DEF LineIds
<1>6. /\ queue' \in Queues /\ Orderly(queue') /\ NoMediaLeft'
      /\ media' \in [Dialogue -> {"none", "preparing", "ready", "failed"}]
      /\ queue'.seen = queue.seen /\ Queued(queue') = Queued(queue) \ {d}
      /\ \A l \in LineIds : Waits(l)' <=> Waits(l) /\ l # d
  BY <1>3, <1>4, <1>5, Leaves
<1>7. QueueInv'
  BY <1>1, <1>3, <1>4, <1>6 DEF ConfirmationIsCurrent
<1>8. ASSUME NEW l \in Dialogue PROVE LineMoves(<<>>, l)
  <2>1. delivered'[l] = delivered[l] + (IF l = d THEN 1 ELSE 0) /\ delivered[l] \in Nat
    BY <1>4
  <2>2. (Waits(l)' <=> Waits(l) /\ l # d) /\ (l = d => Waits(l))
    BY <1>1, <1>2, <1>6, LaneAssumption DEF LineIds, Waits
  <2> QED  BY <1>6, <2>1, <2>2, HasNone DEF LineMoves
<1>9. ASSUME NEW c \in Commands PROVE CommandMoves(<<>>, c)
  <2>1. Asked(c)' => Asked(c)  BY <1>1, <1>6, LaneAssumption DEF Asked
  <2> QED  BY <1>4, <2>1, HasNone DEF CommandMoves
<1>10. LaneMoves(<<>>)  BY <1>4, <1>6, <1>8, <1>9, NothingTold
<1>11. VoiceMoves(<<>>)  BY <1>1, <1>3 DEF VoiceMoves
<1> QED  BY <1>7, <1>10, <1>11 DEF LetGoes

(* The head of the lane is handed to its actor, or put before the player.  *)
LEMMA HandedOver ==
  ASSUME Lane, Pumping, queue' = MarkDispatched(queue)
  PROVE  /\ queue' \in Queues /\ Orderly(queue') /\ queue.active = NoLine
         /\ queue'.active = First.line /\ First.line \in Queued(queue) /\ First.line \in LineIds
         /\ queue'.seen = queue.seen /\ Queued(queue') = Queued(queue)
         /\ queue'.items # <<>> /\ (First.media => queue'.items[1].media)
         /\ confirm = {}
         /\ \A l \in LineIds : Waits(l)' <=> Waits(l) /\ l # First.line
         /\ \A l \in LineIds : Waits(l) <=> l \in Queued(queue)
<1> USE DEF Lane, QueueInv, QueueTypes
<1>1. queue.items # <<>> /\ queue.active = NoLine  BY DEF Pumping
<1>2. First.line \in Queued(queue) /\ First \in Items  BY <1>1, ActiveIsFirst DEF First
<1>3. First.line \in LineIds  BY <1>2 DEF Items
<1>4. /\ queue' \in Queues /\ Orderly(queue') /\ queue'.active = First.line
      /\ queue'.seen = queue.seen /\ Queued(queue') = Queued(queue)
      /\ queue'.items # <<>> /\ (First.media => queue'.items[1].media)
  BY <1>1, DispatchMarks DEF First
<1>5. confirm = {}  BY <1>1, LaneAssumption DEF ConfirmationIsCurrent
<1>6. ASSUME NEW l \in LineIds
      PROVE  (Waits(l) <=> l \in Queued(queue)) /\ (Waits(l)' <=> Waits(l) /\ l # First.line)
  <2>1. l # NoLine  BY LaneAssumption DEF LineIds
  <2> QED  BY <1>1, <1>4, <2>1 DEF Waits
<1> QED  BY <1>1, <1>2, <1>3, <1>4, <1>5, <1>6

LEMMA PumpSpeaksCase ==
  ASSUME Lane, PumpSpeaks
  PROVE  QueueInv' /\ \E e \in Messages :
           /\ LaneMoves(<<e>>) /\ toActors' = Append(toActors, e) /\ queue.active = NoLine
           /\ e.msg \in {"SPEAK", "SUBTITLE"} /\ e.line = queue'.active
           /\ e.msg = "SPEAK" => queue'.items[1].media
<1> USE DEF Lane, QueueInv, QueueTypes
<1> DEFINE d == First.line
           m == IF First.media THEN "SPEAK" ELSE "SUBTITLE"
           e == To(Speaker[d], m, d)
<1>1. Pumping /\ queue' = MarkDispatched(queue) /\ d \in Dialogue /\ Speaker[d] \in registry
      /\ UNCHANGED <<media, delivered, results, confirm, actor, toGlobal, gen>>
      /\ toActors' = Append(toActors, e)
  BY DEF PumpSpeaks, actionVars
<1>2. m \in {"SPEAK", "SUBTITLE"} /\ (m = "SPEAK" => First.media)  OBVIOUS
<1> HIDE DEF m
<1>3. e.msg = m /\ e.line = d /\ e.gen = gen /\ e \in Messages
  BY <1>1, <1>2 DEF To, Messages, GroupTypes, ActorTypes, LineIds
<1>4. Lettered(e)  BY <1>1, <1>2, <1>3 DEF Lettered, ActorTypes
<1> HIDE DEF e, d
<1>5. /\ queue' \in Queues /\ Orderly(queue') /\ queue'.active = d /\ queue.active = NoLine
      /\ queue'.seen = queue.seen /\ Queued(queue') = Queued(queue) /\ d \in Queued(queue)
      /\ queue'.items # <<>> /\ (First.media => queue'.items[1].media) /\ confirm = {}
      /\ \A l \in LineIds : Waits(l)' <=> Waits(l) /\ l # d
      /\ \A l \in LineIds : Waits(l) <=> l \in Queued(queue)
  BY <1>1, HandedOver DEF d
<1>6. QueueInv'
  BY <1>1, <1>5 DEF ConfirmationIsCurrent, NoMediaLeft
<1>7. ASSUME NEW l \in Dialogue PROVE LineMoves(<<e>>, l)
  BY <1>1, <1>3, <1>5, HasOne DEF LineMoves, LineIds
<1>8. ASSUME NEW c \in Commands PROVE CommandMoves(<<e>>, c)
  <2>1. Asked(c)' => Asked(c)  BY <1>1, <1>5, LaneAssumption DEF Asked
  <2>2. c # d  BY <1>1, LaneAssumption
  <2> QED  BY <1>1, <1>3, <2>1, <2>2, HasOne DEF CommandMoves
<1>9. LaneMoves(<<e>>)  BY <1>1, <1>3, <1>4, <1>5, <1>7, <1>8, OneTold
<1> QED  BY <1>1, <1>2, <1>3, <1>5, <1>6, <1>9

LEMMA PumpAsksCase == ASSUME Lane, PumpAsks PROVE LetGoes(<<>>)
<1> USE DEF Lane, QueueInv, QueueTypes
<1> DEFINE d == First.line
<1>1. Pumping /\ queue' = MarkDispatched(queue) /\ d \in Commands /\ confirm' = confirm \cup {d}
      /\ UNCHANGED <<media, delivered, results, actor, toActors, toGlobal, gen>>
  BY DEF PumpAsks, actorVars
<1> HIDE DEF d
<1>2. /\ queue' \in Queues /\ Orderly(queue') /\ queue'.active = d /\ queue.active = NoLine
      /\ queue'.seen = queue.seen /\ Queued(queue') = Queued(queue) /\ d \in Queued(queue)
      /\ confirm = {}
      /\ \A l \in LineIds : Waits(l)' <=> Waits(l) /\ l # d
  BY <1>1, HandedOver DEF d
<1>3. QueueInv'
  BY <1>1, <1>2 DEF ConfirmationIsCurrent, NoMediaLeft
<1>4. ASSUME NEW l \in Dialogue PROVE LineMoves(<<>>, l)
  <2>1. l # d  BY <1>1, LaneAssumption
  <2> QED  BY <1>1, <1>2, <2>1, HasNone DEF LineMoves, LineIds
<1>5. ASSUME NEW c \in Commands PROVE CommandMoves(<<>>, c)
  <2>1. Asked(c)' => Asked(c)  BY <1>2, LaneAssumption DEF Asked
  <2> QED  BY <1>1, <2>1, HasNone DEF CommandMoves
<1>6. LaneMoves(<<>>)  BY <1>1, <1>2, <1>4, <1>5, NothingTold
<1>7. VoiceMoves(<<>>)  BY <1>1, <1>2, LaneAssumption DEF VoiceMoves
<1> QED  BY <1>3, <1>6, <1>7 DEF LetGoes

(* A command leaves the lane or is answered; its speaker may be gone.      *)
LEMMA PumpActsCase == ASSUME Lane, PumpActs PROVE \E extra : LetGoes(extra)
<1> USE DEF Lane, QueueInv, QueueTypes
<1> DEFINE d == First.line
<1>1. Pumping /\ d \in Commands /\ UNCHANGED <<media, delivered, confirm, actor, toGlobal, gen>>
  BY DEF PumpActs, actionVars
<1>2. d \notin Dialogue /\ d # NoLine /\ d \in LineIds  BY <1>1, LaneAssumption DEF LineIds
<1>3. CASE Speaker[d] \in registry
  <2> DEFINE e == To(Speaker[d], "ACTION", d)
  <2>1. queue' = MarkDispatched(queue) /\ results' = results /\ toActors' = Append(toActors, e)
    BY <1>3 DEF PumpActs
  <2>2. e.msg = "ACTION" /\ e.line = d /\ e.gen = gen /\ e \in Messages
    BY <1>2, <1>3 DEF To, Messages, GroupTypes, ActorTypes
  <2>3. Lettered(e)  BY <1>1, <2>2 DEF Lettered, ActorTypes
  <2> HIDE DEF e, d
  <2>4. /\ queue' \in Queues /\ Orderly(queue') /\ queue'.active = d /\ queue.active = NoLine
        /\ queue'.seen = queue.seen /\ Queued(queue') = Queued(queue) /\ d \in Queued(queue)
        /\ confirm = {}
        /\ \A l \in LineIds : Waits(l)' <=> Waits(l) /\ l # d
    BY <1>1, <2>1, HandedOver DEF d
  <2>5. QueueInv'  BY <1>1, <2>1, <2>4 DEF ConfirmationIsCurrent, NoMediaLeft
  <2>6. ASSUME NEW l \in Dialogue PROVE LineMoves(<<e>>, l)
    BY <1>1, <1>2, <2>2, <2>4, HasOne DEF LineMoves, LineIds
  <2>7. ASSUME NEW c \in Commands PROVE CommandMoves(<<e>>, c)
    <3>1. Asked(c)' <=> Asked(c) /\ c # d  BY <1>1, <2>4, LaneAssumption DEF Asked
    <3>2. c = d => Asked(c)  BY <2>4, <1>2 DEF Asked
    <3> QED  BY <2>1, <2>2, <3>1, <3>2, HasOne DEF CommandMoves
  <2>8. LaneMoves(<<e>>)  BY <1>1, <2>1, <2>2, <2>3, <2>4, <2>6, <2>7, OneTold
  <2>9. VoiceMoves(<<e>>)  BY <1>2, <2>2, <2>4, LaneAssumption DEF VoiceMoves
  <2> QED  BY <2>5, <2>8, <2>9 DEF LetGoes
<1>4. CASE Speaker[d] \notin registry
  <2>1. /\ queue' = FailHead(queue) /\ toActors' = toActors
        /\ results' = [c \in Commands |-> results[c] + (IF c \in {d} THEN 1 ELSE 0)]
    BY <1>4 DEF PumpActs, ReportActions
  <2> HIDE DEF d
  <2>2. Drops(queue, queue', {d}) /\ queue'.active = NoLine /\ queue.active = NoLine /\ d \in Queued(queue)
    BY <1>1, <2>1, HeadDrops, ActiveIsFirst DEF Pumping, d, First
  <2>3. media' = [l \in Dialogue |-> IF l \in {d} THEN "none" ELSE media[l]]
    BY <1>1, <1>2
  <2>4. /\ queue' \in Queues /\ Orderly(queue') /\ NoMediaLeft'
        /\ queue'.seen = queue.seen /\ Queued(queue') = Queued(queue) \ {d}
        /\ \A l \in LineIds : Waits(l)' <=> Waits(l) /\ l # d
    BY <1>2, <2>2, <2>3, Leaves
  <2>5. QueueInv'  BY <1>1, <2>1, <2>2, <2>4 DEF ConfirmationIsCurrent
  <2>6. ASSUME NEW l \in Dialogue PROVE LineMoves(<<>>, l)
    BY <1>1, <1>2, <2>4, HasNone DEF LineMoves, LineIds
  <2>7. ASSUME NEW c \in Commands PROVE CommandMoves(<<>>, c)
    <3>1. (Asked(c)' => Asked(c) /\ c # d) /\ (c = d => Asked(c))
      BY <1>1, <1>2, <2>2, <2>4, LaneAssumption DEF Asked
    <3> QED  BY <2>1, <3>1, HasNone DEF CommandMoves
  <2>8. LaneMoves(<<>>)  BY <1>1, <2>1, <2>4, <2>6, <2>7, NothingTold
  <2>9. VoiceMoves(<<>>)  BY <2>2 DEF VoiceMoves
  <2> QED  BY <2>5, <2>8, <2>9 DEF LetGoes
<1> QED  BY <1>3, <1>4

LEMMA ConfirmCase ==
  ASSUME Lane, NEW k \in Commands, NEW approved \in BOOLEAN, ConfirmAction(k, approved)
  PROVE  \E extra : LetGoes(extra)
<1> USE DEF Lane, QueueInv, QueueTypes
<1>1. /\ k \in confirm /\ confirm' = confirm \ {k}
      /\ UNCHANGED <<media, delivered, actor, toGlobal, gen>>
  BY DEF ConfirmAction
<1>2. k \notin Dialogue /\ k # NoLine /\ k \in LineIds /\ queue.active = k /\ confirm' = {}
  BY <1>1, LaneAssumption DEF LineIds, ConfirmationIsCurrent
<1>3. k \in Queued(queue) /\ queue.items # <<>> /\ First.line = k
  BY <1>2, ActiveIsFirst DEF First
<1>4. CASE Speaker[k] \in registry
  <2> DEFINE m == IF approved THEN "ACTION" ELSE "REJECT"
             e == To(Speaker[k], m, k)
  <2>1. queue' = queue /\ results' = results /\ toActors' = Append(toActors, e)
    BY <1>4 DEF ConfirmAction
  <2>2. m \in {"ACTION", "REJECT"}  OBVIOUS
  <2> HIDE DEF m
  <2>3. e.msg = m /\ e.line = k /\ e.gen = gen /\ e \in Messages
    BY <1>2, <1>4, <2>2 DEF To, Messages, GroupTypes, ActorTypes
  <2>4. Lettered(e)  BY <2>2, <2>3 DEF Lettered, ActorTypes
  <2> HIDE DEF e
  <2>5. QueueInv'  BY <1>1, <1>2, <2>1 DEF ConfirmationIsCurrent, NoMediaLeft
  <2>6. ASSUME NEW l \in Dialogue PROVE LineMoves(<<e>>, l)
    <3>1. Waits(l)' <=> Waits(l)  BY <2>1 DEF Waits
    <3> QED  BY <1>1, <1>2, <2>1, <2>3, <3>1, HasOne DEF LineMoves
  <2>7. ASSUME NEW c \in Commands PROVE CommandMoves(<<e>>, c)
    <3>1. (Asked(c)' => Asked(c) /\ c # k) /\ (c = k => Asked(c))
      BY <1>1, <1>2, <1>3, <2>1 DEF Asked
    <3> QED  BY <2>1, <2>3, <3>1, HasOne DEF CommandMoves
  <2>8. LaneMoves(<<e>>)  BY <1>1, <2>1, <2>3, <2>4, <2>6, <2>7, OneTold
  <2>9. VoiceMoves(<<e>>)  BY <1>2, <2>1, <2>2, <2>3 DEF VoiceMoves, First
  <2> QED  BY <2>5, <2>8, <2>9 DEF LetGoes
<1>5. CASE Speaker[k] \notin registry
  <2>1. /\ queue' = FailHead(queue) /\ toActors' = toActors
        /\ results' = [c \in Commands |-> results[c] + (IF c \in {k} THEN 1 ELSE 0)]
    BY <1>3, <1>5 DEF ConfirmAction, ReportActions
  <2>2. Drops(queue, queue', {k}) /\ queue'.active = NoLine
    BY <1>3, <2>1, HeadDrops DEF First
  <2>3. media' = [l \in Dialogue |-> IF l \in {k} THEN "none" ELSE media[l]]
    BY <1>1, <1>2
  <2>4. /\ queue' \in Queues /\ Orderly(queue') /\ NoMediaLeft'
        /\ queue'.seen = queue.seen /\ Queued(queue') = Queued(queue) \ {k}
        /\ \A l \in LineIds : Waits(l)' <=> Waits(l) /\ l # k
    BY <1>2, <2>2, <2>3, Leaves
  <2>5. QueueInv'  BY <1>1, <1>2, <2>1, <2>4 DEF ConfirmationIsCurrent
  <2>6. ASSUME NEW l \in Dialogue PROVE LineMoves(<<>>, l)
    BY <1>1, <1>2, <2>4, HasNone DEF LineMoves, LineIds
  <2>7. ASSUME NEW c \in Commands PROVE CommandMoves(<<>>, c)
    <3>1. (Asked(c)' => Asked(c) /\ c # k) /\ (c = k => Asked(c))
      BY <1>1, <1>2, <1>3, <2>2, <2>4, LaneAssumption DEF Asked
    <3> QED  BY <2>1, <3>1, HasNone DEF CommandMoves
  <2>8. LaneMoves(<<>>)  BY <1>1, <2>1, <2>4, <2>6, <2>7, NothingTold
  <2>9. VoiceMoves(<<>>)  BY <1>2, <2>2, LaneAssumption DEF VoiceMoves
  <2> QED  BY <2>5, <2>8, <2>9 DEF LetGoes
<1> QED  BY <1>4, <1>5

(* The commands that nobody has begun are dropped, and one that waits for  *)
(* the player's answer with them.                                          *)
LEMMA HaltCase == ASSUME Lane, HaltActions PROVE \E extra : LetGoes(extra)
<1> USE DEF Lane, QueueInv, QueueTypes
<1> DEFINE asked == queue.active \in confirm
           gone == CancelledActions(queue, asked)
           told == {c \in gone : ItemOf(queue, c).status # "queued"}
           S == SignalAll("HALT_ACTIONS")
<1>1. /\ queue' = CancelActions(queue, asked) /\ confirm' = {} /\ toActors' = toActors \o S
      /\ results' = [c \in Commands |-> results[c] + (IF c \in told THEN 1 ELSE 0)]
      /\ UNCHANGED <<media, delivered, actor, toGlobal, gen>>
  BY DEF HaltActions, ReportActions
<1>2. S \in Seq(Messages)
      /\ \A i \in DOMAIN S : S[i].msg = "HALT_ACTIONS" /\ S[i].line = NoLine /\ S[i].gen = gen
  BY Signals DEF ActorTypes
<1>3. asked \in BOOLEAN /\ told \subseteq gone  OBVIOUS
<1>4. gone \subseteq Commands /\ \A c \in gone : c \notin Dialogue
  BY LaneAssumption DEF CancelledActions
<1>5. \A c \in Commands : c \in gone <=> c \in Queued(queue) /\ (asked \/ c # queue.active)
  BY DEF CancelledActions
<1>6. Drops(queue, queue', gone)  BY <1>1, <1>3, CancelActionsDrops
<1> HIDE DEF S, asked, told, gone
<1>7. gone \in SUBSET LineIds  BY <1>4 DEF LineIds
<1>8. media' = [l \in Dialogue |-> IF l \in gone THEN "none" ELSE media[l]]  BY <1>1, <1>4
<1>9. /\ queue' \in Queues /\ Orderly(queue') /\ NoMediaLeft'
      /\ queue'.seen = queue.seen /\ Queued(queue') = Queued(queue) \ gone
      /\ \A l \in LineIds : Waits(l)' <=> Waits(l) /\ l \notin gone
  BY <1>6, <1>7, <1>8, Leaves
<1>10. queue'.active = (IF queue.active \in gone THEN NoLine ELSE queue.active)
       /\ (queue'.active # NoLine => queue'.items[1] = queue.items[1])
  BY <1>6 DEF Drops
<1>11. QueueInv'
  <2>1. results' \in [Commands -> Nat]  BY <1>1
  <2> QED  BY <1>1, <1>9, <2>1 DEF ConfirmationIsCurrent
<1>12. \A x \in LineIds : ~Has(S, x)  BY <1>2, LaneAssumption DEF Has, LineIds
<1>13. ASSUME NEW l \in Dialogue PROVE LineMoves(S, l)
  BY <1>1, <1>4, <1>9, <1>12 DEF LineMoves, LineIds
<1>14. ASSUME NEW c \in Commands PROVE CommandMoves(S, c)
  <2>1. ~Has(S, c)  BY <1>12 DEF LineIds
  <2>2. ~Asked(c)'  BY <1>1, <1>5, <1>9, <1>10 DEF Asked
  <2>3. c \in told => Asked(c)
    <3>1. c \in told => c \in Queued(queue) /\ (asked \/ c # queue.active)  BY <1>3, <1>5
    <3> QED  BY <3>1 DEF Asked, asked
  <2> QED  BY <1>1, <2>1, <2>2, <2>3 DEF CommandMoves
<1>15. LaneMoves(S)
  <2>1. gen' \in Nat /\ gen \leq gen'  BY <1>1 DEF ActorTypes
  <2>2. \A i \in DOMAIN S : Lettered(S[i])  BY <1>2 DEF Lettered, ActorTypes
  <2> QED  BY <1>1, <1>2, <1>9, <1>13, <1>14, <2>1, <2>2 DEF LaneMoves
<1>16. VoiceMoves(S)
  <2>1. queue'.active = queue.active \/ (queue'.active = NoLine /\ queue.active \notin Dialogue)
    BY <1>4, <1>10
  <2> QED  BY <1>2, <1>10, <2>1, LaneAssumption DEF VoiceMoves, First
<1> QED  BY <1>11, <1>15, <1>16 DEF LetGoes

(* A status arrives for the line that is active: nobody speaks it, for the *)
(* speaker reported it before it sent the status.                          *)
LEMMA SilentAfterStatus ==
  ASSUME Lane, Ledgers, Staying, toGlobal # <<>>, Notice.msg = "speech",
         DialogueActive(queue, Notice.line)
  PROVE  Unvoiced(queue.active)
<1> USE DEF Lane, QueueInv, QueueTypes
<1> DEFINE d == queue.active
<1>1. d \in Dialogue /\ (ItemOf(queue, d).media => d = Notice.line)  BY DEF DialogueActive
<1>2. d # NoLine  BY <1>1, LaneAssumption
<1>3. d \in Queued(queue) /\ queue.items # <<>> /\ First.line = d  BY <1>2, ActiveIsFirst DEF First
<1>4. 1 \in DOMAIN queue.items /\ First = ItemOf(queue, d)
  <2>1. 1 \in DOMAIN queue.items  BY <1>3 DEF Queues
  <2> QED  BY <1>3, <2>1, ItemFound DEF First
<1>5. CASE First.media
  <2>1. d = Notice.line  BY <1>1, <1>4, <1>5
  <2>2. 1 \in DOMAIN toGlobal  BY DEF Mail
  <2>3. delivered[d] = 1  BY <2>1, <2>2 DEF Ledgers, StatusAfterResult, Notice
  <2>4. ~Has(toActors, d) /\ ~Speaks(d)  BY <1>1, <2>3 DEF Ledgers, LineOnce
  <2> QED  BY <2>4 DEF Unvoiced, Has
<1>6. CASE ~First.media
  BY <1>1, <1>6, LaneAssumption DEF Staying, Voices, Unvoiced, Speaks
<1> QED  BY <1>5, <1>6

LEMMA SpeechStatusCase == ASSUME Lane, Ledgers, SpeechStatus PROVE LetGoes(<<>>)
<1> USE DEF Lane, QueueInv, QueueTypes
<1> DEFINE d == queue.active
           done == Completed(queue, Notice.status)
<1>1. /\ toGlobal # <<>> /\ Notice.msg = "speech" /\ DialogueActive(queue, Notice.line)
      /\ toGlobal' = Tail(toGlobal)
      /\ UNCHANGED <<results, confirm, actor, toActors, gen>>
  BY DEF SpeechStatus, actionVars
<1>2. d \in Dialogue /\ d # NoLine /\ d \in LineIds
  BY <1>1, LaneAssumption DEF DialogueActive, LineIds
<1>3. d \in Queued(queue) /\ queue.items # <<>> /\ queue.items[1].line = d
  BY <1>2, ActiveIsFirst
<1>4. /\ Drops(queue, done, {d}) /\ done.active = NoLine
      /\ Drops(queue, ConsumeRechat(done), {d}) /\ ConsumeRechat(done).active = NoLine
  BY <1>2, <1>3, HeadDrops
<1>5. confirm = {}  BY <1>2, LaneAssumption DEF ConfirmationIsCurrent
<1>6. Staying /\ Ledgers => Unvoiced(queue.active)  BY <1>1, SilentAfterStatus
<1>7. CASE Abandons(Notice.status)
  <2>1. /\ queue' = Cancel(ConsumeRechat(done))
        /\ delivered' = [l \in Dialogue |-> delivered[l] + (IF l \in Undelivered(done) THEN 1 ELSE 0)]
        /\ media' = [l \in Dialogue |-> IF l \in Queued(queue) THEN "none" ELSE media[l]]
    BY <1>7 DEF SpeechStatus, ReportLines, Release
  <2>2. ConsumeRechat(done) \in Queues /\ Orderly(ConsumeRechat(done))
        /\ ConsumeRechat(done).seen = queue.seen /\ Queued(done) = Queued(queue) \ {d}
    BY <1>4 DEF Drops
  <2>3. /\ queue' \in Queues /\ Orderly(queue') /\ queue'.active = NoLine /\ queue'.items = <<>>
        /\ Queued(queue') = {} /\ queue'.seen = queue.seen
    BY <2>1, <2>2, CancelDrops DEF Drops
  <2> HIDE DEF done
  <2>4. QueueInv'
    <3>1. delivered' \in [Dialogue -> Nat] /\ media' \in [Dialogue -> {"none", "preparing", "ready", "failed"}]
      BY <2>1
    <3>2. NoMediaLeft'  BY <2>1, <2>3 DEF NoMediaLeft
    <3> QED  BY <1>1, <1>5, <2>3, <3>1, <3>2 DEF ConfirmationIsCurrent
  <2>5. ASSUME NEW l \in Dialogue PROVE LineMoves(<<>>, l)
    <3>1. ~Waits(l)' /\ delivered[l] \in Nat  BY <2>3 DEF Waits
    <3>2. l \in Undelivered(done) <=> Waits(l)
      BY <1>4, <2>2, LaneAssumption DEF Undelivered, Waits
    <3> QED  BY <2>1, <2>3, <3>1, <3>2, HasNone DEF LineMoves
  <2>6. ASSUME NEW c \in Commands PROVE CommandMoves(<<>>, c)
    <3>1. ~Asked(c)'  BY <2>3 DEF Asked
    <3> QED  BY <1>1, <3>1, HasNone DEF CommandMoves
  <2>7. LaneMoves(<<>>)  BY <1>1, <2>3, <2>5, <2>6, NothingTold
  <2>8. VoiceMoves(<<>>)  BY <1>6, <2>3, LaneAssumption DEF VoiceMoves
  <2> QED  BY <2>4, <2>7, <2>8 DEF LetGoes
<1>8. CASE ~Abandons(Notice.status)
  <2>1. /\ queue' = ConsumeRechat(done) /\ delivered' = delivered
        /\ media' = [l \in Dialogue |-> IF l \in {d} THEN "none" ELSE media[l]]
    BY <1>8 DEF SpeechStatus, Release
  <2>2. Drops(queue, queue', {d}) /\ queue'.active = NoLine  BY <1>4, <2>1
  <2> HIDE DEF done
  <2>3. /\ queue' \in Queues /\ Orderly(queue') /\ NoMediaLeft'
        /\ media' \in [Dialogue -> {"none", "preparing", "ready", "failed"}]
        /\ queue'.seen = queue.seen /\ Queued(queue') = Queued(queue) \ {d}
        /\ \A l \in LineIds : Waits(l)' <=> Waits(l) /\ l # d
    BY <1>2, <2>1, <2>2, Leaves
  <2>4. QueueInv'  BY <1>1, <1>5, <2>1, <2>3 DEF ConfirmationIsCurrent
  <2>5. ASSUME NEW l \in Dialogue PROVE LineMoves(<<>>, l)
    <3>1. Waits(l)' <=> Waits(l)  BY <2>3 DEF Waits, LineIds
    <3> QED  BY <2>1, <2>3, <3>1, HasNone DEF LineMoves
  <2>6. ASSUME NEW c \in Commands PROVE CommandMoves(<<>>, c)
    <3>1. Asked(c)' => Asked(c)  BY <1>2, <1>5, <2>3, LaneAssumption DEF Asked
    <3> QED  BY <1>1, <3>1, HasNone DEF CommandMoves
  <2>7. LaneMoves(<<>>)  BY <1>1, <2>3, <2>5, <2>6, NothingTold
  <2>8. VoiceMoves(<<>>)  BY <1>6, <2>2, LaneAssumption DEF VoiceMoves
  <2> QED  BY <2>4, <2>7, <2>8 DEF LetGoes
<1> QED  BY <1>7, <1>8

LEMMA NoticeTaken ==
  ASSUME Lane, toGlobal # <<>>, toGlobal' = Tail(toGlobal)
  PROVE  /\ Notice \in Notices /\ Noticed(Notice)
         /\ \A x : Has(toGlobal, x) <=> Notice.line = x \/ Has(toGlobal', x)
         /\ \A x : Once(toGlobal, x) => Once(toGlobal', x) /\ ~(Notice.line = x /\ Has(toGlobal', x))
<1>1. toGlobal \in Seq(Notices) /\ 1 \in DOMAIN toGlobal  BY DEF Lane, Mail
<1>2. Notice \in Notices /\ Noticed(Notice)  BY <1>1 DEF Lane, Mail, Notice
<1>3. \A x : Has(toGlobal, x) <=> Notice.line = x \/ Has(toGlobal', x)
  BY <1>1, HasTail DEF Notice
<1>4. \A x : Once(toGlobal, x) => Once(toGlobal', x) /\ ~(Notice.line = x /\ Has(toGlobal', x))
  BY <1>1, HasTail DEF Notice
<1> QED  BY <1>2, <1>3, <1>4

LEMMA ActionResultCase == ASSUME Lane, Ledgers, ActionResult PROVE LetGoes(<<>>)
<1> USE DEF Lane, QueueInv, QueueTypes
<1>0. PICK k : k = Notice.line  OBVIOUS
<1>1. /\ toGlobal # <<>> /\ Notice.msg = "result" /\ toGlobal' = Tail(toGlobal)
      /\ confirm' = confirm \ {k}
      /\ results' = [c \in Commands |-> results[c] + (IF c \in {k} THEN 1 ELSE 0)]
      /\ UNCHANGED <<media, delivered, actor, toActors, gen>>
  BY <1>0 DEF ActionResult, ReportActions
<1>2. k \in Commands /\ Has(toGlobal, k)  BY <1>0, <1>1, NoticeTaken DEF Noticed
<1>3. k \notin Dialogue /\ k # NoLine /\ k \in LineIds  BY <1>2, LaneAssumption DEF LineIds
<1>4. ~Asked(k) /\ ~Has(toGlobal', k)
  BY <1>0, <1>1, <1>2, NoticeTaken DEF Ledgers, CommandOnce
<1>5. ASSUME queue'.active = queue.active \/ queue.active = k, queue'.seen = queue.seen,
             \A l \in LineIds : Waits(l)' <=> Waits(l) /\ (l = k => queue' = queue),
             Queued(queue') \subseteq Queued(queue),
             queue' \in Queues, Orderly(queue'), NoMediaLeft', ~Asked(k)',
             queue'.active \in {queue.active, NoLine},
             queue'.active = queue.active => queue' = queue
      PROVE  LetGoes(<<>>)
  <2>1. QueueInv'
    <3>1. confirm' \subseteq {queue'.active}  BY <1>1, <1>5 DEF ConfirmationIsCurrent
    <3> QED  BY <1>1, <1>5, <3>1 DEF ConfirmationIsCurrent
  <2>2. ASSUME NEW l \in Dialogue PROVE LineMoves(<<>>, l)
    <3>1. Waits(l)' <=> Waits(l)  BY <1>3, <1>5 DEF LineIds
    <3> QED  BY <1>1, <1>5, <3>1, HasNone DEF LineMoves
  <2>3. ASSUME NEW c \in Commands PROVE CommandMoves(<<>>, c)
    <3>1. CASE c = k  BY <1>1, <1>2, <1>4, <1>5, <3>1, HasNone DEF CommandMoves
    <3>2. CASE c # k
      <4>1. Asked(c)' => Asked(c)  BY <1>1, <1>5, <3>2 DEF Asked
      <4> QED  BY <1>1, <3>2, <4>1, HasNone DEF CommandMoves
    <3> QED  BY <3>1, <3>2
  <2>4. LaneMoves(<<>>)  BY <1>1, <1>5, <2>2, <2>3, NothingTold
  <2>5. VoiceMoves(<<>>)  BY <1>3, <1>5, LaneAssumption DEF VoiceMoves, First
  <2> QED  BY <2>1, <2>4, <2>5 DEF LetGoes
<1>6. CASE ActionActive(queue, k)
  <2>1. queue' = FailHead(queue) /\ queue.active = k
    BY <1>0, <1>6 DEF ActionResult, ActionActive, CompleteAction, FailHead
  <2>2. queue.items # <<>> /\ queue.items[1].line = k  BY <1>3, <2>1, ActiveIsFirst
  <2>3. Drops(queue, queue', {k}) /\ queue'.active = NoLine  BY <2>1, <2>2, HeadDrops
  <2>4. media' = [l \in Dialogue |-> IF l \in {k} THEN "none" ELSE media[l]]  BY <1>1, <1>3
  <2>5. /\ queue' \in Queues /\ Orderly(queue') /\ NoMediaLeft'
        /\ queue'.seen = queue.seen /\ Queued(queue') = Queued(queue) \ {k}
        /\ \A l \in LineIds : Waits(l)' <=> Waits(l) /\ l # k
    BY <1>3, <2>3, <2>4, Leaves
  <2>6. queue' # queue /\ queue'.active # queue.active  BY <1>3, <2>1, <2>3
  <2>7. ~Asked(k)'  BY <2>5 DEF Asked
  <2> QED  BY <1>5, <2>1, <2>3, <2>5, <2>6, <2>7
<1>7. CASE ~ActionActive(queue, k)
  <2>1. queue' = queue  BY <1>0, <1>7 DEF ActionResult
  <2>2. queue.active # k  BY <1>2, <1>7 DEF ActionActive
  <2>3. ~Asked(k)'  BY <1>1, <1>4, <2>1, <2>2 DEF Asked
  <2>4. \A l \in LineIds : Waits(l)' <=> Waits(l)  BY <2>1 DEF Waits
  <2>5. NoMediaLeft' /\ Queued(queue') = Queued(queue)  BY <1>1, <2>1 DEF NoMediaLeft
  <2> QED  BY <1>5, <2>1, <2>3, <2>4, <2>5
<1> QED  BY <1>6, <1>7

(* Nothing changes in the lane itself.                                     *)
LEMMA LaneRests ==
  ASSUME Lane, UNCHANGED <<queue, media, delivered, results, confirm>>
  PROVE  /\ QueueInv' /\ \A extra : VoiceMoves(extra) <=> \A i \in DOMAIN extra : extra[i].msg # "SPEAK"
         /\ \A extra : (\A x \in LineIds : ~Has(extra, x)) =>
              /\ \A l \in Dialogue : LineMoves(extra, l)
              /\ \A c \in Commands : CommandMoves(extra, c)
<1>1. QueueInv'
  BY DEF Lane, QueueInv, QueueTypes, NoMediaLeft, ConfirmationIsCurrent
<1>2. \A l : (Waits(l)' <=> Waits(l)) /\ (Asked(l)' <=> Asked(l))  BY DEF Waits, Asked
<1>3. \A extra : VoiceMoves(extra) <=> \A i \in DOMAIN extra : extra[i].msg # "SPEAK"
  BY DEF VoiceMoves, First
<1> QED  BY <1>1, <1>2, <1>3 DEF LineMoves, CommandMoves, LineIds

LEMMA GroupCases ==
  ASSUME Lane,
         ActorStatusInactive \/ IgnoredNotice \/ \E a \in Actors : Attach(a) \/ Detach(a)
  PROVE  \E extra : LetGoes(extra)
<1>1. /\ UNCHANGED <<queue, media, delivered, results, confirm, actor, gen>>
      /\ toGlobal' = toGlobal \/ (toGlobal # <<>> /\ toGlobal' = Tail(toGlobal))
      /\ \/ toActors' = toActors
         \/ /\ toGlobal' = toGlobal
            /\ \E a \in Actors, m \in {"ATTACH", "DETACH"} :
                 toActors' = Append(toActors, To(a, m, NoLine))
  BY DEF ActorStatusInactive, IgnoredNotice, Attach, Detach, ActorStep, laneVars, actionVars
<1>2. QueueInv' /\ queue.seen \subseteq queue'.seen  BY <1>1, LaneRests
<1>3. CASE toActors' = toActors
  <2>1. \A x \in LineIds : ~Has(<<>>, x)  BY HasNone
  <2>2. /\ \A l \in Dialogue : LineMoves(<<>>, l)
        /\ \A c \in Commands : CommandMoves(<<>>, c)
    BY <1>1, <2>1, LaneRests
  <2>3. LaneMoves(<<>>)  BY <1>1, <1>2, <1>3, <2>2, NothingTold
  <2>4. VoiceMoves(<<>>)  BY <1>1, LaneRests
  <2> QED  BY <1>2, <2>3, <2>4 DEF LetGoes
<1>4. CASE toActors' # toActors
  <2>1. PICK a \in Actors, m \in {"ATTACH", "DETACH"} :
               toActors' = Append(toActors, To(a, m, NoLine)) /\ toGlobal' = toGlobal
    BY <1>1, <1>4
  <2> DEFINE e == To(a, m, NoLine)
  <2>2. e \in Messages /\ e.msg = m /\ e.line = NoLine /\ e.gen = gen
    BY DEF To, Messages, Lane, ActorTypes
  <2>3. Lettered(e)  BY <2>2 DEF Lettered, Lane, ActorTypes
  <2>4. \A x \in LineIds : ~Has(<<e>>, x)  BY <2>2, HasOne, LaneAssumption DEF LineIds
  <2> HIDE DEF e
  <2>5. /\ \A l \in Dialogue : LineMoves(<<e>>, l)
        /\ \A c \in Commands : CommandMoves(<<e>>, c)
    BY <1>1, <2>4, LaneRests
  <2>6. LaneMoves(<<e>>)  BY <1>1, <1>2, <2>1, <2>2, <2>3, <2>5, OneTold DEF e
  <2>7. \A i \in DOMAIN <<e>> : <<e>>[i].msg # "SPEAK"  BY <2>2
  <2>8. VoiceMoves(<<e>>)  BY <1>1, <2>7, LaneRests
  <2> QED  BY <1>2, <2>6, <2>8 DEF LetGoes
<1> QED  BY <1>3, <1>4

-------------------------------------------------------------------------------
(* The steps of the actors                                                 *)

Does(a, x) == x = actor[a].speech \/ x = actor[a].face

(* Actor a takes a letter, or acts by itself: what it does and reports was *)
(* in that letter, or it was doing it; what it was to speak it speaks or   *)
(* has reported, unless a new line takes its place; and it obeys a stop.   *)
Fits(a, after, notices, taken) ==
  /\ \/ toActors' = toActors /\ taken = NoLine /\ after.speech \in {NoLine, actor[a].speech}
     \/ /\ toActors # <<>> /\ toActors' = Tail(toActors) /\ Letter.to = a /\ taken = Letter.line
        /\ \/ after.speech = NoLine
           \/ after.speech = actor[a].speech /\ ~StopAt(1, a)
           \/ after.speech = taken /\ taken \in Dialogue /\ Spoken(1)
  /\ \A i \in DOMAIN notices : Noticed(notices[i])
  /\ \A x \in LineIds :
       /\ Once(notices, x)
       /\ Has(notices, x) => (x = taken \/ Does(a, x)) /\ x \notin {after.speech, after.face}
       /\ x \in {after.speech, after.face} => x = taken \/ Does(a, x)
  /\ \A x \in Dialogue :
       /\ x = taken => Has(notices, x) \/ after.speech = x
       /\ x = actor[a].speech => Has(notices, x) \/ after.speech = x
                                 \/ (after.speech = taken /\ taken \in Dialogue /\ Spoken(1))

TalksAs(a, after, notices, taken) ==
  /\ actor' = [actor EXCEPT ![a] = after] /\ toGlobal' = toGlobal \o notices
  /\ delivered' = [l \in Dialogue |-> delivered[l] + (IF Has(notices, l) THEN 1 ELSE 0)]
  /\ UNCHANGED <<queue, media, results, confirm, gen>>
  /\ Fits(a, after, notices, taken)

Talks ==
  \E a \in Actors, after \in Scripts, notices \in Seq(Notices), taken \in LineIds \cup {NoLine} :
    TalksAs(a, after, notices, taken)

LEMMA SayReports ==
  ASSUME NEW a, NEW after, NEW notices, Say(a, after, notices)
  PROVE  /\ actor' = [actor EXCEPT ![a] = after] /\ toGlobal' = toGlobal \o notices
         /\ delivered' = [l \in Dialogue |-> delivered[l] + (IF Has(notices, l) THEN 1 ELSE 0)]
<1>1. \A l \in Dialogue :
        l \in {notices[i].line : i \in DOMAIN notices} \cap Dialogue <=> Has(notices, l)
  BY DEF Has
<1> QED  BY <1>1 DEF Say, ReportLines

LEMMA Words ==
  ASSUME Lane, NEW a \in Actors, NEW s \in Outcomes
  PROVE  /\ FaceNotice(a, s) \in Seq(Notices) /\ SpeechNotice(a, s) \in Seq(Notices)
         /\ Gone(a) \in Seq(Notices)
         /\ \A i \in DOMAIN FaceNotice(a, s) : Noticed(FaceNotice(a, s)[i])
         /\ \A i \in DOMAIN SpeechNotice(a, s) : Noticed(SpeechNotice(a, s)[i])
         /\ \A i \in DOMAIN Gone(a) : Noticed(Gone(a)[i])
         /\ \A x \in LineIds :
              /\ Once(FaceNotice(a, s), x) /\ (Has(FaceNotice(a, s), x) <=> x = actor[a].face)
              /\ Once(SpeechNotice(a, s), x) /\ (Has(SpeechNotice(a, s), x) <=> x = actor[a].speech)
              /\ Once(Gone(a), x) /\ ~Has(Gone(a), x)
<1>1. actor[a].speech \in Dialogue \cup {NoLine} /\ actor[a].face \in Commands \cup {NoLine}
  BY DEF Lane, ActorTypes, Scripts
<1>2. \A x \in LineIds : x # NoLine  BY LaneAssumption DEF LineIds
<1>3. ASSUME NEW m \in {"speech", "result", "inactive"}, NEW l \in LineIds \cup {NoLine}, NEW t \in Outcomes
      PROVE  Tell(a, m, l, t) \in Notices /\ Tell(a, m, l, t).line = l /\ Tell(a, m, l, t).msg = m
             /\ <<Tell(a, m, l, t)>> \in Seq(Notices)
  BY DEF Tell, Notices
<1>4. ASSUME NEW e PROVE DOMAIN <<e>> = {1} /\ <<e>>[1] = e  OBVIOUS
<1>5. <<>> \in Seq(Notices) /\ DOMAIN <<>> = {}  OBVIOUS
<1>6. /\ FaceNotice(a, s) \in Seq(Notices)
      /\ \A i \in DOMAIN FaceNotice(a, s) : Noticed(FaceNotice(a, s)[i])
      /\ \A x \in LineIds : Once(FaceNotice(a, s), x) /\ (Has(FaceNotice(a, s), x) <=> x = actor[a].face)
  <2>1. CASE actor[a].face = NoLine
    BY <1>2, <1>5, <2>1, HasNone DEF FaceNotice
  <2>2. CASE actor[a].face # NoLine
    <3> DEFINE e == Tell(a, "result", actor[a].face, s)
    <3>1. FaceNotice(a, s) = <<e>>  BY <2>2 DEF FaceNotice
    <3>2. e.line = actor[a].face /\ e.msg = "result" /\ <<e>> \in Seq(Notices)
      BY <1>1, <1>3, <2>2 DEF LineIds
    <3> HIDE DEF e
    <3>3. Noticed(e)  BY <1>1, <2>2, <3>2 DEF Noticed
    <3> QED  BY <1>4, <3>1, <3>2, <3>3, HasOne
  <2> QED  BY <2>1, <2>2
<1>7. /\ SpeechNotice(a, s) \in Seq(Notices)
      /\ \A i \in DOMAIN SpeechNotice(a, s) : Noticed(SpeechNotice(a, s)[i])
      /\ \A x \in LineIds : Once(SpeechNotice(a, s), x) /\ (Has(SpeechNotice(a, s), x) <=> x = actor[a].speech)
  <2>1. CASE actor[a].speech = NoLine
    BY <1>2, <1>5, <2>1, HasNone DEF SpeechNotice
  <2>2. CASE actor[a].speech # NoLine
    <3> DEFINE e == Tell(a, "speech", actor[a].speech, s)
    <3>1. SpeechNotice(a, s) = <<e>>  BY <2>2 DEF SpeechNotice
    <3>2. e.line = actor[a].speech /\ e.msg = "speech" /\ <<e>> \in Seq(Notices)
      BY <1>1, <1>3, <2>2 DEF LineIds
    <3> HIDE DEF e
    <3>3. Noticed(e)  BY <1>1, <2>2, <3>2 DEF Noticed
    <3> QED  BY <1>4, <3>1, <3>2, <3>3, HasOne
  <2> QED  BY <2>1, <2>2
<1>8. /\ Gone(a) \in Seq(Notices)
      /\ \A i \in DOMAIN Gone(a) : Noticed(Gone(a)[i])
      /\ \A x \in LineIds : Once(Gone(a), x) /\ ~Has(Gone(a), x)
  <2> DEFINE e == Tell(a, "inactive", NoLine, "")
  <2>1. e.line = NoLine /\ e.msg = "inactive" /\ <<e>> \in Seq(Notices)  BY <1>3 DEF Outcomes
  <2>2. Gone(a) = <<e>>  BY DEF Gone
  <2> HIDE DEF e
  <2>3. Noticed(e)  BY <2>1 DEF Noticed
  <2> QED  BY <1>2, <1>4, <2>1, <2>2, <2>3, HasOne
<1> QED  BY <1>6, <1>7, <1>8

(* Two notices about different things.                                     *)
LEMMA Both ==
  ASSUME NEW s \in Seq(Notices), NEW t \in Seq(Notices),
         \A i \in DOMAIN s : Noticed(s[i]), \A i \in DOMAIN t : Noticed(t[i])
  PROVE  /\ s \o t \in Seq(Notices) /\ \A i \in DOMAIN (s \o t) : Noticed((s \o t)[i])
         /\ \A x : /\ Has(s \o t, x) <=> Has(s, x) \/ Has(t, x)
                   /\ Once(s, x) /\ Once(t, x) /\ ~(Has(s, x) /\ Has(t, x)) => Once(s \o t, x)
<1>1. DOMAIN s = 1..Len(s) /\ DOMAIN t = 1..Len(t) /\ DOMAIN (s \o t) = 1..(Len(s) + Len(t))
      /\ Len(s) \in Nat /\ Len(t) \in Nat /\ s \o t \in Seq(Notices)
  OBVIOUS
<1>2. \A i \in DOMAIN (s \o t) :
        (i \in DOMAIN s /\ (s \o t)[i] = s[i]) \/ (i - Len(s) \in DOMAIN t /\ (s \o t)[i] = t[i - Len(s)])
  BY <1>1
<1>3. \A i \in DOMAIN (s \o t) : Noticed((s \o t)[i])  BY <1>2
<1> QED  BY <1>1, <1>3, HasConcat

LEMMA LastOnes ==
  ASSUME Lane, NEW a \in Actors
  PROVE  LET w == LastWords(a) IN
         \A s \in {w, w \o Gone(a), Gone(a) \o w} :
           /\ s \in Seq(Notices) /\ \A i \in DOMAIN s : Noticed(s[i])
           /\ \A x \in LineIds : Once(s, x) /\ (Has(s, x) <=> Does(a, x))
<1> DEFINE f == FaceNotice(a, "cancelled")
           v == SpeechNotice(a, "interrupted")
           g == Gone(a)
           w == LastWords(a)
<1>1. "cancelled" \in Outcomes /\ "interrupted" \in Outcomes  BY DEF Outcomes
<1>2. actor[a].speech \in Dialogue \cup {NoLine} /\ actor[a].face \in Commands \cup {NoLine}
  BY DEF Lane, ActorTypes, Scripts
<1>3. \A x \in LineIds : ~(x = actor[a].speech /\ x = actor[a].face)
  BY <1>2, LaneAssumption DEF LineIds
<1>4. w = f \o v  BY DEF LastWords
<1>5. /\ f \in Seq(Notices) /\ v \in Seq(Notices) /\ g \in Seq(Notices)
      /\ \A i \in DOMAIN f : Noticed(f[i])
      /\ \A i \in DOMAIN v : Noticed(v[i])
      /\ \A i \in DOMAIN g : Noticed(g[i])
      /\ \A x \in LineIds : /\ Once(f, x) /\ (Has(f, x) <=> x = actor[a].face)
                            /\ Once(v, x) /\ (Has(v, x) <=> x = actor[a].speech)
                            /\ Once(g, x) /\ ~Has(g, x)
  BY <1>1, Words
<1> HIDE DEF f, v, g, w
<1>6. /\ w \in Seq(Notices) /\ \A i \in DOMAIN w : Noticed(w[i])
      /\ \A x \in LineIds : Once(w, x) /\ (Has(w, x) <=> Does(a, x))
  BY <1>3, <1>4, <1>5, Both DEF Does
<1>7. /\ w \o g \in Seq(Notices) /\ \A i \in DOMAIN (w \o g) : Noticed((w \o g)[i])
      /\ \A x \in LineIds : Once(w \o g, x) /\ (Has(w \o g, x) <=> Does(a, x))
  BY <1>5, <1>6, Both
<1>8. /\ g \o w \in Seq(Notices) /\ \A i \in DOMAIN (g \o w) : Noticed((g \o w)[i])
      /\ \A x \in LineIds : Once(g \o w, x) /\ (Has(g \o w, x) <=> Does(a, x))
  BY <1>5, <1>6, Both
<1> QED  BY <1>6, <1>7, <1>8 DEF w, g

LEMMA ScriptChanges ==
  ASSUME NEW r \in Scripts
  PROVE  /\ \A x \in Dialogue \cup {NoLine} :
              LET w == [r EXCEPT !.speech = x] IN w \in Scripts /\ w.speech = x /\ w.face = r.face
         /\ \A x \in Commands \cup {NoLine} :
              LET w == [r EXCEPT !.face = x] IN w \in Scripts /\ w.speech = r.speech /\ w.face = x
         /\ \A b \in BOOLEAN :
              LET w == [r EXCEPT !.speech = NoLine, !.face = NoLine, !.attached = b]
              IN  w \in Scripts /\ w.speech = NoLine /\ w.face = NoLine
         /\ \A g \in 1..gen :
              LET w == [r EXCEPT !.attached = TRUE, !.gen = g]
              IN  w \in Scripts /\ w.speech = r.speech /\ w.face = r.face
         /\ LET w == [r EXCEPT !.attached = TRUE]
            IN  w \in Scripts /\ w.speech = r.speech /\ w.face = r.face
BY DEF Scripts

LEMMA LetterTaken ==
  ASSUME Lane, Ledgers, toActors # <<>>
  PROVE  /\ Letter \in Messages /\ Lettered(Letter) /\ Letter.to \in Actors
         /\ \A x \in LineIds : x = Letter.line => ~Does(Letter.to, x)
<1>1. 1 \in DOMAIN toActors  BY DEF Lane, Mail
<1>6. toActors[1] \in Messages /\ Lettered(toActors[1])  BY <1>1 DEF Lane, Mail
<1>2. Letter \in Messages /\ Lettered(Letter) /\ Letter.to \in Actors
  BY <1>6 DEF Letter, Messages
<1>3. \A x : x = Letter.line => Has(toActors, x)  BY <1>1 DEF Has, Letter
<1>4. actor[Letter.to].speech \in Dialogue \cup {NoLine}
      /\ actor[Letter.to].face \in Commands \cup {NoLine}
  BY <1>2 DEF Lane, ActorTypes, Scripts
<1>5. \A x \in LineIds : x = Letter.line => ~Does(Letter.to, x)
  BY <1>2, <1>3, <1>4, LaneAssumption
  DEF Ledgers, LineOnce, CommandOnce, Speaks, Faces, Does, LineIds
<1> QED  BY <1>2, <1>5

LEMMA TalkForm ==
  ASSUME NEW a \in Actors, NEW after \in Scripts, NEW notices \in Seq(Notices),
         NEW taken \in LineIds \cup {NoLine},
         Say(a, after, notices), ActorStep, Fits(a, after, notices, taken)
  PROVE  Talks
<1>1. /\ actor' = [actor EXCEPT ![a] = after] /\ toGlobal' = toGlobal \o notices
      /\ delivered' = [l \in Dialogue |-> delivered[l] + (IF Has(notices, l) THEN 1 ELSE 0)]
  BY SayReports
<1>2. UNCHANGED <<queue, media, results, confirm, gen>>  BY DEF ActorStep, actionVars
<1>3. TalksAs(a, after, notices, taken)  BY <1>1, <1>2 DEF TalksAs
<1> QED  BY <1>3 DEF Talks

LEMMA AnswerIsOne ==
  ASSUME NEW a \in Actors, NEW m \in {"speech", "result"}, NEW l \in LineIds, NEW s \in Outcomes,
         m = "speech" => l \in Dialogue, m = "result" => l \in Commands
  PROVE  LET n == <<Tell(a, m, l, s)>> IN
           /\ n \in Seq(Notices) /\ \A i \in DOMAIN n : Noticed(n[i])
           /\ \A x \in LineIds : Once(n, x) /\ (Has(n, x) <=> x \in {l})
<1> DEFINE e == Tell(a, m, l, s)
<1>1. e \in Notices /\ e.line = l /\ e.msg = m  BY DEF Tell, Notices
<1> HIDE DEF e
<1>2. Noticed(e)  BY <1>1 DEF Noticed
<1>3. <<e>> \in Seq(Notices) /\ \A i \in DOMAIN <<e>> : Noticed(<<e>>[i])  BY <1>1, <1>2
<1> QED  BY <1>1, <1>3, HasOne DEF e

LEMMA SilenceIsNone ==
  /\ <<>> \in Seq(Notices) /\ \A i \in DOMAIN <<>> : Noticed(<<>>[i])
  /\ \A x \in LineIds : Once(<<>>, x) /\ (Has(<<>>, x) <=> x \in {})
BY HasNone

LEMMA SpeakCase ==
  ASSUME Lane, Ledgers, ReceiveSpeak \/ ReceiveSubtitle PROVE Talks
<1> DEFINE a == Letter.to
           l == Letter.line
           r == actor[a]
<1>1. toActors # <<>> /\ toActors' = Tail(toActors) /\ Letter.msg \in {"SPEAK", "SUBTITLE"} /\ ActorStep
  BY DEF ReceiveSpeak, ReceiveSubtitle, Receives
<1>2. /\ a \in Actors /\ l \in Dialogue /\ l \in LineIds
      /\ \A x \in LineIds : x = l => ~Does(a, x)
  BY <1>1, LetterTaken DEF Lettered, LineIds
<1>3. r \in Scripts  BY <1>2 DEF Lane, ActorTypes
<1>4. ~StopAt(1, a)  BY <1>1 DEF StopAt, Letter
<1>5. l # NoLine /\ r.face # l  BY <1>2, <1>3, LaneAssumption DEF Scripts
<1>6. ASSUME NEW s \in Outcomes, Say(a, r, <<Tell(a, "speech", l, s)>>) PROVE Talks
  <2> DEFINE n == <<Tell(a, "speech", l, s)>>
  <2>1. /\ n \in Seq(Notices) /\ \A i \in DOMAIN n : Noticed(n[i])
        /\ \A x \in LineIds : Once(n, x) /\ (Has(n, x) <=> x \in {l})
    BY <1>2, AnswerIsOne
  <2> HIDE DEF n
  <2>2. \A x \in LineIds : x \in {l} => (x = l \/ Does(a, x)) /\ x \notin {r.speech, r.face}
    BY <1>2 DEF Does
  <2>3. \A x \in LineIds : x \in {r.speech, r.face} => x = l \/ Does(a, x)  BY DEF Does
  <2>4. Say(a, r, n)  BY <1>6 DEF n
  <2>5. Fits(a, r, n, l)
    <3> HIDE DEF r
    <3>1. \A x \in Dialogue : (x = l => Has(n, x)) /\ (x = actor[a].speech => r.speech = x)
      BY <2>1 DEF r, LineIds
    <3> QED  BY <1>1, <1>4, <2>1, <2>2, <2>3, <3>1 DEF Fits, r
  <2> HIDE DEF a, l, r
  <2> QED  BY <1>1, <1>2, <1>3, <2>1, <2>4, <2>5, TalkForm
<1>7. ASSUME Letter.msg = "SPEAK", Say(a, [r EXCEPT !.speech = l], <<>>) PROVE Talks
  <2> DEFINE w == [r EXCEPT !.speech = l]
  <2>1. w \in Scripts /\ w.speech = l /\ w.face = r.face  BY <1>2, <1>3, ScriptChanges
  <2>2. Spoken(1)  BY <1>7 DEF Spoken, Letter
  <2>3. \A x \in LineIds : x \in {w.speech, w.face} => x = l \/ Does(a, x)  BY <2>1 DEF Does
  <2>4. Say(a, w, <<>>)  BY <1>7
  <2> HIDE DEF w
  <2>5. Fits(a, w, <<>>, l)
    BY <1>1, <1>2, <2>1, <2>2, <2>3, SilenceIsNone DEF Fits
  <2> HIDE DEF a, l, r
  <2> QED  BY <1>1, <1>2, <2>1, <2>4, <2>5, SilenceIsNone, TalkForm
<1>8. CASE ReceiveSpeak
  BY <1>6, <1>7, <1>8 DEF ReceiveSpeak, Receives, Outcomes
<1>9. CASE ReceiveSubtitle
  BY <1>6, <1>9 DEF ReceiveSubtitle, Outcomes
<1> QED  BY <1>8, <1>9

LEMMA ActCase ==
  ASSUME Lane, Ledgers, ReceiveAction \/ ReceiveReject PROVE Talks
<1> DEFINE a == Letter.to
           c == Letter.line
           r == actor[a]
<1>1. toActors # <<>> /\ toActors' = Tail(toActors) /\ Letter.msg \in {"ACTION", "REJECT"} /\ ActorStep
  BY DEF ReceiveAction, ReceiveReject, Receives
<1>2. /\ a \in Actors /\ c \in Commands /\ c \in LineIds
      /\ \A x \in LineIds : x = c => ~Does(a, x)
  BY <1>1, LetterTaken DEF Lettered, LineIds
<1>3. r \in Scripts /\ c \notin Dialogue /\ c # NoLine  BY <1>2, LaneAssumption DEF Lane, ActorTypes
<1>4. ~StopAt(1, a)  BY <1>1 DEF StopAt, Letter
<1>5. ASSUME NEW w \in Scripts, w.speech = r.speech, w.face \in {r.face, NoLine},
             NEW s \in Outcomes, Say(a, w, <<Tell(a, "result", c, s)>>)
      PROVE  Talks
  <2> DEFINE n == <<Tell(a, "result", c, s)>>
  <2>1. /\ n \in Seq(Notices) /\ \A i \in DOMAIN n : Noticed(n[i])
        /\ \A x \in LineIds : Once(n, x) /\ (Has(n, x) <=> x \in {c})
    BY <1>2, AnswerIsOne
  <2> HIDE DEF n
  <2>2. \A x \in LineIds : x \in {c} => (x = c \/ Does(a, x)) /\ x \notin {w.speech, w.face}
    BY <1>2, <1>3, <1>5 DEF Does
  <2>3. \A x \in LineIds : x \in {w.speech, w.face} => x = c \/ Does(a, x)
    BY <1>5, LaneAssumption DEF Does, LineIds
  <2>4. Say(a, w, n)  BY <1>5 DEF n
  <2>5. \A x \in Dialogue : (x = c => x \in {c} \/ w.speech = x) /\ (x = r.speech => w.speech = x)
    BY <1>5
  <2>6. Fits(a, w, n, c)
    BY <1>1, <1>3, <1>4, <1>5, <2>1, <2>2, <2>3, <2>5 DEF Fits
  <2> HIDE DEF a, c, r
  <2> QED  BY <1>1, <1>2, <1>5, <2>1, <2>4, <2>6, TalkForm
<1>6. ASSUME NEW w \in Scripts, w.speech = r.speech, w.face \in {r.face, c},
             ReceiveAction, Say(a, w, <<>>)
      PROVE  Talks
  <2>1. \A x \in LineIds : x \in {w.speech, w.face} => x = c \/ Does(a, x)
    BY <1>6 DEF Does
  <2>2. \A x \in Dialogue : x # c /\ (x = r.speech => w.speech = x)
    BY <1>3, <1>6
  <2>3. Fits(a, w, <<>>, c)
    BY <1>1, <1>4, <1>6, <2>1, <2>2, SilenceIsNone DEF Fits
  <2> HIDE DEF a, c, r
  <2> QED  BY <1>1, <1>2, <1>6, <2>3, SilenceIsNone, TalkForm
<1>7. /\ [r EXCEPT !.face = c] \in Scripts
      /\ [r EXCEPT !.face = c].speech = r.speech /\ [r EXCEPT !.face = c].face = c
  <2> HIDE DEF c, r
  <2>1. c \in Commands \cup {NoLine}  BY <1>2
  <2> QED  BY <1>3, <2>1, ScriptChanges
<1>8. CASE ReceiveReject
  BY <1>3, <1>5, <1>8 DEF ReceiveReject, Outcomes
<1>9. CASE ReceiveAction
  <2>1. \/ Say(a, r, <<>>)
        \/ Say(a, r, <<Tell(a, "result", c, "rejected")>>)
        \/ \E status \in {"succeeded", "failed"} :
             Say(a, [r EXCEPT !.face = IF c \in Ends THEN NoLine ELSE r.face],
                 <<Tell(a, "result", c, status)>>)
        \/ Say(a, [r EXCEPT !.face = c], <<>>)
    BY <1>9 DEF ReceiveAction
  <2>2. CASE Say(a, r, <<>>)  BY <1>3, <1>6, <1>9, <2>2
  <2>3. CASE Say(a, r, <<Tell(a, "result", c, "rejected")>>)  BY <1>3, <1>5, <2>3 DEF Outcomes
  <2>4. ASSUME NEW status \in {"succeeded", "failed"},
               Say(a, [r EXCEPT !.face = IF c \in Ends THEN NoLine ELSE r.face],
                   <<Tell(a, "result", c, status)>>)
        PROVE  Talks
    <3> DEFINE w == [r EXCEPT !.face = IF c \in Ends THEN NoLine ELSE r.face]
    <3>1. status \in Outcomes  BY DEF Outcomes
    <3>2. r.face \in Commands \cup {NoLine}  BY <1>3 DEF Scripts
    <3>3. w \in Scripts /\ w.speech = r.speech /\ w.face \in {r.face, NoLine}
      <4> DEFINE y == IF c \in Ends THEN NoLine ELSE r.face
      <4>1. y \in Commands \cup {NoLine} /\ y \in {r.face, NoLine}  BY <3>2
      <4> HIDE DEF r, y
      <4>2. [r EXCEPT !.face = y] \in Scripts /\ [r EXCEPT !.face = y].speech = r.speech
            /\ [r EXCEPT !.face = y].face = y
        BY <1>3, <4>1, ScriptChanges
      <4> QED  BY <4>1, <4>2 DEF y
    <3>4. Say(a, w, <<Tell(a, "result", c, status)>>)  BY <2>4
    <3> HIDE DEF w
    <3> QED  BY <1>5, <3>1, <3>3, <3>4
  <2>5. CASE Say(a, [r EXCEPT !.face = c], <<>>)  BY <1>6, <1>7, <1>9, <2>5
  <2> QED  BY <2>1, <2>2, <2>3, <2>4, <2>5
<1> QED  BY <1>8, <1>9

(* A letter that is about no line.                                         *)
LEMMA SignalCase ==
  ASSUME Lane, Ledgers,
         ReceiveStopSpeech \/ ReceiveHaltActions \/ ReceiveStop \/ ReceiveAttach
  PROVE  Talks
<1> DEFINE a == Letter.to
           r == actor[a]
<1>1. /\ toActors # <<>> /\ toActors' = Tail(toActors) /\ ActorStep
      /\ Letter.msg \in {"STOP_SPEECH", "HALT_ACTIONS", "STOP", "DETACH", "ATTACH"}
  BY DEF ReceiveStopSpeech, ReceiveHaltActions, ReceiveStop, ReceiveAttach, Receives
<1>2. a \in Actors /\ Letter.line = NoLine /\ Letter.gen \in 1..gen
  BY <1>1, LetterTaken DEF Lettered
<1>3. r \in Scripts /\ r.attached \in BOOLEAN /\ r.speech \in Dialogue \cup {NoLine}
      /\ r.face \in Commands \cup {NoLine}
  BY <1>2 DEF Lane, ActorTypes, Scripts
<1>4. \A x \in LineIds : x # NoLine  BY LaneAssumption DEF LineIds
<1>5. ASSUME NEW w \in Scripts, NEW n \in Seq(Notices), Say(a, w, n),
             \A i \in DOMAIN n : Noticed(n[i]),
             w.speech = NoLine \/ (w.speech = r.speech /\ ~StopAt(1, a)),
             w.face \in {r.face, NoLine},
             \A x \in LineIds : /\ Once(n, x)
                                /\ Has(n, x) => Does(a, x) /\ x \notin {w.speech, w.face}
                                /\ x = r.speech => Has(n, x) \/ w.speech = x
      PROVE  Talks
  <2>1. \A x \in LineIds : x \in {w.speech, w.face} => Does(a, x)  BY <1>4, <1>5 DEF Does
  <2>2. \A x \in Dialogue : x # NoLine /\ (x = actor[a].speech => Has(n, x) \/ w.speech = x)
    BY <1>4, <1>5 DEF LineIds
  <2>3. Fits(a, w, n, NoLine)
    BY <1>1, <1>2, <1>5, <2>1, <2>2 DEF Fits
  <2> HIDE DEF a, r
  <2> QED  BY <1>1, <1>2, <1>5, <2>3, TalkForm
<1> HIDE DEF a, r
<1>6. CASE ReceiveStopSpeech
  <2> DEFINE w == [r EXCEPT !.speech = NoLine]
             n == SpeechNotice(a, "interrupted")
  <2>1. w \in Scripts /\ w.speech = NoLine /\ w.face = r.face  BY <1>3, ScriptChanges
  <2>2. "interrupted" \in Outcomes  BY DEF Outcomes
  <2>3. /\ n \in Seq(Notices) /\ \A i \in DOMAIN n : Noticed(n[i])
        /\ \A x \in LineIds : Once(n, x) /\ (Has(n, x) <=> x = r.speech)
    BY <1>2, <2>2, Words DEF r
  <2>4. Say(a, w, n)  BY <1>6 DEF ReceiveStopSpeech, a, r
  <2> HIDE DEF w, n
  <2>5. \A x \in LineIds : x = r.speech => x # r.face  BY <1>3, LaneAssumption DEF LineIds
  <2>6. \A x \in LineIds : /\ Once(n, x)
                           /\ Has(n, x) => Does(a, x) /\ x \notin {w.speech, w.face}
                           /\ x = r.speech => Has(n, x) \/ w.speech = x
    BY <1>4, <2>1, <2>3, <2>5 DEF Does, r
  <2> QED  BY <1>5, <2>1, <2>3, <2>4, <2>6
<1>7. CASE ReceiveHaltActions
  <2> DEFINE w == [r EXCEPT !.face = NoLine]
             n == FaceNotice(a, "cancelled")
  <2>1. w \in Scripts /\ w.speech = r.speech /\ w.face = NoLine  BY <1>3, ScriptChanges
  <2>2. "cancelled" \in Outcomes  BY DEF Outcomes
  <2>3. /\ n \in Seq(Notices) /\ \A i \in DOMAIN n : Noticed(n[i])
        /\ \A x \in LineIds : Once(n, x) /\ (Has(n, x) <=> x = r.face)
    BY <1>2, <2>2, Words DEF r
  <2>4. Say(a, w, n)  BY <1>7 DEF ReceiveHaltActions, a, r
  <2>5. ~StopAt(1, a)  BY <1>7 DEF ReceiveHaltActions, Receives, StopAt, Letter
  <2> HIDE DEF w, n
  <2>6. \A x \in LineIds : x = r.face => x # r.speech  BY <1>3, LaneAssumption DEF LineIds
  <2>7. \A x \in LineIds : /\ Once(n, x)
                           /\ Has(n, x) => Does(a, x) /\ x \notin {w.speech, w.face}
                           /\ x = r.speech => Has(n, x) \/ w.speech = x
    BY <1>4, <2>1, <2>3, <2>6 DEF Does, r
  <2> QED  BY <1>5, <2>1, <2>3, <2>4, <2>5, <2>7
<1>8. CASE ReceiveStop
  <2>1. PICK b \in BOOLEAN, n \in {LastWords(a), LastWords(a) \o Gone(a), Gone(a) \o LastWords(a)} :
               Say(a, Quiet(a, b), n)
    BY <1>3, <1>8 DEF ReceiveStop, a, r
  <2> DEFINE w == [r EXCEPT !.speech = NoLine, !.face = NoLine, !.attached = b]
  <2>2. w \in Scripts /\ w.speech = NoLine /\ w.face = NoLine  BY <1>3, ScriptChanges
  <2>3. /\ n \in Seq(Notices) /\ \A i \in DOMAIN n : Noticed(n[i])
        /\ \A x \in LineIds : Once(n, x) /\ (Has(n, x) <=> Does(a, x))
    BY <1>2, <2>1, LastOnes
  <2>4. Say(a, w, n)  BY <2>1 DEF Quiet, r
  <2> HIDE DEF w
  <2>5. \A x \in LineIds : /\ Once(n, x)
                           /\ Has(n, x) => Does(a, x) /\ x \notin {w.speech, w.face}
                           /\ x = r.speech => Has(n, x) \/ w.speech = x
    BY <1>4, <2>2, <2>3 DEF Does, r
  <2> QED  BY <1>5, <2>2, <2>3, <2>4, <2>5
<1>9. CASE ReceiveAttach
  <2> DEFINE w == [r EXCEPT !.attached = TRUE, !.gen = Letter.gen]
  <2>1. w \in Scripts /\ w.speech = r.speech /\ w.face = r.face  BY <1>2, <1>3, ScriptChanges
  <2>2. Say(a, w, <<>>)  BY <1>9 DEF ReceiveAttach, a, r
  <2>3. ~StopAt(1, a)  BY <1>9 DEF ReceiveAttach, Receives, StopAt, Letter
  <2> HIDE DEF w
  <2> QED  BY <1>5, <2>1, <2>2, <2>3, SilenceIsNone
<1> QED  BY <1>6, <1>7, <1>8, <1>9

(* What an actor does without a letter.                                    *)
LEMMA AloneCase ==
  ASSUME Lane, NEW a \in Actors,
         \/ \E status \in {"played", "interrupted"} : SpeechEnds(a, status)
         \/ \E status \in {"succeeded", "failed"} : FaceEnds(a, status)
         \/ BecomesInactive(a) \/ BecomesActive(a)
  PROVE  Talks
<1> DEFINE r == actor[a]
<1>1. toActors' = toActors /\ ActorStep
  BY DEF SpeechEnds, FaceEnds, BecomesInactive, BecomesActive
<1>3. r \in Scripts /\ r.speech \in Dialogue \cup {NoLine} /\ r.face \in Commands \cup {NoLine}
  BY DEF Lane, ActorTypes, Scripts
<1>4. \A x \in LineIds : x # NoLine  BY LaneAssumption DEF LineIds
<1>5. ASSUME NEW w \in Scripts, NEW n \in Seq(Notices), Say(a, w, n),
             \A i \in DOMAIN n : Noticed(n[i]),
             w.speech \in {r.speech, NoLine}, w.face \in {r.face, NoLine},
             \A x \in LineIds : /\ Once(n, x)
                                /\ Has(n, x) => Does(a, x) /\ x \notin {w.speech, w.face}
                                /\ x = r.speech => Has(n, x) \/ w.speech = x
      PROVE  Talks
  <2>1. \A x \in LineIds : x \in {w.speech, w.face} => Does(a, x)  BY <1>4, <1>5 DEF Does
  <2>2. \A x \in Dialogue : x # NoLine /\ (x = actor[a].speech => Has(n, x) \/ w.speech = x)
    BY <1>4, <1>5 DEF LineIds
  <2>3. Fits(a, w, n, NoLine)
    BY <1>1, <1>5, <2>1, <2>2 DEF Fits
  <2> QED  BY <1>1, <1>5, <2>3, TalkForm
<1> HIDE DEF r
<1>6. ASSUME NEW status \in {"played", "interrupted"}, SpeechEnds(a, status) PROVE Talks
  <2> DEFINE w == [r EXCEPT !.speech = NoLine]
             n == SpeechNotice(a, status)
  <2>1. w \in Scripts /\ w.speech = NoLine /\ w.face = r.face  BY <1>3, ScriptChanges
  <2>2. status \in Outcomes  BY DEF Outcomes
  <2>3. /\ n \in Seq(Notices) /\ \A i \in DOMAIN n : Noticed(n[i])
        /\ \A x \in LineIds : Once(n, x) /\ (Has(n, x) <=> x = r.speech)
    BY <2>2, Words DEF r
  <2>4. Say(a, w, n)  BY <1>6 DEF SpeechEnds, r
  <2> HIDE DEF w, n
  <2>5. \A x \in LineIds : x = r.speech => x # r.face  BY <1>3, LaneAssumption DEF LineIds
  <2>6. \A x \in LineIds : /\ Once(n, x)
                           /\ Has(n, x) => Does(a, x) /\ x \notin {w.speech, w.face}
                           /\ x = r.speech => Has(n, x) \/ w.speech = x
    BY <1>4, <2>1, <2>3, <2>5 DEF Does, r
  <2> QED  BY <1>5, <2>1, <2>3, <2>4, <2>6
<1>7. ASSUME NEW status \in {"succeeded", "failed"}, FaceEnds(a, status) PROVE Talks
  <2> DEFINE w == [r EXCEPT !.face = NoLine]
             n == FaceNotice(a, status)
  <2>1. w \in Scripts /\ w.speech = r.speech /\ w.face = NoLine  BY <1>3, ScriptChanges
  <2>2. status \in Outcomes  BY DEF Outcomes
  <2>3. /\ n \in Seq(Notices) /\ \A i \in DOMAIN n : Noticed(n[i])
        /\ \A x \in LineIds : Once(n, x) /\ (Has(n, x) <=> x = r.face)
    BY <2>2, Words DEF r
  <2>4. Say(a, w, n)  BY <1>7 DEF FaceEnds, r
  <2> HIDE DEF w, n
  <2>6. \A x \in LineIds : x = r.face => x # r.speech  BY <1>3, LaneAssumption DEF LineIds
  <2>7. \A x \in LineIds : /\ Once(n, x)
                           /\ Has(n, x) => Does(a, x) /\ x \notin {w.speech, w.face}
                           /\ x = r.speech => Has(n, x) \/ w.speech = x
    BY <1>4, <2>1, <2>3, <2>6 DEF Does, r
  <2> QED  BY <1>5, <2>1, <2>3, <2>4, <2>7
<1>8. CASE BecomesInactive(a)
  <2> DEFINE w == [r EXCEPT !.speech = NoLine, !.face = NoLine, !.attached = FALSE]
             n == Gone(a) \o LastWords(a)
  <2>1. w \in Scripts /\ w.speech = NoLine /\ w.face = NoLine  BY <1>3, ScriptChanges
  <2>2. /\ n \in Seq(Notices) /\ \A i \in DOMAIN n : Noticed(n[i])
        /\ \A x \in LineIds : Once(n, x) /\ (Has(n, x) <=> Does(a, x))
    BY LastOnes
  <2>3. Say(a, w, n)  BY <1>8 DEF BecomesInactive, Quiet, r
  <2> HIDE DEF w, n
  <2>4. \A x \in LineIds : /\ Once(n, x)
                           /\ Has(n, x) => Does(a, x) /\ x \notin {w.speech, w.face}
                           /\ x = r.speech => Has(n, x) \/ w.speech = x
    BY <1>4, <2>1, <2>2 DEF Does, r
  <2> QED  BY <1>5, <2>1, <2>2, <2>3, <2>4
<1>9. CASE BecomesActive(a)
  <2> DEFINE w == [r EXCEPT !.attached = TRUE]
  <2>1. w \in Scripts /\ w.speech = r.speech /\ w.face = r.face  BY <1>3, ScriptChanges
  <2>2. Say(a, w, <<>>)  BY <1>9 DEF BecomesActive, r
  <2> HIDE DEF w
  <2> QED  BY <1>5, <2>1, <2>2, SilenceIsNone
<1> QED  BY <1>6, <1>7, <1>8, <1>9

-------------------------------------------------------------------------------
(* Every step is one of three kinds                                        *)

LEMMA Kinds ==
  ASSUME Lane, TurnTypes, Ledgers, [Next]_vars
  PROVE  (\E extra : LetGoes(extra)) \/ PumpSpeaks \/ Talks
<1>1. CASE QuietStep
  BY <1>1, QuietCases, QuietMoves DEF LetGoes
<1>2. CASE UNCHANGED vars
  <2>1. Undisturbed
    BY <1>2, GrowsItself
    DEF Undisturbed, vars, laneVars, actorVars, actionVars, Lane, QueueInv, QueueTypes
  <2> QED  BY <2>1, QuietMoves DEF LetGoes
<1>3. CASE PlayerActs
  BY <1>1, <1>3, InterruptCases, ConfirmCase, HaltCase DEF PlayerActs, QuietStep
<1>4. CASE HandlerStep
  BY <1>1, <1>4, PumpGivesUpCase, PumpAsksCase, PumpActsCase DEF HandlerStep, QuietStep
<1>5. CASE ActorReceives
  BY <1>5, SpeakCase, ActCase, SignalCase DEF ActorReceives
<1>6. CASE GlobalReceives
  BY <1>6, SpeechStatusCase, ActionResultCase, GroupCases DEF GlobalReceives
<1>7. CASE WorldActs
  BY <1>7, AloneCase, GroupCases DEF WorldActs
<1>8. CASE PollEvent \/ PollEnd \/ PlayerSpeechComplete \/ SubmitAutonomy \/ ProbeEnds
             \/ ContextTimesOut \/ RechatContext
             \/ \E l \in Dialogue, outcome \in {"ready", "failed"} : MediaSettles(l, outcome)
  BY <1>1, <1>8 DEF QuietStep
<1> QED  BY <1>2, <1>3, <1>4, <1>5, <1>6, <1>7, <1>8 DEF Next

(* Letters keep their meaning when the generation advances.                *)
LEMMA LaterLetters ==
  ASSUME gen \in Nat, gen' \in Nat, gen \leq gen'
  PROVE  (\A m : Lettered(m) => Lettered(m)') /\ Scripts \subseteq Scripts'
<1>1. 1..gen \subseteq 1..gen'  OBVIOUS
<1> QED  BY <1>1 DEF Lettered, Scripts

LEMMA MailAppended ==
  ASSUME Lane, NEW extra, LaneMoves(extra)
  PROVE  ActorTypes' /\ Mail'
<1>1. ActorTypes'
  BY LaterLetters DEF Lane, ActorTypes, LaneMoves
<1>2. toActors' \in Seq(Messages) /\ \A i \in DOMAIN toActors' : Lettered(toActors'[i])
  <2>1. toActors \in Seq(Messages) /\ extra \in Seq(Messages) /\ toActors' = toActors \o extra
        /\ (\A i \in DOMAIN toActors : Lettered(toActors[i]))
        /\ (\A i \in DOMAIN extra : Lettered(extra[i]))
    BY DEF Lane, Mail, LaneMoves
  <2>2. DOMAIN toActors = 1..Len(toActors) /\ DOMAIN extra = 1..Len(extra)
        /\ DOMAIN (toActors \o extra) = 1..(Len(toActors) + Len(extra))
        /\ Len(toActors) \in Nat /\ Len(extra) \in Nat /\ toActors \o extra \in Seq(Messages)
    BY <2>1
  <2>3. \A i \in DOMAIN (toActors \o extra) :
          \/ i \in DOMAIN toActors /\ (toActors \o extra)[i] = toActors[i]
          \/ i - Len(toActors) \in DOMAIN extra /\ (toActors \o extra)[i] = extra[i - Len(toActors)]
    BY <2>1, <2>2
  <2> QED  BY <2>1, <2>2, <2>3
<1>3. \A m : Lettered(m) => Lettered(m)'
  BY LaterLetters DEF Lane, ActorTypes, LaneMoves
<1>4. \A i \in DOMAIN toActors' : Lettered(toActors[i])'
  BY <1>2, <1>3
<1>5. toGlobal' \in Seq(Notices) /\ \A i \in DOMAIN toGlobal' : Noticed(toGlobal'[i])
  <2>1. toGlobal \in Seq(Notices) /\ \A i \in DOMAIN toGlobal : Noticed(toGlobal[i])
    BY DEF Lane, Mail
  <2>2. CASE toGlobal' = toGlobal  BY <2>1, <2>2
  <2>3. CASE toGlobal # <<>> /\ toGlobal' = Tail(toGlobal)
    <3>1. /\ DOMAIN Tail(toGlobal) = 1..(Len(toGlobal) - 1) /\ DOMAIN toGlobal = 1..Len(toGlobal)
          /\ Tail(toGlobal) \in Seq(Notices) /\ Len(toGlobal) \in Nat
          /\ \A i \in 1..(Len(toGlobal) - 1) : Tail(toGlobal)[i] = toGlobal[i + 1]
      BY <2>1, <2>3
    <3>2. \A i \in 1..(Len(toGlobal) - 1) : i + 1 \in DOMAIN toGlobal  BY <3>1
    <3> QED  BY <2>1, <2>3, <3>1, <3>2
  <2> QED  BY <2>2, <2>3 DEF LaneMoves
<1> QED  BY <1>1, <1>2, <1>4, <1>5 DEF Mail, Noticed

LEMMA LedgersKept ==
  ASSUME Lane, Ledgers, NEW extra, LaneMoves(extra)
  PROVE  Ledgers'
<1>1. /\ toActors' = toActors \o extra /\ actor' = actor /\ queue.seen \subseteq queue'.seen
      /\ toActors \in Seq(Messages) /\ extra \in Seq(Messages) /\ toGlobal \in Seq(Notices)
      /\ toGlobal' = toGlobal \/ (toGlobal # <<>> /\ toGlobal' = Tail(toGlobal))
  BY DEF LaneMoves, Lane, Mail
<1>2. \A x : /\ Has(toActors', x) <=> Has(toActors, x) \/ Has(extra, x)
             /\ Once(toActors, x) /\ Once(extra, x) /\ ~(Has(toActors, x) /\ Has(extra, x))
                  => Once(toActors', x)
  BY <1>1, HasConcat
<1>3. \A x : /\ Has(toGlobal', x) => Has(toGlobal, x)
             /\ Once(toGlobal, x) => Once(toGlobal', x)
  <2>1. CASE toGlobal' = toGlobal  BY <2>1
  <2>2. CASE toGlobal # <<>> /\ toGlobal' = Tail(toGlobal)  BY <1>1, <2>2, HasTail
  <2> QED  BY <1>1, <2>1, <2>2
<1>4. \A x : ~Has(extra, x) => Once(extra, x)  BY DEF Has, Once
<1>5. \A x : /\ (Speaks(x)' <=> Speaks(x)) /\ (OneVoice(x)' <=> OneVoice(x))
             /\ (Faces(x)' <=> Faces(x)) /\ (OneFace(x)' <=> OneFace(x))
  BY <1>1 DEF Speaks, OneVoice, Faces, OneFace
<1>6. ASSUME NEW l \in Dialogue PROVE LineOnce(l)' /\ (delivered[l] = 1 => delivered'[l] = 1)
  <2>1. LineOnce(l) /\ LineMoves(extra, l)  BY DEF Ledgers, LaneMoves
  <2>2. Waits(l) => l \in queue.seen  BY DEF Lane, QueueInv, Orderly, Waits
  <2>9. delivered'[l] \in {0, 1}  BY <2>1 DEF LineOnce, LineMoves
  <2>3. Once(toActors', l) /\ OneVoice(l)' /\ delivered'[l] \in {0, 1}
    BY <1>2, <1>4, <1>5, <2>1, <2>9 DEF LineOnce, LineMoves
  <2>4. Waits(l)' => ~Has(toActors', l) /\ ~Speaks(l)' /\ delivered'[l] = 0
    BY <1>2, <1>5, <2>1 DEF LineOnce, LineMoves
  <2>5. Has(toActors', l) => ~Speaks(l)' /\ delivered'[l] = 0
    BY <1>2, <1>5, <2>1 DEF LineOnce, LineMoves
  <2>6. Speaks(l)' => delivered'[l] = 0
    BY <1>5, <2>1 DEF LineOnce, LineMoves
  <2>7. l \notin queue'.seen => ~Has(toActors', l) /\ ~Speaks(l)' /\ delivered'[l] = 0
    BY <1>1, <1>2, <1>5, <2>1, <2>2 DEF LineOnce, LineMoves
  <2>8. delivered[l] = 1 => delivered'[l] = 1  BY <2>1 DEF LineOnce, LineMoves
  <2> QED  BY <2>3, <2>4, <2>5, <2>6, <2>7, <2>8 DEF LineOnce, Has, Once
<1>7. ASSUME NEW c \in Commands PROVE CommandOnce(c)'
  <2>1. CommandOnce(c) /\ CommandMoves(extra, c)  BY DEF Ledgers, LaneMoves
  <2>2. Asked(c) => c \in queue.seen  BY DEF Lane, QueueInv, Orderly, Asked
  <2>9. results'[c] \in {0, 1}  BY <2>1 DEF CommandOnce, CommandMoves
  <2>3. Once(toActors', c) /\ OneFace(c)' /\ Once(toGlobal', c) /\ results'[c] \in {0, 1}
    BY <1>2, <1>3, <1>4, <1>5, <2>1, <2>9 DEF CommandOnce, CommandMoves
  <2>4. Asked(c)' => ~Has(toActors', c) /\ ~Faces(c)' /\ ~Has(toGlobal', c) /\ results'[c] = 0
    BY <1>2, <1>3, <1>5, <2>1 DEF CommandOnce, CommandMoves
  <2>5. Has(toActors', c) => ~Faces(c)' /\ ~Has(toGlobal', c) /\ results'[c] = 0
    BY <1>2, <1>3, <1>5, <2>1 DEF CommandOnce, CommandMoves
  <2>6. Faces(c)' => ~Has(toGlobal', c) /\ results'[c] = 0
    BY <1>3, <1>5, <2>1 DEF CommandOnce, CommandMoves
  <2>7. Has(toGlobal', c) => results'[c] = 0
    BY <1>3, <2>1 DEF CommandOnce, CommandMoves
  <2>8. c \notin queue'.seen => ~Has(toActors', c) /\ ~Faces(c)' /\ ~Has(toGlobal', c) /\ results'[c] = 0
    BY <1>1, <1>2, <1>3, <1>5, <2>1, <2>2 DEF CommandOnce, CommandMoves
  <2> QED  BY <2>3, <2>4, <2>5, <2>6, <2>7, <2>8 DEF CommandOnce, Has, Once
<1>8. StatusAfterResult'
  <2> SUFFICES ASSUME NEW i \in DOMAIN toGlobal', toGlobal'[i].msg = "speech"
               PROVE  delivered'[toGlobal'[i].line] = 1
    BY DEF StatusAfterResult
  <2>1. PICK j \in DOMAIN toGlobal : toGlobal'[i] = toGlobal[j]
    <3>1. CASE toGlobal' = toGlobal  BY <3>1
    <3>2. CASE toGlobal # <<>> /\ toGlobal' = Tail(toGlobal)
      <4>1. i + 1 \in DOMAIN toGlobal /\ toGlobal'[i] = toGlobal[i + 1]  BY <1>1, <3>2
      <4> QED  BY <4>1
    <3> QED  BY <1>1, <3>1, <3>2
  <2>2. toGlobal[j].line \in Dialogue /\ delivered[toGlobal[j].line] = 1
    BY <2>1 DEF Ledgers, StatusAfterResult, Lane, Mail, Noticed
  <2> QED  BY <1>6, <2>1, <2>2
<1> QED  BY <1>6, <1>7, <1>8 DEF Ledgers

LEMMA TalkTypes ==
  ASSUME Lane, Talks
  PROVE  QueueInv' /\ ActorTypes' /\ Mail'
<1>1. PICK a \in Actors, after \in Scripts, notices \in Seq(Notices), taken \in LineIds \cup {NoLine} :
             TalksAs(a, after, notices, taken)
  BY DEF Talks
<1>2. /\ actor' = [actor EXCEPT ![a] = after] /\ toGlobal' = toGlobal \o notices
      /\ delivered' = [l \in Dialogue |-> delivered[l] + (IF Has(notices, l) THEN 1 ELSE 0)]
      /\ UNCHANGED <<queue, media, results, confirm, gen>>
      /\ Fits(a, after, notices, taken)
  BY <1>1 DEF TalksAs
<1>3. QueueInv'
  <2>1. delivered' \in [Dialogue -> Nat]  BY <1>2 DEF Lane, QueueInv, QueueTypes
  <2> QED
    BY <1>2, <2>1 DEF Lane, QueueInv, QueueTypes, NoMediaLeft, ConfirmationIsCurrent
<1>4. ActorTypes'  BY <1>2 DEF Lane, ActorTypes, Scripts
<1>5. toActors' \in Seq(Messages) /\ \A i \in DOMAIN toActors' : Lettered(toActors'[i])
  <2>1. toActors \in Seq(Messages) /\ \A i \in DOMAIN toActors : Lettered(toActors[i])
    BY DEF Lane, Mail
  <2>2. CASE toActors' = toActors  BY <2>1, <2>2
  <2>3. CASE toActors # <<>> /\ toActors' = Tail(toActors)
    <3>1. /\ DOMAIN Tail(toActors) = 1..(Len(toActors) - 1) /\ DOMAIN toActors = 1..Len(toActors)
          /\ Tail(toActors) \in Seq(Messages) /\ Len(toActors) \in Nat
          /\ \A i \in 1..(Len(toActors) - 1) : Tail(toActors)[i] = toActors[i + 1]
      BY <2>1, <2>3
    <3>2. \A i \in 1..(Len(toActors) - 1) : i + 1 \in DOMAIN toActors  BY <3>1
    <3> QED  BY <2>1, <2>3, <3>1, <3>2
  <2> QED  BY <1>2, <2>2, <2>3 DEF Fits
<1>6. \A i \in DOMAIN toActors' : Lettered(toActors[i])'  BY <1>2, <1>5 DEF Lettered
<1>7. toGlobal' \in Seq(Notices) /\ \A i \in DOMAIN toGlobal' : Noticed(toGlobal'[i])
  BY <1>2, Both DEF Lane, Mail, Fits
<1> QED  BY <1>3, <1>4, <1>5, <1>6, <1>7 DEF Mail, Noticed

LEMMA LedgersTalk ==
  ASSUME Lane, Ledgers, Talks
  PROVE  Ledgers'
<1>1. PICK a \in Actors, after \in Scripts, notices \in Seq(Notices), taken \in LineIds \cup {NoLine} :
             TalksAs(a, after, notices, taken)
  BY DEF Talks
<1>2. /\ actor' = [actor EXCEPT ![a] = after] /\ toGlobal' = toGlobal \o notices
      /\ delivered' = [l \in Dialogue |-> delivered[l] + (IF Has(notices, l) THEN 1 ELSE 0)]
      /\ UNCHANGED <<queue, media, results, confirm, gen>>
      /\ Fits(a, after, notices, taken)
      /\ actor \in [Actors -> Scripts] /\ toActors \in Seq(Messages) /\ toGlobal \in Seq(Notices)
  BY <1>1 DEF TalksAs, Lane, Mail, ActorTypes
<1>3. \A b \in Actors : actor'[b] = IF b = a THEN after ELSE actor[b]  BY <1>2
<1>4. \A x \in LineIds : /\ Has(toActors', x) => Has(toActors, x)
                         /\ Once(toActors, x) => Once(toActors', x)
                         /\ x = taken => Has(toActors, x)
                         /\ x = taken /\ Once(toActors, x) => ~Has(toActors', x)
  <2>1. CASE toActors' = toActors /\ taken = NoLine  BY <2>1, LaneAssumption DEF LineIds
  <2>2. CASE toActors # <<>> /\ toActors' = Tail(toActors) /\ taken = Letter.line
    BY <1>2, <2>2, HasTail DEF Letter
  <2> QED  BY <1>2, <2>1, <2>2 DEF Fits
<1>5. \A x \in LineIds : /\ Has(toGlobal', x) <=> Has(toGlobal, x) \/ Has(notices, x)
                         /\ Once(toGlobal, x) /\ ~(Has(toGlobal, x) /\ Has(notices, x))
                              => Once(toGlobal', x)
  BY <1>2, HasConcat DEF Fits
<1>6. \A x \in LineIds : /\ Has(notices, x) => (x = taken \/ Does(a, x)) /\ x \notin {after.speech, after.face}
                         /\ x \in {after.speech, after.face} => x = taken \/ Does(a, x)
  BY <1>2 DEF Fits
<1>7. actor[a].speech \in Dialogue \cup {NoLine} /\ actor[a].face \in Commands \cup {NoLine}
      /\ after.speech \in Dialogue \cup {NoLine} /\ after.face \in Commands \cup {NoLine}
  BY <1>2 DEF Scripts
<1>8. ASSUME NEW l \in Dialogue PROVE LineOnce(l)' /\ (Has(notices, l) => delivered[l] = 0)
  <2>1. LineOnce(l) /\ l \in LineIds /\ l \notin Commands /\ l # NoLine
    BY LaneAssumption DEF Ledgers, LineIds
  <2>2. delivered'[l] = delivered[l] + (IF Has(notices, l) THEN 1 ELSE 0)  BY <1>2
  <2>3. (Waits(l)' <=> Waits(l)) /\ queue' = queue  BY <1>2 DEF Waits
  <2>4. Does(a, l) <=> actor[a].speech = l  BY <1>7, <2>1 DEF Does
  <2>5. Has(notices, l) => (l = taken \/ actor[a].speech = l) /\ after.speech # l
    BY <1>6, <2>1, <2>4
  <2>6. after.speech = l => l = taken \/ actor[a].speech = l  BY <1>6, <2>1, <2>4
  <2>7. actor[a].speech = l => Speaks(l)  BY DEF Speaks
  <2>8. Has(notices, l) => delivered[l] = 0 /\ ~Waits(l) /\ l \in queue.seen
    BY <1>4, <2>1, <2>5, <2>7 DEF LineOnce
  <2>9. Speaks(l)' => Speaks(l) \/ l = taken
    BY <1>3, <2>6, <2>7 DEF Speaks
  <2>10. Has(notices, l) => ~Speaks(l)' /\ ~Has(toActors', l)
    <3>1. Has(notices, l) /\ l = taken => ~Has(toActors', l) /\ \A b \in Actors : actor[b].speech # l
      BY <1>4, <2>1 DEF LineOnce, Speaks
    <3>2. Has(notices, l) /\ actor[a].speech = l
            => ~Has(toActors, l) /\ \A b \in Actors : actor[b].speech = l => b = a
      BY <2>1, <2>7 DEF LineOnce, OneVoice
    <3>3. Has(notices, l) => \A b \in Actors : actor'[b].speech # l
      BY <1>3, <2>5, <3>1, <3>2
    <3> QED  BY <1>4, <2>1, <2>5, <3>1, <3>2, <3>3 DEF Speaks
  <2>11. OneVoice(l)'
    <3>1. CASE l = taken
      <4>1. \A b \in Actors : actor[b].speech # l  BY <1>4, <2>1, <3>1 DEF LineOnce, Speaks
      <4>2. \A b \in Actors : actor'[b].speech = l => b = a  BY <1>3, <4>1
      <4> QED  BY <4>2 DEF OneVoice
    <3>2. CASE l # taken
      <4>1. \A b \in Actors : actor'[b].speech = l => actor[b].speech = l  BY <1>3, <2>6, <3>2
      <4> QED  BY <2>1, <4>1 DEF OneVoice, LineOnce
    <3> QED  BY <3>1, <3>2
  <2>12. Once(toActors', l)  BY <1>4, <2>1 DEF LineOnce
  <2>13. delivered'[l] \in {0, 1} /\ (~Has(notices, l) => delivered'[l] = delivered[l])
    BY <2>1, <2>2, <2>8 DEF LineOnce
  <2>14. Waits(l)' => ~Has(toActors', l) /\ ~Speaks(l)' /\ delivered'[l] = 0
    BY <1>4, <2>1, <2>3, <2>8, <2>9, <2>13 DEF LineOnce
  <2>15. Has(toActors', l) => ~Speaks(l)' /\ delivered'[l] = 0
    BY <1>4, <2>1, <2>9, <2>10, <2>13 DEF LineOnce
  <2>16. Speaks(l)' => delivered'[l] = 0
    BY <1>4, <2>1, <2>9, <2>10, <2>13 DEF LineOnce
  <2>17. l \notin queue'.seen => ~Has(toActors', l) /\ ~Speaks(l)' /\ delivered'[l] = 0
    BY <1>4, <2>1, <2>3, <2>8, <2>9, <2>13 DEF LineOnce
  <2> QED  BY <2>8, <2>11, <2>12, <2>13, <2>14, <2>15, <2>16, <2>17 DEF LineOnce, Has, Once
<1>9. ASSUME NEW c \in Commands PROVE CommandOnce(c)'
  <2>1. CommandOnce(c) /\ c \in LineIds /\ c \notin Dialogue /\ c # NoLine
    BY LaneAssumption DEF Ledgers, LineIds
  <2>2. results' = results /\ (Asked(c)' <=> Asked(c)) /\ queue' = queue  BY <1>2 DEF Asked
  <2>4. Does(a, c) <=> actor[a].face = c  BY <1>7, <2>1 DEF Does
  <2>5. Has(notices, c) => (c = taken \/ actor[a].face = c) /\ after.face # c
    BY <1>6, <2>1, <2>4
  <2>6. after.face = c => c = taken \/ actor[a].face = c  BY <1>6, <2>1, <2>4
  <2>7. actor[a].face = c => Faces(c)  BY DEF Faces
  <2>8. Has(notices, c) => results[c] = 0 /\ ~Asked(c) /\ c \in queue.seen /\ ~Has(toGlobal, c)
    BY <1>4, <2>1, <2>5, <2>7 DEF CommandOnce
  <2>9. Faces(c)' => Faces(c) \/ c = taken
    BY <1>3, <2>6, <2>7 DEF Faces
  <2>10. Has(notices, c) => ~Faces(c)' /\ ~Has(toActors', c)
    <3>1. Has(notices, c) /\ c = taken => ~Has(toActors', c) /\ \A b \in Actors : actor[b].face # c
      BY <1>4, <2>1 DEF CommandOnce, Faces
    <3>2. Has(notices, c) /\ actor[a].face = c
            => ~Has(toActors, c) /\ \A b \in Actors : actor[b].face = c => b = a
      BY <2>1, <2>7 DEF CommandOnce, OneFace
    <3>3. Has(notices, c) => \A b \in Actors : actor'[b].face # c
      BY <1>3, <2>5, <3>1, <3>2
    <3> QED  BY <1>4, <2>1, <2>5, <3>1, <3>2, <3>3 DEF Faces
  <2>11. OneFace(c)'
    <3>1. CASE c = taken
      <4>1. \A b \in Actors : actor[b].face # c  BY <1>4, <2>1, <3>1 DEF CommandOnce, Faces
      <4>2. \A b \in Actors : actor'[b].face = c => b = a  BY <1>3, <4>1
      <4> QED  BY <4>2 DEF OneFace
    <3>2. CASE c # taken
      <4>1. \A b \in Actors : actor'[b].face = c => actor[b].face = c  BY <1>3, <2>6, <3>2
      <4> QED  BY <2>1, <4>1 DEF OneFace, CommandOnce
    <3> QED  BY <3>1, <3>2
  <2>12. Once(toActors', c) /\ Once(toGlobal', c)  BY <1>4, <1>5, <2>1, <2>8 DEF CommandOnce
  <2>13. Asked(c)' => ~Has(toActors', c) /\ ~Faces(c)' /\ ~Has(toGlobal', c) /\ results'[c] = 0
    BY <1>4, <1>5, <2>1, <2>2, <2>8, <2>9 DEF CommandOnce
  <2>14. Has(toActors', c) => ~Faces(c)' /\ ~Has(toGlobal', c) /\ results'[c] = 0
    BY <1>4, <1>5, <2>1, <2>2, <2>9, <2>10 DEF CommandOnce
  <2>15. Faces(c)' => ~Has(toGlobal', c) /\ results'[c] = 0
    BY <1>4, <1>5, <2>1, <2>2, <2>9, <2>10 DEF CommandOnce
  <2>16. Has(toGlobal', c) => results'[c] = 0
    BY <1>5, <2>1, <2>2, <2>8 DEF CommandOnce
  <2>17. c \notin queue'.seen => ~Has(toActors', c) /\ ~Faces(c)' /\ ~Has(toGlobal', c) /\ results'[c] = 0
    BY <1>4, <1>5, <2>1, <2>2, <2>8, <2>9 DEF CommandOnce
  <2> QED  BY <2>1, <2>2, <2>11, <2>12, <2>13, <2>14, <2>15, <2>16, <2>17 DEF CommandOnce, Has, Once
<1>10. StatusAfterResult'
  <2> SUFFICES ASSUME NEW i \in DOMAIN toGlobal', toGlobal'[i].msg = "speech"
               PROVE  delivered'[toGlobal'[i].line] = 1
    BY DEF StatusAfterResult
  <2>1. \/ \E j \in DOMAIN toGlobal : toGlobal'[i] = toGlobal[j]
        \/ \E j \in DOMAIN notices : toGlobal'[i] = notices[j]
    <3>1. DOMAIN toGlobal = 1..Len(toGlobal) /\ DOMAIN notices = 1..Len(notices)
          /\ DOMAIN (toGlobal \o notices) = 1..(Len(toGlobal) + Len(notices))
          /\ Len(toGlobal) \in Nat /\ Len(notices) \in Nat
      BY <1>2
    <3>2. \/ i \in DOMAIN toGlobal /\ (toGlobal \o notices)[i] = toGlobal[i]
          \/ i - Len(toGlobal) \in DOMAIN notices /\ (toGlobal \o notices)[i] = notices[i - Len(toGlobal)]
      BY <1>2, <3>1
    <3> QED  BY <1>2, <3>2
  <2>2. CASE \E j \in DOMAIN toGlobal : toGlobal'[i] = toGlobal[j]
    <3>1. PICK j \in DOMAIN toGlobal : toGlobal'[i] = toGlobal[j]  BY <2>2
    <3>2. toGlobal[j].line \in Dialogue /\ delivered[toGlobal[j].line] = 1
      BY <3>1 DEF Ledgers, StatusAfterResult, Lane, Mail, Noticed
    <3>3. ~Has(notices, toGlobal[j].line)  BY <1>8, <3>2
    <3> QED  BY <1>2, <3>1, <3>2, <3>3
  <2>3. CASE \E j \in DOMAIN notices : toGlobal'[i] = notices[j]
    <3>1. PICK j \in DOMAIN notices : toGlobal'[i] = notices[j]  BY <2>3
    <3>2. Noticed(notices[j])  BY <1>2 DEF Fits
    <3>3. notices[j].line \in Dialogue /\ Has(notices, notices[j].line)
      BY <3>1, <3>2 DEF Noticed, Has
    <3>4. delivered[notices[j].line] = 0  BY <1>8, <3>3
    <3> QED  BY <1>2, <3>1, <3>3, <3>4
  <2> QED  BY <2>1, <2>2, <2>3
<1> QED  BY <1>8, <1>9, <1>10 DEF Ledgers

-------------------------------------------------------------------------------
(* The variables that only have types                                      *)

(* Who is an agent, who is registered and who is present.                  *)
LEMMA GroupChanges ==
  ASSUME [Next]_vars
  PROVE  \/ UNCHANGED groupVars \/ ActorStatusInactive
         \/ \E a \in Actors : BecomesInactive(a) \/ BecomesActive(a) \/ Attach(a) \/ Detach(a)
<1>1. CASE PollEvent \/ PollEnd
  BY <1>1 DEF PollEvent, PollEnd, PollDialogue, PollMedia, PollResponse, PollIntent, PollTerminal,
              TransportFailure
<1>2. CASE HandlerStep
  BY <1>2 DEF HandlerStep, Prefetch, PumpStops, PumpPrepares, PumpMediaReady, PumpGivesUp, PumpSpeaks,
              PumpAsks, PumpActs, SubmitFollowUp, LoseFollowUp, HandlerEnds
<1>3. CASE ActorReceives
  BY <1>3 DEF ActorReceives, ReceiveSpeak, ReceiveSubtitle, ReceiveAction, ReceiveReject,
              ReceiveStopSpeech, ReceiveHaltActions, ReceiveStop, ReceiveAttach
<1>4. CASE GlobalReceives
  BY <1>4 DEF GlobalReceives, SpeechStatus, ActionResult, IgnoredNotice
<1>5. CASE PlayerActs
  BY <1>5 DEF PlayerActs, SubmitTyped, InterruptOnly, SubmitTranscript, ConfirmAction, HaltActions,
              Interrupt, DisableAi, EnableAi
<1>6. CASE PlayerSpeechComplete \/ SubmitAutonomy \/ ProbeEnds \/ ContextTimesOut \/ RechatContext
           \/ \E l \in Dialogue, outcome \in {"ready", "failed"} : MediaSettles(l, outcome)
  BY <1>6 DEF PlayerSpeechComplete, SubmitAutonomy, ProbeEnds, ContextTimesOut, RechatContext,
              MediaSettles
<1>7. CASE WorldActs
  BY <1>7 DEF WorldActs, SpeechEnds, FaceEnds
<1>8. CASE UNCHANGED vars  BY <1>8 DEF vars
<1> QED  BY <1>1, <1>2, <1>3, <1>4, <1>5, <1>6, <1>7, <1>8 DEF Next

LEMMA GroupsKept == ASSUME Lane, [Next]_vars PROVE GroupTypes'
<1>1. GroupTypes /\ Mail  BY DEF Lane
<1>2. CASE UNCHANGED groupVars  BY <1>1, <1>2 DEF GroupTypes, groupVars
<1>3. CASE ActorStatusInactive
  BY <1>1, <1>3 DEF ActorStatusInactive, GroupTypes
<1>4. CASE \E a \in Actors : BecomesInactive(a) \/ BecomesActive(a) \/ Attach(a) \/ Detach(a)
  BY <1>1, <1>4 DEF BecomesInactive, BecomesActive, Attach, Detach, GroupTypes
<1> QED  BY <1>2, <1>3, <1>4, GroupChanges

LEMMA Idles ==
  /\ NoTurn \in TurnStates /\ NoChain \in ChainStates /\ NoProbe \in ProbeStates
  /\ AtRest \in Handlers
  /\ \A then \in {"none", "poll", "status"}, advance \in BOOLEAN : ThenPump(then, advance) \in Handlers
  /\ [AtRest EXCEPT !.at = "poll"] \in Handlers
  /\ \A h \in Handlers, at \in {"idle", "poll", "prefetch", "pump", "followup", "probe"} :
       [h EXCEPT !.at = at] \in Handlers
BY DEF NoTurn, NoChain, NoProbe, AtRest, ThenPump, TurnStates, ChainStates, ProbeStates, Handlers

LEMMA ChainChanges ==
  ASSUME NEW r \in ChainStates
  PROVE  /\ \A b \in BOOLEAN : /\ [r EXCEPT !.cancelled = b] \in ChainStates
                              /\ [r EXCEPT !.inFlight = b] \in ChainStates
         /\ \A b, d \in BOOLEAN : [r EXCEPT !.inFlight = b, !.cancelled = d] \in ChainStates
         /\ \A p \in LineIds \cup {NoLine}, b \in BOOLEAN :
              /\ [r EXCEPT !.inFlight = b, !.prefetch = p] \in ChainStates
              /\ [r EXCEPT !.cancelled = b, !.prefetch = p] \in ChainStates
         /\ \A t \in Turns \cup {0}, b \in BOOLEAN :
              [r EXCEPT !.inFlight = b, !.discard = t] \in ChainStates
BY DEF ChainStates

LEMMA TurnBegins ==
  ASSUME TurnTypes, NEW from \in Dialogue \cup {NoLine}, BeginTurn(from)
  PROVE  /\ turn' \in TurnStates /\ nextTurn' \in 1..(Len(Script) + 1)
         /\ origin' \in [Turns -> Dialogue \cup {NoLine}] /\ NewChain \in ChainStates
<1>1. Turns = 1..Len(Script) /\ Len(Script) \in Nat
  <2> DEFINE R == [lines : Seq(Dialogue), commands : Seq(Commands)]
  <2>1. Script \in Seq(R)  BY ScriptAssumption
  <2> HIDE DEF R
  <2> QED  BY <2>1 DEF Turns
<1>2. nextTurn \in Turns /\ nextTurn' = nextTurn + 1 /\ turn' = [id |-> nextTurn, terminal |-> FALSE]
      /\ origin' = [origin EXCEPT ![nextTurn] = from]
  BY DEF BeginTurn
<1>3. turn' \in TurnStates  BY <1>2 DEF TurnStates
<1>4. NewChain \in ChainStates  BY <1>2 DEF NewChain, NoChain, ChainStates
<1>5. nextTurn' \in 1..(Len(Script) + 1)  BY <1>1, <1>2
<1>6. origin' \in [Turns -> Dialogue \cup {NoLine}]  BY <1>2 DEF TurnTypes
<1> QED  BY <1>3, <1>4, <1>5, <1>6

LEMMA TurnKept == ASSUME TurnTypes, NEW t \in TurnStates, NoTurnBegins(t)
  PROVE  /\ turn' \in TurnStates /\ nextTurn' \in 1..(Len(Script) + 1)
         /\ origin' \in [Turns -> Dialogue \cup {NoLine}]
BY DEF NoTurnBegins, TurnTypes

LEMMA TurnsKept == ASSUME Lane, TurnTypes, [Next]_vars PROVE TurnTypes'
<1> USE Idles DEF TurnTypes
<1>0. NoLine \in Dialogue \cup {NoLine} /\ (queue.active \in LineIds \cup {NoLine})
  BY DEF Lane, QueueInv, QueueTypes, Queues
<1>1. ASSUME PollEvent PROVE TurnTypes'
  <2>1. ASSUME NEW l \in Dialogue, PollDialogue(l) \/ PollMedia(l) PROVE TurnTypes'
    BY <2>1 DEF PollDialogue, PollMedia, Polling, chainVars, actionVars, boundVars
  <2>2. ASSUME NEW e \in SUBSET Dialogue, PollResponse(e) PROVE TurnTypes'
    BY <2>2 DEF PollResponse, Polling, chainVars, actionVars, boundVars
  <2>3. ASSUME NEW c \in Commands, PollIntent(c) PROVE TurnTypes'
    BY <2>3 DEF PollIntent, Polling, chainVars, actionVars, boundVars
  <2>4. ASSUME NEW ok \in BOOLEAN, PollTerminal(ok) PROVE TurnTypes'
    <3>1. turn' \in TurnStates  BY <2>4 DEF PollTerminal, TurnStates
    <3>2. rechat' \in ChainStates
      <4>1. rechat.cancelled \in BOOLEAN  BY DEF ChainStates
      <4>2. (rechat.cancelled \/ ~ok) \in BOOLEAN  OBVIOUS
      <4> QED  BY <2>4, <4>2, ChainChanges DEF PollTerminal
    <3> QED  BY <2>4, <3>1, <3>2 DEF PollTerminal, Polling, actionVars, boundVars
  <2>5. ASSUME TransportFailure PROVE TurnTypes'
    <3>1. turn' \in TurnStates  BY <2>5 DEF TransportFailure, TurnStates
    <3>2. rechat' \in ChainStates  BY <2>5, ChainChanges DEF TransportFailure
    <3> QED  BY <2>5, <3>1, <3>2 DEF TransportFailure, Polling, actionVars, boundVars
  <2> QED  BY <1>1, <2>1, <2>2, <2>3, <2>4, <2>5 DEF PollEvent
<1>2. ASSUME PollEnd PROVE TurnTypes'
  BY <1>2 DEF PollEnd, turnVars, chainVars, actionVars, boundVars
<1>3. ASSUME (\E refused \in SUBSET Dialogue : Prefetch(refused)) \/ PumpStops \/ PumpPrepares
               \/ PumpMediaReady \/ PumpGivesUp \/ PumpSpeaks \/ PumpAsks \/ PumpActs
      PROVE  TurnTypes'
  <2>1. pc' \in Handlers
    BY <1>3 DEF Prefetch, PumpStops, PumpPrepares, PumpMediaReady, PumpGivesUp, PumpSpeaks, PumpAsks,
                PumpActs, PumpReturns
  <2>2. UNCHANGED <<turnVars, chainVars, followups, boundVars, speech, voice, ai>>
    BY <1>3 DEF Prefetch, PumpStops, PumpPrepares, PumpMediaReady, PumpGivesUp, PumpSpeaks, PumpAsks,
                PumpActs, actionVars
  <2> QED  BY <2>1, <2>2 DEF turnVars, chainVars, boundVars
<1>4. ASSUME SubmitFollowUp \/ LoseFollowUp PROVE TurnTypes'
  <2>1. followups' \in Seq(Commands)
    <3>1. followups # <<>> /\ followups' = Tail(followups)
      BY <1>4 DEF SubmitFollowUp, LoseFollowUp, MayFollowUp
    <3> QED  BY <3>1
  <2>2. /\ turn' \in TurnStates /\ nextTurn' \in 1..(Len(Script) + 1)
        /\ origin' \in [Turns -> Dialogue \cup {NoLine}]
    BY <1>0, <1>4, TurnBegins, TurnKept DEF SubmitFollowUp, LoseFollowUp
  <2>3. rechat' \in ChainStates /\ probe' \in ProbeStates /\ pc' \in Handlers
        /\ UNCHANGED <<seed, boundVars, speech, voice, ai>>
    BY <1>4 DEF SubmitFollowUp, LoseFollowUp, chainVars
  <2> QED  BY <2>1, <2>2, <2>3 DEF boundVars
<1>5. ASSUME HandlerEnds PROVE TurnTypes'
  <2>1. rechat' \in ChainStates /\ probe' \in ProbeStates
    <3>1. [NoProbe EXCEPT !.stage = "states"] \in ProbeStates  BY DEF NoProbe, ProbeStates
    <3> QED  BY <1>5, <3>1, ChainChanges DEF HandlerEnds, StartProbe
  <2> QED  BY <1>5, <2>1 DEF HandlerEnds, turnVars, actionVars, boundVars
<1>6. ASSUME ActorReceives PROVE TurnTypes'
  BY <1>6 DEF ActorReceives, ReceiveSpeak, ReceiveSubtitle, ReceiveAction, ReceiveReject,
              ReceiveStopSpeech, ReceiveHaltActions, ReceiveStop, ReceiveAttach,
              ActorStep, turnVars, chainVars, actionVars, boundVars
<1>7. ASSUME SpeechStatus PROVE TurnTypes'
  <2>1. turn' \in TurnStates
    <3>1. (turn.id # 0) \in BOOLEAN  OBVIOUS
    <3>2. \A b \in BOOLEAN : [turn EXCEPT !.terminal = b] \in TurnStates  BY DEF TurnStates
    <3> QED  BY <1>7, <3>1, <3>2 DEF SpeechStatus
  <2>2. rechat' \in ChainStates
    <3> DEFINE chain == IF rechat.id = 0 THEN rechat
                        ELSE [rechat EXCEPT !.cancelled = @ \/ Notice.status # "played",
                                !.prefetch = IF @ = queue.active THEN NoLine ELSE @]
    <3>1. chain \in ChainStates
      <4>1. (rechat.cancelled \/ Notice.status # "played") \in BOOLEAN  OBVIOUS
      <4>2. (IF rechat.prefetch = queue.active THEN NoLine ELSE rechat.prefetch) \in LineIds \cup {NoLine}
        BY DEF ChainStates
      <4> QED  BY <4>1, <4>2, ChainChanges
    <3>2. turn.id \in Turns \cup {0}  BY DEF TurnStates
    <3>3. rechat' \in {chain, [chain EXCEPT !.inFlight = FALSE, !.discard = turn.id]}
      BY <1>7 DEF SpeechStatus
    <3> HIDE DEF chain
    <3> QED  BY <3>1, <3>2, <3>3, ChainChanges
  <2>3. probe' \in ProbeStates /\ pc' \in Handlers /\ speech' \in BOOLEAN
    <3>1. AdvanceDue(Completed(queue, Notice.status)) \in BOOLEAN  BY DEF AdvanceDue
    <3> QED  BY <1>7, <3>1 DEF SpeechStatus
  <2> QED  BY <1>7, <2>1, <2>2, <2>3 DEF SpeechStatus, actionVars, boundVars
<1>8. ASSUME ActionResult PROVE TurnTypes'
  <2>1. Notice.line \in Commands
    BY <1>8, NoticeTaken DEF ActionResult, Noticed
  <2>2. followups' \in Seq(Commands)
    <3>1. followups' \in {followups, <<>>, Append(followups, Notice.line)}
      BY <1>8 DEF ActionResult
    <3>2. \A s \in Seq(Commands) : Append(s, Notice.line) \in Seq(Commands)  BY <2>1
    <3>3. <<>> \in Seq(Commands) /\ followups \in Seq(Commands)  OBVIOUS
    <3> QED  BY <3>1, <3>2, <3>3, Zenon
  <2>3. pc' \in Handlers
    <3>1. AdvanceDue(RemoveHead(queue)) \in BOOLEAN  BY DEF AdvanceDue
    <3> QED  BY <1>8, <3>1 DEF ActionResult
  <2>4. rechat' \in ChainStates /\ probe' \in ProbeStates /\ seed' \in BOOLEAN
    BY <1>8 DEF ActionResult, ForgetChain, chainVars
  <2> QED  BY <1>8, <2>2, <2>3, <2>4 DEF ActionResult, turnVars, boundVars
<1>9. ASSUME ActorStatusInactive \/ IgnoredNotice
             \/ \E l \in Dialogue, outcome \in {"ready", "failed"} : MediaSettles(l, outcome)
      PROVE  TurnTypes'
  BY <1>9 DEF ActorStatusInactive, IgnoredNotice, MediaSettles, turnVars, chainVars, actionVars, boundVars
<1>10. ASSUME SubmitTyped \/ SubmitTranscript \/ SubmitAutonomy PROVE TurnTypes'
  <2>1. /\ turn' \in TurnStates /\ nextTurn' \in 1..(Len(Script) + 1)
        /\ origin' \in [Turns -> Dialogue \cup {NoLine}] /\ NewChain \in ChainStates
    BY <1>0, <1>10, TurnBegins DEF SubmitTyped, SubmitTranscript, SubmitAutonomy
  <2>2. rechat' \in ChainStates /\ probe' \in ProbeStates /\ seed' \in BOOLEAN /\ speech' \in BOOLEAN
        /\ voice' \in BOOLEAN
    BY <1>10, <2>1 DEF SubmitTyped, SubmitTranscript, SubmitAutonomy, ForgetChain
  <2>3. followups' \in Seq(Commands)
    <3>1. followups' \in {followups, <<>>}
      BY <1>10 DEF SubmitTyped, InterruptForPlayerInput, ForgetActions, SubmitTranscript, SubmitAutonomy,
                   actionVars
    <3>2. <<>> \in Seq(Commands) /\ followups \in Seq(Commands)  OBVIOUS
    <3> QED  BY <3>1, <3>2
  <2>4. UNCHANGED <<ai, pc, boundVars>>
    BY <1>10 DEF SubmitTyped, SubmitTranscript, SubmitAutonomy
  <2> QED  BY <2>1, <2>2, <2>3, <2>4 DEF boundVars
<1>11. ASSUME InterruptOnly \/ Interrupt(SignalAll("STOP_SPEECH")) \/ Interrupt(StopSpeechAndWork) \/ DisableAi
       PROVE  TurnTypes'
  <2>1. NoTurnBegins(NoTurn) /\ ForgetChain /\ ForgetActions /\ CountStop /\ speech' = FALSE
        /\ voice' \in BOOLEAN /\ ai' \in BOOLEAN /\ pc' = pc
    BY <1>11 DEF InterruptOnly, InterruptForPlayerInput, Interrupt, DisableAi
  <2>2. followups' \in Seq(Commands)  BY <2>1 DEF ForgetActions
  <2>3. stops' \in Nat /\ moves' \in Nat  BY <2>1 DEF CountStop
  <2> QED  BY <2>1, <2>2, <2>3 DEF NoTurnBegins, ForgetChain
<1>12. ASSUME NEW c \in Commands, NEW yes \in BOOLEAN, ConfirmAction(c, yes) PROVE TurnTypes'
  BY <1>12 DEF ConfirmAction, turnVars, chainVars, boundVars
<1>13. ASSUME HaltActions PROVE TurnTypes'
  <2>1. stops' \in Nat /\ moves' \in Nat  BY <1>13 DEF HaltActions, CountStop
  <2> QED  BY <1>13, <2>1 DEF HaltActions, turnVars, chainVars
<1>14. ASSUME EnableAi \/ PlayerSpeechComplete PROVE TurnTypes'
  BY <1>14 DEF EnableAi, PlayerSpeechComplete, turnVars, chainVars, actionVars, boundVars
<1>15. ASSUME ProbeEnds PROVE TurnTypes'
  <2>1. turn.id \in Turns \cup {0} /\ rechat.id \in Turns \cup {0}  BY DEF TurnStates, ChainStates
  <2>2. [stage |-> "context", turn |-> turn.id, chain |-> rechat.id] \in ProbeStates
    BY <2>1 DEF ProbeStates
  <2>3. probe' \in ProbeStates  BY <1>15, <2>2 DEF ProbeEnds
  <2>4. rechat' \in ChainStates
    <3>1. (rechat.cancelled \/ ChainReady) \in BOOLEAN  OBVIOUS
    <3> QED  BY <1>15, <3>1, ChainChanges DEF ProbeEnds
  <2> QED  BY <1>15, <2>3, <2>4 DEF ProbeEnds, turnVars, actionVars, boundVars
<1>16. ASSUME ContextTimesOut PROVE TurnTypes'
  <2>1. rechat' \in ChainStates
    <3>1. (rechat.cancelled \/ (rechat.id = probe.chain /\ rechat.id # 0)) \in BOOLEAN  OBVIOUS
    <3> QED  BY <1>16, <3>1, ChainChanges DEF ContextTimesOut
  <2> QED  BY <1>16, <2>1 DEF ContextTimesOut, turnVars, actionVars, boundVars
<1>17. ASSUME RechatContext PROVE TurnTypes'
  <2>1. turn.id \in Turns  BY <1>17 DEF RechatContext, ContextFits, TurnStates
  <2>2. queue.active \in Dialogue \cup {NoLine}
    BY <1>17, ActiveIsFirst DEF RechatContext, ContextFits, CanStartRechat, Lane, QueueInv, QueueTypes
  <2>3. /\ turn' \in TurnStates /\ nextTurn' \in 1..(Len(Script) + 1)
        /\ origin' \in [Turns -> Dialogue \cup {NoLine}]
    BY <1>17, <2>2, TurnBegins, TurnKept DEF RechatContext
  <2>4. rechat' \in ChainStates
    <3>1. (IF queue.active # NoLine THEN queue.active ELSE rechat.prefetch) \in LineIds \cup {NoLine}
      BY <1>0 DEF ChainStates
    <3> QED  BY <1>17, <3>1, ChainChanges DEF RechatContext
  <2>5. probe' = NoProbe /\ UNCHANGED <<seed, followups, boundVars, speech, voice, ai, pc>>
    BY <1>17 DEF RechatContext, actionVars
  <2> QED  BY <2>3, <2>4, <2>5 DEF boundVars
<1>18. ASSUME WorldActs PROVE TurnTypes'
  <2>1. PICK a \in Actors :
           \/ \E status \in {"played", "interrupted"} : SpeechEnds(a, status)
           \/ \E status \in {"succeeded", "failed"} : FaceEnds(a, status)
           \/ BecomesInactive(a) \/ BecomesActive(a) \/ Attach(a) \/ Detach(a)
    BY <1>18 DEF WorldActs
  <2>2. ActorStep /\ (UNCHANGED boundVars \/ CountMove)
    BY <2>1 DEF SpeechEnds, FaceEnds, BecomesInactive, BecomesActive, Attach, Detach
  <2>3. stops' \in Nat /\ moves' \in Nat  BY <2>2 DEF CountMove, boundVars
  <2> QED  BY <2>2, <2>3 DEF ActorStep, turnVars, chainVars, actionVars
<1>19. CASE UNCHANGED vars
  BY <1>19 DEF vars, turnVars, chainVars, actionVars, boundVars
<1> QED
  BY <1>1, <1>2, <1>3, <1>4, <1>5, <1>6, <1>7, <1>8, <1>9, <1>10, <1>11, <1>12, <1>13, <1>14, <1>15,
     <1>16, <1>17, <1>18, <1>19 DEF Next, HandlerStep, GlobalReceives, PlayerActs

-------------------------------------------------------------------------------
(* The inductive invariant and what it says                                *)

LaneHolds == Lane /\ TurnTypes /\ Ledgers

LEMMA LaneBegins == Init => LaneHolds
<1> SUFFICES ASSUME Init PROVE LaneHolds  OBVIOUS
<1>1. NewQueue \in Queues /\ Orderly(NewQueue) /\ Queued(NewQueue) = {} /\ NewQueue.active = NoLine
      /\ NewQueue.seen = {}
  BY DEF NewQueue, Queues, Orderly, Queued
<1>2. QueueInv
  BY <1>1 DEF Init, QueueInv, QueueTypes, NoMediaLeft, ConfirmationIsCurrent
<1>3. ActorTypes /\ GroupTypes  BY DEF Init, ActorTypes, GroupTypes, Scripts
<1>4. Mail
  <2>1. <<>> \in Seq(Messages) /\ <<>> \in Seq(Notices) /\ DOMAIN <<>> = {}  OBVIOUS
  <2> QED  BY <2>1 DEF Init, Mail
<1>5. TurnTypes
  <2>1. \E b \in Budgets : stops = b[1] /\ moves = b[2]  BY DEF Init
  <2>2. stops \in Nat /\ moves \in Nat  BY <2>1, ScriptAssumption
  <2>3. 1 \in 1..(Len(Script) + 1)
    <3> DEFINE R == [lines : Seq(Dialogue), commands : Seq(Commands)]
    <3>1. Script \in Seq(R)  BY ScriptAssumption
    <3> HIDE DEF R
    <3>2. Len(Script) \in Nat  BY <3>1
    <3> QED  BY <3>2
  <2>4. <<>> \in Seq(Commands)  OBVIOUS
  <2> QED  BY <2>2, <2>3, <2>4, Idles DEF Init, TurnTypes
<1>6. Ledgers
  <2>1. \A x : ~Has(toActors, x) /\ Once(toActors, x) /\ ~Has(toGlobal, x) /\ Once(toGlobal, x)
    BY HasNone DEF Init
  <2>2. \A l \in Dialogue : ~Speaks(l) /\ OneVoice(l) /\ ~Waits(l)
    BY <1>1, LaneAssumption DEF Init, Speaks, OneVoice, Waits
  <2>3. \A c \in Commands : ~Faces(c) /\ OneFace(c) /\ ~Asked(c)
    BY <1>1, LaneAssumption DEF Init, Faces, OneFace, Asked
  <2>4. DOMAIN toGlobal = {}  BY DEF Init
  <2>5. \A l \in Dialogue : delivered[l] = 0  BY DEF Init
  <2>6. \A c \in Commands : results[c] = 0  BY DEF Init
  <2> QED  BY <2>1, <2>2, <2>3, <2>4, <2>5, <2>6 DEF Ledgers, LineOnce, CommandOnce, StatusAfterResult
<1> QED  BY <1>2, <1>3, <1>4, <1>5, <1>6 DEF LaneHolds, Lane

LEMMA LaneStep == LaneHolds /\ [Next]_vars => LaneHolds'
<1> SUFFICES ASSUME LaneHolds, [Next]_vars PROVE LaneHolds'  OBVIOUS
<1>1. Lane /\ TurnTypes /\ Ledgers  BY DEF LaneHolds
<1>2. TurnTypes' /\ GroupTypes'  BY <1>1, TurnsKept, GroupsKept
<1>3. QueueInv' /\ ActorTypes' /\ Mail' /\ Ledgers'
  <2>1. ASSUME NEW extra, LetGoes(extra) PROVE QueueInv' /\ ActorTypes' /\ Mail' /\ Ledgers'
    BY <1>1, <2>1, MailAppended, LedgersKept DEF LetGoes
  <2>2. ASSUME PumpSpeaks PROVE QueueInv' /\ ActorTypes' /\ Mail' /\ Ledgers'
    BY <1>1, <2>2, PumpSpeaksCase, MailAppended, LedgersKept
  <2>3. ASSUME Talks PROVE QueueInv' /\ ActorTypes' /\ Mail' /\ Ledgers'
    BY <1>1, <2>3, TalkTypes, LedgersTalk
  <2> QED  BY <1>1, <2>1, <2>2, <2>3, Kinds
<1> QED  BY <1>2, <1>3 DEF LaneHolds, Lane

(* The types, the mail and the two ledgers are inductive for the whole     *)
(* lane: every handler of orchestrator.lua and of the actors' scripts      *)
(* preserves them, whatever the server sends and whoever comes and goes.   *)
THEOREM LaneInductive == Spec => []LaneHolds
<1>1. Init => LaneHolds  BY LaneBegins
<1>2. LaneHolds /\ [Next]_vars => LaneHolds'  BY LaneStep
<1> QED  BY <1>1, <1>2, PTL DEF Spec

(* Between any two steps the active line is at the head of the lane and    *)
(* the native client keeps a clip only for a line that is still queued     *)
(* (releaseMedia on every path on which a line leaves the lane).           *)
THEOREM LaneInvHolds == Spec => []LaneInv
<1>1. LaneHolds => LaneInv
  <2> SUFFICES ASSUME LaneHolds PROVE LaneInv  OBVIOUS
  <2>1. QueueTypes /\ ActorTypes /\ GroupTypes /\ TurnTypes /\ NoMediaLeft /\ Mail
    BY DEF LaneHolds, Lane, QueueInv
  <2>2. \A i \in DOMAIN toActors : toActors[i] \in Messages  BY <2>1 DEF Mail
  <2>3. \A i \in DOMAIN toGlobal : toGlobal[i] \in Notices  BY <2>1 DEF Mail
  <2>4. TypeOK
    BY <2>1, <2>2, <2>3
    DEF TypeOK, QueueTypes, ActorTypes, GroupTypes, TurnTypes, Scripts, TurnStates, ChainStates,
        ProbeStates, Handlers
  <2>5. queue.active # NoLine => queue.items # <<>> /\ First.line = queue.active
    BY DEF LaneHolds, Lane, QueueInv, Orderly, First
  <2> QED  BY <2>1, <2>4, <2>5 DEF LaneInv
<1> QED  BY <1>1, LaneInductive, PTL

(* confirmAction only ever finds the command the lane is waiting for, so   *)
(* the player's late answer cannot execute or fail another one.            *)
THEOREM ConfirmationHolds == Spec => []ConfirmationIsCurrent
<1>1. LaneHolds => ConfirmationIsCurrent  BY DEF LaneHolds, Lane, QueueInv
<1> QED  BY <1>1, LaneInductive, PTL

LEMMA AtMostOne ==
  ASSUME NEW S, \A x, y \in S : x = y
  PROVE  IsFiniteSet(S) /\ Cardinality(S) = IF S = {} THEN 0 ELSE 1
<1>1. CASE S = {}  BY <1>1, FS_EmptySet
<1>2. CASE S # {}
  <2>1. PICK x : x \in S  BY <1>2
  <2>2. S = {x}  BY <2>1
  <2> QED  BY <1>2, <2>2, FS_Singleton
<1> QED  BY <1>1, <1>2

(* What the ledgers say in numbers.                                        *)
LEMMA LineCounts ==
  ASSUME LaneHolds, NEW l \in Dialogue
  PROVE  /\ Waiting(l) = IF Waits(l) THEN 1 ELSE 0
         /\ Owed(l) = IF Has(toActors, l) \/ Speaks(l) THEN 1 ELSE 0
<1> DEFINE A == InFlight(l, {"SPEAK", "SUBTITLE"})
           B == {a \in Actors : actor[a].speech = l}
<1>1. LineOnce(l)  BY DEF LaneHolds, Ledgers
<1>2. l \notin Commands /\ l # NoLine  BY LaneAssumption
<1>3. \A x, y \in A : x = y  BY <1>1 DEF InFlight, LineOnce, Once
<1>4. A = {} <=> ~Has(toActors, l)
  <2>1. \A i \in DOMAIN toActors : toActors[i].line = l => toActors[i].msg \in {"SPEAK", "SUBTITLE"}
    BY <1>2 DEF LaneHolds, Lane, Mail, Lettered
  <2> QED  BY <2>1 DEF InFlight, Has
<1>5. \A x, y \in B : x = y  BY <1>1 DEF LineOnce, OneVoice
<1>6. B = {} <=> ~Speaks(l)  BY DEF Speaks
<1> HIDE DEF A, B
<1>7. Cardinality(A) = (IF Has(toActors, l) THEN 1 ELSE 0)  BY <1>3, <1>4, AtMostOne
<1>8. Cardinality(B) = (IF Speaks(l) THEN 1 ELSE 0)  BY <1>5, <1>6, AtMostOne
<1>9. ~(Has(toActors, l) /\ Speaks(l))  BY <1>1 DEF LineOnce
<1>10. Owed(l) = Cardinality(A) + Cardinality(B)  BY DEF Owed, A, B
<1>11. Waiting(l) = IF Waits(l) THEN 1 ELSE 0  BY DEF Waiting, Waits
<1> QED  BY <1>7, <1>8, <1>9, <1>10, <1>11

LEMMA LineAtMostOnce == LaneHolds => AtMostOneDeliveryResult
<1> SUFFICES ASSUME LaneHolds, NEW l \in Dialogue
             PROVE  Waiting(l) + Owed(l) + delivered[l] <= (IF l \in queue.seen THEN 1 ELSE 0)
  BY DEF AtMostOneDeliveryResult
<1>1. LineOnce(l) /\ (Waits(l) => l \in queue.seen)
  BY DEF LaneHolds, Ledgers, Lane, QueueInv, Orderly, Waits
<1> QED  BY <1>1, LineCounts DEF LineOnce

LEMMA CommandAtMostOnce == LaneHolds => OneActionResult
<1> SUFFICES ASSUME LaneHolds, NEW c \in Commands
             PROVE  results[c] + Cardinality(InFlight(c, {"ACTION", "REJECT"}))
                      + Cardinality({a \in Actors : actor[a].face = c})
                      + Cardinality({i \in DOMAIN toGlobal : toGlobal[i].line = c}) <= 1
  BY DEF OneActionResult
<1> DEFINE A == InFlight(c, {"ACTION", "REJECT"})
           B == {a \in Actors : actor[a].face = c}
           D == {i \in DOMAIN toGlobal : toGlobal[i].line = c}
<1>1. CommandOnce(c)  BY DEF LaneHolds, Ledgers
<1>2. (\A x, y \in A : x = y) /\ (A # {} => Has(toActors, c))
  BY <1>1 DEF InFlight, CommandOnce, Once, Has
<1>3. (\A x, y \in B : x = y) /\ (B # {} => Faces(c))
  BY <1>1 DEF CommandOnce, OneFace, Faces
<1>4. (\A x, y \in D : x = y) /\ (D # {} => Has(toGlobal, c))
  BY <1>1 DEF CommandOnce, Once, Has
<1> HIDE DEF A, B, D
<1>5. /\ Cardinality(A) \in {0, 1} /\ (Cardinality(A) = 1 => Has(toActors, c))
      /\ Cardinality(B) \in {0, 1} /\ (Cardinality(B) = 1 => Faces(c))
      /\ Cardinality(D) \in {0, 1} /\ (Cardinality(D) = 1 => Has(toGlobal, c))
  BY <1>2, <1>3, <1>4, AtMostOne
<1>6. results[c] + Cardinality(A) + Cardinality(B) + Cardinality(D) <= 1
  BY <1>1, <1>5 DEF CommandOnce
<1> QED  BY <1>6 DEF A, B, D

(* The server hears of a line's delivery and of a command's result at most *)
(* once, across reportQueuedDialogue, reportDelivery, haltActions, the     *)
(* actors' answers and everything that can interrupt them, even when       *)
(* actors leave and come back.                                             *)
THEOREM NeverTwiceHolds == Spec => []NeverTwice
<1>1. LaneHolds => NeverTwice  BY LineAtMostOnce, CommandAtMostOnce DEF NeverTwice
<1> QED  BY <1>1, LaneInductive, PTL

-------------------------------------------------------------------------------
(* While the actors stay agents                                            *)

LEMMA RegistryStays ==
  ASSUME Staying, Agents, Agents', [Next]_vars
  PROVE  registry' = Actors
<1>1. registry = Actors /\ attachments = Actors /\ attachments' = Actors  BY DEF Staying, Agents
<1>2. CASE UNCHANGED groupVars  BY <1>1, <1>2 DEF groupVars
<1>3. CASE ActorStatusInactive
  BY <1>1, <1>3 DEF ActorStatusInactive
<1>4. ASSUME NEW a \in Actors, BecomesInactive(a) \/ BecomesActive(a) \/ Attach(a) \/ Detach(a)
      PROVE  registry' = Actors
  BY <1>1, <1>4 DEF BecomesInactive, BecomesActive, Attach, Detach
<1> QED  BY <1>2, <1>3, <1>4, GroupChanges

(* The lane loses no line.                                                 *)
LEMMA AccountedKept ==
  ASSUME Lane, Ledgers, Ledgers', NEW extra, LaneMoves(extra), NEW l \in Dialogue, Accounted(l)
  PROVE  Accounted(l)'
<1>1. /\ toActors' = toActors \o extra /\ actor' = actor
      /\ toActors \in Seq(Messages) /\ extra \in Seq(Messages)
      /\ LineMoves(extra, l) /\ LineOnce(l) /\ (Waits(l) => l \in queue.seen)
  BY DEF LaneMoves, Lane, Mail, Ledgers, QueueInv, Orderly, Waits
<1>2. Has(toActors', l) <=> Has(toActors, l) \/ Has(extra, l)  BY <1>1, HasConcat
<1>3. Has(toActors, l)' <=> Has(toActors', l)  BY DEF Has
<1>4. Speaks(l)' <=> Speaks(l)  BY <1>1 DEF Speaks
<1>5. CASE l \notin queue.seen
  BY <1>1, <1>5 DEF LineMoves, Accounted
<1>6. CASE l \in queue.seen
  <2>1. Waits(l) \/ Has(toActors, l) \/ Speaks(l) \/ delivered[l] = 1
    BY <1>6 DEF Accounted
  <2>2. CASE Waits(l)
    BY <1>1, <1>2, <1>3, <2>2 DEF LineMoves, LineOnce, Accounted
  <2>3. CASE Has(toActors, l) \/ Speaks(l)
    BY <1>2, <1>3, <1>4, <2>3 DEF Accounted
  <2>4. CASE delivered[l] = 1
    BY <1>1, <2>4 DEF LineMoves, LineOnce, Accounted
  <2> QED  BY <2>1, <2>2, <2>3, <2>4
<1> QED  BY <1>5, <1>6

(* Before an actor is told to speak, all who were speaking have been       *)
(* silenced.                                                               *)
LEMMA SilentBefore ==
  ASSUME Voices, toActors # <<>>, toActors \in Seq(Messages), Spoken(1)
  PROVE  \A a \in Actors : actor[a].speech = NoLine
<1>1. 1 \in DOMAIN toActors  OBVIOUS
<1>2. \A j \in 1..(1 - 1) : FALSE  OBVIOUS
<1> QED  BY <1>1, <1>2 DEF Voices

(* Nor does an actor lose one.                                             *)
LEMMA AccountedTalk ==
  ASSUME Lane, Ledgers, Ledgers', Staying, Talks, NEW l \in Dialogue
  PROVE  Accounted(l)'
<1>1. PICK a \in Actors, after \in Scripts, notices \in Seq(Notices), taken \in LineIds \cup {NoLine} :
             TalksAs(a, after, notices, taken)
  BY DEF Talks
<1>2. /\ actor' = [actor EXCEPT ![a] = after]
      /\ delivered'[l] = delivered[l] + (IF Has(notices, l) THEN 1 ELSE 0)
      /\ queue' = queue /\ Fits(a, after, notices, taken)
      /\ actor \in [Actors -> Scripts] /\ toActors \in Seq(Messages)
  BY <1>1 DEF TalksAs, Lane, Mail, ActorTypes
<1>3. \A b \in Actors : actor'[b] = IF b = a THEN after ELSE actor[b]  BY <1>2
<1>4. delivered[l] \in {0, 1} /\ delivered'[l] \in {0, 1}  BY DEF Ledgers, LineOnce
<1>5. Has(notices, l) \/ delivered[l] = 1 => delivered'[l] = 1  BY <1>2, <1>4
<1>6. Has(toActors, l) => Has(toActors', l) \/ l = taken
  <2>1. CASE toActors' = toActors  BY <2>1
  <2>2. CASE toActors # <<>> /\ toActors' = Tail(toActors) /\ taken = Letter.line
    BY <1>2, <2>2, HasTail DEF Letter
  <2> QED  BY <1>2, <2>1, <2>2 DEF Fits
<1>7. l = taken => Has(notices, l) \/ after.speech = l  BY <1>2 DEF Fits
<1>8. actor[a].speech = l => Has(notices, l) \/ after.speech = l
  <2>1. CASE Has(notices, l) \/ after.speech = l  BY <2>1
  <2>2. CASE after.speech = taken /\ taken \in Dialogue /\ Spoken(1)
    <3>1. toActors # <<>>  BY <1>2, <2>2, LaneAssumption DEF Fits
    <3>2. actor[a].speech = NoLine  BY <1>2, <2>2, <3>1, SilentBefore DEF Staying
    <3> QED  BY <3>2, LaneAssumption
  <2> QED  BY <1>2, <2>1, <2>2 DEF Fits
<1>9. after.speech = l => Speaks(l)'  BY <1>3 DEF Speaks
<1>10. Speaks(l) => Speaks(l)' \/ Has(notices, l)
  BY <1>3, <1>8, <1>9 DEF Speaks
<1>11. (Has(toActors, l)' <=> Has(toActors', l)) /\ (Waits(l)' <=> Waits(l))
  BY <1>2 DEF Has, Waits
<1>12. Accounted(l)  BY DEF Staying
<1> QED  BY <1>2, <1>5, <1>6, <1>7, <1>9, <1>10, <1>11, <1>12 DEF Accounted

LEMMA SpokenLetter ==
  ASSUME Lane, NEW i \in DOMAIN toActors, Spoken(i)
  PROVE  toActors[i].line \in Dialogue /\ toActors[i].to \in Actors
<1>1. toActors[i] \in Messages /\ Lettered(toActors[i])  BY DEF Lane, Mail
<1>2. toActors[i].to \in Actors  BY <1>1 DEF Messages
<1>3. toActors[i].line \in Dialogue  BY <1>1 DEF Spoken, Lettered
<1> QED  BY <1>2, <1>3

(* Letters behind others keep their places.                                *)
LEMMA Placed ==
  ASSUME NEW s \in Seq(Messages), NEW t \in Seq(Messages), toActors = s, toActors' = s \o t
  PROVE  /\ Len(s) \in Nat /\ Len(t) \in Nat /\ DOMAIN t = 1..Len(t)
         /\ DOMAIN toActors = 1..Len(s) /\ DOMAIN toActors' = 1..(Len(s) + Len(t))
         /\ Len(toActors') = Len(s) + Len(t)
         /\ \A i \in 1..Len(s) : toActors'[i] = toActors[i]
         /\ \A i \in 1..Len(t) : toActors'[Len(s) + i] = t[i]
         /\ \A i \in DOMAIN toActors' : i \notin 1..Len(s) =>
              i - Len(s) \in 1..Len(t) /\ toActors'[i] = t[i - Len(s)]
<1>1. s \o t \in Seq(Messages) /\ Len(s \o t) = Len(s) + Len(t)  OBVIOUS
<1> QED  BY <1>1

(* Nobody is told to speak: the active line stays as it was, or all who    *)
(* speak are told to stop.                                                 *)
LEMMA VoicesLetGo ==
  ASSUME Lane, Ledgers, Staying, Agents, NEW extra, LetGoes(extra)
  PROVE  Voices' /\ OneAtATime'
<1>1. /\ toActors' = toActors \o extra /\ actor' = actor /\ queue \in Queues /\ Orderly(queue)
      /\ toActors \in Seq(Messages) /\ extra \in Seq(Messages) /\ actor \in [Actors -> Scripts]
      /\ VoiceMoves(extra) /\ Voices /\ registry = Actors
  BY DEF LetGoes, LaneMoves, Lane, Mail, QueueInv, QueueTypes, ActorTypes, Staying
<1>2. OneAtATime'  BY <1>1 DEF Staying, OneAtATime
<1>0. PICK n : n = Len(toActors)  OBVIOUS
<1>3. n \in Nat /\ DOMAIN toActors = 1..n /\ DOMAIN toActors' = 1..(n + Len(extra))
      /\ Len(toActors') = n + Len(extra) /\ Len(extra) \in Nat /\ DOMAIN extra = 1..Len(extra)
      /\ (\A i \in 1..n : toActors'[i] = toActors[i])
      /\ (\A i \in 1..Len(extra) : toActors'[n + i] = extra[i])
      /\ (\A i \in DOMAIN toActors' : i \notin 1..n =>
              i - n \in 1..Len(extra) /\ toActors'[i] = extra[i - n])
  BY <1>0, <1>1, Placed
<1>4. \A i \in DOMAIN toActors' : toActors'[i].msg = "SPEAK" => i \in 1..n
  BY <1>1, <1>3 DEF VoiceMoves
<1>5. \A i \in 1..n : (Spoken(i)' <=> Spoken(i)) /\ \A a : StopAt(i, a)' <=> StopAt(i, a)
  BY <1>3 DEF Spoken, StopAt
<1>6. ASSUME NEW a \in Actors, StopsAll(extra)
      PROVE  \E j \in (n + 1)..Len(toActors') : StopAt(j, a)'
  <2>1. PICK i \in 1..Len(extra) : extra[i].to = a /\ extra[i].msg \in {"STOP_SPEECH", "STOP", "DETACH"}
    BY <1>3, <1>6 DEF StopsAll
  <2>2. n + i \in (n + 1)..Len(toActors') /\ toActors'[n + i] = extra[i]  BY <1>3
  <2>3. StopAt(n + i, a)'  BY <2>1, <2>2 DEF StopAt
  <2> QED  BY <2>2, <2>3
<1>7. ASSUME NEW l \in Dialogue, l = queue.active
      PROVE  queue'.active = l \/ StopsAll(extra) \/ Unvoiced(l)
  BY <1>1, <1>7 DEF VoiceMoves
<1>8. ASSUME NEW l \in Dialogue, l = queue'.active
      PROVE  queue.active = l /\ (First.media => First'.media)
  BY <1>1, <1>8, LaneAssumption DEF VoiceMoves, First
<1>9. ASSUME NEW a \in Actors, actor'[a].speech # NoLine
      PROVE  /\ actor'[a].speech = queue'.active \/ StopComing(a)'
             /\ actor'[a].speech = queue'.active => First'.media
             /\ \A i \in DOMAIN toActors' : Spoken(i)' => \E j \in 1..(i - 1) : StopAt(j, a)'
  <2>1. actor[a].speech # NoLine /\ actor[a].speech \in Dialogue /\ actor'[a].speech = actor[a].speech
        /\ Speaks(actor[a].speech)
    BY <1>1, <1>9 DEF Scripts, Speaks
  <2>2. StopComing(a) => StopComing(a)'
    <3>1. \A i \in 1..n : i \in DOMAIN toActors'  BY <1>3
    <3> QED  BY <1>3, <3>1 DEF StopComing
  <2>3. StopsAll(extra) => StopComing(a)'
    <3>1. \A j \in (n + 1)..Len(toActors') : j \in DOMAIN toActors'  BY <1>3
    <3> QED  BY <1>6, <3>1 DEF StopComing, StopAt
  <2>4. actor[a].speech = queue.active \/ StopComing(a)  BY <1>1, <2>1 DEF Voices
  <2>5. actor'[a].speech = queue'.active \/ StopComing(a)'
    BY <1>7, <2>1, <2>2, <2>3, <2>4 DEF Unvoiced
  <2>6. actor'[a].speech = queue'.active => First'.media
    BY <1>1, <1>8, <2>1 DEF Voices
  <2>7. ASSUME NEW i \in DOMAIN toActors', Spoken(i)'
        PROVE  \E j \in 1..(i - 1) : StopAt(j, a)'
    <3>1. i \in 1..n /\ Spoken(i)  BY <1>4, <1>5, <2>7 DEF Spoken
    <3>2. PICK j \in 1..(i - 1) : StopAt(j, a)  BY <1>1, <1>3, <2>1, <3>1 DEF Voices
    <3>3. j \in 1..n  BY <1>3, <3>1
    <3> QED  BY <1>5, <3>2, <3>3
  <2> QED  BY <2>5, <2>6, <2>7
<1>10. ASSUME NEW i \in DOMAIN toActors', Spoken(i)'
       PROVE  /\ \/ toActors'[i].line = queue'.active
                 \/ \E j \in (i + 1)..Len(toActors') : StopAt(j, toActors[i].to)'
              /\ toActors'[i].line = queue'.active => First'.media
              /\ \A k \in (i + 1)..Len(toActors') : Spoken(k)' =>
                   \E j \in (i + 1)..(k - 1) : StopAt(j, toActors[i].to)'
  <2>0. PICK l, a : l = toActors[i].line /\ a = toActors[i].to  OBVIOUS
  <2>1. i \in 1..n /\ Spoken(i) /\ toActors'[i] = toActors[i]  BY <1>3, <1>4, <1>5, <1>10 DEF Spoken
  <2>2. l \in Dialogue /\ a \in Actors
    BY <1>3, <2>0, <2>1, SpokenLetter
  <2>3. \/ l = queue.active
        \/ \E j \in (i + 1)..n : StopAt(j, a)
    BY <1>0, <1>1, <1>3, <2>0, <2>1 DEF Voices
  <2>4. (\E j \in (i + 1)..n : StopAt(j, a)) => \E j \in (i + 1)..Len(toActors') : StopAt(j, a)'
    <3>1. \A j \in (i + 1)..n : j \in 1..n /\ j \in (i + 1)..Len(toActors')  BY <1>3, <2>1
    <3> QED  BY <1>5, <3>1
  <2>5. StopsAll(extra) => \E j \in (i + 1)..Len(toActors') : StopAt(j, a)'
    <3>1. \A j \in (n + 1)..Len(toActors') : j \in (i + 1)..Len(toActors')  BY <1>3, <2>1
    <3> QED  BY <1>6, <2>2, <3>1
  <2>6. ~Unvoiced(l)  BY <1>3, <2>0, <2>1 DEF Unvoiced
  <2>7. l = queue'.active \/ \E j \in (i + 1)..Len(toActors') : StopAt(j, a)'
    BY <1>7, <2>2, <2>3, <2>4, <2>5, <2>6
  <2>8. l = queue'.active => First'.media
    <3>1. l = queue.active => First.media  BY <1>1, <1>3, <2>0, <2>1 DEF Voices
    <3> QED  BY <1>8, <2>2, <3>1
  <2>9. ASSUME NEW k \in (i + 1)..Len(toActors'), Spoken(k)'
        PROVE  \E j \in (i + 1)..(k - 1) : StopAt(j, a)'
    <3>1. k \in DOMAIN toActors'  BY <1>3, <2>1
    <3>2. k \in 1..n /\ Spoken(k) /\ k \in (i + 1)..n  BY <1>3, <1>4, <1>5, <2>9, <3>1 DEF Spoken
    <3>3. PICK j \in (i + 1)..(k - 1) : StopAt(j, a)  BY <1>0, <1>1, <1>3, <2>0, <2>1, <3>2 DEF Voices
    <3>4. j \in 1..n  BY <1>3, <2>1, <3>2
    <3> QED  BY <1>5, <3>3, <3>4
  <2> QED  BY <2>0, <2>1, <2>7, <2>8, <2>9
<1>11. Voices'  BY <1>9, <1>10 DEF Voices
<1> QED  BY <1>2, <1>11

(* The next line is handed over when all who spoke are being silenced.     *)
LEMMA VoicesSpeak ==
  ASSUME Lane, Ledgers, Staying, PumpSpeaks
  PROVE  Voices' /\ OneAtATime'
<1>1. PICK e \in Messages :
           /\ LaneMoves(<<e>>) /\ toActors' = Append(toActors, e) /\ queue.active = NoLine
           /\ e.msg \in {"SPEAK", "SUBTITLE"} /\ e.line = queue'.active
           /\ e.msg = "SPEAK" => queue'.items[1].media
  BY PumpSpeaksCase
<1>2. actor' = actor /\ actor \in [Actors -> Scripts] /\ toActors \in Seq(Messages) /\ Voices
  BY <1>1 DEF LaneMoves, Lane, Mail, ActorTypes, Staying
<1>3. OneAtATime'  BY <1>2 DEF Staying, OneAtATime
<1>4. PICK n : n = Len(toActors)  OBVIOUS
<1>5. n \in Nat /\ DOMAIN toActors = 1..n /\ DOMAIN toActors' = 1..(n + 1) /\ Len(toActors') = n + 1
      /\ (\A i \in 1..n : toActors'[i] = toActors[i]) /\ toActors'[n + 1] = e
  BY <1>1, <1>2, <1>4
<1>6. \A i \in 1..n : (Spoken(i)' <=> Spoken(i)) /\ \A a : StopAt(i, a)' <=> StopAt(i, a)
  BY <1>5 DEF Spoken, StopAt
<1>7. PICK d : d = queue'.active  OBVIOUS
<1>8. d \in Dialogue /\ ~Has(toActors, d) /\ ~Speaks(d)
  <2>1. Lettered(e)
    <3>1. 1 \in DOMAIN <<e>> /\ <<e>>[1] = e  OBVIOUS
    <3> QED  BY <1>1, <3>1 DEF LaneMoves
  <2>2. d \in Dialogue  BY <1>1, <1>7, <2>1 DEF Lettered
  <2>3. LineMoves(<<e>>, d) /\ LineOnce(d)  BY <1>1, <2>2 DEF LaneMoves, Ledgers
  <2>4. Waits(d)  BY <1>1, <1>7, <2>3, HasOne DEF LineMoves
  <2> QED  BY <2>2, <2>3, <2>4 DEF LineOnce
<1>9. ASSUME NEW a \in Actors, actor'[a].speech # NoLine
      PROVE  /\ StopComing(a) /\ StopComing(a)' /\ actor'[a].speech # queue'.active
             /\ \A i \in DOMAIN toActors' : Spoken(i)' => \E j \in 1..(i - 1) : StopAt(j, a)'
  <2>1. actor[a].speech # NoLine  BY <1>2, <1>9
  <2>2. StopComing(a)  BY <1>1, <1>2, <2>1 DEF Voices
  <2>3. PICK j \in 1..n : StopAt(j, a)  BY <1>5, <2>2 DEF StopComing, StopAt
  <2>4. StopComing(a)'  BY <1>5, <1>6, <2>3 DEF StopComing, StopAt
  <2>5. actor'[a].speech # queue'.active  BY <1>2, <1>7, <1>8 DEF Speaks
  <2>6. ASSUME NEW i \in DOMAIN toActors', Spoken(i)'
        PROVE  \E k \in 1..(i - 1) : StopAt(k, a)'
    <3>1. CASE i \in 1..n
      <4>1. PICK k \in 1..(i - 1) : StopAt(k, a)  BY <1>2, <1>5, <1>6, <2>1, <2>6, <3>1 DEF Voices
      <4>2. k \in 1..n  BY <1>5, <3>1
      <4> QED  BY <1>6, <4>1, <4>2
    <3>2. CASE i = n + 1
      <4>1. j \in 1..(i - 1)  BY <1>5, <3>2
      <4> QED  BY <1>6, <2>3, <4>1
    <3> QED  BY <1>5, <3>1, <3>2
  <2> QED  BY <2>2, <2>4, <2>5, <2>6
<1>10. ASSUME NEW i \in DOMAIN toActors', Spoken(i)'
       PROVE  /\ \/ toActors'[i].line = queue'.active
                 \/ \E j \in (i + 1)..Len(toActors') : StopAt(j, toActors[i].to)'
              /\ toActors'[i].line = queue'.active => First'.media
              /\ \A k \in (i + 1)..Len(toActors') : Spoken(k)' =>
                   \E j \in (i + 1)..(k - 1) : StopAt(j, toActors[i].to)'
  <2>1. CASE i \in 1..n
    <3>0. PICK a : a = toActors[i].to  OBVIOUS
    <3>1. Spoken(i) /\ toActors'[i] = toActors[i] /\ i \in DOMAIN toActors  BY <1>5, <1>6, <1>10, <2>1
    <3>2. toActors[i].line \in Dialogue /\ toActors[i].line # d
      BY <1>8, <3>1, SpokenLetter DEF Has
    <3>3. PICK j \in (i + 1)..n : StopAt(j, a)
      BY <1>1, <1>2, <1>4, <3>0, <3>1, <3>2, LaneAssumption DEF Voices
    <3>4. j \in 1..n /\ j \in (i + 1)..Len(toActors')  BY <1>5, <2>1
    <3>5. ASSUME NEW k \in (i + 1)..Len(toActors'), Spoken(k)'
          PROVE  \E m \in (i + 1)..(k - 1) : StopAt(m, a)'
      <4>1. CASE k \in 1..n
        <5>1. k \in (i + 1)..n /\ Spoken(k)  BY <1>5, <1>6, <3>5, <4>1
        <5>2. PICK m \in (i + 1)..(k - 1) : StopAt(m, a)
          BY <1>2, <1>4, <3>0, <3>1, <5>1 DEF Voices
        <5>3. m \in 1..n  BY <1>5, <2>1, <5>1
        <5> QED  BY <1>6, <5>2, <5>3
      <4>2. CASE k = n + 1
        <5>1. j \in (i + 1)..(k - 1)  BY <1>5, <2>1, <4>2
        <5> QED  BY <1>6, <3>3, <3>4, <5>1
      <4> QED  BY <1>5, <2>1, <4>1, <4>2
    <3> QED  BY <1>6, <1>7, <3>0, <3>1, <3>2, <3>3, <3>4, <3>5
  <2>2. CASE i = n + 1
    <3>1. \A k \in (i + 1)..Len(toActors') : FALSE  BY <1>5, <2>2
    <3>2. toActors'[i] = e /\ e.msg = "SPEAK"  BY <1>5, <1>10, <2>2 DEF Spoken
    <3> QED  BY <1>1, <3>1, <3>2 DEF First
  <2> QED  BY <1>5, <2>1, <2>2
<1>11. Voices'  BY <1>9, <1>10 DEF Voices
<1> QED  BY <1>3, <1>11

(* An actor hears its letters in order.                                    *)
LEMMA VoicesTalk ==
  ASSUME Lane, Staying, Talks
  PROVE  Voices' /\ OneAtATime'
<1>1. PICK a \in Actors, after \in Scripts, notices \in Seq(Notices), taken \in LineIds \cup {NoLine} :
             TalksAs(a, after, notices, taken)
  BY DEF Talks
<1>2. /\ actor' = [actor EXCEPT ![a] = after] /\ queue' = queue /\ Fits(a, after, notices, taken)
      /\ actor \in [Actors -> Scripts] /\ toActors \in Seq(Messages) /\ Voices /\ OneAtATime
  BY <1>1 DEF TalksAs, Lane, Mail, ActorTypes, Staying
<1>3. \A b \in Actors : actor'[b] = IF b = a THEN after ELSE actor[b]  BY <1>2
<1>4. First' = First /\ queue'.active = queue.active  BY <1>2 DEF First
<1>5. CASE toActors' = toActors /\ after.speech \in {NoLine, actor[a].speech}
  <2>1. \A b \in Actors : actor'[b].speech # NoLine => actor'[b].speech = actor[b].speech
    BY <1>3, <1>5
  <2>2. OneAtATime'  BY <1>2, <2>1 DEF OneAtATime
  <2>3. \A i : (Spoken(i)' <=> Spoken(i)) /\ \A b : StopAt(i, b)' <=> StopAt(i, b)
    BY <1>5 DEF Spoken, StopAt
  <2>4. \A b : StopComing(b)' <=> StopComing(b)  BY <1>5 DEF StopComing
  <2>5. Voices'  BY <1>2, <1>4, <1>5, <2>1, <2>3, <2>4 DEF Voices
  <2> QED  BY <2>2, <2>5
<1>6. CASE toActors # <<>> /\ toActors' = Tail(toActors) /\ Letter.to = a /\ taken = Letter.line
           /\ \/ after.speech = NoLine
              \/ after.speech = actor[a].speech /\ ~StopAt(1, a)
              \/ after.speech = taken /\ taken \in Dialogue /\ Spoken(1)
  <2>1. PICK n \in Nat : n + 1 = Len(toActors)
    <3>1. Len(toActors) - 1 \in Nat /\ (Len(toActors) - 1) + 1 = Len(toActors)  BY <1>2, <1>6
    <3> QED  BY <3>1
  <2>2. DOMAIN toActors = 1..(n + 1) /\ DOMAIN toActors' = 1..n /\ Len(toActors') = n
        /\ \A i \in 1..n : toActors'[i] = toActors[i + 1]
    BY <1>2, <1>6, <2>1
  <2>3. /\ \A i \in 1..n : i + 1 \in DOMAIN toActors /\ (Spoken(i)' <=> Spoken(i + 1))
                           /\ \A b : StopAt(i, b)' <=> StopAt(i + 1, b)
        /\ \A i \in DOMAIN toActors : i = 1 \/ (i - 1 \in 1..n /\ (i - 1) + 1 = i)
    BY <2>2 DEF Spoken, StopAt
  <2>4. toActors[1].to = a /\ toActors[1].line = taken /\ 1 \in DOMAIN toActors
    BY <1>6, <2>2 DEF Letter
  <2>5. ASSUME NEW b \in Actors, actor[b].speech # NoLine, ~StopAt(1, b)
        PROVE  /\ actor[b].speech = queue.active \/ StopComing(b)'
               /\ \A i \in 1..n : Spoken(i)' => \E j \in 1..(i - 1) : StopAt(j, b)'
    <3>1. actor[b].speech = queue.active \/ StopComing(b)'
      <4>1. CASE actor[b].speech = queue.active  BY <4>1
      <4>2. CASE StopComing(b)
        <5>1. PICK i \in DOMAIN toActors : StopAt(i, b)  BY <4>2 DEF StopComing, StopAt
        <5>2. i - 1 \in DOMAIN toActors' /\ (i - 1) + 1 = i  BY <2>2, <2>3, <2>5, <5>1
        <5>3. StopAt(i - 1, b)'  BY <2>2, <2>3, <5>1, <5>2
        <5> QED  BY <5>2, <5>3 DEF StopComing, StopAt
      <4> QED  BY <1>2, <2>5, <4>1, <4>2 DEF Voices
    <3>2. ASSUME NEW i \in 1..n, Spoken(i)' PROVE \E j \in 1..(i - 1) : StopAt(j, b)'
      <4>1. PICK j \in 1..((i + 1) - 1) : StopAt(j, b)  BY <1>2, <2>3, <2>5, <3>2 DEF Voices
      <4>2. j # 1  BY <2>5, <4>1
      <4>3. j - 1 \in 1..(i - 1) /\ j - 1 \in 1..n /\ (j - 1) + 1 = j  BY <4>1, <4>2
      <4>4. StopAt(j - 1, b)'  BY <2>3, <4>1, <4>3
      <4> QED  BY <4>3, <4>4
    <3> QED  BY <3>1, <3>2
  <2>6. ASSUME NEW i \in DOMAIN toActors, Spoken(i), NEW b, b = toActors[i].to
        PROVE  /\ toActors[i].line = queue.active \/ \E j \in i..n : StopAt(j, b)'
               /\ toActors[i].line = queue.active => First.media
               /\ \A k \in i..n : Spoken(k)' => \E j \in i..(k - 1) : StopAt(j, b)'
    <3>1. toActors[i].line = queue.active \/ \E j \in i..n : StopAt(j, b)'
      <4>1. CASE toActors[i].line = queue.active  BY <4>1
      <4>2. CASE \E j \in (i + 1)..Len(toActors) : StopAt(j, b)
        <5>1. PICK j \in (i + 1)..Len(toActors) : StopAt(j, b)  BY <4>2
        <5>2. j - 1 \in i..n /\ j - 1 \in 1..n /\ (j - 1) + 1 = j  BY <2>1, <2>2
        <5>3. StopAt(j - 1, b)'  BY <2>3, <5>1, <5>2
        <5> QED  BY <5>2, <5>3
      <4> QED  BY <1>2, <2>6, <4>1, <4>2 DEF Voices
    <3>2. toActors[i].line = queue.active => First.media  BY <1>2, <2>6 DEF Voices
    <3>3. ASSUME NEW k \in i..n, Spoken(k)' PROVE \E j \in i..(k - 1) : StopAt(j, b)'
      <4>1. k \in 1..n /\ k + 1 \in (i + 1)..Len(toActors)  BY <2>1, <2>2
      <4>2. Spoken(k + 1)  BY <2>3, <3>3, <4>1
      <4>3. PICK j \in (i + 1)..((k + 1) - 1) : StopAt(j, b)  BY <1>2, <2>6, <4>1, <4>2 DEF Voices
      <4>4. j - 1 \in i..(k - 1) /\ j - 1 \in 1..n /\ (j - 1) + 1 = j  BY <2>2, <4>1
      <4>5. StopAt(j - 1, b)'  BY <2>3, <4>3, <4>4
      <4> QED  BY <4>4, <4>5
    <3> QED  BY <3>1, <3>2, <3>3
  <2>7. ASSUME NEW b \in Actors, actor'[b].speech # NoLine
        PROVE  \/ actor[b].speech = actor'[b].speech /\ ~StopAt(1, b)
               \/ b = a /\ Spoken(1) /\ actor'[b].speech = taken
    <3>1. CASE b = a  BY <1>3, <1>6, <2>7, <3>1
    <3>2. CASE b # a
      <4>1. ~StopAt(1, b)  BY <2>4, <3>2 DEF StopAt
      <4> QED  BY <1>3, <3>2, <4>1
    <3> QED  BY <3>1, <3>2
  <2>8. ASSUME NEW b \in Actors, actor'[b].speech # NoLine
        PROVE  /\ actor'[b].speech = queue.active \/ StopComing(b)'
               /\ actor'[b].speech = queue.active => First.media
               /\ \A i \in DOMAIN toActors' : Spoken(i)' => \E j \in 1..(i - 1) : StopAt(j, b)'
    <3>1. CASE actor[b].speech = actor'[b].speech /\ ~StopAt(1, b)
      BY <1>2, <2>2, <2>5, <2>8, <3>1 DEF Voices
    <3>2. CASE b = a /\ Spoken(1) /\ actor'[b].speech = taken
      <4>1. (\E j \in 1..n : StopAt(j, b)') => StopComing(b)'  BY <2>2 DEF StopComing, StopAt
      <4> QED  BY <2>2, <2>4, <2>6, <3>2, <4>1
    <3> QED  BY <2>7, <2>8, <3>1, <3>2
  <2>9. ASSUME NEW i \in DOMAIN toActors', Spoken(i)'
        PROVE  /\ \/ toActors'[i].line = queue.active
                  \/ \E j \in (i + 1)..Len(toActors') : StopAt(j, toActors[i].to)'
               /\ toActors'[i].line = queue.active => First.media
               /\ \A k \in (i + 1)..Len(toActors') : Spoken(k)' =>
                    \E j \in (i + 1)..(k - 1) : StopAt(j, toActors[i].to)'
    <3>1. PICK b : b = toActors'[i].to  OBVIOUS
    <3>2. i + 1 \in DOMAIN toActors /\ Spoken(i + 1) /\ toActors'[i] = toActors[i + 1]
      BY <2>2, <2>3, <2>9
    <3> QED  BY <2>2, <2>6, <3>1, <3>2
  <2>10. Voices'  BY <1>4, <2>8, <2>9 DEF Voices
  <2>11. OneAtATime'
    <3>1. CASE Spoken(1)
      <4>1. \A b \in Actors : actor[b].speech = NoLine  BY <1>2, <1>6, <3>1, SilentBefore
      <4> QED  BY <2>7, <4>1 DEF OneAtATime
    <3>2. CASE ~Spoken(1)
      BY <1>2, <2>7, <3>2 DEF OneAtATime
    <3> QED  BY <3>1, <3>2
  <2> QED  BY <2>10, <2>11
<1> QED  BY <1>2, <1>5, <1>6 DEF Fits

(* While the actors stay agents, nothing the lane took up is lost, and     *)
(* whoever was told to speak is told to stop before another is.            *)
LEMMA StayingStep ==
  ASSUME LaneHolds, Staying, Agents, Agents', [Next]_vars
  PROVE  Staying'
<1>1. Lane /\ TurnTypes /\ Ledgers /\ Ledgers' /\ (\A l \in Dialogue : Accounted(l))
  BY LaneStep DEF LaneHolds, Staying
<1>2. registry' = Actors  BY RegistryStays
<1>3. (\A l \in Dialogue : Accounted(l)') /\ Voices' /\ OneAtATime'
  <2>1. ASSUME NEW extra, LetGoes(extra)
        PROVE  (\A l \in Dialogue : Accounted(l)') /\ Voices' /\ OneAtATime'
    BY <1>1, <2>1, AccountedKept, VoicesLetGo DEF LetGoes
  <2>2. CASE PumpSpeaks
    BY <1>1, <2>2, AccountedKept, PumpSpeaksCase, VoicesSpeak
  <2>3. CASE Talks
    BY <1>1, <2>3, AccountedTalk, VoicesTalk
  <2> QED  BY <1>1, <2>1, <2>2, <2>3, Kinds
<1> QED  BY <1>2, <1>3 DEF Staying

LEMMA StayingBegins == Init => Staying
<1> SUFFICES ASSUME Init PROVE Staying  OBVIOUS
<1>1. DOMAIN toActors = {} /\ (\A a \in Actors : actor[a].speech = NoLine) /\ queue.seen = {}
      /\ registry = Actors
  BY DEF Init, NewQueue
<1> QED  BY <1>1 DEF Staying, Accounted, Voices, OneAtATime

LEMMA StayingHolds == Spec /\ []Agents => []Staying
<1>1. Init => Staying  BY StayingBegins
<1>2. LaneHolds /\ Staying /\ Agents /\ Agents' /\ [Next]_vars => Staying'  BY StayingStep
<1> QED  BY <1>1, <1>2, LaneInductive, PTL DEF Spec

(* As long as every actor stays an agent of the lane, each line the lane   *)
(* takes up has exactly one delivery result or is still to have it, and a  *)
(* command never has two: cancelResponseLane, pumpResponseQueue and        *)
(* reportDelivery leave no line behind, whatever is interrupted and when.  *)
THEOREM OneResultHolds == Spec /\ []Agents => []OneResultEach
<1>1. LaneHolds /\ Staying => OneResultEach
  <2> SUFFICES ASSUME LaneHolds, Staying PROVE OneResultEach  OBVIOUS
  <2>1. ASSUME NEW l \in Dialogue
        PROVE  Waiting(l) + Owed(l) + delivered[l] = (IF l \in queue.seen THEN 1 ELSE 0)
    <3>1. LineOnce(l) /\ Accounted(l) /\ (Waits(l) => l \in queue.seen)
      BY DEF LaneHolds, Ledgers, Staying, Lane, QueueInv, Orderly, Waits
    <3> QED  BY <3>1, LineCounts DEF LineOnce, Accounted
  <2>2. OneDeliveryResult  BY <2>1 DEF OneDeliveryResult
  <2> QED  BY <2>2, CommandAtMostOnce DEF OneResultEach
<1> QED  BY <1>1, LaneInductive, StayingHolds, PTL

(* As long as every actor stays an agent, two never speak at once, and who *)
(* speaks what the lane does not wait for is about to be told to stop: the *)
(* signals of signalAllActors reach the old speaker before the pump's next *)
(* dispatch reaches the new one.                                           *)
THEOREM NoGhostSpeechHolds == Spec /\ []Agents => []NoGhostSpeech
<1>1. Staying => NoGhostSpeech
  <2> SUFFICES ASSUME Staying PROVE NoGhostSpeech  OBVIOUS
  <2> DEFINE S == {a \in Actors : actor[a].speech # NoLine}
  <2>1. \A a, b \in S : a = b  BY DEF Staying, OneAtATime
  <2> HIDE DEF S
  <2>2. Cardinality(S) \in {0, 1}  BY <2>1, AtMostOne
  <2>3. OneSpeaker  BY <2>2 DEF OneSpeaker, S
  <2>4. \A a \in Actors : actor[a].speech # NoLine => actor[a].speech = queue.active \/ StopComing(a)
    BY DEF Staying, Voices
  <2> QED  BY <2>3, <2>4 DEF NoGhostSpeech
<1> QED  BY <1>1, StayingHolds, PTL

-------------------------------------------------------------------------------
(* What a continuation waits for                                           *)

(* Turn t continues, ahead of time, the line that is being spoken: a       *)
(* failure of that line still finds it.                                    *)
Held(t) ==
  turn.id = t /\ rechat.id # 0 /\ rechat.prefetch = origin[t] /\ queue.active = origin[t]

(* The line did not get to its end: nothing of turn t is queued, and its   *)
(* events are not heard.                                                   *)
Withdrawn(t) ==
  /\ Queued(queue) \cap LinesOf(t) = {}
  /\ turn.id = t => rechat.discard = t /\ Queued(queue) = {}

ChainInv ==
  /\ turn.id < nextTurn
  /\ \A t \in Turns : nextTurn <= t => origin[t] = NoLine
  /\ \A t \in Turns : origin[t] \notin LinesOf(t)
  /\ \A t \in Turns : origin[t] # NoLine => origin[t] \in queue.played \/ Held(t) \/ Withdrawn(t)
  /\ voice => rechat.id = 0
  /\ probe.stage = "context" => probe.chain # 0

LEMMA TurnNumbers == Turns = 1..Len(Script) /\ Len(Script) \in Nat
<1> DEFINE R == [lines : Seq(Dialogue), commands : Seq(Commands)]
<1>1. Script \in Seq(R)  BY ScriptAssumption
<1> HIDE DEF R
<1> QED  BY <1>1 DEF Turns

(* Only a line that ends is remembered as played.                          *)
LEMMA PlayedStays ==
  ASSUME NEW q \in Queues
  PROVE  /\ \A l, v : WithItem(q, l, v).played = q.played /\ WithItem(q, l, v).seen = q.seen
         /\ RemoveHead(q).played = q.played /\ ConsumeRechat(q).played = q.played
         /\ Cancel(q).played = q.played
         /\ \A asked : CancelActions(q, asked).played = q.played
BY DEF Queues, WithItem, RemoveHead, ConsumeRechat, Cancel, CancelActions

LEMMA HeadPlayed ==
  ASSUME NEW q \in Queues, Orderly(q), q.items # <<>>
  PROVE  FailHead(q).played = q.played /\ MarkDispatched(q).played = q.played
<1>1. RemoveHead(q) \in Queues  BY HeadDrops DEF Drops
<1>2. FailHead(q).played = q.played  BY <1>1, PlayedStays DEF FailHead
<1>3. q.items[1].line \in Queued(q)  BY ActiveIsFirst
<1>4. WithStatus(q, q.items[1].line, "active") \in Queues
  BY <1>3, WithStatusGrows DEF Grows, Statuses
<1>5. MarkDispatched(q).played = WithStatus(q, q.items[1].line, "active").played
  BY <1>4 DEF MarkDispatched, Queues
<1> QED  BY <1>2, <1>5, PlayedStays DEF WithStatus

LEMMA CompletedPlayed ==
  ASSUME NEW q \in Queues, Orderly(q), q.active \in Dialogue, NEW status
  PROVE  /\ q.played \subseteq ConsumeRechat(Completed(q, status)).played
         /\ status = "played" => q.active \in ConsumeRechat(Completed(q, status)).played
<1>0. q.active # NoLine  BY LaneAssumption
<1>1. q.active \in Queued(q) /\ q.items # <<>>  BY <1>0, ActiveIsFirst
<1>2. Completed(q, status) \in Queues  BY <1>1, HeadDrops DEF Drops
<1>3. ConsumeRechat(Completed(q, status)).played = Completed(q, status).played
  BY <1>2, PlayedStays
<1>4. CASE status = "played"
  <2>1. ItemOf(q, q.active).line = q.active  BY <1>1, ItemFound
  <2>2. \A p, due : RemoveHead([q EXCEPT !.played = p, !.pendingRechat = due]).played = p
    BY DEF Queues, RemoveHead
  <2>3. Completed(q, status).played = q.played \cup {q.active}
    BY <1>4, <2>1, <2>2 DEF Completed
  <2> QED  BY <1>3, <2>3
<1>5. CASE status # "played"
  BY <1>3, <1>5, PlayedStays DEF Completed
<1> QED  BY <1>4, <1>5

LEMMA EnqueuePlayed ==
  ASSUME NEW q \in Queues, Orderly(q), NEW t \in Turns, NEW mute, NEW embedded
  PROVE  /\ Enqueue(q, Script[t].lines, Script[t].commands, mute, embedded).played = q.played
         /\ Enqueue(q, Script[t].lines, Script[t].commands, mute, embedded).seen
              \subseteq q.seen \cup LinesOf(t)
<1> DEFINE lines == Script[t].lines
           commands == Script[t].commands
           all == lines \o commands
           I == {i \in DOMAIN all : all[i] \notin q.seen}
           new == Part(all, I)
           last == lines[Len(lines)]
           old == IF last \in q.seen THEN MarkFinal(q, last) ELSE q
           r == Enqueue(q, lines, commands, mute, embedded)
<1>1. lines \in Seq(Dialogue) /\ commands \in Seq(Commands)  BY ScriptLines
<1> HIDE DEF lines, commands
<1>2. all \in Seq(LineIds)
  <2>1. lines \in Seq(LineIds) /\ commands \in Seq(LineIds)  BY <1>1 DEF LineIds
  <2> QED  BY <2>1
<1>3. \A i \in DOMAIN all : all[i] \in ToSet(lines) \cup ToSet(commands)
  <2>1. ASSUME NEW i \in DOMAIN all
        PROVE  \/ i \in DOMAIN lines /\ all[i] = lines[i]
               \/ i - Len(lines) \in DOMAIN commands /\ all[i] = commands[i - Len(lines)]
    <3>1. Len(lines) \in Nat /\ Len(commands) \in Nat /\ i \in 1..(Len(lines) + Len(commands))
      BY <1>1
    <3>2. CASE i <= Len(lines)  BY <1>1, <3>1, <3>2
    <3>3. CASE ~(i <= Len(lines))
      <4>1. i - Len(lines) \in 1..Len(commands)  BY <3>1, <3>3
      <4> QED  BY <1>1, <3>1, <3>3, <4>1
    <3> QED  BY <3>2, <3>3
  <2> HIDE DEF all
  <2> QED  BY <2>1 DEF ToSet
<1> HIDE DEF all, I
<1>4. new \in Seq(LineIds) /\ \E m : Enumerates(new, m, all, I, Len(all))
  BY <1>2, PartEnumerates
<1>5. PICK m : Enumerates(new, m, all, I, Len(all))  BY <1>4
<1> HIDE DEF new
<1>6. ToSet(new) \subseteq ToSet(lines) \cup ToSet(commands)
  <2>1. \A j \in 1..Len(new) : m[j] \in I /\ new[j] = all[m[j]]  BY <1>5 DEF Enumerates
  <2>2. \A j \in 1..Len(new) : new[j] \in ToSet(lines) \cup ToSet(commands)
    BY <1>3, <2>1 DEF I
  <2>3. DOMAIN new = 1..Len(new)  BY <1>4
  <2> QED  BY <2>2, <2>3 DEF ToSet
<1>7. old \in Queues /\ old.seen = q.seen /\ old.played = q.played
  BY FinalGrows DEF Grows
<1> HIDE DEF old
<1>8. \A s, w, p : [old EXCEPT !.items = s, !.seen = w, !.pendingRechat = p].played = old.played
                   /\ [old EXCEPT !.items = s, !.seen = w, !.pendingRechat = p].seen = w
  BY <1>7 DEF Queues
<1>9. \E s, p : r = [old EXCEPT !.items = s, !.seen = old.seen \cup ToSet(new), !.pendingRechat = p]
  BY Zenon DEF Enqueue, old, new, all, I
<1>10. r.played = q.played /\ r.seen = q.seen \cup ToSet(new)  BY <1>7, <1>8, <1>9
<1> QED  BY <1>6, <1>10 DEF LinesOf, lines, commands

(* The lines a step may add to the lane are of the turn that is heard.     *)
Audible == IF turn.id \in Turns /\ rechat.discard # turn.id THEN LinesOf(turn.id) ELSE {}

Keeps ==
  /\ queue.played \subseteq queue'.played
  /\ queue'.active = queue.active \/ queue.active \notin Dialogue
  /\ Queued(queue') \subseteq Queued(queue) \cup Audible

(* The probe asks on behalf of a chain, and a chain excludes a recording.  *)
ProbeFits == (voice => rechat.id = 0) /\ (probe.stage = "context" => probe.chain # 0)

SameTurn ==
  /\ turn'.id = turn.id /\ UNCHANGED <<nextTurn, origin>>
  /\ rechat'.id = rechat.id /\ rechat'.prefetch = rechat.prefetch /\ rechat'.discard = rechat.discard

LEMMA SameTurnKeeps == ASSUME LaneHolds, ChainInv, Keeps, SameTurn, ProbeFits' PROVE ChainInv'
<1>1. ASSUME NEW t \in Turns, origin'[t] # NoLine
      PROVE  origin'[t] \in queue'.played \/ Held(t)' \/ Withdrawn(t)'
  <2>1. origin'[t] = origin[t] /\ origin[t] \in Dialogue
    BY <1>1 DEF SameTurn, LaneHolds, TurnTypes
  <2>2. CASE origin[t] \in queue.played  BY <2>1, <2>2 DEF Keeps
  <2>3. CASE Held(t)  BY <2>1, <2>3 DEF Held, Keeps, SameTurn
  <2>4. CASE Withdrawn(t)
    <3>1. turn.id = t => Audible = {}  BY <2>4 DEF Withdrawn, Audible
    <3>2. turn.id # t => Audible \cap LinesOf(t) = {}  BY LineIdAssumption DEF Audible
    <3> QED  BY <2>4, <3>1, <3>2 DEF Withdrawn, Keeps, SameTurn
  <2> QED  BY <1>1, <2>1, <2>2, <2>3, <2>4 DEF ChainInv
<1> QED  BY <1>1 DEF ChainInv, SameTurn, ProbeFits

(* A turn begins, or the current one is left: no line of an earlier        *)
(* continuation is still awaited then.                                     *)
NewTurn(from) ==
  /\ BeginTurn(from) \/ (NoTurnBegins(NoTurn) /\ from = NoLine)
  /\ queue'.played = queue.played /\ Queued(queue') \subseteq Queued(queue)
  /\ Queued(queue') = {} \/ \A t \in Turns : origin[t] # NoLine => ~Held(t)
  /\ from # NoLine => /\ turn.id \in Turns /\ from \in LinesOf(turn.id)
                     /\ rechat'.id # 0 /\ rechat'.prefetch = from /\ queue'.active = from

LEMMA NewTurnKeeps ==
  ASSUME LaneHolds, ChainInv, NEW from, NewTurn(from), ProbeFits' PROVE ChainInv'
<1>1. Turns = 1..Len(Script) /\ Len(Script) \in Nat  BY TurnNumbers
<1>2. nextTurn \in 1..(Len(Script) + 1) /\ origin \in [Turns -> Dialogue \cup {NoLine}]
  BY DEF LaneHolds, TurnTypes
<1>3. ASSUME NEW t \in Turns, origin[t] # NoLine, turn'.id # t
      PROVE  origin[t] \in queue'.played \/ Withdrawn(t)'
  <2>1. CASE origin[t] \in queue.played  BY <2>1 DEF NewTurn
  <2>2. CASE Held(t)  BY <1>3, <2>2 DEF NewTurn, Withdrawn
  <2>3. CASE Withdrawn(t)  BY <1>3, <2>3 DEF NewTurn, Withdrawn
  <2> QED  BY <1>3, <2>1, <2>2, <2>3 DEF ChainInv
<1>4. CASE NoTurnBegins(NoTurn)
  <2>1. turn'.id = 0 /\ nextTurn' = nextTurn /\ origin' = origin
    BY <1>4 DEF NoTurnBegins, NoTurn
  <2>2. \A t \in Turns : t # 0  BY <1>1
  <2>3. \A t \in Turns : origin'[t] # NoLine => origin'[t] \in queue'.played \/ Withdrawn(t)'
    BY <1>3, <2>1, <2>2
  <2>4. turn'.id < nextTurn'  BY <1>2, <2>1
  <2> QED  BY <2>1, <2>3, <2>4 DEF ChainInv, ProbeFits
<1>5. CASE BeginTurn(from)
  <2>1. /\ nextTurn \in Turns /\ turn'.id = nextTurn /\ nextTurn' = nextTurn + 1
        /\ origin' = [origin EXCEPT ![nextTurn] = from]
    BY <1>5 DEF BeginTurn
  <2>2. origin'[nextTurn] = from /\ \A t \in Turns : t # nextTurn => origin'[t] = origin[t]
    BY <1>2, <2>1
  <2>3. turn'.id < nextTurn'  BY <1>2, <2>1
  <2>4. \A t \in Turns : nextTurn' <= t => origin'[t] = NoLine
    <3>1. \A t \in Turns : nextTurn' <= t => t # nextTurn /\ nextTurn <= t  BY <1>1, <1>2, <2>1
    <3> QED  BY <2>2, <3>1 DEF ChainInv
  <2>5. \A t \in Turns : origin'[t] \notin LinesOf(t)
    <3>1. from \notin LinesOf(nextTurn)
      <4>1. CASE from = NoLine
        <5>1. LinesOf(nextTurn) \subseteq LineIds
          BY <2>1, ScriptLines DEF LinesOf, ToSet, LineIds
        <5> QED  BY <4>1, <5>1, LaneAssumption DEF LineIds
      <4>2. CASE from # NoLine
        <5>1. turn.id \in Turns /\ from \in LinesOf(turn.id)  BY <4>2 DEF NewTurn
        <5>2. turn.id # nextTurn  BY <1>1, <1>2, <5>1 DEF ChainInv
        <5> QED  BY <2>1, <5>1, <5>2, LineIdAssumption
      <4> QED  BY <4>1, <4>2
    <3> QED  BY <2>2, <3>1 DEF ChainInv
  <2>6. ASSUME NEW t \in Turns, origin'[t] # NoLine
        PROVE  origin'[t] \in queue'.played \/ Held(t)' \/ Withdrawn(t)'
    <3>1. CASE t = nextTurn  BY <2>1, <2>2, <2>6, <3>1 DEF NewTurn, Held
    <3>2. CASE t # nextTurn  BY <1>3, <2>1, <2>2, <2>6, <3>2
    <3> QED  BY <3>1, <3>2
  <2> QED  BY <2>3, <2>4, <2>5, <2>6 DEF ChainInv, ProbeFits
<1> QED  BY <1>4, <1>5 DEF NewTurn

LEMMA ChainsRest ==
  ASSUME ChainInv, UNCHANGED <<nextTurn, origin, chainVars, voice>>, turn'.id = turn.id
  PROVE  SameTurn /\ ProbeFits'
BY DEF ChainInv, SameTurn, ProbeFits, chainVars

LEMMA QueueRests == ASSUME queue' = queue PROVE Keeps
BY DEF Keeps

LEMMA TakesUp ==
  ASSUME Lane, Undisturbed, queue'.played = queue.played, queue'.seen \subseteq queue.seen \cup Audible
  PROVE  Keeps
BY DEF Undisturbed, Grows, Keeps

(* What the server sends.                                                  *)
LEMMA PollKeeps ==
  ASSUME LaneHolds, ChainInv, PollEvent
  PROVE  Keeps /\ SameTurn /\ ProbeFits'
<1> USE DEF LaneHolds, Lane, QueueInv, QueueTypes
<1>1. Undisturbed  BY QuietCases DEF QuietStep
<1>2. ASSUME NEW l \in Dialogue, PollDialogue(l) PROVE Keeps /\ SameTurn /\ ProbeFits'
  <2>1. turn.id \in Turns /\ l \in ToSet(Script[turn.id].lines)
    BY <1>2 DEF PollDialogue, Listening, TurnTypes, TurnStates
  <2>2. EnqueueDialogueEvent(queue, l).played = queue.played
        /\ EnqueueDialogueEvent(queue, l).seen \subseteq queue.seen \cup {l}
    BY DEF EnqueueDialogueEvent, Queues
  <2>3. queue'.played = queue.played /\ queue'.seen \subseteq queue.seen \cup Audible
    BY <1>2, <2>1, <2>2 DEF PollDialogue, Dropped, Audible, LinesOf
  <2>4. SameTurn /\ ProbeFits'  BY <1>2, ChainsRest DEF PollDialogue
  <2> QED  BY <1>1, <2>3, <2>4, TakesUp
<1>3. ASSUME NEW l \in Dialogue, PollMedia(l) PROVE Keeps /\ SameTurn /\ ProbeFits'
  <2>1. queue'.played = queue.played /\ queue'.seen = queue.seen
    BY <1>3, PlayedStays DEF PollMedia, AttachMedia
  <2>2. SameTurn /\ ProbeFits'  BY <1>3, ChainsRest DEF PollMedia
  <2> QED  BY <1>1, <2>1, <2>2, TakesUp
<1>4. ASSUME NEW e \in SUBSET Dialogue, PollResponse(e) PROVE Keeps /\ SameTurn /\ ProbeFits'
  <2>1. turn.id \in Turns  BY <1>4 DEF PollResponse, Listening, TurnTypes, TurnStates
  <2>2. queue'.played = queue.played /\ queue'.seen \subseteq queue.seen \cup Audible
    <3>1. CASE Dropped  BY <1>4, <3>1 DEF PollResponse
    <3>2. CASE ~Dropped
      <4>1. Audible = LinesOf(turn.id)  BY <2>1, <3>2 DEF Audible, Dropped
      <4>2. queue' = Enqueue(queue, Script[turn.id].lines, Script[turn.id].commands, Mute, e)
        BY <1>4, <3>2 DEF PollResponse
      <4>3. /\ Enqueue(queue, Script[turn.id].lines, Script[turn.id].commands, Mute, e).played = queue.played
            /\ Enqueue(queue, Script[turn.id].lines, Script[turn.id].commands, Mute, e).seen
                 \subseteq queue.seen \cup LinesOf(turn.id)
        BY <2>1, EnqueuePlayed, Zenon
      <4> QED  BY <4>1, <4>2, <4>3, Zenon
    <3> QED  BY <3>1, <3>2
  <2>3. SameTurn /\ ProbeFits'  BY <1>4, ChainsRest DEF PollResponse
  <2> QED  BY <1>1, <2>2, <2>3, TakesUp
<1>5. ASSUME NEW c \in Commands, PollIntent(c) PROVE Keeps /\ SameTurn /\ ProbeFits'
  <2>1. queue'.played = queue.played /\ queue'.seen = queue.seen
    BY <1>5, PlayedStays DEF PollIntent, AttachAction, WithStatus
  <2>2. SameTurn /\ ProbeFits'  BY <1>5, ChainsRest DEF PollIntent
  <2> QED  BY <1>1, <2>1, <2>2, TakesUp
<1>6. ASSUME TransportFailure \/ \E ok \in BOOLEAN : PollTerminal(ok)
      PROVE  Keeps /\ SameTurn /\ ProbeFits'
  <2>1. queue' = queue /\ UNCHANGED <<nextTurn, origin, voice>>
    BY <1>6 DEF TransportFailure, PollTerminal, laneVars
  <2>2. turn'.id = turn.id
    BY <1>6 DEF TransportFailure, PollTerminal, TurnTypes, TurnStates
  <2>3. /\ rechat'.id = rechat.id /\ rechat'.prefetch = rechat.prefetch
        /\ rechat'.discard = rechat.discard
    BY <1>6 DEF TransportFailure, PollTerminal, TurnTypes, ChainStates
  <2>4. probe' = probe \/ probe' = NoProbe  BY <1>6 DEF TransportFailure, PollTerminal
  <2>5. ProbeFits'  BY <2>1, <2>3, <2>4 DEF ChainInv, ProbeFits, NoProbe
  <2> QED  BY <2>1, <2>2, <2>3, <2>5, QueueRests DEF SameTurn
<1> QED  BY <1>2, <1>3, <1>4, <1>5, <1>6 DEF PollEvent

(* The handler in progress, and what waits for time to pass.               *)
LEMMA ProbeKeeps ==
  ASSUME LaneHolds, ChainInv, HandlerEnds \/ ProbeEnds \/ ContextTimesOut
  PROVE  Keeps /\ SameTurn /\ ProbeFits'
<1>1. queue \in Queues /\ rechat \in ChainStates
  BY DEF LaneHolds, Lane, QueueInv, QueueTypes, TurnTypes
<1>2. Undisturbed  BY QuietCases DEF QuietStep, LaneHolds
<1>3. queue'.played = queue.played /\ queue'.seen = queue.seen
  <2>1. ConsumeRechat(queue).seen = queue.seen  BY <1>1 DEF ConsumeRechat, Queues
  <2> QED  BY <1>1, <2>1, PlayedStays DEF HandlerEnds, ProbeEnds, ContextTimesOut, laneVars
<1>4. Keeps  BY <1>2, <1>3, TakesUp DEF LaneHolds
<1>5. UNCHANGED <<turn, nextTurn, origin, voice>>
  BY DEF HandlerEnds, ProbeEnds, ContextTimesOut, turnVars
<1>6. rechat'.id = rechat.id /\ rechat'.prefetch = rechat.prefetch /\ rechat'.discard = rechat.discard
  BY <1>1 DEF HandlerEnds, StartProbe, ProbeEnds, ContextTimesOut, ChainStates
<1>7. \/ probe' = probe \/ probe'.stage # "context"
      \/ ChainReady /\ probe'.chain = rechat.id
  BY DEF HandlerEnds, StartProbe, ProbeEnds, ContextTimesOut, NoProbe
<1>8. ProbeFits'  BY <1>5, <1>6, <1>7 DEF ChainInv, ProbeFits, ChainReady
<1> QED  BY <1>4, <1>5, <1>6, <1>8 DEF SameTurn

LEMMA IdleKeeps ==
  ASSUME LaneHolds, ChainInv,
         \/ PollEnd \/ PumpStops \/ EnableAi \/ PlayerSpeechComplete \/ ActorReceives
         \/ ActorStatusInactive \/ IgnoredNotice \/ WorldActs \/ UNCHANGED vars
         \/ \E l \in Dialogue, outcome \in {"ready", "failed"} : MediaSettles(l, outcome)
  PROVE  Keeps /\ SameTurn /\ ProbeFits'
<1>1. CASE PollEnd \/ PumpStops \/ EnableAi \/ PlayerSpeechComplete \/ UNCHANGED vars
  BY <1>1, ChainsRest, QueueRests
  DEF PollEnd, PumpStops, EnableAi, PlayerSpeechComplete, vars, laneVars, turnVars
<1>2. CASE ActorReceives
  BY <1>2, ChainsRest, QueueRests
  DEF ActorReceives, ReceiveSpeak, ReceiveSubtitle, ReceiveAction, ReceiveReject, ReceiveStopSpeech,
      ReceiveHaltActions, ReceiveStop, ReceiveAttach, ActorStep, turnVars
<1>3. CASE WorldActs
  BY <1>3, ChainsRest, QueueRests
  DEF WorldActs, SpeechEnds, FaceEnds, BecomesInactive, BecomesActive, Attach, Detach, ActorStep, turnVars
<1>4. CASE ActorStatusInactive \/ IgnoredNotice
           \/ \E l \in Dialogue, outcome \in {"ready", "failed"} : MediaSettles(l, outcome)
  BY <1>4, ChainsRest, QueueRests DEF ActorStatusInactive, IgnoredNotice, MediaSettles, laneVars, turnVars
<1> QED  BY <1>1, <1>2, <1>3, <1>4

LEMMA PumpKeeps ==
  ASSUME LaneHolds, ChainInv,
         \/ \E refused \in SUBSET Dialogue : Prefetch(refused)
         \/ PumpPrepares \/ PumpMediaReady \/ PumpGivesUp \/ PumpSpeaks \/ PumpAsks \/ PumpActs
  PROVE  Keeps /\ SameTurn /\ ProbeFits'
<1> USE DEF LaneHolds, Lane, QueueInv, QueueTypes
<1>1. SameTurn /\ ProbeFits'
  BY ChainsRest DEF Prefetch, PumpPrepares, PumpMediaReady, PumpGivesUp, PumpSpeaks, PumpAsks, PumpActs, turnVars
<1>2. ASSUME NEW refused \in SUBSET Dialogue, Prefetch(refused) PROVE Keeps
  <2>1. Undisturbed  BY <1>2, QuietCases DEF QuietStep
  <2>2. \A l, r : Prepared(queue, l, r).played = queue.played /\ Prepared(queue, l, r).seen = queue.seen
    BY DEF Prepared, Queues
  <2>3. queue'.played = queue.played /\ queue'.seen = queue.seen
    BY <1>2, <2>2 DEF Prefetch, laneVars
  <2> QED  BY <2>1, <2>3, TakesUp
<1>3. ASSUME PumpPrepares \/ PumpMediaReady PROVE Keeps
  <2>1. Undisturbed  BY <1>3, QuietCases DEF QuietStep
  <2>2. queue'.played = queue.played /\ queue'.seen = queue.seen
    BY <1>3, PlayedStays DEF PumpPrepares, PumpMediaReady, WithStatus
  <2> QED  BY <2>1, <2>2, TakesUp
<1>4. ASSUME PumpGivesUp \/ PumpSpeaks \/ PumpAsks \/ PumpActs PROVE Keeps
  <2>1. queue.items # <<>> /\ queue.active = NoLine
        /\ (queue' = FailHead(queue) \/ queue' = MarkDispatched(queue))
    BY <1>4 DEF PumpGivesUp, GiveUpHead, PumpSpeaks, PumpAsks, PumpActs, Pumping
  <2>2. queue'.played = queue.played  BY <2>1, HeadPlayed
  <2>3. Queued(queue') \subseteq Queued(queue)  BY <2>1, HeadDrops, DispatchMarks DEF Drops
  <2> QED  BY <2>1, <2>2, <2>3, LaneAssumption DEF Keeps
<1> QED  BY <1>1, <1>2, <1>3, <1>4

(* The player's answer, and a halt.                                        *)
LEMMA AnswerKeeps ==
  ASSUME LaneHolds, ChainInv,
         HaltActions \/ \E c \in Commands, yes \in BOOLEAN : ConfirmAction(c, yes)
  PROVE  Keeps /\ SameTurn /\ ProbeFits'
<1> USE DEF LaneHolds, Lane, QueueInv, QueueTypes
<1>1. SameTurn /\ ProbeFits'  BY ChainsRest DEF HaltActions, ConfirmAction, turnVars
<1>2. ASSUME NEW c \in Commands, NEW yes \in BOOLEAN, ConfirmAction(c, yes) PROVE Keeps
  <2>1. queue.active = c /\ queue.active \notin Dialogue
    BY <1>2, LaneAssumption DEF ConfirmAction, ConfirmationIsCurrent
  <2>2. queue' = queue \/ (queue.items # <<>> /\ queue' = FailHead(queue))
    BY <1>2 DEF ConfirmAction
  <2>3. queue'.played = queue.played  BY <2>2, HeadPlayed
  <2>4. Queued(queue') \subseteq Queued(queue)  BY <2>2, HeadDrops DEF Drops
  <2> QED  BY <2>1, <2>3, <2>4 DEF Keeps
<1>3. ASSUME HaltActions PROVE Keeps
  <2> DEFINE asked == queue.active \in confirm
  <2>1. queue' = CancelActions(queue, asked) /\ asked \in BOOLEAN  BY <1>3 DEF HaltActions
  <2> HIDE DEF asked
  <2>2. Drops(queue, queue', CancelledActions(queue, asked))  BY <2>1, CancelActionsDrops
  <2>3. CancelledActions(queue, asked) \subseteq Commands  BY DEF CancelledActions
  <2>4. queue'.played = queue.played  BY <2>1, PlayedStays
  <2> QED  BY <2>2, <2>3, <2>4, LaneAssumption DEF Drops, Keeps
<1> QED  BY <1>1, <1>2, <1>3

LEMMA ResultKeeps ==
  ASSUME LaneHolds, ChainInv, ActionResult
  PROVE  ChainInv'
<1> USE DEF LaneHolds, Lane, QueueInv, QueueTypes
<1>1. /\ UNCHANGED <<turn, nextTurn, origin, voice>>
      /\ \/ UNCHANGED <<queue, chainVars>>
         \/ /\ queue.active = Notice.line /\ queue.active \in Commands /\ queue' = FailHead(queue)
            /\ ForgetChain \/ UNCHANGED chainVars
  BY DEF ActionResult, ActionActive, CompleteAction, FailHead, turnVars
<1>2. CASE UNCHANGED <<queue, chainVars>>
  <2>1. SameTurn /\ ProbeFits'  BY <1>1, <1>2, ChainsRest
  <2> QED  BY <1>2, <2>1, QueueRests, SameTurnKeeps
<1>3. CASE queue.active \in Commands /\ queue' = FailHead(queue) /\ (ForgetChain \/ UNCHANGED chainVars)
  <2>1. queue.active \notin Dialogue /\ queue.active # NoLine  BY <1>3, LaneAssumption
  <2>2. queue.items # <<>> /\ queue.active \in Queued(queue)  BY <2>1, ActiveIsFirst
  <2>3. queue'.played = queue.played  BY <1>3, <2>2, HeadPlayed
  <2>4. Queued(queue') \subseteq Queued(queue)  BY <1>3, <2>2, HeadDrops DEF Drops
  <2>5. Keeps  BY <2>1, <2>3, <2>4 DEF Keeps
  <2>6. CASE UNCHANGED chainVars
    <3>1. SameTurn /\ ProbeFits'  BY <1>1, <2>6, ChainsRest
    <3> QED  BY <2>5, <3>1, SameTurnKeeps
  <2>7. CASE ForgetChain
    <3>1. ProbeFits'  BY <2>7 DEF ForgetChain, ProbeFits, NoChain, NoProbe
    <3>2. ASSUME NEW t \in Turns, origin[t] # NoLine
          PROVE  origin[t] \in queue'.played \/ Withdrawn(t)'
      <4>1. ~Held(t)  BY <2>1, <3>2 DEF Held, TurnTypes
      <4>2. Withdrawn(t) => turn.id # t  BY <2>2 DEF Withdrawn
      <4> QED  BY <1>1, <2>3, <2>4, <3>2, <4>1, <4>2 DEF ChainInv, Withdrawn
    <3> QED  BY <1>1, <3>1, <3>2 DEF ChainInv, ProbeFits
  <2> QED  BY <1>3, <2>6, <2>7
<1> QED  BY <1>1, <1>2, <1>3

(* The line ends: it was played, or what was built on it is withdrawn.     *)
LEMMA StatusKeeps ==
  ASSUME LaneHolds, ChainInv, SpeechStatus
  PROVE  ChainInv'
<1> USE DEF LaneHolds, Lane, QueueInv, QueueTypes
<1> DEFINE d == queue.active
           done == ConsumeRechat(Completed(queue, Notice.status))
<1>1. d \in Dialogue /\ d # NoLine
  BY LaneAssumption DEF SpeechStatus, DialogueActive
<1>2. d \in Queued(queue) /\ queue.items # <<>>  BY <1>1, ActiveIsFirst
<1>3. /\ done \in Queues /\ Orderly(done) /\ Queued(done) \subseteq Queued(queue)
      /\ done.active = NoLine
  BY <1>1, <1>2, HeadDrops DEF Drops
<1>4. queue.played \subseteq done.played /\ (Notice.status = "played" => d \in done.played)
  BY <1>1, CompletedPlayed
<1>5. queue' = IF Abandons(Notice.status) THEN Cancel(done) ELSE done
  BY DEF SpeechStatus
<1>6. UNCHANGED <<nextTurn, origin, voice>>  BY DEF SpeechStatus
<1>7. turn'.id = turn.id /\ rechat'.id = rechat.id
  BY DEF SpeechStatus, TurnTypes, TurnStates, ChainStates
<1>8. rechat'.discard = IF Abandons(Notice.status) THEN turn.id ELSE rechat.discard
  BY DEF SpeechStatus, TurnTypes, ChainStates
<1>9. probe' = probe \/ probe' = NoProbe  BY DEF SpeechStatus
<1> HIDE DEF done
<1>10. queue'.played = done.played /\ Queued(queue') \subseteq Queued(queue)
       /\ (Abandons(Notice.status) => Queued(queue') = {})
  <2>1. Cancel(done).played = done.played  BY <1>3, PlayedStays
  <2>2. Queued(Cancel(done)) = {}  BY <1>3, CancelDrops DEF Drops
  <2> QED  BY <1>3, <1>5, <2>1, <2>2
<1>11. ASSUME NEW t \in Turns, origin[t] # NoLine
       PROVE  origin[t] \in queue'.played \/ Withdrawn(t)'
  <2>1. CASE origin[t] \in queue.played  BY <1>4, <1>10, <2>1
  <2>2. CASE Held(t)
    <3>1. CASE Notice.status = "played"  BY <1>4, <1>10, <2>2, <3>1 DEF Held
    <3>2. CASE Notice.status # "played"
      <4>1. Abandons(Notice.status)  BY <2>2, <3>2 DEF Held, Abandons
      <4> QED  BY <1>7, <1>8, <1>10, <2>2, <4>1 DEF Held, Withdrawn
    <3> QED  BY <3>1, <3>2
  <2>3. CASE Withdrawn(t)
    <3>1. turn.id # t  BY <1>2, <2>3 DEF Withdrawn
    <3> QED  BY <1>7, <1>10, <2>3, <3>1 DEF Withdrawn
  <2> QED  BY <1>11, <2>1, <2>2, <2>3 DEF ChainInv
<1>12. ProbeFits'  BY <1>6, <1>7, <1>9 DEF ChainInv, ProbeFits, NoProbe
<1> QED  BY <1>6, <1>7, <1>11, <1>12 DEF ChainInv, ProbeFits

(* Turns that begin, and turns that are left.                              *)
LEMMA NobodyHeld ==
  ASSUME ChainInv, queue.active = NoLine \/ rechat.id = 0
  PROVE  \A t \in Turns : origin[t] # NoLine => ~Held(t)
BY DEF Held

LEMMA SubmissionKeeps ==
  ASSUME LaneHolds, ChainInv,
         SubmitTyped \/ SubmitTranscript \/ SubmitAutonomy \/ SubmitFollowUp
  PROVE  ChainInv'
<1> USE DEF LaneHolds, Lane, QueueInv, QueueTypes
<1>1. BeginTurn(NoLine)  BY DEF SubmitTyped, SubmitTranscript, SubmitAutonomy, SubmitFollowUp
<1>2. CASE SubmitTyped
  <2>1. queue' = Cancel(queue)
    BY <1>2 DEF SubmitTyped, InterruptForPlayerInput, CancelResponseLane
  <2>2. queue'.played = queue.played /\ Queued(queue') = {}
    BY <2>1, PlayedStays, CancelDrops DEF Drops
  <2>3. ProbeFits'  BY <1>2 DEF SubmitTyped, ProbeFits, NoProbe
  <2>4. NewTurn(NoLine)  BY <1>1, <2>2 DEF NewTurn
  <2> QED  BY <2>3, <2>4, NewTurnKeeps
<1>3. CASE SubmitTranscript \/ SubmitAutonomy \/ SubmitFollowUp
  <2>1. queue' = queue
    BY <1>3 DEF SubmitTranscript, SubmitAutonomy, SubmitFollowUp, laneVars
  <2>2. queue.active = NoLine \/ rechat.id = 0
    BY <1>3 DEF SubmitTranscript, SubmitAutonomy, SubmitFollowUp, MayFollowUp, Idle, ChainInv
  <2>3. ProbeFits'
    <3>1. CASE SubmitTranscript
      <4>1. nextTurn # 0
        BY <1>1, TurnNumbers DEF BeginTurn
      <4>2. voice' = FALSE /\ probe' = probe  BY <3>1 DEF SubmitTranscript
      <4> QED  BY <4>2 DEF ChainInv, ProbeFits
    <3>2. CASE SubmitAutonomy \/ SubmitFollowUp
      BY <3>2 DEF SubmitAutonomy, SubmitFollowUp, ForgetChain, ProbeFits, NoProbe, NoChain
    <3> QED  BY <1>3, <3>1, <3>2
  <2>4. NewTurn(NoLine)  BY <1>1, <2>1, <2>2, NobodyHeld DEF NewTurn
  <2> QED  BY <2>3, <2>4, NewTurnKeeps
<1> QED  BY <1>2, <1>3

LEMMA InterruptionKeeps ==
  ASSUME LaneHolds, ChainInv,
         InterruptOnly \/ Interrupt(SignalAll("STOP_SPEECH")) \/ Interrupt(StopSpeechAndWork) \/ DisableAi
  PROVE  ChainInv'
<1> USE DEF LaneHolds, Lane, QueueInv, QueueTypes
<1>1. queue' = Cancel(queue) /\ NoTurnBegins(NoTurn) /\ ForgetChain
  BY DEF InterruptOnly, InterruptForPlayerInput, Interrupt, DisableAi, CancelResponseLane
<1>2. queue'.played = queue.played /\ Queued(queue') = {}
  BY <1>1, PlayedStays, CancelDrops DEF Drops
<1>3. ProbeFits'  BY <1>1 DEF ForgetChain, ProbeFits, NoProbe, NoChain
<1>4. NewTurn(NoLine)  BY <1>1, <1>2 DEF NewTurn
<1> QED  BY <1>3, <1>4, NewTurnKeeps

LEMMA FollowUpLostKeeps == ASSUME LaneHolds, ChainInv, LoseFollowUp PROVE ChainInv'
<1>1. queue' = queue /\ queue.active = NoLine /\ UNCHANGED <<chainVars, voice>>
  BY DEF LoseFollowUp, MayFollowUp, Idle, laneVars
<1>2. CASE NoTurnBegins(turn)
  <2>1. SameTurn /\ ProbeFits'  BY <1>1, <1>2, ChainsRest DEF NoTurnBegins
  <2> QED  BY <1>1, <2>1, QueueRests, SameTurnKeeps
<1>3. CASE NoTurnBegins(NoTurn)
  <2>1. ProbeFits'  BY <1>1 DEF ChainInv, ProbeFits, chainVars
  <2>2. NewTurn(NoLine)  BY <1>1, <1>3, NobodyHeld DEF NewTurn
  <2> QED  BY <2>1, <2>2, NewTurnKeeps
<1> QED  BY <1>2, <1>3 DEF LoseFollowUp

(* The continuation itself.                                                *)
LEMMA ContinuationKeeps == ASSUME LaneHolds, ChainInv, RechatContext PROVE ChainInv'
<1> USE DEF LaneHolds, Lane, QueueInv, QueueTypes
<1>1. /\ queue' = queue /\ voice' = voice /\ probe' = NoProbe
      /\ rechat.id # 0 /\ turn.id \in Turns
  BY DEF RechatContext, ContextFits, ChainInv, laneVars, TurnTypes, TurnStates
<1>2. queue.active # NoLine => queue.active \in LinesOf(turn.id)
  BY ActiveIsFirst DEF RechatContext, ContextFits, CanStartRechat
<1>3. \A t \in Turns : origin[t] # NoLine => ~Held(t)
  BY <1>2 DEF ChainInv, Held
<1>4. rechat'.id = rechat.id  BY DEF RechatContext, TurnTypes, ChainStates
<1>5. ProbeFits'  BY <1>1, <1>4 DEF ChainInv, ProbeFits, NoProbe
<1>6. CASE BeginTurn(queue.active)
           /\ rechat' = [rechat EXCEPT !.inFlight = TRUE,
                           !.prefetch = IF queue.active # NoLine THEN queue.active ELSE @]
  <2>1. queue.active # NoLine => rechat'.prefetch = queue.active
    BY <1>6 DEF TurnTypes, ChainStates
  <2>2. NewTurn(queue.active)  BY <1>1, <1>2, <1>3, <1>4, <1>6, <2>1 DEF NewTurn
  <2> QED  BY <1>5, <2>2, NewTurnKeeps
<1>7. CASE NoTurnBegins(turn) /\ rechat' = [rechat EXCEPT !.cancelled = TRUE]
  <2>1. SameTurn  BY <1>7 DEF NoTurnBegins, SameTurn, TurnTypes, ChainStates
  <2> QED  BY <1>1, <1>5, <2>1, QueueRests, SameTurnKeeps
<1>8. CASE NoTurnBegins(NoTurn)
  <2>1. NewTurn(NoLine)  BY <1>1, <1>3, <1>8 DEF NewTurn
  <2> QED  BY <1>5, <2>1, NewTurnKeeps
<1> QED  BY <1>6, <1>7, <1>8 DEF RechatContext

LEMMA ChainBegins == Init => ChainInv
<1> SUFFICES ASSUME Init PROVE ChainInv  OBVIOUS
<1>1. turn.id < nextTurn  BY DEF Init, NoTurn
<1>2. \A t \in Turns : NoLine \notin LinesOf(t)
  BY ScriptLines, LaneAssumption DEF LinesOf, ToSet
<1> QED  BY <1>1, <1>2 DEF Init, ChainInv, NoProbe

LEMMA ChainStep == LaneHolds /\ ChainInv /\ [Next]_vars => ChainInv'
<1> SUFFICES ASSUME LaneHolds, ChainInv, [Next]_vars PROVE ChainInv'  OBVIOUS
<1>1. CASE PollEvent  BY <1>1, PollKeeps, SameTurnKeeps
<1>2. CASE \/ PollEnd \/ ActorReceives \/ PlayerSpeechComplete \/ WorldActs \/ UNCHANGED vars
           \/ \E l \in Dialogue, outcome \in {"ready", "failed"} : MediaSettles(l, outcome)
  BY <1>2, IdleKeeps, SameTurnKeeps
<1>3. CASE HandlerStep
  <2>1. CASE (\E refused \in SUBSET Dialogue : Prefetch(refused)) \/ PumpPrepares \/ PumpMediaReady
             \/ PumpGivesUp \/ PumpSpeaks \/ PumpAsks \/ PumpActs
    BY <2>1, PumpKeeps, SameTurnKeeps
  <2>2. CASE PumpStops  BY <2>2, IdleKeeps, SameTurnKeeps
  <2>3. CASE SubmitFollowUp \/ LoseFollowUp  BY <2>3, SubmissionKeeps, FollowUpLostKeeps
  <2>4. CASE HandlerEnds  BY <2>4, ProbeKeeps, SameTurnKeeps
  <2> QED  BY <1>3, <2>1, <2>2, <2>3, <2>4 DEF HandlerStep
<1>4. CASE GlobalReceives
  BY <1>4, StatusKeeps, ResultKeeps, IdleKeeps, SameTurnKeeps DEF GlobalReceives
<1>5. CASE PlayerActs
  <2>1. CASE SubmitTyped \/ SubmitTranscript  BY <2>1, SubmissionKeeps
  <2>2. CASE InterruptOnly \/ Interrupt(SignalAll("STOP_SPEECH")) \/ Interrupt(StopSpeechAndWork) \/ DisableAi
    BY <2>2, InterruptionKeeps
  <2>3. CASE HaltActions \/ \E c \in Commands, yes \in BOOLEAN : ConfirmAction(c, yes)
    BY <2>3, AnswerKeeps, SameTurnKeeps
  <2>4. CASE EnableAi  BY <2>4, IdleKeeps, SameTurnKeeps
  <2> QED  BY <1>5, <2>1, <2>2, <2>3, <2>4 DEF PlayerActs
<1>6. CASE SubmitAutonomy  BY <1>6, SubmissionKeeps
<1>7. CASE ProbeEnds \/ ContextTimesOut  BY <1>7, ProbeKeeps, SameTurnKeeps
<1>8. CASE RechatContext  BY <1>8, ContinuationKeeps
<1> QED  BY <1>1, <1>2, <1>3, <1>4, <1>5, <1>6, <1>7, <1>8 DEF Next

(* A continuation that was submitted while a line was being spoken is      *)
(* heard only after that line was played to the end: whoever takes the     *)
(* line away, the continuation, already queued or still on its way, is     *)
(* dropped before the lane comes to it (speechStatus, discardTurnId).      *)
THEOREM ContinuesHolds == Spec => ContinuesWhatWasPlayed
<1>1. LaneHolds /\ ChainInv /\ [Next]_vars
        => [\A t \in Turns :
              origin[t] # NoLine /\ queue.active # queue'.active
                /\ queue'.active \in ToSet(Script[t].lines)
              => origin[t] \in queue'.played]_vars
  <2> SUFFICES ASSUME LaneHolds, ChainInv, [Next]_vars, NEW t \in Turns, origin[t] # NoLine,
                      queue.active # queue'.active, queue'.active \in ToSet(Script[t].lines)
               PROVE  origin[t] \in queue'.played
    OBVIOUS
  <2>1. queue'.active \in Dialogue  BY ScriptLines DEF ToSet
  <2>2. PumpSpeaks
    <3>1. ~Talks  BY DEF Talks, TalksAs
    <3>2. ~ \E extra : LetGoes(extra)  BY <2>1 DEF LetGoes, VoiceMoves
    <3> QED  BY <3>1, <3>2, Kinds DEF LaneHolds
  <2>3. /\ queue.items # <<>> /\ queue.active = NoLine /\ queue'.active = First.line
        /\ First.line \in Queued(queue) /\ queue' = MarkDispatched(queue)
    BY <2>2, HandedOver DEF PumpSpeaks, Pumping, LaneHolds
  <2>4. ~Held(t)  BY <2>3 DEF Held
  <2>5. ~Withdrawn(t)  BY <2>3 DEF Withdrawn, LinesOf
  <2>6. queue'.played = queue.played
    BY <2>3, HeadPlayed DEF LaneHolds, Lane, QueueInv, QueueTypes
  <2> QED  BY <2>4, <2>5, <2>6 DEF ChainInv
<1>2. Spec => []ChainInv
  <2>1. Init => ChainInv  BY ChainBegins
  <2>2. LaneHolds /\ ChainInv /\ [Next]_vars => ChainInv'  BY ChainStep
  <2> QED  BY <2>1, <2>2, LaneInductive, PTL DEF Spec
<1> QED  BY <1>1, <1>2, LaneInductive, PTL DEF Spec, ContinuesWhatWasPlayed
================================================================================
