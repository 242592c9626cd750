-------------------------- MODULE SessionClientProofs --------------------------
(***************************************************************************)
(* Proofs about SessionClient for every size of its queues and every bound: *)
(* each event of a session is handed over once and in order, a generation   *)
(* opens one session that tells of its load, a menu line that is being      *)
(* prepared has a download that moves it on, and whoever waits for an       *)
(* answer has one coming.                                                   *)
(***************************************************************************)
EXTENDS SessionClient, PartsProofs, FiniteSetTheorems

-------------------------------------------------------------------------------
(* Induction over a queue.                                                  *)

(* The recursive function by which FoldLeft is defined exists.             *)
FoldOf(f, c, s, S) == f = [T \in SUBSET S |->
  IF T = {} THEN c ELSE Handle(f[T \ {Max(T)}], s[Max(T)])]
LEMMA FoldExists ==
  ASSUME NEW c, NEW s, NEW n \in Nat
  PROVE  \E f : FoldOf(f, c, s, 1..n)
<1> DEFINE K == {k \in Nat : \E f : FoldOf(f, c, s, 1..k)}
<1>1. 0 \in K
  <2>1. FoldOf([T \in SUBSET (1..0) |-> c], c, s, 1..0)  BY DEF FoldOf
  <2> QED  BY <2>1
<1>2. ASSUME NEW k \in Nat, k \in K PROVE k + 1 \in K
  <2>1. PICK f : FoldOf(f, c, s, 1..k)  BY <1>2
  <2> DEFINE g == [T \in SUBSET (1..(k + 1)) |->
                     IF k + 1 \in T THEN Handle(f[T \ {k + 1}], s[k + 1]) ELSE f[T]]
  <2>2. ASSUME NEW T \in SUBSET (1..(k + 1))
        PROVE  g[T] = IF T = {} THEN c ELSE Handle(g[T \ {Max(T)}], s[Max(T)])
    <3>1. CASE k + 1 \in T
      <4>1. Max(T) = k + 1
        <5>1. \A x \in T : k + 1 >= x  OBVIOUS
        <5>2. \A x \in T : (\A y \in T : x >= y) => x = k + 1
          <6> SUFFICES ASSUME NEW x \in T, \A y \in T : x >= y PROVE x = k + 1  OBVIOUS
          <6>1. x >= k + 1 /\ x \in 1..(k + 1)  BY <3>1
          <6> QED  BY <6>1
        <5> QED  BY <3>1, <5>1, <5>2 DEF Max
      <4>2. T \ {k + 1} \in SUBSET (1..k)  OBVIOUS
      <4>3. g[T \ {k + 1}] = f[T \ {k + 1}]  BY <4>2
      <4> QED  BY <3>1, <4>1, <4>3
    <3>2. CASE k + 1 \notin T
      <4>0. \A x \in T : x \in 1..(k + 1) /\ x # k + 1  BY <3>2
      <4>5. \A x \in T : x \in 1..k  BY <4>0
      <4>1. T \in SUBSET (1..k) /\ T \ {Max(T)} \in SUBSET (1..k)  BY <4>5, Zenon
      <4>2. g[T] = f[T] /\ g[T \ {Max(T)}] = f[T \ {Max(T)}]  BY <3>2, <4>1
      <4>3. f[T] = IF T = {} THEN c ELSE Handle(f[T \ {Max(T)}], s[Max(T)])
        BY <2>1, <4>1 DEF FoldOf
      <4> QED  BY <4>2, <4>3
    <3> QED  BY <3>1, <3>2
  <2>3. FoldOf(g, c, s, 1..(k + 1))  BY <2>2, Zenon DEF FoldOf
  <2> QED  BY <2>3
<1> HIDE DEF K
<1>3. n \in K  BY <1>1, <1>2, AllNaturals
<1> QED  BY <1>3 DEF K

(* Handling a queue is handling its elements one by one.                   *)
Stepwise(h, c, s, n) ==
  /\ h[0] = c /\ h[n] = HandleAll(c, s)
  /\ \A i \in 1..n : h[i] = Handle(h[i - 1], s[i])
LEMMA HandleOneByOne ==
  ASSUME NEW c, NEW s, NEW n \in Nat, DOMAIN s = 1..n
  PROVE  \E h : Stepwise(h, c, s, n)
<1> DEFINE f == CHOOSE f : FoldOf(f, c, s, DOMAIN s)
           h == [i \in 0..n |-> f[1..i]]
<1>1. FoldOf(f, c, s, 1..n)  BY FoldExists
<1>2. HandleAll(c, s) = f[DOMAIN s]
  BY Zenon DEF HandleAll, FoldLeft, MapThenFoldSet, FoldOf
<1> HIDE DEF f
<1>3. h[0] = c
  <2>1. 1..0 = {} /\ {} \in SUBSET (1..n)  OBVIOUS
  <2>2. f[{}] = c  BY <1>1, <2>1 DEF FoldOf
  <2> QED  BY <2>1, <2>2
<1>4. h[n] = HandleAll(c, s)  BY <1>2
<1>5. ASSUME NEW i \in 1..n PROVE h[i] = Handle(h[i - 1], s[i])
  <2>1. Max(1..i) = i  BY DEF Max
  <2>5. 1..i \in SUBSET (1..n) /\ i \in 1..i  OBVIOUS
  <2>6. (1..i) \ {i} = 1..(i - 1)  OBVIOUS
  <2>2. 1..i \in SUBSET (1..n) /\ 1..i # {} /\ (1..i) \ {i} = 1..(i - 1)  BY <2>5, <2>6
  <2>3. f[1..i] = Handle(f[1..(i - 1)], s[i])  BY <1>1, <2>1, <2>2 DEF FoldOf
  <2>4. h[i] = f[1..i] /\ h[i - 1] = f[1..(i - 1)]  OBVIOUS
  <2> QED  BY <2>3, <2>4
<1> HIDE DEF h
<1>6. Stepwise(h, c, s, n)  BY <1>3, <1>4, <1>5 DEF Stepwise
<1> QED  BY <1>6

-------------------------------------------------------------------------------
(* Types                                                                   *)

FiniteSubsets(S) == {T \in SUBSET S : IsFiniteSet(T)}
Tables(K, V) == UNION {[D -> V] : D \in FiniteSubsets(K)}

Clips == MenuClips \cup SpeechClips
Datum == Nat \cup BOOLEAN \cup Clips
Kinds == {"init", "poll", "turn", "interruption", "controls", "debug", "disposition", "comment",
          "autochat", "menu", "media"}
Codes == {"ok", "retry", "reject", "fatal", "cancelled"}
Phases == {"requesting", "preparing", "ready", "failed"}
Statuses == {"waiting_identity", "connecting", "ready", "error", "halted"}
Request == [id : Nat \ {0}, gen : Nat, kind : Kinds, data : Seq(Datum), cancelled : BOOLEAN]
Response == [id : Nat \ {0}, gen : Nat, kind : Kinds, code : Codes, data : Seq(Datum)]
Waits == FiniteSubsets(Kinds \X Nat)
Lines == Tables(Nat, [state : Phases, clip : Clips \cup {0}])
Downloads == Tables(Clips, [state : Phases, id : Nat])
Client ==
  [gen : Nat, halted : BOOLEAN, status : Statuses, session : Nat, cursor : Nat, seen : Seq(Nat),
   prepared : BOOLEAN, bound : BOOLEAN, rejected : BOOLEAN,
   init : Nat, attempts : Nat, retry : BOOLEAN, snapshot : [key : Nat, loaded : BOOLEAN],
   made : Nat, loaded : BOOLEAN, waiting : BOOLEAN,
   poll : Nat, wait : Waits, kept : Waits, latest : Nat, menus : Lines, media : Downloads,
   out : Seq(Request), inbound : Seq(Response), deferred : Seq(Response)]

(* What a table holds is finite.                                           *)
LEMMA FiniteRange ==
  ASSUME NEW f, IsFiniteSet(DOMAIN f)
  PROVE  IsFiniteSet({f[x] : x \in DOMAIN f})
<1> DEFINE S == DOMAIN f
           T == {f[x] : x \in S}
           g == [x \in S |-> f[x]]
<1>1. g \in Surjection(S, T)  BY DEF Surjection
<1> QED  BY <1>1, FS_Surjection

(* So are the ids of a queue.                                              *)
LEMMA IdsFinite ==
  ASSUME NEW E, NEW s \in Seq(E), \A e \in E : e.id \in Nat
  PROVE  IsFiniteSet(Ids(s)) /\ Ids(s) \subseteq Nat
<1> DEFINE f == [i \in DOMAIN s |-> s[i].id]
<1>1. DOMAIN s = 1..Len(s) /\ Len(s) \in Nat  OBVIOUS
<1>2. IsFiniteSet(DOMAIN s)  BY <1>1, FS_Interval
<1>3. IsFiniteSet({f[i] : i \in DOMAIN f})  BY <1>2, FiniteRange
<1>4. Ids(s) = {f[i] : i \in DOMAIN f}  BY DEF Ids
<1>5. \A i \in DOMAIN s : s[i].id \in Nat  BY <1>1
<1> QED  BY <1>3, <1>4, <1>5 DEF Ids

LEMMA TableWith ==
  ASSUME NEW K, NEW V, NEW f \in Tables(K, V), NEW x \in K, NEW v \in V
  PROVE  With(f, x, v) \in Tables(K, V) /\ DOMAIN With(f, x, v) = DOMAIN f \cup {x}
<1>1. PICK D \in FiniteSubsets(K) : f \in [D -> V]  BY DEF Tables
<1>2. D \cup {x} \in FiniteSubsets(K)  BY FS_AddElement DEF FiniteSubsets
<1>3. With(f, x, v) \in [D \cup {x} -> V]  BY <1>1 DEF With
<1> QED  BY <1>1, <1>2, <1>3 DEF Tables

LEMMA TableWithout ==
  ASSUME NEW K, NEW V, NEW f \in Tables(K, V), NEW S
  PROVE  Without(f, S) \in Tables(K, V)
<1>1. PICK D \in FiniteSubsets(K) : f \in [D -> V]  BY DEF Tables
<1>2. D \ S \in FiniteSubsets(K)  BY FS_Difference DEF FiniteSubsets
<1>3. Without(f, S) \in [D \ S -> V]  BY <1>1 DEF Without
<1> QED  BY <1>2, <1>3 DEF Tables

LEMMA TableOf ==
  ASSUME NEW K, NEW V, NEW f
  PROVE  f \in Tables(K, V) <=> f \in [DOMAIN f -> V] /\ DOMAIN f \subseteq K /\ IsFiniteSet(DOMAIN f)
BY DEF Tables, FiniteSubsets

(* The ids in use are finitely many numbers.                               *)
LEMMA HeldFinite ==
  ASSUME NEW c \in Client, Gone \in FiniteSubsets(Nat)
  PROVE  Held(c) \in FiniteSubsets(Nat)
<1> USE DEF FiniteSubsets
<1>1. {c.init, c.poll, c.latest} \in FiniteSubsets(Nat)
  <2>4. IsFiniteSet({c.init})  BY FS_Singleton
  <2>1. IsFiniteSet({c.init} \cup {c.poll})  BY <2>4, FS_AddElement
  <2>2. IsFiniteSet(({c.init} \cup {c.poll}) \cup {c.latest})  BY <2>1, FS_AddElement
  <2>3. ({c.init} \cup {c.poll}) \cup {c.latest} = {c.init, c.poll, c.latest}  OBVIOUS
  <2> QED  BY <2>2, <2>3 DEF Client
<1>2. {w[2] : w \in c.wait \cup c.kept} \in FiniteSubsets(Nat)
  <2> DEFINE W == c.wait \cup c.kept
             f == [w \in W |-> w[2]]
  <2>1. W \in SUBSET (Kinds \X Nat) /\ IsFiniteSet(W)  BY FS_Union DEF Client, Waits
  <2>2. IsFiniteSet({f[w] : w \in DOMAIN f})  BY <2>1, FiniteRange
  <2>3. {f[w] : w \in DOMAIN f} = {w[2] : w \in W}  OBVIOUS
  <2> QED  BY <2>1, <2>2, <2>3
<1>3. DOMAIN c.menus \in FiniteSubsets(Nat)
  <2>1. c.menus \in Lines  BY DEF Client
  <2> QED  BY <2>1, TableOf DEF Lines
<1>4. {c.media[m].id : m \in DOMAIN c.media} \in FiniteSubsets(Nat)
  <2> DEFINE f == [m \in DOMAIN c.media |-> c.media[m].id]
  <2>1. c.media \in Downloads  BY DEF Client
  <2>2. IsFiniteSet(DOMAIN c.media) /\ c.media \in [DOMAIN c.media -> [state : Phases, id : Nat]]
    BY <2>1, TableOf DEF Downloads
  <2>3. IsFiniteSet({f[m] : m \in DOMAIN f})  BY <2>2, FiniteRange
  <2>4. {f[m] : m \in DOMAIN f} = {c.media[m].id : m \in DOMAIN c.media}  OBVIOUS
  <2> QED  BY <2>2, <2>3, <2>4
<1>5. Ids(c.out) \in FiniteSubsets(Nat)
  <2>1. \A e \in Request : e.id \in Nat  BY DEF Request
  <2>2. c.out \in Seq(Request)  BY DEF Client
  <2> QED  BY <2>1, <2>2, IdsFinite
<1>6. Ids(c.inbound) \in FiniteSubsets(Nat) /\ Ids(c.deferred) \in FiniteSubsets(Nat)
  <2>1. \A e \in Response : e.id \in Nat  BY DEF Response
  <2>2. c.inbound \in Seq(Response) /\ c.deferred \in Seq(Response)  BY DEF Client
  <2> QED  BY <2>1, <2>2, IdsFinite
<1>7. \A S, T \in FiniteSubsets(Nat) : S \cup T \in FiniteSubsets(Nat)  BY FS_Union
<1> HIDE DEF FiniteSubsets
<1> QED  BY <1>1, <1>2, <1>3, <1>4, <1>5, <1>6, <1>7 DEF Held

(* An id is always to be had that nothing holds.                           *)
LEMMA FreshIdFresh ==
  ASSUME NEW c \in Client, Gone \in FiniteSubsets(Nat)
  PROVE  FreshId(c) \in Nat \ {0} /\ FreshId(c) \notin Held(c)
<1> DEFINE H == Held(c)
           n == Cardinality(H)
           T == {i \in 1..(n + 1) : i \notin H}
<1>1. H \in SUBSET Nat /\ IsFiniteSet(H) /\ n \in Nat
  BY HeldFinite, FS_CardinalityType DEF FiniteSubsets
<1> HIDE DEF H, n
<1>2. T # {}
  <2> SUFFICES ASSUME 1..(n + 1) \in SUBSET H PROVE FALSE  OBVIOUS
  <2>1. Cardinality(1..(n + 1)) = n + 1  BY <1>1, FS_Interval
  <2>2. Cardinality(1..(n + 1)) <= n  BY <1>1, FS_Subset DEF n
  <2> QED  BY <1>1, <2>1, <2>2
<1>3. PICK i \in T : \A j \in T : ~ (<<j, i>> \in Below)
  BY <1>1, <1>2, WFMin, BelowIsWellFounded
<1>4. \A j \in 1..(i - 1) : j \in H
  <2> SUFFICES ASSUME NEW j \in 1..(i - 1), j \notin H PROVE FALSE  OBVIOUS
  <2>1. j \in T /\ <<j, i>> \in Below  BY <1>1, BelowIsWellFounded
  <2> QED  BY <1>3, <2>1
<1>5. \E k \in 1..(n + 1) : k \notin H /\ \A j \in 1..(k - 1) : j \in H  BY <1>4
<1>6. FreshId(c) \in 1..(n + 1) /\ FreshId(c) \notin H
  BY <1>5, Zenon DEF FreshId, H, n
<1> QED  BY <1>1, <1>6 DEF H

-------------------------------------------------------------------------------
(* Sessions                                                                *)

(* What the server knows of a session.                                     *)
Session == [key : Nat, gen : Nat, loaded : BOOLEAN, events : 0..MaxEvents]
Sessions == Seq(Session)

(* A session belongs to one key and one generation: the server's, the ones *)
(* that were asked for, and the one that the client has chosen agree.      *)
Claim(key, gen, loaded) == [key |-> key, gen |-> gen, loaded |-> loaded]
Inits(c) == {i \in DOMAIN c.out : c.out[i].kind = "init"}
Sent(c) == {Claim(c.out[i].data[1], c.out[i].gen, c.out[i].data[2]) : i \in Inits(c)}
Known(S) == {Claim(S[i].key, S[i].gen, S[i].loaded) : i \in DOMAIN S}
Chosen(c) == IF c.halted \/ c.snapshot.key = 0 THEN {}
             ELSE {Claim(c.snapshot.key, c.gen, c.snapshot.loaded)}
Agree(C, made, gen, L) ==
  /\ \A a \in C : a.key \in 1..made /\ a.gen \in 0..gen /\ (a.loaded <=> a.gen \in L)
  /\ \A a, b \in C : a.key = b.key <=> a.gen = b.gen

OpenedIn(S, gen) == \E i \in DOMAIN S : S[i].gen = gen
AskedNow(c) == \E i \in Inits(c) : c.out[i].gen = c.gen

(* The handshake under way is the only one of its generation.              *)
AsksSound(c) ==
  /\ \A i \in DOMAIN c.out : c.out[i].id = c.init => i \in Inits(c) /\ c.out[i].gen = c.gen
  /\ \A i, j \in DOMAIN c.out : c.out[i].id = c.out[j].id => i = j
  /\ \A i \in Inits(c) : c.out[i].gen = c.gen => c.out[i].id = c.init /\ c.snapshot.key # 0
(* Its answer tells of a session that was opened, or that none was.        *)
Truthful(S, r) ==
  r.kind = "init" /\ r.code = "ok" => \E j \in DOMAIN S : S[j].key = r.data[1] /\ S[j].gen = r.gen
Answers(c, S, r) ==
  /\ r.kind = "init" /\ (c.halted \/ r.gen = c.gen)
  /\ ~AskedNow(c)
  /\ r.code = "reject" => c.halted \/ ~OpenedIn(S, c.gen)
ResultSound(c, S, r) == Truthful(S, r) /\ (r.id = c.init => Answers(c, S, r))
(* The client uses a session of its generation, tells of a load until it   *)
(* has one, and knows of every session that the server may have opened.    *)
ClientSound(c, S, L) ==
  /\ c.halted => c.out = <<>>
  /\ c.session # 0 => \E j \in DOMAIN S : S[j].key = c.session /\ (c.halted \/ S[j].gen = c.gen)
  /\ c.rejected => c.session = 0
  /\ c.snapshot.key \in {0, c.made}
  /\ ~c.halted =>
       /\ c.session = 0 => (c.loaded <=> c.gen \in L)
       /\ OpenedIn(S, c.gen) => c.snapshot.key # 0 /\ ~(c.rejected /\ c.init = 0)

Opens(c, S, L) ==
  /\ L \subseteq 1..c.gen
  /\ Agree(Known(S) \cup Sent(c) \cup Chosen(c), c.made, c.gen, L)
  /\ \A i, j \in DOMAIN S : S[i].gen = S[j].gen => i = j
  /\ AsksSound(c) /\ ClientSound(c, S, L)
  /\ \A i \in DOMAIN c.inbound : ResultSound(c, S, c.inbound[i])
  /\ \A i \in DOMAIN c.deferred : ResultSound(c, S, c.deferred[i])

(* What of the client the sessions are about, apart from its queues.       *)
Still(c, d) ==
  /\ d.session = c.session /\ d.init = c.init /\ d.gen = c.gen /\ d.halted = c.halted
  /\ d.snapshot = c.snapshot /\ d.made = c.made /\ d.loaded = c.loaded /\ d.rejected = c.rejected

(* s holds requests of t, each at most once.                               *)
Within(s, t, m) ==
  /\ m \in [DOMAIN s -> DOMAIN t]
  /\ \A i, j \in DOMAIN s : m[i] = m[j] => i = j
  /\ \A i \in DOMAIN s : /\ s[i].id = t[m[i]].id /\ s[i].gen = t[m[i]].gen
                         /\ s[i].kind = t[m[i]].kind /\ s[i].data = t[m[i]].data

LEMMA AgreeLess ==
  ASSUME NEW C, NEW D, NEW made, NEW gen, NEW L, D \subseteq C, Agree(C, made, gen, L)
  PROVE  Agree(D, made, gen, L)
BY DEF Agree

LEMMA SentWithin ==
  ASSUME NEW c, NEW d, NEW m, Within(d.out, c.out, m)
  PROVE  Sent(d) \subseteq Sent(c)
<1> SUFFICES ASSUME NEW i \in Inits(d)
             PROVE  Claim(d.out[i].data[1], d.out[i].gen, d.out[i].data[2]) \in Sent(c)
  BY DEF Sent
<1>1. m[i] \in Inits(c) /\ d.out[i].data = c.out[m[i]].data /\ d.out[i].gen = c.out[m[i]].gen
  BY DEF Within, Inits
<1> QED  BY <1>1 DEF Sent

LEMMA AsksWithin ==
  ASSUME NEW c, NEW d, NEW m, Within(d.out, c.out, m), AsksSound(c), Still(c, d)
  PROVE  AsksSound(d) /\ (AskedNow(d) => AskedNow(c))
<1>1. \A i \in DOMAIN d.out : /\ m[i] \in DOMAIN c.out /\ d.out[i].id = c.out[m[i]].id
                              /\ d.out[i].gen = c.out[m[i]].gen /\ d.out[i].kind = c.out[m[i]].kind
  BY DEF Within
<1>2. \A i \in DOMAIN d.out : i \in Inits(d) <=> m[i] \in Inits(c)  BY <1>1 DEF Inits
<1>3. \A i \in DOMAIN d.out : d.out[i].id = d.init => i \in Inits(d) /\ d.out[i].gen = d.gen
  BY <1>1, <1>2 DEF AsksSound, Still
<1>4. \A i, j \in DOMAIN d.out : d.out[i].id = d.out[j].id => i = j
  BY <1>1 DEF AsksSound, Within
<1>5. \A i \in Inits(d) : d.out[i].gen = d.gen => d.out[i].id = d.init /\ d.snapshot.key # 0
  BY <1>1, <1>2 DEF AsksSound, Still, Inits
<1>6. AskedNow(d) => AskedNow(c)  BY <1>1, <1>2 DEF AskedNow, Still, Inits
<1> QED  BY <1>3, <1>4, <1>5, <1>6 DEF AsksSound

LEMMA ResultStays ==
  ASSUME NEW c, NEW d, NEW S, NEW r, ResultSound(c, S, r), Still(c, d), AskedNow(d) => AskedNow(c)
  PROVE  ResultSound(d, S, r)
BY DEF ResultSound, Answers, Still

(* Requests may go and be cancelled, results go, be deferred and join.     *)
LEMMA OpensStays ==
  ASSUME NEW c, NEW S, NEW L, Opens(c, S, L), NEW d, Still(c, d),
         NEW m, Within(d.out, c.out, m), c.out = <<>> => d.out = <<>>,
         \A i \in DOMAIN d.inbound :
           ResultSound(d, S, d.inbound[i]) \/ \E j \in DOMAIN c.inbound : d.inbound[i] = c.inbound[j],
         \A i \in DOMAIN d.deferred :
           \/ \E j \in DOMAIN c.deferred : d.deferred[i] = c.deferred[j]
           \/ \E j \in DOMAIN c.inbound : d.deferred[i] = c.inbound[j]
  PROVE  Opens(d, S, L)
<1>1. AsksSound(d) /\ (AskedNow(d) => AskedNow(c))  BY AsksWithin DEF Opens
<1>2. Sent(d) \subseteq Sent(c)  BY SentWithin
<1>3. Chosen(d) = Chosen(c)  BY DEF Chosen, Still
<1>4. Agree(Known(S) \cup Sent(d) \cup Chosen(d), d.made, d.gen, L)
  <2>1. Known(S) \cup Sent(d) \cup Chosen(d) \subseteq Known(S) \cup Sent(c) \cup Chosen(c)
    BY <1>2, <1>3
  <2>2. Agree(Known(S) \cup Sent(c) \cup Chosen(c), d.made, d.gen, L)  BY DEF Opens, Still
  <2> QED  BY <2>1, <2>2, AgreeLess
<1>5. ClientSound(d, S, L)  BY DEF Opens, ClientSound, Still
<1>6. \A i \in DOMAIN d.inbound : ResultSound(d, S, d.inbound[i])  BY <1>1, ResultStays DEF Opens
<1>7. \A i \in DOMAIN d.deferred : ResultSound(d, S, d.deferred[i])  BY <1>1, ResultStays DEF Opens
<1> QED  BY <1>1, <1>4, <1>5, <1>6, <1>7 DEF Opens, Still

(* A request that is no handshake joins under an id of its own.            *)
LEMMA OpensRequest ==
  ASSUME NEW c \in Client, NEW S, NEW L, Opens(c, S, L), NEW d, Still(c, d), ~c.halted,
         NEW q, d.out = Append(c.out, q), q.kind # "init", q.id # c.init,
         \A i \in DOMAIN c.out : c.out[i].id # q.id,
         d.inbound = c.inbound, d.deferred = c.deferred
  PROVE  Opens(d, S, L)
<1>1. c.out \in Seq(Request)  BY DEF Client
<1>2. \A i \in DOMAIN d.out : \/ i \in DOMAIN c.out /\ d.out[i] = c.out[i]
                              \/ i = Len(c.out) + 1 /\ d.out[i] = q
  BY <1>1
<1>3. \A i \in DOMAIN c.out : i \in DOMAIN d.out /\ d.out[i] = c.out[i]  BY <1>1
<1>4. Inits(d) = Inits(c) /\ \A i \in Inits(c) : d.out[i] = c.out[i] /\ i \in DOMAIN c.out
  BY <1>2, <1>3 DEF Inits
<1>5. Sent(d) = Sent(c)  BY <1>4 DEF Sent
<1>6. Chosen(d) = Chosen(c)  BY DEF Chosen, Still
<1>7. AskedNow(d) <=> AskedNow(c)  BY <1>4 DEF AskedNow, Still
<1>8. AsksSound(d)
  <2>0. AsksSound(c)  BY DEF Opens
  <2>1. \A i \in DOMAIN d.out : d.out[i].id = d.init => i \in Inits(d) /\ d.out[i].gen = d.gen
    BY <1>2, <1>4, <2>0 DEF AsksSound, Still
  <2>2. \A i, j \in DOMAIN d.out : d.out[i].id = d.out[j].id => i = j
    BY <1>2, <2>0 DEF AsksSound
  <2>3. \A i \in Inits(d) : d.out[i].gen = d.gen => d.out[i].id = d.init /\ d.snapshot.key # 0
    BY <1>4, <2>0 DEF AsksSound, Still
  <2> QED  BY <2>1, <2>2, <2>3 DEF AsksSound
<1>9. ClientSound(d, S, L)  BY DEF Opens, ClientSound, Still
<1>10. \A r : ResultSound(c, S, r) => ResultSound(d, S, r)  BY <1>7, ResultStays
<1> QED  BY <1>5, <1>6, <1>8, <1>9, <1>10 DEF Opens, Still

(* The server opens the session that was asked for, if it has not.         *)
LEMMA OpensOpen ==
  ASSUME NEW c \in Client, NEW S \in Seq(Session), NEW L, Opens(c, S, L), NEW i \in Inits(c),
         \A j \in DOMAIN S : S[j].key # c.out[i].data[1],
         NEW T, NEW s, T = Append(S, s), s.key = c.out[i].data[1], s.gen = c.out[i].gen,
         s.loaded = c.out[i].data[2],
         c.out[i].id # 0
  PROVE  Opens(c, T, L)
<1> DEFINE C == Known(S) \cup Sent(c) \cup Chosen(c)
           q == c.out[i]
           a == Claim(q.data[1], q.gen, q.data[2])
<1>1. Agree(C, c.made, c.gen, L)  BY DEF Opens
<1>2. a \in Sent(c)  BY DEF Sent
<1>3. \A j \in DOMAIN T : (j \in DOMAIN S /\ T[j] = S[j]) \/ (j = Len(S) + 1 /\ T[j] = s)  OBVIOUS
<1>4. \A j \in DOMAIN S : j \in DOMAIN T /\ T[j] = S[j]  OBVIOUS
<1>5. Known(T) \subseteq Known(S) \cup {a}
  <2> SUFFICES ASSUME NEW j \in DOMAIN T
               PROVE  Claim(T[j].key, T[j].gen, T[j].loaded) \in Known(S) \cup {a}
    BY DEF Known
  <2> QED  BY <1>3 DEF Known
<1>6. Agree(Known(T) \cup Sent(c) \cup Chosen(c), c.made, c.gen, L)
  BY <1>1, <1>2, <1>5, AgreeLess
<1>7. \A j \in DOMAIN S : S[j].gen # q.gen
  <2> SUFFICES ASSUME NEW j \in DOMAIN S PROVE S[j].gen # q.gen  OBVIOUS
  <2> DEFINE b == Claim(S[j].key, S[j].gen, S[j].loaded)
  <2>1. b \in C /\ a \in C  BY <1>2 DEF Known
  <2>2. b.key # a.key  BY DEF Claim
  <2>3. b.gen # a.gen  BY <1>1, <2>1, <2>2 DEF Agree
  <2> QED  BY <2>3 DEF Claim
<1>8. \A j, k \in DOMAIN T : T[j].gen = T[k].gen => j = k
  <2>1. \A j, k \in DOMAIN S : S[j].gen = S[k].gen => j = k  BY DEF Opens
  <2> HIDE DEF q
  <2>2. s.gen = q.gen  BY DEF q
  <2> QED  BY <1>3, <1>7, <2>1, <2>2
<1>9. OpenedIn(T, c.gen) => OpenedIn(S, c.gen) \/ q.gen = c.gen  BY <1>3 DEF OpenedIn
<1>10. q.gen = c.gen => q.id = c.init /\ c.snapshot.key # 0  BY DEF Opens, AsksSound
<1>11. ClientSound(c, T, L)
  <2>0. ClientSound(c, S, L)  BY DEF Opens
  <2>1. c.session # 0 => \E j \in DOMAIN T : T[j].key = c.session /\ (c.halted \/ T[j].gen = c.gen)
    BY <1>4, <2>0 DEF ClientSound
  <2>2. ~c.halted /\ OpenedIn(T, c.gen) => c.snapshot.key # 0 /\ ~(c.rejected /\ c.init = 0)
    BY <1>9, <1>10, <2>0 DEF ClientSound
  <2> QED  BY <2>0, <2>1, <2>2 DEF ClientSound
<1>12. ASSUME NEW r, ResultSound(c, S, r) PROVE ResultSound(c, T, r)
  <2>1. Truthful(T, r)  BY <1>4, <1>12 DEF ResultSound, Truthful
  <2>2. ASSUME Answers(c, S, r) PROVE Answers(c, T, r)
    <3>1. q.gen # c.gen  BY <2>2 DEF Answers, AskedNow
    <3> QED  BY <1>9, <2>2, <3>1 DEF Answers
  <2> QED  BY <1>12, <2>1, <2>2 DEF ResultSound
<1> QED  BY <1>6, <1>8, <1>11, <1>12 DEF Opens

(* The head of the queue goes, and its result may come.                    *)
LEMMA OpensHead ==
  ASSUME NEW c \in Client, NEW S, NEW L, Opens(c, S, L), NEW d, Still(c, d),
         c.out # <<>>, d.out = Tail(c.out), d.deferred = c.deferred,
         NEW r, r.id = c.out[1].id, r.kind = c.out[1].kind, r.gen = c.out[1].gen, Truthful(S, r),
         r.kind = "init" /\ r.code = "reject" => ~OpenedIn(S, r.gen),
         \A i \in DOMAIN d.inbound : d.inbound[i] = r \/ \E j \in DOMAIN c.inbound : d.inbound[i] = c.inbound[j]
  PROVE  Opens(d, S, L)
<1> DEFINE m == [i \in DOMAIN d.out |-> i + 1]
<1>1. c.out \in Seq(Request)  BY DEF Client
<1>2. \A i \in DOMAIN d.out : i \in Nat /\ i + 1 \in DOMAIN c.out /\ i + 1 # 1 /\ d.out[i] = c.out[i + 1]
  BY <1>1
<1>3. Within(d.out, c.out, m)  BY <1>2 DEF Within
<1> HIDE DEF m
<1>4. 1 \in DOMAIN c.out /\ AsksSound(c)  BY <1>1 DEF Opens
<1>5. ResultSound(d, S, r)
  <2> SUFFICES ASSUME r.id = d.init PROVE Answers(d, S, r)  BY DEF ResultSound
  <2>1. 1 \in Inits(c) /\ c.out[1].gen = c.gen /\ c.out[1].id = c.init
    BY <1>4 DEF AsksSound, Still
  <2>2. ~AskedNow(d)
    <3> SUFFICES ASSUME NEW i \in Inits(d), d.out[i].gen = d.gen PROVE FALSE  BY DEF AskedNow
    <3>1. i + 1 \in Inits(c) /\ c.out[i + 1].gen = c.gen /\ i + 1 \in DOMAIN c.out /\ i + 1 # 1
      BY <1>2 DEF Inits, Still
    <3>2. c.out[i + 1].id = c.out[1].id  BY <1>4, <2>1, <3>1 DEF AsksSound
    <3> QED  BY <1>4, <3>1, <3>2 DEF AsksSound
  <2>3. r.kind = "init"  BY <2>1 DEF Inits
  <2> QED  BY <2>1, <2>2, <2>3 DEF Answers, Still
<1> QED  BY <1>3, <1>5, OpensStays

(* 0 is no id.                                                             *)
LEMMA IdsOfRequests ==
  ASSUME NEW s \in Seq(Request)
  PROVE  \A i \in DOMAIN s : s[i].id # 0
<1>1. \A i \in DOMAIN s : s[i] \in Request  OBVIOUS
<1>2. \A q \in Request : q.id # 0  BY DEF Request
<1> QED  BY <1>1, <1>2
LEMMA IdsOfResponses ==
  ASSUME NEW s \in Seq(Response)
  PROVE  \A i \in DOMAIN s : s[i].id # 0
<1>1. \A i \in DOMAIN s : s[i] \in Response  OBVIOUS
<1>2. \A r \in Response : r.id # 0  BY DEF Response
<1> QED  BY <1>1, <1>2

(* A handshake that is begun asks for the session that was chosen before,  *)
(* or for a new one, of which nobody knows.                                *)
LEMMA OpensSnapshot ==
  ASSUME NEW c \in Client, NEW S, NEW L, Opens(c, S, L), c.init = 0, c.session = 0,
         NEW d, d.session = c.session, d.init = c.init, d.gen = c.gen, d.halted = c.halted,
         d.loaded = c.loaded, d.rejected = c.rejected, d.snapshot = Snapshot(c), d.made = Snapshot(c).key,
         d.out = c.out, d.inbound = c.inbound, d.deferred = c.deferred
  PROVE  Opens(d, S, L) /\ d.snapshot.key # 0
<1>0. c.made \in Nat /\ c.gen \in Nat /\ c.snapshot \in [key : Nat, loaded : BOOLEAN] /\ c.loaded \in BOOLEAN
  BY DEF Client
<1>1. ClientSound(c, S, L) /\ AsksSound(c)  BY DEF Opens
<1>2. CASE c.snapshot.key # 0
  <2>1. d.snapshot = c.snapshot /\ d.made = c.made  BY <1>1, <1>2 DEF Snapshot, ClientSound
  <2>2. Still(c, d)  BY <2>1 DEF Still
  <2> DEFINE m == [i \in DOMAIN d.out |-> i]
  <2>3. Within(d.out, c.out, m)  BY DEF Within
  <2> HIDE DEF m
  <2>4. Opens(d, S, L)  BY <2>2, <2>3, OpensStays
  <2> QED  BY <1>2, <2>1, <2>4
<1>3. CASE c.snapshot.key = 0
  <2>1. d.snapshot.key = c.made + 1 /\ d.snapshot.loaded = c.loaded /\ d.made = c.made + 1
    BY <1>3 DEF Snapshot
  <2>2. Sent(d) = Sent(c) /\ (AskedNow(d) <=> AskedNow(c)) /\ Inits(d) = Inits(c)
    BY DEF Sent, AskedNow, Inits
  <2> DEFINE C == Known(S) \cup Sent(c)
             a == Claim(c.made + 1, c.gen, c.loaded)
  <2>3. Agree(C, c.made, c.gen, L)
    <3>1. C \subseteq Known(S) \cup Sent(c) \cup Chosen(c)  OBVIOUS
    <3> QED  BY <3>1, AgreeLess DEF Opens
  <2>4. Agree(Known(S) \cup Sent(d) \cup Chosen(d), d.made, d.gen, L)
    <3>1. CASE c.halted
      <4>1. Known(S) \cup Sent(d) \cup Chosen(d) = C  BY <2>2, <3>1 DEF Chosen
      <4> QED  BY <1>0, <2>1, <2>3, <4>1 DEF Agree
    <3>2. CASE ~c.halted
      <4>1. Known(S) \cup Sent(d) \cup Chosen(d) = C \cup {a}
        BY <1>0, <2>1, <2>2, <3>2 DEF Chosen
      <4>2. a.key = c.made + 1 /\ a.gen = c.gen /\ (a.loaded <=> a.gen \in L)
        BY <1>1, <3>2 DEF Claim, ClientSound
      <4>3. ~OpenedIn(S, c.gen)  BY <1>1, <1>3, <3>2 DEF ClientSound
      <4>4. ~AskedNow(c)  BY <1>1, <1>3 DEF AsksSound, AskedNow
      <4>5. \A b \in C : b.gen # c.gen
        <5>1. \A b \in Known(S) : b.gen # c.gen  BY <4>3 DEF Known, OpenedIn, Claim
        <5>2. \A b \in Sent(c) : b.gen # c.gen  BY <4>4 DEF Sent, AskedNow, Claim
        <5> QED  BY <5>1, <5>2
      <4>6. \A b \in C : b.key \in 1..c.made /\ b.gen \in 0..c.gen /\ (b.loaded <=> b.gen \in L)
        BY <2>3 DEF Agree
      <4>7. \A x, y \in C : x.key = y.key <=> x.gen = y.gen  BY <2>3 DEF Agree
      <4> HIDE DEF a, C
      <4>8. \A b \in C \cup {a} : b.key \in 1..d.made /\ b.gen \in 0..d.gen /\ (b.loaded <=> b.gen \in L)
        BY <1>0, <2>1, <4>2, <4>6
      <4>9. \A b \in C : b.key # a.key /\ b.gen # a.gen  BY <1>0, <4>2, <4>5, <4>6
      <4>10. \A x, y \in C \cup {a} : x.key = y.key <=> x.gen = y.gen  BY <4>7, <4>9
      <4> QED  BY <4>1, <4>8, <4>10 DEF Agree
    <3> QED  BY <3>1, <3>2
  <2>5. AsksSound(d)  BY <1>1, <1>3, <2>2 DEF AsksSound
  <2>6. ClientSound(d, S, L)  BY <1>1, <1>3, <2>1 DEF ClientSound
  <2>7. ASSUME NEW r, ResultSound(c, S, r) PROVE ResultSound(d, S, r)
    BY <2>2, <2>7 DEF ResultSound, Answers
  <2> QED  BY <1>0, <2>1, <2>4, <2>5, <2>6, <2>7 DEF Opens
<1> QED  BY <1>2, <1>3

LEMMA OpensAsk ==
  ASSUME NEW c \in Client, NEW S, NEW L, Opens(c, S, L), c.init = 0, ~c.halted, c.snapshot.key # 0,
         NEW q, q.id # 0, q.gen = c.gen, q.kind = "init",
         q.data[1] = c.snapshot.key, q.data[2] = c.snapshot.loaded,
         \A i \in DOMAIN c.out : c.out[i].id # q.id,
         \A i \in DOMAIN c.inbound : c.inbound[i].id # q.id,
         \A i \in DOMAIN c.deferred : c.deferred[i].id # q.id,
         NEW d, d.out = Append(c.out, q), d.init = q.id,
         d.session = c.session, d.gen = c.gen, d.halted = c.halted, d.snapshot = c.snapshot,
         d.made = c.made, d.loaded = c.loaded, d.rejected = c.rejected,
         d.inbound = c.inbound, d.deferred = c.deferred
  PROVE  Opens(d, S, L)
<1>0. c.out \in Seq(Request)  BY DEF Client
<1>1. \A i \in DOMAIN d.out : \/ i \in DOMAIN c.out /\ d.out[i] = c.out[i]
                              \/ i = Len(c.out) + 1 /\ d.out[i] = q
  BY <1>0
<1>2. Sent(d) \subseteq Sent(c) \cup Chosen(c)
  <2> SUFFICES ASSUME NEW i \in Inits(d)
               PROVE  Claim(d.out[i].data[1], d.out[i].gen, d.out[i].data[2]) \in Sent(c) \cup Chosen(c)
    BY DEF Sent
  <2>1. CASE i \in DOMAIN c.out /\ d.out[i] = c.out[i]
    BY <2>1 DEF Sent, Inits
  <2>2. CASE d.out[i] = q
    <3>1. Chosen(c) = {Claim(c.snapshot.key, c.gen, c.snapshot.loaded)}  BY DEF Chosen
    <3> QED  BY <2>2, <3>1
  <2> QED  BY <1>1, <2>1, <2>2 DEF Inits
<1>3. Chosen(d) = Chosen(c)  BY DEF Chosen
<1>4. Agree(Known(S) \cup Sent(d) \cup Chosen(d), d.made, d.gen, L)
  <2>1. Known(S) \cup Sent(d) \cup Chosen(d) \subseteq Known(S) \cup Sent(c) \cup Chosen(c)
    BY <1>2, <1>3
  <2>2. Agree(Known(S) \cup Sent(c) \cup Chosen(c), d.made, d.gen, L)  BY DEF Opens
  <2> QED  BY <2>1, <2>2, AgreeLess
<1>5. AsksSound(c) /\ ClientSound(c, S, L)  BY DEF Opens
<1>6. \A i \in DOMAIN c.out : c.out[i].id # 0  BY <1>0, IdsOfRequests
<1>7. AsksSound(d)
  <2>1. \A i \in DOMAIN d.out : d.out[i].id = d.init => i \in Inits(d) /\ d.out[i].gen = d.gen
    BY <1>1 DEF Inits
  <2>2. \A i, j \in DOMAIN d.out : d.out[i].id = d.out[j].id => i = j  BY <1>1, <1>5 DEF AsksSound
  <2>3. ASSUME NEW i \in Inits(d), d.out[i].gen = d.gen PROVE d.out[i].id = d.init /\ d.snapshot.key # 0
    <3>1. CASE i \in DOMAIN c.out /\ d.out[i] = c.out[i]
      <4>1. i \in Inits(c)  BY <3>1 DEF Inits
      <4> QED  BY <1>5, <1>6, <2>3, <3>1, <4>1 DEF AsksSound
    <3> QED  BY <1>1, <3>1 DEF Inits
  <2> QED  BY <2>1, <2>2, <2>3 DEF AsksSound
<1>8. ClientSound(d, S, L)  BY <1>5 DEF ClientSound
<1>9. ASSUME NEW r, ResultSound(c, S, r), r.id # q.id PROVE ResultSound(d, S, r)
  BY <1>9 DEF ResultSound
<1> QED  BY <1>4, <1>7, <1>8, <1>9 DEF Opens

(* The handshake is over, whatever came of it.                             *)
LEMMA OpensOver ==
  ASSUME NEW c \in Client, NEW S, NEW L, Opens(c, S, L), ~AskedNow(c),
         NEW d, d.init = 0, d.gen = c.gen, d.halted = c.halted, d.made = c.made,
         d.snapshot = c.snapshot \/ d.snapshot.key = 0, ClientSound(d, S, L),
         d.out = c.out, d.inbound = c.inbound, d.deferred = c.deferred
  PROVE  Opens(d, S, L)
<1>0. /\ c.out \in Seq(Request) /\ c.inbound \in Seq(Response) /\ c.deferred \in Seq(Response)
  BY DEF Client
<1>1. \A i \in DOMAIN c.out : c.out[i].id # 0  BY <1>0, IdsOfRequests
<1>2. /\ \A i \in DOMAIN c.inbound : c.inbound[i].id # 0
      /\ \A i \in DOMAIN c.deferred : c.deferred[i].id # 0
  BY <1>0, IdsOfResponses
<1>3. Sent(d) = Sent(c) /\ Inits(d) = Inits(c) /\ ~AskedNow(d)  BY DEF Sent, AskedNow, Inits
<1>4. Chosen(d) \subseteq Chosen(c)  BY DEF Chosen
<1>5. Agree(Known(S) \cup Sent(d) \cup Chosen(d), d.made, d.gen, L)
  <2>1. Known(S) \cup Sent(d) \cup Chosen(d) \subseteq Known(S) \cup Sent(c) \cup Chosen(c)
    BY <1>3, <1>4
  <2>2. Agree(Known(S) \cup Sent(c) \cup Chosen(c), d.made, d.gen, L)  BY DEF Opens
  <2> QED  BY <2>1, <2>2, AgreeLess
<1>6. AsksSound(d)
  <2>1. \A i, j \in DOMAIN d.out : d.out[i].id = d.out[j].id => i = j  BY DEF Opens, AsksSound
  <2> QED  BY <1>1, <1>3, <2>1 DEF AsksSound, AskedNow
<1>7. ASSUME NEW r, ResultSound(c, S, r), r.id # 0 PROVE ResultSound(d, S, r)
  BY <1>7 DEF ResultSound
<1> QED  BY <1>2, <1>5, <1>6, <1>7 DEF Opens

(* A fence begins a generation of which nobody knows anything.             *)
LEMMA OpensFence ==
  ASSUME NEW c \in Client, NEW S, NEW L, Opens(c, S, L),
         NEW M, M = L \/ M = L \cup {c.gen + 1},
         NEW d \in Client, d.gen = c.gen + 1, ~d.halted, d.made = c.made, d.init = 0, d.session = 0,
         d.snapshot.key = 0, d.loaded <=> d.gen \in M,
         NEW m, Within(d.out, c.out, m),
         \A i \in DOMAIN d.inbound : \E j \in DOMAIN c.inbound : d.inbound[i] = c.inbound[j],
         d.deferred = <<>>
  PROVE  Opens(d, S, M)
<1> DEFINE C == Known(S) \cup Sent(c)
<1>0. c.gen \in Nat /\ c.made \in Nat /\ d.out \in Seq(Request) /\ d.inbound \in Seq(Response)
  BY DEF Client
<1>1. Agree(C, c.made, c.gen, L)
  <2>1. C \subseteq Known(S) \cup Sent(c) \cup Chosen(c)  OBVIOUS
  <2> QED  BY <2>1, AgreeLess DEF Opens
<1>2. Agree(C, d.made, d.gen, M)  BY <1>0, <1>1 DEF Agree
<1>3. Agree(Known(S) \cup Sent(d) \cup Chosen(d), d.made, d.gen, M)
  <2>1. Sent(d) \subseteq Sent(c)  BY SentWithin
  <2>2. Known(S) \cup Sent(d) \cup Chosen(d) \subseteq C  BY <2>1 DEF Chosen
  <2> QED  BY <1>2, <2>2, AgreeLess
<1>4. \A a \in C : a.gen # d.gen  BY <1>0, <1>1 DEF Agree
<1>5. ~OpenedIn(S, d.gen)
  <2> SUFFICES ASSUME NEW i \in DOMAIN S PROVE S[i].gen # d.gen  BY DEF OpenedIn
  <2>1. Claim(S[i].key, S[i].gen, S[i].loaded) \in C  BY DEF Known
  <2>2. Claim(S[i].key, S[i].gen, S[i].loaded).gen = S[i].gen  BY DEF Claim
  <2> HIDE DEF C
  <2> QED  BY <1>4, <2>1, <2>2
<1>6. ~AskedNow(d)
  <2>1. \A a \in Sent(d) : a.gen # d.gen
    <3>1. Sent(d) \subseteq Sent(c)  BY SentWithin
    <3> QED  BY <1>4, <3>1
  <2> SUFFICES ASSUME NEW i \in Inits(d) PROVE d.out[i].gen # d.gen  BY DEF AskedNow
  <2> DEFINE a == Claim(d.out[i].data[1], d.out[i].gen, d.out[i].data[2])
  <2>2. a \in Sent(d)  BY DEF Sent
  <2>3. a.gen = d.out[i].gen  BY DEF Claim
  <2> HIDE DEF a
  <2> QED  BY <2>1, <2>2, <2>3
<1>7. \A i \in DOMAIN d.out : d.out[i].id # 0  BY <1>0, IdsOfRequests
<1>8. \A i \in DOMAIN d.inbound : d.inbound[i].id # 0  BY <1>0, IdsOfResponses
<1>9. AsksSound(d)
  <2>1. \A i, j \in DOMAIN d.out : d.out[i].id = d.out[j].id => i = j
    BY DEF Opens, AsksSound, Within
  <2> QED  BY <1>6, <1>7, <2>1 DEF AsksSound, AskedNow
<1>10. ClientSound(d, S, M)  BY <1>5 DEF ClientSound
<1>11. ASSUME NEW i \in DOMAIN d.inbound PROVE ResultSound(d, S, d.inbound[i])
  BY <1>8 DEF Opens, ResultSound
<1>12. M \subseteq 1..d.gen
  <2>1. \A g \in L : g \in 1..c.gen  BY DEF Opens
  <2> SUFFICES ASSUME NEW g \in M PROVE g \in 1..d.gen  OBVIOUS
  <2>2. g \in L \/ g = c.gen + 1  OBVIOUS
  <2> QED  BY <1>0, <2>1, <2>2
<1> QED  BY <1>3, <1>9, <1>10, <1>11, <1>12 DEF Opens

LEMMA OpensHalt ==
  ASSUME NEW c \in Client, NEW S, NEW L, Opens(c, S, L),
         NEW d, d.gen = c.gen + 1, d.halted, d.session = c.session, d.init = c.init,
         d.snapshot = c.snapshot, d.made = c.made, d.loaded = c.loaded, d.rejected = c.rejected,
         d.out = <<>>, d.inbound = <<>>, d.deferred = c.deferred
  PROVE  Opens(d, S, L)
<1>0. c.gen \in Nat  BY DEF Client
<1>1. Sent(d) = {} /\ Chosen(d) = {} /\ ~AskedNow(d) /\ Inits(d) = {}
  BY DEF Sent, Inits, Chosen, AskedNow
<1>2. Agree(Known(S), c.made, c.gen, L)
  <2>1. Known(S) \subseteq Known(S) \cup Sent(c) \cup Chosen(c)  OBVIOUS
  <2> QED  BY <2>1, AgreeLess DEF Opens
<1>3. Agree(Known(S) \cup Sent(d) \cup Chosen(d), d.made, d.gen, L)
  <2>1. Known(S) \cup Sent(d) \cup Chosen(d) = Known(S)  BY <1>1
  <2>2. Agree(Known(S), d.made, d.gen, L)  BY <1>0, <1>2 DEF Agree
  <2> QED  BY <2>1, <2>2
<1>4. AsksSound(d)  BY <1>1 DEF AsksSound
<1>5. ClientSound(d, S, L)  BY DEF Opens, ClientSound
<1>6. ASSUME NEW r, ResultSound(c, S, r) PROVE ResultSound(d, S, r)
  BY <1>1, <1>6 DEF ResultSound, Answers
<1>7. L \subseteq 1..d.gen  BY <1>0 DEF Opens
<1> QED  BY <1>3, <1>4, <1>5, <1>6, <1>7 DEF Opens

(* The events of a session are no part of this.                            *)
LEMMA OpensEvent ==
  ASSUME NEW c, NEW S, NEW L, Opens(c, S, L), NEW T, DOMAIN T = DOMAIN S,
         \A i \in DOMAIN S : T[i].key = S[i].key /\ T[i].gen = S[i].gen /\ T[i].loaded = S[i].loaded
  PROVE  Opens(c, T, L)
<1>1. Known(T) = Known(S)
  <2>1. \A i \in DOMAIN S : Claim(T[i].key, T[i].gen, T[i].loaded) = Claim(S[i].key, S[i].gen, S[i].loaded)
    OBVIOUS
  <2> QED  BY <2>1 DEF Known
<1>2. \A gen : OpenedIn(T, gen) <=> OpenedIn(S, gen)  BY DEF OpenedIn
<1>3. ClientSound(c, T, L)  BY <1>2 DEF Opens, ClientSound
<1>4. ASSUME NEW r, ResultSound(c, S, r) PROVE ResultSound(c, T, r)
  BY <1>2, <1>4 DEF ResultSound, Answers, Truthful
<1> QED  BY <1>1, <1>3, <1>4 DEF Opens

LEMMA OpensInit == Opens(Fresh0, <<>>, {})
<1>1. Sent(Fresh0) = {} /\ Chosen(Fresh0) = {} /\ Known(<<>>) = {} /\ Inits(Fresh0) = {}
  BY DEF Fresh0, NoSnapshot, Sent, Chosen, Known, Inits
<1>2. Agree(Known(<<>>) \cup Sent(Fresh0) \cup Chosen(Fresh0), Fresh0.made, Fresh0.gen, {})
  BY <1>1 DEF Agree
<1>3. AsksSound(Fresh0)
  <2>1. Fresh0.out = <<>>  BY DEF Fresh0
  <2>2. DOMAIN Fresh0.out = {}  BY <2>1
  <2> QED  BY <1>1, <2>2 DEF AsksSound
<1>4. ClientSound(Fresh0, <<>>, {})  BY DEF ClientSound, OpenedIn, Fresh0, NoSnapshot
<1>5. Fresh0.inbound = <<>> /\ Fresh0.deferred = <<>>  BY DEF Fresh0
<1> QED  BY <1>2, <1>3, <1>4, <1>5 DEF Opens

-------------------------------------------------------------------------------
(* The order of the events                                                 *)

(* A poll asks for what follows the cursor, and so does its answer.        *)
Asked(c, q) ==
  /\ q.kind = "poll" => q.data[1] \in Nat /\ (q.id = c.poll => q.data[1] = c.cursor)
  /\ q.kind = "init" => q.data[1] \in Nat /\ q.data[2] \in BOOLEAN
Answered(c, r) ==
  r.code = "ok" =>
    /\ r.kind = "poll" =>
         /\ r.data[1] \in Nat /\ r.data[2] \in 0..MaxEvents /\ r.data[1] <= r.data[2]
         /\ r.id = c.poll => r.data[1] = c.cursor
    /\ r.kind = "init" => r.data[1] \in Nat
    /\ r.kind = "menu" => r.data[1] \in MenuClips
(* Only a session polls, and there is none while one is being opened.      *)
PollsOfSession(c) ==
  /\ c.session = 0 => c.poll = 0
  /\ c.init # 0 \/ c.retry \/ c.waiting => c.session = 0
  /\ c.init # 0 => ~c.retry /\ ~c.waiting

Good(c) ==
  /\ c \in Client /\ c.seen = [i \in 1..c.cursor |-> i] /\ c.cursor <= MaxEvents /\ PollsOfSession(c)
  /\ \A i \in DOMAIN c.out : Asked(c, c.out[i])
  /\ \A i \in DOMAIN c.inbound : Answered(c, c.inbound[i])
  /\ \A i \in DOMAIN c.deferred : Answered(c, c.deferred[i])

(* A request joins the queue.                                              *)
LEMMA EnqueueGood ==
  ASSUME NEW c, Good(c), Gone \in FiniteSubsets(Nat),
         NEW kind \in Kinds, NEW data \in Seq(Datum),
         kind = "poll" => data[1] = c.cursor, kind = "init" => data[1] \in Nat /\ data[2] \in BOOLEAN
  PROVE  /\ Good(enqueue(c, kind, data)) /\ FreshId(c) \in Nat \ {0}
         /\ \A i \in DOMAIN c.out : c.out[i].id # FreshId(c)
         /\ \A i \in DOMAIN c.inbound : c.inbound[i].id # FreshId(c)
         /\ \A i \in DOMAIN c.deferred : c.deferred[i].id # FreshId(c)
<1> DEFINE q == [id |-> FreshId(c), gen |-> c.gen, kind |-> kind, data |-> data, cancelled |-> FALSE]
           d == enqueue(c, kind, data)
<1>1. FreshId(c) \in Nat \ {0} /\ FreshId(c) \notin Held(c)  BY FreshIdFresh DEF Good
<1>2. FreshId(c) \notin Ids(c.out) \cup Ids(c.inbound) \cup Ids(c.deferred) \cup {c.poll}
  BY <1>1 DEF Held
<1>3. q \in Request /\ Asked(c, q)
  <2>1. c.gen \in Nat /\ c.cursor \in Nat  BY DEF Good, Client
  <2> QED  BY <1>1, <1>2, <2>1 DEF Request, Asked
<1>4. d = [c EXCEPT !.out = Append(c.out, q)]  BY DEF enqueue
<1> HIDE DEF q, d
<1>5. c.out \in Seq(Request) /\ Append(c.out, q) \in Seq(Request)
  BY <1>3 DEF Good, Client
<1>6. d \in Client  BY <1>4, <1>5 DEF Good, Client
<1>7. \A i \in DOMAIN Append(c.out, q) : Asked(c, Append(c.out, q)[i])
  BY <1>3, <1>5 DEF Good
<1>8. /\ d.out = Append(c.out, q) /\ d.poll = c.poll /\ d.cursor = c.cursor /\ d.seen = c.seen
      /\ d.inbound = c.inbound /\ d.deferred = c.deferred /\ d.session = c.session
      /\ d.init = c.init /\ d.retry = c.retry /\ d.waiting = c.waiting
  BY <1>4 DEF Good, Client
<1>9. Good(d)
  BY <1>6, <1>7, <1>8 DEF Good, Asked, Answered, PollsOfSession
<1> QED  BY <1>1, <1>2, <1>9 DEF Ids, d

(* Requests may go, be cancelled and fail, results be deferred or dropped, *)
(* and the poll be given up.                                               *)
LEMMA GoodStays ==
  ASSUME NEW c, Good(c), NEW d \in Client, PollsOfSession(d),
         d.cursor = c.cursor, d.seen = c.seen, d.poll \in {c.poll, 0},
         \A i \in DOMAIN d.out : \E j \in DOMAIN c.out :
           d.out[i].kind = c.out[j].kind /\ d.out[i].id = c.out[j].id /\ d.out[i].data = c.out[j].data,
         \A i \in DOMAIN d.inbound :
           d.inbound[i].code # "ok" \/ \E j \in DOMAIN c.inbound : d.inbound[i] = c.inbound[j],
         \A i \in DOMAIN d.deferred :
           \/ \E j \in DOMAIN c.deferred : d.deferred[i] = c.deferred[j]
           \/ \E j \in DOMAIN c.inbound : d.deferred[i] = c.inbound[j]
  PROVE  Good(d)
<1>1. ASSUME NEW q \in Request, NEW p \in Request, Asked(c, p),
             q.kind = p.kind, q.id = p.id, q.data = p.data
      PROVE  Asked(d, q)
  BY <1>1 DEF Asked, Request
<1>2. ASSUME NEW r \in Response, Answered(c, r) PROVE Answered(d, r)
  BY <1>2 DEF Answered, Response
<1>3. ASSUME NEW r \in Response, r.code # "ok" PROVE Answered(d, r)
  BY <1>3 DEF Answered
<1>4. /\ \A i \in DOMAIN c.out : c.out[i] \in Request /\ Asked(c, c.out[i])
      /\ \A i \in DOMAIN c.inbound : c.inbound[i] \in Response /\ Answered(c, c.inbound[i])
      /\ \A i \in DOMAIN c.deferred : c.deferred[i] \in Response /\ Answered(c, c.deferred[i])
  <2>1. c.out \in Seq(Request) /\ c.inbound \in Seq(Response) /\ c.deferred \in Seq(Response)
    BY DEF Good, Client
  <2> QED  BY <2>1 DEF Good
<1>5. /\ \A i \in DOMAIN d.out : d.out[i] \in Request
      /\ \A i \in DOMAIN d.inbound : d.inbound[i] \in Response
      /\ \A i \in DOMAIN d.deferred : d.deferred[i] \in Response
  BY DEF Client
<1>6. \A i \in DOMAIN d.out : Asked(d, d.out[i])  BY <1>1, <1>4, <1>5
<1>7. \A i \in DOMAIN d.inbound : Answered(d, d.inbound[i])  BY <1>2, <1>3, <1>4, <1>5
<1>8. \A i \in DOMAIN d.deferred : Answered(d, d.deferred[i])  BY <1>2, <1>4, <1>5
<1> QED  BY <1>6, <1>7, <1>8 DEF Good

(* The result of a request is one.                                         *)
LEMMA ResultType ==
  ASSUME NEW q \in Request, NEW code \in Codes, NEW data \in Seq(Datum)
  PROVE  /\ Result(q, code, data) \in Response
         /\ Result(q, code, data).code = code /\ Result(q, code, data).kind = q.kind
         /\ Result(q, code, data).id = q.id /\ Result(q, code, data).data = data
         /\ Result(q, code, data).gen = q.gen
BY DEF Result, Request, Response

(* What scripts wait for is kept apart from the queues.                    *)
Apart(c, d) ==
  /\ d.wait = c.wait /\ d.kept = c.kept /\ d.latest = c.latest
  /\ d.menus = c.menus /\ d.media = c.media

(* cancel marks requests, or answers the one in progress.                  *)
Marked(c, id) ==
  LET at == {i \in DOMAIN c.out : c.out[i].id = id /\ ~c.out[i].cancelled} IN
  [i \in DOMAIN c.out |-> [c.out[i] EXCEPT !.cancelled = @ \/ i \in at]]
LEMMA CancelCases ==
  ASSUME NEW c \in Client, NEW id, NEW begun
  PROVE  LET d == cancel(c, id, begun)
             r == Result(c.out[1], "cancelled", <<>>) IN
           \/ d = c \/ d = [c EXCEPT !.out = Marked(c, id)]
           \/ /\ c.out # <<>> /\ Len(c.inbound) <= InCap
              /\ d = [c EXCEPT !.out = Tail(c.out), !.inbound = Append(c.inbound, r)]
           \/ c.out # <<>> /\ d = [c EXCEPT !.out = Tail(c.out)]
<1> DEFINE at == {i \in DOMAIN c.out : c.out[i].id = id /\ ~c.out[i].cancelled}
           d == cancel(c, id, begun)
           marked == [i \in DOMAIN c.out |-> [c.out[i] EXCEPT !.cancelled = @ \/ i \in at]]
           r == Result(c.out[1], "cancelled", <<>>)
<1>0. c \in Client /\ c.out \in Seq(Request) /\ c.inbound \in Seq(Response)  BY DEF Client
<1>1. marked = Marked(c, id)  BY DEF Marked
<1>5. \/ d = c \/ d = [c EXCEPT !.out = marked]
      \/ /\ c.out # <<>> /\ Len(c.inbound) <= InCap
         /\ d = [c EXCEPT !.out = Tail(c.out), !.inbound = Append(c.inbound, r)]
      \/ c.out # <<>> /\ d = [c EXCEPT !.out = Tail(c.out)]
  <2>1. 1 \in at => c.out # <<>>  BY <1>0
  <2>6. Len(c.inbound) \in Nat /\ InCap \in Nat  BY <1>0, CapacityAssumption
  <2>2. /\ [c EXCEPT !.out = Tail(@)].inbound = c.inbound
        /\ [[c EXCEPT !.out = Tail(@)] EXCEPT !.inbound = Append(@, r)]
             = [c EXCEPT !.out = Tail(c.out), !.inbound = Append(c.inbound, r)]
    BY <1>0 DEF Client
  <2>3. CASE c.halted \/ at = {}
    BY <2>3 DEF cancel
  <2>4. CASE ~(c.halted \/ at = {}) /\ begun /\ 1 \in at /\ c.out[1].gen = c.gen
    <3>1. d = publishCancelled([c EXCEPT !.out = Tail(@)], c.out[1])  BY <2>4 DEF cancel
    <3> DEFINE b == [c EXCEPT !.out = Tail(@)]
    <3>2. d = IF Len(b.inbound) > InCap THEN b ELSE [b EXCEPT !.inbound = Append(@, r)]
      BY <3>1 DEF publishCancelled
    <3> HIDE DEF d, r
    <3>3. b = [c EXCEPT !.out = Tail(c.out)]  OBVIOUS
    <3> QED  BY <2>1, <2>2, <2>4, <2>6, <3>2, <3>3
  <2>5. CASE ~(c.halted \/ at = {}) /\ ~(begun /\ 1 \in at /\ c.out[1].gen = c.gen)
    BY <2>5 DEF cancel
  <2> QED  BY <2>3, <2>4, <2>5
<1> QED  BY <1>1, <1>5

LEMMA CancelGood ==
  ASSUME NEW c, Good(c), NEW id, NEW begun \in BOOLEAN
  PROVE  LET d == cancel(c, id, begun) IN Good(d) /\ Apart(c, d) /\ d \in Client
<1> DEFINE d == cancel(c, id, begun)
           marked == Marked(c, id)
           r == Result(c.out[1], "cancelled", <<>>)
<1>0. c \in Client /\ c.out \in Seq(Request) /\ c.inbound \in Seq(Response)  BY DEF Good, Client
<1>1. CASE d = c
  BY <1>0, <1>1 DEF Apart
<1>2. CASE d = [c EXCEPT !.out = marked]
  <2>1. marked \in Seq(Request)
    <3>1. \A i \in DOMAIN c.out : c.out[i] \in Request  BY <1>0
    <3>2. \A i \in DOMAIN c.out : marked[i] \in Request  BY <3>1 DEF Request, Marked
    <3>3. DOMAIN c.out = 1..Len(c.out) /\ Len(c.out) \in Nat  BY <1>0
    <3>4. PICK n \in Nat : DOMAIN c.out = 1..n  BY <3>3
    <3>5. marked \in [1..n -> Request]  BY <3>2, <3>4 DEF Marked
    <3> HIDE DEF marked
    <3> QED  BY <3>5
  <2>3. \A i \in DOMAIN marked : marked[i].kind = c.out[i].kind /\ marked[i].id = c.out[i].id
                                 /\ marked[i].data = c.out[i].data
    BY <1>0 DEF Request, Marked
  <2>6. DOMAIN marked = DOMAIN c.out  BY DEF Marked
  <2> HIDE DEF marked, d
  <2>4. d \in Client  BY <1>0, <1>2, <2>1 DEF Client
  <2>5. /\ d.out = marked /\ d.inbound = c.inbound /\ d.deferred = c.deferred /\ d.poll = c.poll
        /\ Apart(c, d) /\ d.cursor = c.cursor /\ d.seen = c.seen /\ PollsOfSession(d)
    BY <1>0, <1>2 DEF Good, Client, PollsOfSession, Apart
  <2>7. Good(d)  BY <2>3, <2>4, <2>5, <2>6, GoodStays
  <2> QED  BY <2>4, <2>5, <2>7 DEF d
<1>3. CASE c.out # <<>> /\ d = [c EXCEPT !.out = Tail(c.out), !.inbound = Append(c.inbound, r)]
  <2>1. c.out[1] \in Request /\ Tail(c.out) \in Seq(Request)  BY <1>0, <1>3
  <2>9. <<>> \in Seq(Datum)  OBVIOUS
  <2>10. "cancelled" \in Codes  BY DEF Codes
  <2>2. r \in Response /\ r.code = "cancelled"  BY <2>1, <2>9, <2>10, ResultType, Zenon
  <2> HIDE DEF r, d
  <2>3. Append(c.inbound, r) \in Seq(Response)  BY <1>0, <2>2
  <2>4. d \in Client  BY <1>0, <1>3, <2>1, <2>3 DEF Client
  <2>5. /\ d.out = Tail(c.out) /\ d.inbound = Append(c.inbound, r) /\ d.deferred = c.deferred
        /\ d.poll = c.poll /\ Apart(c, d) /\ d.cursor = c.cursor /\ d.seen = c.seen /\ PollsOfSession(d)
    BY <1>0, <1>3 DEF Good, Client, PollsOfSession, Apart
  <2>6. \A i \in DOMAIN d.out : i + 1 \in DOMAIN c.out /\ d.out[i] = c.out[i + 1]
    BY <1>0, <1>3, <2>5
  <2>7. \A i \in DOMAIN d.inbound : d.inbound[i] = r \/ (i \in DOMAIN c.inbound /\ d.inbound[i] = c.inbound[i])
    BY <1>0, <2>2, <2>5
  <2>8. Good(d)  BY <2>2, <2>4, <2>5, <2>6, <2>7, GoodStays
  <2> QED  BY <2>4, <2>5, <2>8 DEF d
<1>4. CASE c.out # <<>> /\ d = [c EXCEPT !.out = Tail(c.out)]
  <2>1. Tail(c.out) \in Seq(Request)  BY <1>0, <1>4
  <2> HIDE DEF d
  <2>4. d \in Client  BY <1>0, <1>4, <2>1 DEF Client
  <2>5. /\ d.out = Tail(c.out) /\ d.inbound = c.inbound /\ d.deferred = c.deferred
        /\ d.poll = c.poll /\ Apart(c, d) /\ d.cursor = c.cursor /\ d.seen = c.seen /\ PollsOfSession(d)
    BY <1>0, <1>4 DEF Good, Client, PollsOfSession, Apart
  <2>6. \A i \in DOMAIN d.out : i + 1 \in DOMAIN c.out /\ d.out[i] = c.out[i + 1]
    BY <1>0, <1>4, <2>5
  <2>8. Good(d)  BY <2>4, <2>5, <2>6, GoodStays
  <2> QED  BY <2>4, <2>5, <2>8 DEF d
<1>5. \/ d = c \/ d = [c EXCEPT !.out = marked]
      \/ c.out # <<>> /\ d = [c EXCEPT !.out = Tail(c.out), !.inbound = Append(c.inbound, r)]
      \/ c.out # <<>> /\ d = [c EXCEPT !.out = Tail(c.out)]
  BY <1>0, CancelCases
<1> QED  BY <1>1, <1>2, <1>3, <1>4, <1>5

(* What is no part of the order may change.                                *)
LEMMA GoodWith ==
  ASSUME NEW c, Good(c), NEW d \in Client, PollsOfSession(d),
         d.cursor = c.cursor, d.seen = c.seen, d.poll \in {c.poll, 0},
         d.out = c.out, d.inbound = c.inbound, d.deferred = c.deferred
  PROVE  Good(d)
BY GoodStays

(* A handshake begins while there is no session.                           *)
LEMMA BeginGood ==
  ASSUME NEW c, Good(c), Gone \in FiniteSubsets(Nat), c.session = 0
  PROVE  Good(beginSession(c)) /\ beginSession(c).session = 0
<1> DEFINE snap == Snapshot(c)
           d == [c EXCEPT !.retry = FALSE, !.attempts = Attempts(c), !.snapshot = snap, !.made = snap.key]
           data == <<snap.key, snap.loaded>>
           e == enqueue(d, "init", data)
<1>1. c \in Client  BY DEF Good
<1>2. snap \in [key : Nat, loaded : BOOLEAN] /\ Attempts(c) \in Nat
  BY <1>1 DEF Client, Snapshot, Attempts
<1>3. d.snapshot = snap /\ data \in Seq(Datum) /\ data[1] \in Nat /\ data[2] \in BOOLEAN
  BY <1>1, <1>2 DEF Client, Datum
<1> HIDE DEF snap
<1>4. d \in Client  BY <1>1, <1>2 DEF Client
<1>5. /\ d.cursor = c.cursor /\ d.seen = c.seen /\ d.poll = c.poll /\ d.out = c.out
      /\ d.inbound = c.inbound /\ d.deferred = c.deferred /\ d.session = 0 /\ d.init = c.init
      /\ d.retry = FALSE /\ d.waiting = c.waiting
  BY <1>1 DEF Client
<1> HIDE DEF d
<1>6. PollsOfSession(d)  BY <1>5 DEF Good, PollsOfSession
<1>7. Good(d)  BY <1>4, <1>5, <1>6, GoodWith
<1>8. CASE beginSession(c) = [e EXCEPT !.init = FreshId(d)] /\ ~c.waiting
  <2>1. "init" \in Kinds /\ "init" # "poll"  BY DEF Kinds
  <2>2. Good(e) /\ FreshId(d) \in Nat  BY <1>3, <1>7, <2>1, EnqueueGood
  <2>3. e.session = 0 /\ ~e.retry /\ ~e.waiting  BY <1>4, <1>5, <1>8 DEF enqueue, Client
  <2> DEFINE f == [e EXCEPT !.init = FreshId(d)]
  <2> HIDE DEF e
  <2>4. /\ f \in Client /\ f.cursor = e.cursor /\ f.seen = e.seen /\ f.poll = e.poll /\ f.out = e.out
        /\ f.inbound = e.inbound /\ f.deferred = e.deferred /\ f.session = e.session
        /\ f.retry = e.retry /\ f.waiting = e.waiting
    BY <2>2 DEF Good, Client
  <2>5. PollsOfSession(f)  BY <2>2, <2>3, <2>4 DEF Good, PollsOfSession
  <2>6. Good(f)  BY <2>2, <2>4, <2>5, GoodWith
  <2> QED  BY <1>8, <2>3, <2>4, <2>6
<1>9. CASE beginSession(c) = [d EXCEPT !.status = "error"]
  <2> DEFINE f == [d EXCEPT !.status = "error"]
  <2>4. /\ f \in Client /\ f.cursor = d.cursor /\ f.seen = d.seen /\ f.poll = d.poll /\ f.out = d.out
        /\ f.inbound = d.inbound /\ f.deferred = d.deferred /\ f.session = d.session
        /\ f.retry = d.retry /\ f.waiting = d.waiting /\ f.init = d.init
    BY <1>4 DEF Client, Statuses
  <2>5. PollsOfSession(f)  BY <1>5, <1>6, <2>4 DEF PollsOfSession
  <2>6. Good(f)  BY <1>7, <2>4, <2>5, GoodWith
  <2> QED  BY <1>5, <1>9, <2>4, <2>6
<1>10. CASE beginSession(c) = c
  BY <1>10
<1> QED  BY <1>3, <1>8, <1>9, <1>10 DEF beginSession, d, snap

(* The next poll asks for what follows the cursor, under an id of its own. *)
LEMMA ScheduleGood ==
  ASSUME NEW c, Good(c), Gone \in FiniteSubsets(Nat), NEW due \in BOOLEAN
  PROVE  Good(schedulePoll(c, due))
<1> DEFINE id == FreshId(c)
           e == enqueue(c, "poll", <<c.cursor>>)
           f == [e EXCEPT !.poll = id]
<1>1. c \in Client /\ c.cursor \in Nat  BY DEF Good, Client
<1>2. <<c.cursor>> \in Seq(Datum) /\ "poll" \in Kinds  BY <1>1 DEF Datum, Kinds
<1>3. /\ Good(e) /\ id \in Nat \ {0}
      /\ \A i \in DOMAIN c.out : c.out[i].id # id
      /\ \A i \in DOMAIN c.inbound : c.inbound[i].id # id
      /\ \A i \in DOMAIN c.deferred : c.deferred[i].id # id
  BY <1>1, <1>2, EnqueueGood
<1>4. CASE schedulePoll(c, due) = f /\ ready(c)
  <2> DEFINE q == [id |-> id, gen |-> c.gen, kind |-> "poll", data |-> <<c.cursor>>, cancelled |-> FALSE]
  <2>1. e = [c EXCEPT !.out = Append(c.out, q)]  BY DEF enqueue
  <2>2. /\ e.out = Append(c.out, q) /\ e.inbound = c.inbound /\ e.deferred = c.deferred
        /\ e.session = c.session /\ e.cursor = c.cursor /\ e.session # 0
    BY <1>1, <1>4, <2>1 DEF Client, ready
  <2>3. q.data[1] = c.cursor  OBVIOUS
  <2>4. c.out \in Seq(Request)  BY <1>1 DEF Client
  <2> HIDE DEF e, id, q
  <2>5. /\ f \in Client /\ f.seen = e.seen /\ f.cursor = e.cursor /\ f.out = e.out
        /\ f.inbound = e.inbound /\ f.deferred = e.deferred /\ f.session = e.session
        /\ f.init = e.init /\ f.retry = e.retry /\ f.waiting = e.waiting /\ f.poll = id
    BY <1>3 DEF Good, Client
  <2> HIDE DEF f
  <2>6. ASSUME NEW i \in DOMAIN f.out PROVE Asked(f, f.out[i])
    <3>1. Asked(e, f.out[i])  BY <1>3, <2>5 DEF Good
    <3>2. f.out[i] = q \/ (i \in DOMAIN c.out /\ f.out[i] = c.out[i])
      BY <2>2, <2>4, <2>5
    <3>3. f.out[i].id = id => f.out[i].data[1] = c.cursor  BY <1>3, <2>3, <3>2
    <3> QED  BY <2>2, <2>5, <3>1, <3>3 DEF Asked
  <2>7. ASSUME NEW i \in DOMAIN f.inbound PROVE Answered(f, f.inbound[i])
    <3>1. Answered(e, f.inbound[i]) /\ f.inbound[i].id # id  BY <1>3, <2>2, <2>5 DEF Good
    <3> QED  BY <2>5, <3>1 DEF Answered
  <2>8. ASSUME NEW i \in DOMAIN f.deferred PROVE Answered(f, f.deferred[i])
    <3>1. Answered(e, f.deferred[i]) /\ f.deferred[i].id # id  BY <1>3, <2>2, <2>5 DEF Good
    <3> QED  BY <2>5, <3>1 DEF Answered
  <2>9. PollsOfSession(f)  BY <1>3, <2>2, <2>5 DEF Good, PollsOfSession
  <2> QED  BY <1>3, <1>4, <2>5, <2>6, <2>7, <2>8, <2>9 DEF Good
<1>5. CASE schedulePoll(c, due) = c
  BY <1>5
<1> QED  BY <1>4, <1>5 DEF schedulePoll

(* With no poll under way the cursor may move on with the events.          *)
LEMMA GoodUnpolled ==
  ASSUME NEW c, Good(c), NEW d \in Client, PollsOfSession(d),
         d.poll = 0, d.seen = [i \in 1..d.cursor |-> i], d.cursor <= MaxEvents,
         d.out = c.out, d.inbound = c.inbound, d.deferred = c.deferred
  PROVE  Good(d)
<1>0. d.out \in Seq(Request) /\ d.inbound \in Seq(Response) /\ d.deferred \in Seq(Response)
  BY DEF Client
<1>1. ASSUME NEW i \in DOMAIN d.out PROVE Asked(d, d.out[i])
  <2>1. d.out[i] \in Request /\ Asked(c, d.out[i])  BY <1>0 DEF Good
  <2> QED  BY <2>1 DEF Asked, Request
<1>2. ASSUME NEW r \in Response, Answered(c, r) PROVE Answered(d, r)
  BY <1>2 DEF Answered, Response
<1>3. \A i \in DOMAIN d.inbound : Answered(d, d.inbound[i])  BY <1>0, <1>2 DEF Good
<1>4. \A i \in DOMAIN d.deferred : Answered(d, d.deferred[i])  BY <1>0, <1>2 DEF Good
<1> QED  BY <1>1, <1>3, <1>4 DEF Good

(* One sequence after another.                                             *)
LEMMA Joined ==
  ASSUME NEW S, NEW s \in Seq(S), NEW t \in Seq(S)
  PROVE  s \o t \in Seq(S) /\ Len(s \o t) = Len(s) + Len(t)
OBVIOUS

(* The events of a poll's own answer are the next ones (Events).           *)
LEMMA EventsGood ==
  ASSUME NEW c, Good(c), NEW r \in Response, Answered(c, r), OwnPoll(c, r)
  PROVE  /\ Good(Events(c, r))
         /\ Events(c, r).inbound = c.inbound /\ Events(c, r).deferred = c.deferred
<1> DEFINE d == Events(c, r)
<1>0. c \in Client /\ c.cursor \in Nat /\ c.seen \in Seq(Nat)  BY DEF Good, Client
<1>1. CASE r.code # "ok"
  <2>1. d = [c EXCEPT !.poll = 0]  BY <1>1 DEF Events
  <2> HIDE DEF d
  <2>2. /\ d \in Client /\ d.poll = 0 /\ d.seen = c.seen /\ d.cursor = c.cursor /\ d.out = c.out
        /\ d.inbound = c.inbound /\ d.deferred = c.deferred /\ d.session = c.session
        /\ d.init = c.init /\ d.retry = c.retry /\ d.waiting = c.waiting
    BY <1>0, <2>1 DEF Client
  <2>3. PollsOfSession(d)  BY <2>2 DEF Good, PollsOfSession
  <2>4. c.seen = [i \in 1..c.cursor |-> i] /\ c.cursor <= MaxEvents  BY DEF Good
  <2>5. Good(d)  BY <2>2, <2>3, <2>4, GoodUnpolled
  <2> QED  BY <2>2, <2>5 DEF d
<1>2. CASE r.code = "ok"
  <2> DEFINE a == r.data[1]
             b == r.data[2]
             new == [i \in 1..(b - a) |-> a + i]
             seen == c.seen \o new
  <2>1. a \in Nat /\ b \in Nat /\ a <= b /\ a = c.cursor /\ b <= MaxEvents
    BY <1>2, CapacityAssumption DEF Answered, OwnPoll
  <2>2. d = [c EXCEPT !.poll = 0, !.cursor = b, !.seen = seen]  BY <1>2, <2>1 DEF Events
  <2> HIDE DEF a, b
  <2>3. new \in Seq(Nat) /\ Len(new) = b - a
    <3>1. PICK n \in Nat : n = b - a  BY <2>1
    <3>2. new \in [1..n -> Nat]  BY <2>1, <3>1
    <3> HIDE DEF new
    <3> QED  BY <3>1, <3>2
  <2>4. \A i \in 1..(b - a) : new[i] = a + i  OBVIOUS
  <2>5. Len(c.seen) = a /\ \A i \in 1..a : c.seen[i] = i  BY <1>0, <2>1 DEF Good
  <2> HIDE DEF new
  <2>12. seen \in Seq(Nat) /\ Len(seen) = Len(c.seen) + Len(new)  BY <1>0, <2>3, Joined
  <2>6. seen \in Seq(Nat) /\ Len(seen) = b  BY <2>1, <2>3, <2>5, <2>12
  <2>7. ASSUME NEW i \in 1..b PROVE seen[i] = i
    <3>1. CASE i <= a
      <4>1. i \in 1..a /\ seen[i] = c.seen[i]  BY <1>0, <2>1, <2>3, <2>5, <3>1
      <4> QED  BY <2>5, <4>1
    <3>2. CASE ~(i <= a)
      <4>2. i - a \in 1..(b - a)  BY <2>1, <3>2
      <4>3. i \in (Len(c.seen) + 1)..(Len(c.seen) + Len(new))  BY <2>1, <2>3, <2>5, <3>2
      <4>4. seen[i] = new[i - Len(c.seen)]  BY <1>0, <2>3, <4>3
      <4>1. i - a \in 1..(b - a) /\ seen[i] = new[i - a]  BY <2>5, <4>2, <4>4
      <4> QED  BY <2>1, <2>4, <4>1
    <3> QED  BY <3>1, <3>2
  <2> HIDE DEF seen, d
  <2>8. seen = [i \in 1..b |-> i]
    <3>1. DOMAIN seen = 1..b /\ seen = [i \in DOMAIN seen |-> seen[i]]  BY <2>6
    <3> QED  BY <2>7, <3>1
  <2>9. /\ d \in Client /\ d.poll = 0 /\ d.seen = seen /\ d.cursor = b /\ d.out = c.out
        /\ d.inbound = c.inbound /\ d.deferred = c.deferred /\ d.session = c.session
        /\ d.init = c.init /\ d.retry = c.retry /\ d.waiting = c.waiting
    BY <1>0, <2>1, <2>2, <2>6 DEF Client
  <2>10. PollsOfSession(d)  BY <2>9 DEF Good, PollsOfSession
  <2>11. Good(d)  BY <2>1, <2>8, <2>9, <2>10, GoodUnpolled
  <2> QED  BY <2>9, <2>11 DEF d
<1> QED  BY <1>1, <1>2

(* A session that is opened starts from the beginning (Accepted).          *)
LEMMA AcceptedGood ==
  ASSUME NEW c, Good(c), NEW r \in Response, Answered(c, r),
         r.kind = "init", r.code = "ok", r.id = c.init
  PROVE  /\ Good(Accepted(c, r))
         /\ Accepted(c, r).inbound = c.inbound /\ Accepted(c, r).deferred = c.deferred
<1> DEFINE d == Accepted(c, r)
<1>0. c \in Client  BY DEF Good
<1> HIDE DEF d
<1>1. r.data[1] \in Nat /\ c.init # 0  BY DEF Answered, Response
<1>2. c.session = 0 /\ c.poll = 0 /\ ~c.retry /\ ~c.waiting  BY <1>1 DEF Good, PollsOfSession
<1>3. <<>> \in Seq(Nat) /\ <<>> = [i \in 1..0 |-> i]  OBVIOUS
<1>4. /\ d \in Client /\ d.poll = 0 /\ d.seen = <<>> /\ d.cursor = 0 /\ d.out = c.out
      /\ d.inbound = c.inbound /\ d.deferred = c.deferred /\ d.init = 0
      /\ ~d.retry /\ ~d.waiting
  BY <1>0, <1>1, <1>2, <1>3 DEF d, Accepted, Client, Statuses
<1>5. PollsOfSession(d)  BY <1>4 DEF PollsOfSession
<1>6. 0 <= MaxEvents  BY CapacityAssumption
<1>7. Good(d)  BY <1>3, <1>4, <1>5, <1>6, GoodUnpolled
<1> QED  BY <1>4, <1>7 DEF d

(* The parts of the client that the invariant is about.                    *)
Steady(c, d) ==
  Still(c, d) /\ d.out = c.out /\ d.inbound = c.inbound /\ d.deferred = c.deferred
Same(c, d) ==
  /\ Steady(c, d)
  /\ d.cursor = c.cursor /\ d.seen = c.seen /\ d.poll = c.poll
  /\ d.retry = c.retry /\ d.waiting = c.waiting

LEMMA GoodSame ==
  ASSUME NEW c, Good(c), NEW d \in Client, Same(c, d)
  PROVE  Good(d)
<1>1. PollsOfSession(d)  BY DEF Good, PollsOfSession, Same, Steady, Still
<1> QED  BY <1>1, GoodWith DEF Same, Steady, Still

(* Whoever waits is finitely many, whoever stops or begins to wait.        *)
LEMMA WaitsWithout ==
  ASSUME NEW W \in Waits, NEW S
  PROVE  W \ S \in Waits
BY FS_Difference DEF Waits, FiniteSubsets
LEMMA WaitsWith ==
  ASSUME NEW W \in Waits, NEW kind \in Kinds, NEW id \in Nat
  PROVE  W \cup {<<kind, id>>} \in Waits
<1> DEFINE w == <<kind, id>>
<1>1. w \in Kinds \X Nat  OBVIOUS
<1> HIDE DEF w
<1>2. W \in SUBSET (Kinds \X Nat) /\ IsFiniteSet(W)  BY DEF Waits, FiniteSubsets
<1>3. IsFiniteSet(W \cup {w})  BY <1>2, FS_AddElement
<1> QED  BY <1>1, <1>2, <1>3 DEF w, Waits, FiniteSubsets

(* A result that is settled takes its place among those that are kept.     *)
LEMMA SettleGood ==
  ASSUME NEW c, Good(c), NEW R \in SUBSET Response, IsFiniteSet(R)
  PROVE  Good(settle(c, R)) /\ Same(c, settle(c, R))
<1> DEFINE K == {r \in R : r.kind \in {"disposition", "autochat"}}
           f == [r \in K |-> <<r.kind, r.id>>]
           P == {<<r.kind, r.id>> : r \in K}
           Q == {<<r.kind, r.id>> : r \in R}
           d == settle(c, R)
<1>0. c \in Client /\ c.wait \in Waits /\ c.kept \in Waits  BY DEF Good, Client
<1>1. IsFiniteSet(P)
  <2>1. IsFiniteSet(K)  BY FS_Subset
  <2>2. IsFiniteSet({f[r] : r \in DOMAIN f})  BY <2>1, FiniteRange
  <2>3. {f[r] : r \in DOMAIN f} = P  OBVIOUS
  <2> QED  BY <2>2, <2>3
<1>2. P \in SUBSET (Kinds \X Nat)  BY DEF Response
<1>3. c.kept \cup P \in Waits  BY <1>0, <1>1, <1>2, FS_Union DEF Waits, FiniteSubsets
<1>4. c.wait \ Q \in Waits  BY <1>0, WaitsWithout
<1>5. d = [c EXCEPT !.wait = c.wait \ Q, !.kept = c.kept \cup P]  BY DEF settle
<1> HIDE DEF d, P, Q
<1>6. d \in Client /\ Same(c, d)  BY <1>0, <1>3, <1>4, <1>5 DEF Client, Same, Steady, Still
<1> QED  BY <1>6, GoodSame DEF d

(* The phases of menu lines and downloads are no part of the order.        *)
LEMMA SetMenusGood ==
  ASSUME NEW c, Good(c), NEW ids, NEW state \in Phases
  PROVE  Good(SetMenus(c, ids, state)) /\ Same(c, SetMenus(c, ids, state))
<1> DEFINE menus == [x \in DOMAIN c.menus |->
                       IF x \in ids THEN [c.menus[x] EXCEPT !.state = state] ELSE c.menus[x]]
           d == SetMenus(c, ids, state)
<1>0. c \in Client /\ c.menus \in Lines  BY DEF Good, Client
<1>1. menus \in Lines
  <2>1. /\ c.menus \in [DOMAIN c.menus -> [state : Phases, clip : Clips \cup {0}]]
        /\ DOMAIN c.menus \subseteq Nat /\ IsFiniteSet(DOMAIN c.menus)
    BY <1>0, TableOf DEF Lines
  <2>2. menus \in [DOMAIN c.menus -> [state : Phases, clip : Clips \cup {0}]]  BY <2>1
  <2>3. DOMAIN menus = DOMAIN c.menus  OBVIOUS
  <2> HIDE DEF menus
  <2> QED  BY <2>1, <2>2, <2>3, TableOf DEF Lines
<1>2. d = [c EXCEPT !.menus = menus]  BY DEF SetMenus
<1> HIDE DEF d, menus
<1>3. d \in Client /\ Same(c, d)  BY <1>0, <1>1, <1>2 DEF Client, Same, Steady, Still
<1> QED  BY <1>3, GoodSame DEF d

LEMMA SetMediaGood ==
  ASSUME NEW c, Good(c), NEW clips, NEW state \in Phases
  PROVE  Good(SetMedia(c, clips, state)) /\ Same(c, SetMedia(c, clips, state))
<1> DEFINE media == [m \in DOMAIN c.media |->
                       IF m \in clips THEN [state |-> state, id |-> 0] ELSE c.media[m]]
           d == [c EXCEPT !.media = media]
<1>0. c \in Client /\ c.media \in Downloads  BY DEF Good, Client
<1>1. media \in Downloads
  <2>1. /\ c.media \in [DOMAIN c.media -> [state : Phases, id : Nat]]
        /\ DOMAIN c.media \subseteq Clips /\ IsFiniteSet(DOMAIN c.media)
    BY <1>0, TableOf DEF Downloads
  <2>2. media \in [DOMAIN c.media -> [state : Phases, id : Nat]]  BY <2>1
  <2>3. DOMAIN media = DOMAIN c.media  OBVIOUS
  <2> HIDE DEF media
  <2> QED  BY <2>1, <2>2, <2>3, TableOf DEF Downloads
<1>2. SetMedia(c, clips, state) = SetMenus(d, MenusOn(c, clips), state)  BY DEF SetMedia
<1> HIDE DEF media
<1>3. d \in Client /\ Same(c, d)  BY <1>0, <1>1 DEF Client, Same, Steady, Still
<1> HIDE DEF d
<1>4. Good(d)  BY <1>3, GoodSame
<1>5. /\ Good(SetMenus(d, MenusOn(c, clips), state))
      /\ Same(d, SetMenus(d, MenusOn(c, clips), state))
  BY <1>4, SetMenusGood
<1> QED  BY <1>2, <1>3, <1>5 DEF Same, Steady, Still

-------------------------------------------------------------------------------
(* Sessions through what the client does                                   *)

(* The queues have their bounds, and so has the generation.                *)
Fits(c) ==
  /\ Len(c.out) <= OutCap /\ Len(c.inbound) <= InCap + 1 /\ Len(c.deferred) <= DeferCap
  /\ c.gen \in 1..(MaxGenerations + 1) /\ (c.halted \/ c.gen <= MaxGenerations)

Sound(c) == Good(c) /\ Fits(c) /\ Opens(c, server, loads)

LEMMA OpensSteady ==
  ASSUME NEW c, NEW S, NEW L, Opens(c, S, L), Fits(c), NEW d, Steady(c, d)
  PROVE  Opens(d, S, L) /\ Fits(d)
<1> DEFINE m == [i \in DOMAIN d.out |-> i]
<1>1. Within(d.out, c.out, m)  BY DEF Within, Steady
<1> HIDE DEF m
<1>2. Opens(d, S, L)  BY <1>1, OpensStays DEF Steady
<1> QED  BY <1>2 DEF Fits, Steady, Still

LEMMA SoundSteady ==
  ASSUME NEW c, Sound(c), NEW d, Good(d), Steady(c, d)
  PROVE  Sound(d)
BY OpensSteady DEF Sound

LEMMA SoundSame ==
  ASSUME NEW c, Sound(c), NEW d \in Client, Same(c, d)
  PROVE  Sound(d)
<1>1. Good(d)  BY GoodSame DEF Sound
<1> QED  BY <1>1, SoundSteady DEF Same

LEMMA EnqueueSound ==
  ASSUME NEW c, Sound(c), CanSend(c), Gone \in FiniteSubsets(Nat),
         NEW kind \in Kinds \ {"init"}, NEW data \in Seq(Datum), kind = "poll" => data[1] = c.cursor
  PROVE  Sound(enqueue(c, kind, data))
<1> DEFINE q == [id |-> FreshId(c), gen |-> c.gen, kind |-> kind, data |-> data, cancelled |-> FALSE]
           d == enqueue(c, kind, data)
<1>0. Good(c) /\ c \in Client /\ c.out \in Seq(Request)  BY DEF Sound, Good, Client
<1>1. Good(d) /\ \A i \in DOMAIN c.out : c.out[i].id # FreshId(c)  BY <1>0, EnqueueGood
<1>2. FreshId(c) # c.init  BY <1>0, FreshIdFresh DEF Held
<1>3. d = [c EXCEPT !.out = Append(c.out, q)]  BY DEF enqueue
<1>4. q.kind # "init" /\ q.id = FreshId(c)  OBVIOUS
<1> HIDE DEF q, d
<1>5. /\ Still(c, d) /\ d.out = Append(c.out, q)
      /\ d.inbound = c.inbound /\ d.deferred = c.deferred
  BY <1>0, <1>3 DEF Client, Still
<1>6. Opens(d, server, loads)
  BY <1>0, <1>1, <1>2, <1>4, <1>5, OpensRequest DEF Sound, CanSend
<1>7. Len(d.out) = Len(c.out) + 1 /\ Len(c.out) \in Nat /\ Len(c.out) < OutCap /\ OutCap \in Nat
  BY <1>0, <1>5, CapacityAssumption DEF CanSend
<1>8. Fits(d)  BY <1>5, <1>7 DEF Sound, Fits, Still
<1> QED  BY <1>1, <1>6, <1>8 DEF Sound, d

LEMMA SameLength ==
  ASSUME NEW a \in Nat, NEW b \in Nat, 1..a = 1..b
  PROVE  a = b
<1>1. ~(a < b)
  <2>1. a < b => b \in 1..b /\ b \notin 1..a  OBVIOUS
  <2> QED  BY <2>1
<1>2. ~(b < a)
  <2>1. b < a => a \in 1..a /\ a \notin 1..b  OBVIOUS
  <2> QED  BY <2>1
<1> QED  BY <1>1, <1>2

LEMMA CancelSound ==
  ASSUME NEW c, Sound(c), NEW id, NEW begun \in BOOLEAN
  PROVE  LET d == cancel(c, id, begun) IN Sound(d) /\ Apart(c, d) /\ d \in Client
<1> DEFINE d == cancel(c, id, begun)
           marked == Marked(c, id)
           r == Result(c.out[1], "cancelled", <<>>)
<1>0. c \in Client /\ c.out \in Seq(Request) /\ c.inbound \in Seq(Response) /\ Opens(c, server, loads)
  BY DEF Sound, Good, Client
<1>1. Good(d) /\ Apart(c, d) /\ d \in Client  BY CancelGood DEF Sound
<1>2. \/ d = c \/ d = [c EXCEPT !.out = marked]
      \/ /\ c.out # <<>> /\ Len(c.inbound) <= InCap
         /\ d = [c EXCEPT !.out = Tail(c.out), !.inbound = Append(c.inbound, r)]
      \/ c.out # <<>> /\ d = [c EXCEPT !.out = Tail(c.out)]
  BY <1>0, CancelCases
<1>3. Len(c.out) \in Nat /\ Len(c.inbound) \in Nat /\ InCap \in Nat /\ OutCap \in Nat
  BY <1>0, CapacityAssumption
<1>4. CASE d = [c EXCEPT !.out = marked]
  <2> DEFINE m == [i \in DOMAIN d.out |-> i]
  <2>0. \A i \in DOMAIN c.out : c.out[i] \in Request  BY <1>0
  <2>1. /\ DOMAIN marked = DOMAIN c.out
        /\ \A i \in DOMAIN marked : /\ marked[i].id = c.out[i].id /\ marked[i].gen = c.out[i].gen
                                    /\ marked[i].kind = c.out[i].kind /\ marked[i].data = c.out[i].data
    BY <2>0 DEF Marked, Request
  <2> HIDE DEF marked, d
  <2>2. Still(c, d) /\ d.out = marked /\ d.inbound = c.inbound /\ d.deferred = c.deferred
    BY <1>0, <1>4 DEF Client, Still
  <2>3. Within(d.out, c.out, m)  BY <2>1, <2>2 DEF Within
  <2>4. d.out \in Seq(Request)  BY <1>1 DEF Client, d
  <2>5. DOMAIN d.out = 1..Len(d.out) /\ Len(d.out) \in Nat /\ DOMAIN c.out = 1..Len(c.out)
    BY <1>0, <2>4
  <2>10. 1..Len(d.out) = 1..Len(c.out)  BY <2>1, <2>2, <2>5
  <2>6. Len(d.out) = Len(c.out)  BY <1>3, <2>5, <2>10, SameLength
  <2>7. c.out = <<>> => d.out = <<>>  BY <2>4, <2>6
  <2> HIDE DEF m
  <2>8. Opens(d, server, loads)  BY <1>0, <2>2, <2>3, <2>7, OpensStays
  <2>9. Fits(d)  BY <2>2, <2>6 DEF Sound, Fits, Still
  <2> QED  BY <1>1, <2>8, <2>9 DEF Sound, d
<1>5. ASSUME c.out # <<>>, NEW new, d = [c EXCEPT !.out = Tail(c.out), !.inbound = new],
             Len(new) <= InCap + 1,
             \A i \in DOMAIN new : new[i] = r \/ \E j \in DOMAIN c.inbound : new[i] = c.inbound[j]
      PROVE  Sound(d)
  <2>1. /\ r.id = c.out[1].id /\ r.kind = c.out[1].kind /\ r.gen = c.out[1].gen
        /\ r.code = "cancelled"
    BY DEF Result
  <2> HIDE DEF r, d
  <2>2. Still(c, d) /\ d.out = Tail(c.out) /\ d.inbound = new /\ d.deferred = c.deferred
    BY <1>0, <1>5 DEF Client, Still
  <2>3. Truthful(server, r) /\ r.code # "reject"  BY <2>1 DEF Truthful
  <2>7. \A i \in DOMAIN d.inbound : d.inbound[i] = r \/ \E j \in DOMAIN c.inbound : d.inbound[i] = c.inbound[j]
    BY <1>5, <2>2
  <2>8. c.out # <<>>  BY <1>5
  <2>4. Opens(d, server, loads)  BY <1>0, <2>1, <2>2, <2>3, <2>7, <2>8, OpensHead
  <2>5. Len(d.out) <= Len(c.out) /\ Len(d.out) \in Nat  BY <1>0, <1>5, <2>2
  <2>6. Fits(d)  BY <1>3, <1>5, <2>2, <2>5 DEF Sound, Fits, Still
  <2> QED  BY <1>1, <2>4, <2>6 DEF Sound, d
<1>6. CASE /\ c.out # <<>> /\ Len(c.inbound) <= InCap
           /\ d = [c EXCEPT !.out = Tail(c.out), !.inbound = Append(c.inbound, r)]
  <2> DEFINE new == Append(c.inbound, r)
  <2> HIDE DEF r, d
  <2>1. Len(new) = Len(c.inbound) + 1
        /\ \A i \in DOMAIN new : new[i] = r \/ (i \in DOMAIN c.inbound /\ new[i] = c.inbound[i])
    BY <1>0
  <2> HIDE DEF new
  <2>2. d = [c EXCEPT !.out = Tail(c.out), !.inbound = new]  BY <1>6 DEF new
  <2>3. \A i \in DOMAIN new : new[i] = r \/ \E j \in DOMAIN c.inbound : new[i] = c.inbound[j]
    BY <2>1
  <2>4. Len(new) <= InCap + 1  BY <1>3, <1>6, <2>1
  <2>5. Sound(d)  BY <1>5, <1>6, <2>2, <2>3, <2>4
  <2> QED  BY <1>1, <2>5 DEF d
<1>7. CASE c.out # <<>> /\ d = [c EXCEPT !.out = Tail(c.out)]
  <2> HIDE DEF r, d
  <2>1. d = [c EXCEPT !.out = Tail(c.out), !.inbound = c.inbound]  BY <1>0, <1>7 DEF Client
  <2>2. Len(c.inbound) <= InCap + 1  BY DEF Sound, Fits
  <2> QED  BY <1>1, <1>5, <1>7, <2>1, <2>2 DEF d
<1>8. CASE d = c
  BY <1>1, <1>8
<1> QED  BY <1>1, <1>2, <1>4, <1>6, <1>7, <1>8 DEF Sound

LEMMA BeginOpens ==
  ASSUME NEW c, Good(c), Gone \in FiniteSubsets(Nat), c.session = 0,
         NEW S, NEW L, Opens(c, S, L), Fits(c)
  PROVE  Opens(beginSession(c), S, L) /\ Fits(beginSession(c))
<1> DEFINE snap == Snapshot(c)
           d == [c EXCEPT !.retry = FALSE, !.attempts = Attempts(c), !.snapshot = snap, !.made = snap.key]
           data == <<snap.key, snap.loaded>>
           e == enqueue(d, "init", data)
           f == [e EXCEPT !.init = FreshId(d)]
           g == [d EXCEPT !.status = "error"]
<1>1. c \in Client  BY DEF Good
<1>2. snap \in [key : Nat, loaded : BOOLEAN] /\ Attempts(c) \in Nat
  BY <1>1 DEF Client, Snapshot, Attempts
<1>3. data[1] = snap.key /\ data[2] = snap.loaded  OBVIOUS
<1>4. d.snapshot = snap  BY <1>1 DEF Client
<1>5. \/ beginSession(c) = c
      \/ c.init = 0 /\ CanSend(d) /\ beginSession(c) = f
      \/ c.init = 0 /\ beginSession(c) = g
  BY <1>4 DEF beginSession
<1> HIDE DEF snap, data
<1>6. d \in Client  BY <1>1, <1>2 DEF Client
<1>7. /\ d.session = c.session /\ d.init = c.init /\ d.gen = c.gen /\ d.halted = c.halted
      /\ d.loaded = c.loaded /\ d.rejected = c.rejected /\ d.snapshot = Snapshot(c)
      /\ d.made = Snapshot(c).key
      /\ d.out = c.out /\ d.inbound = c.inbound /\ d.deferred = c.deferred
  BY <1>1 DEF Client, snap
<1> HIDE DEF d
<1>8. ASSUME c.init = 0 PROVE Opens(d, S, L) /\ d.snapshot.key # 0
  BY <1>1, <1>7, <1>8, OpensSnapshot
<1>9. Fits(d)  BY <1>7 DEF Fits
<1>10. CASE c.init = 0 /\ CanSend(d) /\ beginSession(c) = f
  <2> DEFINE q == [id |-> FreshId(d), gen |-> d.gen, kind |-> "init", data |-> data, cancelled |-> FALSE]
  <2>1. FreshId(d) \in Nat \ {0} /\ FreshId(d) \notin Held(d)  BY <1>6, FreshIdFresh
  <2>2. /\ \A i \in DOMAIN d.out : d.out[i].id # FreshId(d)
        /\ \A i \in DOMAIN d.inbound : d.inbound[i].id # FreshId(d)
        /\ \A i \in DOMAIN d.deferred : d.deferred[i].id # FreshId(d)
    BY <2>1 DEF Held, Ids
  <2>3. /\ q.id = FreshId(d) /\ q.gen = d.gen /\ q.kind = "init"
        /\ q.data[1] = snap.key /\ q.data[2] = snap.loaded
    BY <1>3
  <2>4. e = [d EXCEPT !.out = Append(d.out, q)]  BY DEF enqueue
  <2> HIDE DEF q, e
  <2>5. /\ f.out = Append(d.out, q) /\ f.init = q.id
        /\ f.session = d.session /\ f.gen = d.gen /\ f.halted = d.halted /\ f.snapshot = d.snapshot
        /\ f.made = d.made /\ f.loaded = d.loaded /\ f.rejected = d.rejected
        /\ f.inbound = d.inbound /\ f.deferred = d.deferred
    BY <1>6, <2>3, <2>4 DEF Client
  <2> HIDE DEF f
  <2>6. Opens(f, S, L)
    <3>1. d.init = 0 /\ ~d.halted /\ q.id # 0 /\ d.snapshot.key # 0 /\ Opens(d, S, L)
      BY <1>7, <1>8, <1>10, <2>1, <2>3 DEF CanSend
    <3>2. q.data[1] = d.snapshot.key /\ q.data[2] = d.snapshot.loaded  BY <1>7, <2>3 DEF snap
    <3> QED  BY <1>6, <2>2, <2>3, <2>5, <3>1, <3>2, OpensAsk
  <2>7. d.out \in Seq(Request)  BY <1>6 DEF Client
  <2>8. Len(f.out) = Len(d.out) + 1 /\ Len(d.out) \in Nat /\ Len(d.out) < OutCap /\ OutCap \in Nat
    BY <1>10, <2>5, <2>7, CapacityAssumption DEF CanSend
  <2>9. Fits(f)  BY <1>9, <2>5, <2>8 DEF Fits
  <2> QED  BY <1>10, <2>6, <2>9
<1>11. CASE c.init = 0 /\ beginSession(c) = g
  <2>1. Steady(d, g)  BY <1>6 DEF Client, Steady, Still
  <2> HIDE DEF g
  <2> QED  BY <1>8, <1>9, <1>11, <2>1, OpensSteady
<1>12. CASE beginSession(c) = c
  BY <1>12
<1> QED  BY <1>5, <1>10, <1>11, <1>12

LEMMA BeginSound ==
  ASSUME NEW c, Sound(c), Gone \in FiniteSubsets(Nat), c.session = 0
  PROVE  Sound(beginSession(c)) /\ beginSession(c).session = 0
<1>1. Good(beginSession(c)) /\ beginSession(c).session = 0  BY BeginGood DEF Sound
<1>2. Opens(beginSession(c), server, loads) /\ Fits(beginSession(c))  BY BeginOpens DEF Sound
<1> QED  BY <1>1, <1>2 DEF Sound

LEMMA ScheduleSound ==
  ASSUME NEW c, Sound(c), Gone \in FiniteSubsets(Nat), NEW due \in BOOLEAN
  PROVE  Sound(schedulePoll(c, due))
<1> DEFINE data == <<c.cursor>>
           e == enqueue(c, "poll", data)
           f == [e EXCEPT !.poll = FreshId(c)]
<1>1. Good(schedulePoll(c, due))  BY ScheduleGood DEF Sound
<1>2. \/ schedulePoll(c, due) = c
      \/ CanSend(c) /\ schedulePoll(c, due) = f
  <2>1. CASE ~ready(c) \/ c.poll # 0 \/ ~due \/ ~CanSend(c)
    BY <2>1 DEF schedulePoll
  <2>2. CASE ~(~ready(c) \/ c.poll # 0 \/ ~due \/ ~CanSend(c))
    BY <2>2 DEF schedulePoll
  <2> QED  BY <2>1, <2>2
<1>3. CASE CanSend(c) /\ schedulePoll(c, due) = f
  <2>1. data \in Seq(Datum) /\ data[1] = c.cursor /\ "poll" \in Kinds \ {"init"}
    BY DEF Sound, Good, Client, Datum, Kinds
  <2> HIDE DEF data
  <2>2. Sound(e)  BY <1>3, <2>1, EnqueueSound
  <2> HIDE DEF e
  <2>3. Steady(e, f)  BY <2>2 DEF Sound, Good, Client, Steady, Still
  <2> HIDE DEF f
  <2> QED  BY <1>1, <1>3, <2>2, <2>3, SoundSteady
<1>4. CASE schedulePoll(c, due) = c
  BY <1>4
<1> QED  BY <1>2, <1>3, <1>4

LEMMA EventsSound ==
  ASSUME NEW c, Sound(c), NEW r \in Response, Answered(c, r), OwnPoll(c, r)
  PROVE  /\ Sound(Events(c, r))
         /\ Events(c, r).inbound = c.inbound /\ Events(c, r).deferred = c.deferred
<1>1. Good(Events(c, r))  BY EventsGood DEF Sound
<1>2. c \in Client  BY DEF Sound, Good
<1>3. Steady(c, Events(c, r))  BY <1>2 DEF Events, Client, Steady, Still
<1> QED  BY <1>1, <1>3, SoundSteady DEF Steady

(* The answer to the handshake tells of the session of this generation.    *)
LEMMA AcceptedSound ==
  ASSUME NEW c, Sound(c), NEW r \in Response, Answered(c, r), ResultSound(c, server, r),
         r.kind = "init", r.code = "ok", r.id = c.init
  PROVE  /\ Sound(Accepted(c, r))
         /\ Accepted(c, r).inbound = c.inbound /\ Accepted(c, r).deferred = c.deferred
<1> DEFINE d == Accepted(c, r)
<1>0. c \in Client /\ Opens(c, server, loads)  BY DEF Sound, Good
<1>1. Good(d)  BY AcceptedGood DEF Sound
<1>2. /\ d.init = 0 /\ d.gen = c.gen /\ d.halted = c.halted /\ d.made = c.made
      /\ d.snapshot = c.snapshot /\ d.session = r.data[1] /\ ~d.rejected
      /\ d.out = c.out /\ d.inbound = c.inbound /\ d.deferred = c.deferred
  BY <1>0 DEF Accepted, Client
<1>3. Truthful(server, r) /\ Answers(c, server, r)  BY DEF ResultSound
<1>4. PICK j \in DOMAIN server : server[j].key = r.data[1] /\ server[j].gen = r.gen
  BY <1>3 DEF Truthful
<1>5. r.data[1] # 0
  <2> DEFINE a == Claim(server[j].key, server[j].gen, server[j].loaded)
  <2>1. a \in Known(server)  BY DEF Known
  <2>2. a.key = r.data[1]  BY <1>4 DEF Claim
  <2> HIDE DEF a
  <2>3. a.key \in 1..c.made  BY <1>0, <2>1 DEF Opens, Agree
  <2>4. c.made \in Nat  BY <1>0 DEF Client
  <2> QED  BY <2>2, <2>3, <2>4
<1>6. c.halted \/ server[j].gen = c.gen  BY <1>3, <1>4 DEF Answers
<1> HIDE DEF d
<1>7. ClientSound(d, server, loads)
  <2>1. ClientSound(c, server, loads)  BY <1>0 DEF Opens
  <2> QED  BY <1>2, <1>4, <1>5, <1>6, <2>1 DEF ClientSound
<1>8. Opens(d, server, loads)  BY <1>0, <1>2, <1>3, <1>7, OpensOver DEF Answers
<1>9. Fits(d)  BY <1>2 DEF Sound, Fits
<1> QED  BY <1>1, <1>2, <1>8, <1>9 DEF Sound, d

LEMMA InitFailedSound ==
  ASSUME NEW c, Sound(c), NEW r \in Response, ResultSound(c, server, r), r.id = c.init
  PROVE  /\ Sound(InitFailed(c, r))
         /\ InitFailed(c, r).inbound = c.inbound /\ InitFailed(c, r).deferred = c.deferred
<1> DEFINE d == InitFailed(c, r)
<1>0. c \in Client /\ r.id \in Nat \ {0} /\ Opens(c, server, loads) /\ Good(c)
  BY DEF Sound, Good, Response
<1>1. c.session = 0 /\ c.poll = 0 /\ ~c.waiting  BY <1>0 DEF Good, PollsOfSession
<1>2. (r.code = "retry" /\ c.attempts < MaxAttempts) \in BOOLEAN /\ (r.code = "reject") \in BOOLEAN
  OBVIOUS
<1>3. /\ d \in Client /\ d.session = 0 /\ d.poll = 0 /\ d.init = 0 /\ ~d.waiting
      /\ d.cursor = c.cursor /\ d.seen = c.seen /\ d.out = c.out
      /\ d.inbound = c.inbound /\ d.deferred = c.deferred
      /\ d.gen = c.gen /\ d.halted = c.halted /\ d.made = c.made /\ d.snapshot = c.snapshot
      /\ d.loaded = c.loaded /\ d.rejected = (r.code = "reject")
  BY <1>0, <1>1, <1>2 DEF Client, InitFailed
<1> HIDE DEF d
<1>4. PollsOfSession(d)  BY <1>1, <1>3 DEF PollsOfSession
<1>5. Good(d)  BY <1>0, <1>1, <1>3, <1>4, GoodWith
<1>6. Answers(c, server, r)  BY DEF ResultSound
<1>7. ClientSound(d, server, loads)
  <2>1. ClientSound(c, server, loads)  BY <1>0 DEF Opens
  <2> QED  BY <1>1, <1>3, <1>6, <2>1 DEF ClientSound, Answers
<1>8. Opens(d, server, loads)  BY <1>0, <1>3, <1>6, <1>7, OpensOver DEF Answers
<1>9. Fits(d)  BY <1>3 DEF Sound, Fits
<1> QED  BY <1>3, <1>5, <1>8, <1>9 DEF Sound, d

LEMMA SettleSound ==
  ASSUME NEW c, Sound(c), NEW R \in SUBSET Response, IsFiniteSet(R)
  PROVE  Sound(settle(c, R)) /\ Same(c, settle(c, R))
<1>1. Good(settle(c, R)) /\ Same(c, settle(c, R))  BY SettleGood DEF Sound
<1> QED  BY <1>1, SoundSteady DEF Same

LEMMA SetMenusSound ==
  ASSUME NEW c, Sound(c), NEW ids, NEW state \in Phases
  PROVE  Sound(SetMenus(c, ids, state)) /\ Same(c, SetMenus(c, ids, state))
<1>1. Good(SetMenus(c, ids, state)) /\ Same(c, SetMenus(c, ids, state))  BY SetMenusGood DEF Sound
<1> QED  BY <1>1, SoundSteady DEF Same

LEMMA SetMediaSound ==
  ASSUME NEW c, Sound(c), NEW clips, NEW state \in Phases
  PROVE  Sound(SetMedia(c, clips, state)) /\ Same(c, SetMedia(c, clips, state))
<1>1. Good(SetMedia(c, clips, state)) /\ Same(c, SetMedia(c, clips, state))  BY SetMediaGood DEF Sound
<1> QED  BY <1>1, SoundSteady DEF Same

(* A menu line whose clip is known takes it, or asks for it.               *)
LEMMA PrepareSound ==
  ASSUME NEW c, Sound(c), Gone \in FiniteSubsets(Nat),
         NEW id \in DOMAIN c.menus, NEW clip \in MenuClips
  PROVE  LET d == prepareMenuDialogueMedia(c, id, clip) IN
           Sound(d) /\ d.inbound = c.inbound /\ d.deferred = c.deferred
<1> DEFINE known == clip \in DOMAIN c.media
           state == IF known THEN c.media[clip].state ELSE IF CanSend(c) THEN "preparing" ELSE "failed"
           line == [state |-> state, clip |-> clip]
           e == [c EXCEPT !.menus[id] = line]
           f == enqueue(e, "media", <<clip>>)
           media == With(c.media, clip, [state |-> "preparing", id |-> FreshId(e)])
           g == [f EXCEPT !.media = media]
<1>0. c \in Client /\ c.menus \in Lines /\ c.media \in Downloads /\ clip \in Clips
  BY DEF Sound, Good, Client, Clips
<1>1. state \in Phases
  <2>1. c.media \in [DOMAIN c.media -> [state : Phases, id : Nat]]
    BY <1>0, TableOf DEF Downloads
  <2> QED  BY <2>1 DEF Phases
<1>2. line \in [state : Phases, clip : Clips \cup {0}]  BY <1>0, <1>1
<1>3. e = [c EXCEPT !.menus = [c.menus EXCEPT ![id] = line]]  BY <1>0 DEF Client
<1>4. [c.menus EXCEPT ![id] = line] \in Lines
  <2>1. /\ c.menus \in [DOMAIN c.menus -> [state : Phases, clip : Clips \cup {0}]]
        /\ DOMAIN c.menus \subseteq Nat /\ IsFiniteSet(DOMAIN c.menus)
    BY <1>0, TableOf DEF Lines
  <2> HIDE DEF line
  <2> DEFINE menus == [c.menus EXCEPT ![id] = line]
  <2>2. menus \in [DOMAIN c.menus -> [state : Phases, clip : Clips \cup {0}]]  BY <1>2, <2>1
  <2>3. DOMAIN menus = DOMAIN c.menus  OBVIOUS
  <2> HIDE DEF menus
  <2>4. menus \in Lines  BY <2>1, <2>2, <2>3, TableOf DEF Lines
  <2> QED  BY <2>4 DEF menus
<1> HIDE DEF line, state
<1>5. e \in Client /\ Same(c, e) /\ e.media = c.media
  BY <1>0, <1>3, <1>4 DEF Client, Same, Steady, Still
<1> HIDE DEF e
<1>6. Sound(e)  BY <1>5, SoundSame
<1>7. <<clip>> \in Seq(Datum) /\ "media" \in Kinds /\ "media" # "poll" /\ "media" # "init"
  BY <1>0 DEF Datum, Kinds
<1>15. FreshId(e) \in Nat  BY <1>5, FreshIdFresh
<1>16. CanSend(e) <=> CanSend(c)  BY <1>5 DEF CanSend, Same, Steady, Still
<1>8. ASSUME CanSend(c) PROVE Sound(f)  BY <1>6, <1>7, <1>8, <1>16, EnqueueSound
<1>9. media \in Downloads
  <2>1. [state |-> "preparing", id |-> FreshId(e)] \in [state : Phases, id : Nat]
    BY <1>15 DEF Phases
  <2> QED  BY <1>0, <2>1, TableWith DEF Downloads
<1>10. f.media = c.media /\ f.inbound = c.inbound /\ f.deferred = c.deferred
  BY <1>5 DEF enqueue, Client, Same, Steady, Still
<1>11. \/ prepareMenuDialogueMedia(c, id, clip) = e
       \/ /\ CanSend(c)
          /\ prepareMenuDialogueMedia(c, id, clip) = [f EXCEPT !.media = With(@, clip, [state |-> "preparing", id |-> FreshId(e)])]
  BY Zenon DEF prepareMenuDialogueMedia, e, f, line, state
<1> HIDE DEF f, media
<1>12. \/ prepareMenuDialogueMedia(c, id, clip) = e
       \/ CanSend(c) /\ prepareMenuDialogueMedia(c, id, clip) = g
  BY <1>10, <1>11 DEF media
<1>13. ASSUME CanSend(c) PROVE g \in Client /\ Same(f, g)
  BY <1>8, <1>9, <1>13 DEF Sound, Good, Client, Same, Steady, Still
<1>14. ASSUME CanSend(c) PROVE Sound(g)  BY <1>8, <1>13, <1>14, SoundSame
<1> QED  BY <1>5, <1>6, <1>10, <1>12, <1>13, <1>14 DEF Same, Steady, Still

(* A failed request gives up what waits for it.                            *)
LEMMA FailedSound ==
  ASSUME NEW c, Sound(c), NEW r \in Response, ResultSound(c, server, r)
  PROVE  LET d == Failed(c, r) IN
           Sound(d) /\ d.inbound = c.inbound /\ d.deferred = c.deferred
<1> DEFINE d == IF r.id = c.init THEN InitFailed(c, r) ELSE c
           clips == {m \in DOMAIN c.media : c.media[m].id = r.id}
           poll == IF d.poll = r.id THEN 0 ELSE d.poll
           wait == d.wait \ {<<"turn", r.id>>, <<"controls", r.id>>}
           status == IF c.session = 0 THEN "error"
                     ELSE IF clips = {} \/ r.id = c.poll THEN "ready" ELSE d.status
           e == [d EXCEPT !.wait = wait, !.poll = poll, !.status = status]
           x == {m \in DOMAIN e.menus : m = r.id /\ e.menus[m].state = "requesting"}
           f == SetMenus(e, x, "failed")
<1>0. c \in Client /\ r.id \in Nat \ {0}  BY DEF Sound, Good, Response
<1>1. Sound(d) /\ d.inbound = c.inbound /\ d.deferred = c.deferred
  <2>1. CASE r.id = c.init
    BY <2>1, InitFailedSound
  <2>2. CASE r.id # c.init
    BY <2>2
  <2> QED  BY <2>1, <2>2
<1> HIDE DEF d
<1>2. d \in Client /\ d.poll \in Nat /\ d.status \in Statuses /\ d.wait \in Waits
  BY <1>1 DEF Sound, Good, Client
<1>3. status \in Statuses /\ poll \in {0, d.poll} /\ poll \in Nat  BY <1>2 DEF Statuses
<1>4. wait \in Waits  BY <1>2, WaitsWithout
<1> HIDE DEF status, wait, poll
<1>5. /\ e \in Client /\ e.poll = poll /\ e.session = d.session /\ e.cursor = d.cursor
      /\ e.seen = d.seen /\ e.init = d.init /\ e.retry = d.retry /\ e.waiting = d.waiting
      /\ e.out = d.out /\ e.inbound = d.inbound /\ e.deferred = d.deferred /\ Steady(d, e)
  BY <1>2, <1>3, <1>4 DEF Client, Steady, Still
<1>6. Failed(c, r) = SetMedia(f, clips, "failed")
  BY Zenon DEF Failed, d, clips, e, x, f, poll, wait, status
<1> HIDE DEF e, clips
<1>7. PollsOfSession(e)  BY <1>1, <1>3, <1>5 DEF Sound, Good, PollsOfSession
<1>12. Good(e)  BY <1>1, <1>3, <1>5, <1>7, GoodWith DEF Sound
<1>8. Sound(e)  BY <1>1, <1>5, <1>12, SoundSteady
<1>9. "failed" \in Phases  BY DEF Phases
<1> HIDE DEF x
<1>10. Sound(f) /\ Same(e, f)  BY <1>8, <1>9, SetMenusSound
<1> HIDE DEF f
<1>11. Sound(SetMedia(f, clips, "failed")) /\ Same(f, SetMedia(f, clips, "failed"))
  BY <1>9, <1>10, SetMediaSound
<1> QED  BY <1>1, <1>5, <1>6, <1>10, <1>11 DEF Same, Steady, Still

(* One result is handled, and the queues stay as they are.                 *)
LEMMA HandleSound ==
  ASSUME NEW c, Sound(c), Gone \in FiniteSubsets(Nat), NEW r \in Response, Answered(c, r),
         ResultSound(c, server, r)
  PROVE  LET d == Handle(c, r) IN
           Sound(d) /\ d.inbound = c.inbound /\ d.deferred = c.deferred
<1> DEFINE Keeps(d) == Sound(d) /\ d.inbound = c.inbound /\ d.deferred = c.deferred
           Dropped(d) == [d EXCEPT !.wait = @ \ {<<"turn", r.id>>}]
<1>1. Keeps(settle(c, {r}))
  <2>1. {r} \in SUBSET Response /\ IsFiniteSet({r})  BY FS_Singleton
  <2> QED  BY <2>1, SettleSound DEF Same, Steady, Still
<1>2. Keeps(Failed(c, r))  BY FailedSound
<1>3. r.kind = "init" /\ r.code = "ok" /\ r.id = c.init => Keeps(Accepted(c, r))
  BY AcceptedSound
<1>4. OwnPoll(c, r) => Keeps(Events(c, r))  BY EventsSound
<1>5. Keeps(SetMedia(c, {r.data[1]}, "ready"))
  <2>1. "ready" \in Phases  BY DEF Phases
  <2> QED  BY <2>1, SetMediaSound DEF Same, Steady, Still
<1>6. r.kind = "menu" /\ r.code = "ok" /\ r.id \in DOMAIN c.menus =>
        Keeps(prepareMenuDialogueMedia(c, r.id, r.data[1]))
  BY PrepareSound DEF Answered
<1>7. ASSUME NEW d, Keeps(d) PROVE Keeps(Dropped(d))
  <2>1. d \in Client /\ d.wait \in Waits  BY <1>7 DEF Sound, Good, Client
  <2>2. d.wait \ {<<"turn", r.id>>} \in Waits  BY <2>1, WaitsWithout
  <2> DEFINE e == Dropped(d)
  <2>3. e \in Client /\ Same(d, e)  BY <2>1, <2>2 DEF Client, Same, Steady, Still
  <2> HIDE DEF e
  <2>4. Sound(e)  BY <1>7, <2>3, SoundSame
  <2> QED  BY <1>7, <2>3, <2>4 DEF Same, Steady, Still, e
<1>8. Keeps(c)  OBVIOUS
<1> DEFINE d == IF r.kind = "init" /\ r.code = "ok" /\ r.id = c.init THEN Accepted(c, r)
                ELSE IF OwnPoll(c, r) THEN Events(c, r)
                ELSE IF r.kind = "media" /\ r.code = "ok"
                  THEN IF r.data[1] \in DOMAIN c.media THEN SetMedia(c, {r.data[1]}, "ready") ELSE c
                ELSE IF r.kind = "menu" /\ r.code = "ok"
                  THEN IF r.id \in DOMAIN c.menus THEN prepareMenuDialogueMedia(c, r.id, r.data[1]) ELSE c
                ELSE IF Settles(c, r, "controls") THEN settle(c, {r}) ELSE c
<1>9. Handle(c, r) \in {settle(c, {r}), Failed(c, r), Dropped(d)}  BY Zenon DEF Handle
<1> HIDE DEF Keeps, Dropped
<1>10. Keeps(d)  BY <1>1, <1>3, <1>4, <1>5, <1>6, <1>8
<1> HIDE DEF d
<1>11. Keeps(Handle(c, r))  BY <1>1, <1>2, <1>7, <1>9, <1>10
<1> QED  BY <1>11 DEF Keeps

(* What stays in the queue, and what is taken from it.                     *)
From(t, s) == \A i \in DOMAIN t : \E j \in DOMAIN s : t[i] = s[j]
LEMMA RestOf ==
  ASSUME NEW c \in Client, NEW n \in Nat
  PROVE  /\ Rest(c, n) \in Seq(Response) /\ From(Rest(c, n), c.inbound)
         /\ Len(Rest(c, n)) <= Len(c.inbound)
<1> DEFINE s == c.inbound
<1>1. s \in Seq(Response) /\ Len(s) \in Nat  BY DEF Client
<1> HIDE DEF s
<1>2. Rest(c, n) = SubSeq(s, n + 1, Len(s))  BY DEF Rest, s
<1>3. /\ SubSeq(s, n + 1, Len(s)) \in Seq(Response) /\ Len(SubSeq(s, n + 1, Len(s))) <= Len(s)
      /\ \A i \in DOMAIN SubSeq(s, n + 1, Len(s)) :
           n + i \in DOMAIN s /\ SubSeq(s, n + 1, Len(s))[i] = s[n + i]
  BY <1>1
<1>4. From(SubSeq(s, n + 1, Len(s)), s)  BY <1>3 DEF From
<1> QED  BY <1>2, <1>3, <1>4 DEF s

LEMMA PartOf ==
  ASSUME NEW s \in Seq(Response), NEW I
  PROVE  /\ Part(s, I) \in Seq(Response) /\ From(Part(s, I), s) /\ Len(Part(s, I)) <= Len(s)
         /\ \A b \in Nat : (\A i \in I : i <= b) => Len(Part(s, I)) <= b
<1> DEFINE p == Part(s, I)
<1>1. p \in Seq(Response) /\ \E m : Enumerates(p, m, s, I, Len(s))  BY PartEnumerates
<1> HIDE DEF p
<1>2. PICK m : Enumerates(p, m, s, I, Len(s))  BY <1>1
<1>3. ASSUME NEW i \in DOMAIN p PROVE \E j \in DOMAIN s : p[i] = s[j]
  <2>1. m[i] \in I \cap (1..Len(s)) /\ p[i] = s[m[i]]  BY <1>1, <1>2 DEF Enumerates
  <2> QED  BY <2>1
<1>4. From(p, s)  BY <1>3 DEF From
<1>5. Len(p) <= Len(s) /\ \A b \in Nat : (\A i \in I : i <= b) => Len(p) <= b  BY <1>2 DEF Enumerates
<1> QED  BY <1>1, <1>4, <1>5 DEF p

(* What is taken behind what was put off.                                  *)
OfBoth(v, s, u) ==
  \A i \in DOMAIN v : (\E j \in DOMAIN s : v[i] = s[j]) \/ (\E j \in DOMAIN u : v[i] = u[j])
LEMMA FromBoth ==
  ASSUME NEW s \in Seq(Response), NEW t \in Seq(Response), NEW u, From(t, u),
         NEW v, v = s \o t
  PROVE  v \in Seq(Response) /\ OfBoth(v, s, u)
<1>1. \A i \in DOMAIN v :
        \/ i \in DOMAIN s /\ v[i] = s[i]
        \/ i - Len(s) \in DOMAIN t /\ v[i] = t[i - Len(s)]
  OBVIOUS
<1>2. OfBoth(v, s, u)  BY <1>1 DEF From, OfBoth
<1> QED  BY <1>2

(* What was put off is handled before what a poll drains, result by result.*)
LEMMA FoldSound ==
  ASSUME NEW c, Sound(c), Gone \in FiniteSubsets(Nat), NEW s \in Seq(Response),
         OfBoth(s, c.deferred, c.inbound)
  PROVE  LET d == HandleAll(c, s) IN
           Sound(d) /\ d.inbound = c.inbound /\ d.deferred = c.deferred
<1> DEFINE n == Len(s)
           Keeps(d) == Sound(d) /\ d.inbound = c.inbound /\ d.deferred = c.deferred
<1>1. n \in Nat /\ DOMAIN s = 1..n  OBVIOUS
<1>2. PICK h : Stepwise(h, c, s, n)
  <2> HIDE DEF n
  <2> QED  BY <1>1, HandleOneByOne
<1> DEFINE K == {k \in Nat : k <= n => Keeps(h[k])}
<1>3. 0 \in K  BY <1>2 DEF Stepwise
<1>4. ASSUME NEW k \in Nat, k \in K PROVE k + 1 \in K
  <2> SUFFICES ASSUME k + 1 <= n PROVE Keeps(h[k + 1])  OBVIOUS
  <2>1. Keeps(h[k])  BY <1>1, <1>4
  <2>2. k + 1 \in DOMAIN s /\ k + 1 \in 1..n /\ s[k + 1] \in Response  BY <1>1
  <2>3. Answered(h[k], s[k + 1]) /\ ResultSound(h[k], server, s[k + 1])
    BY <2>1, <2>2 DEF Sound, Good, Opens, OfBoth
  <2>4. h[k + 1] = Handle(h[k], s[k + 1])  BY <1>2, <2>2 DEF Stepwise
  <2>5. LET d == Handle(h[k], s[k + 1]) IN
          Sound(d) /\ d.inbound = h[k].inbound /\ d.deferred = h[k].deferred
    BY <2>1, <2>2, <2>3, HandleSound
  <2> QED  BY <2>1, <2>4, <2>5
<1>5. n \in K
  <2> HIDE DEF K, n
  <2> QED  BY <1>1, <1>3, <1>4, AllNaturals
<1> QED  BY <1>1, <1>2, <1>5 DEF Stepwise

Emptied(c) ==
  [HandleAll(c, c.deferred \o Drained(c, PollMax)) EXCEPT !.deferred = <<>>, !.inbound = Rest(c, PollMax)]
LEMMA EmptiedSound ==
  ASSUME NEW c, Sound(c), Gone \in FiniteSubsets(Nat)
  PROVE  Sound(Emptied(c))
<1> DEFINE s == c.deferred \o Drained(c, PollMax)
           f == HandleAll(c, s)
           d == [f EXCEPT !.deferred = <<>>, !.inbound = Rest(c, PollMax)]
<1>0. c \in Client /\ c.inbound \in Seq(Response) /\ c.deferred \in Seq(Response)
  BY DEF Sound, Good, Client
<1>1. s \in Seq(Response) /\ OfBoth(s, c.deferred, c.inbound)
  <2> DEFINE p == Drained(c, PollMax)
  <2>1. p \in Seq(Response) /\ From(p, c.inbound)  BY <1>0, PartOf DEF Drained
  <2> HIDE DEF p
  <2>2. s = c.deferred \o p  BY DEF p
  <2> HIDE DEF s
  <2> QED  BY <1>0, <2>1, <2>2, FromBoth
<1> HIDE DEF s
<1>2. Sound(f) /\ f.inbound = c.inbound /\ f.deferred = c.deferred  BY <1>1, FoldSound
<1> HIDE DEF f
<1>3. Sound(d)
  <2>1. f \in Client /\ <<>> \in Seq(Response)  BY <1>2 DEF Sound, Good
  <2>2. PollMax \in Nat  BY CapacityAssumption
  <2>3. Rest(c, PollMax) \in Seq(Response) /\ From(Rest(c, PollMax), c.inbound)
    BY <1>0, <2>2, RestOf
  <2>4. /\ d \in Client /\ d.session = f.session /\ d.cursor = f.cursor /\ d.seen = f.seen
        /\ d.poll = f.poll /\ d.init = f.init /\ d.retry = f.retry /\ d.waiting = f.waiting
        /\ d.out = f.out /\ d.deferred = <<>> /\ d.inbound = Rest(c, PollMax) /\ Still(f, d)
    BY <2>1, <2>3 DEF Client, Still
  <2> HIDE DEF d
  <2>5. PollsOfSession(d)  BY <1>2, <2>4 DEF Sound, Good, PollsOfSession
  <2>6. Good(d)  BY <1>2, <2>3, <2>4, <2>5, GoodStays DEF Sound, From
  <2> DEFINE m == [i \in DOMAIN d.out |-> i]
  <2>7. Within(d.out, f.out, m)  BY <2>4 DEF Within
  <2> HIDE DEF m
  <2>11. /\ \A i \in DOMAIN d.inbound : \E j \in DOMAIN f.inbound : d.inbound[i] = f.inbound[j]
         /\ DOMAIN d.deferred = {}
    BY <1>2, <2>3, <2>4 DEF From
  <2>12. Opens(f, server, loads) /\ Still(f, d) /\ d.out = f.out  BY <1>2, <2>4 DEF Sound
  <2>8. Opens(d, server, loads)  BY <2>7, <2>11, <2>12, OpensStays
  <2>9. Len(d.deferred) = 0 /\ Len(d.inbound) <= Len(f.inbound) /\ Len(d.inbound) \in Nat
        /\ Len(f.inbound) \in Nat
    BY <1>0, <1>2, <2>2, <2>3, <2>4, RestOf
  <2>10. Fits(d)  BY <1>2, <2>4, <2>9, CapacityAssumption DEF Sound, Fits, Still
  <2> QED  BY <2>6, <2>8, <2>10 DEF Sound
<1> QED  BY <1>3 DEF Emptied, d, f, s

(* A handshake is retried before there is a session.                       *)
LEMMA RetriedSound ==
  ASSUME NEW d, Sound(d), Gone \in FiniteSubsets(Nat), NEW due
  PROVE  Sound(IF d.retry /\ due THEN beginSession(d) ELSE d)
<1>1. CASE d.retry /\ due
  <2>1. d.session = 0  BY <1>1 DEF Sound, Good, PollsOfSession
  <2> QED  BY <1>1, <2>1, BeginSound
<1>2. CASE ~(d.retry /\ due)
  BY <1>2
<1> QED  BY <1>1, <1>2

LEMMA PolledSound ==
  ASSUME NEW c, Sound(c), Gone \in FiniteSubsets(Nat), NEW due \in BOOLEAN
  PROVE  Sound(Polled(c, due))
<1> DEFINE d == Emptied(c)
           e == IF d.retry /\ due THEN beginSession(d) ELSE d
<1>1. Polled(c, due) = schedulePoll(e, due)  BY Zenon DEF Polled, Emptied, d, e
<1>2. Sound(d)  BY EmptiedSound
<1> HIDE DEF d
<1>3. Sound(e)  BY <1>2, RetriedSound
<1> HIDE DEF e
<1> QED  BY <1>1, <1>3, ScheduleSound

(* A pump settles its own results and puts the others off.                 *)
LEMMA PumpedSound ==
  ASSUME NEW c, Sound(c), NEW kind
  PROVE  Sound(Pumped(c, kind))
<1> DEFINE I == Own(c, kind)
           R == {c.inbound[i] : i \in I}
           f == settle(c, R)
           s == Deferred(c, kind)
           d == [f EXCEPT !.inbound = Rest(c, PumpBatch), !.deferred = s]
<1>0. c \in Client /\ c.inbound \in Seq(Response) /\ c.deferred \in Seq(Response)
  BY DEF Sound, Good, Client
<1>1. R \in SUBSET Response /\ IsFiniteSet(R)
  <2>1. I \subseteq DOMAIN c.inbound  BY DEF Own, Current
  <2>2. DOMAIN c.inbound = 1..Len(c.inbound) /\ Len(c.inbound) \in Nat  BY <1>0
  <2>7. IsFiniteSet(DOMAIN c.inbound)  BY <2>2, FS_Interval
  <2>3. IsFiniteSet(I)  BY <2>1, <2>7, FS_Subset
  <2> HIDE DEF I
  <2> DEFINE g == [i \in I |-> c.inbound[i]]
  <2>4. IsFiniteSet({g[i] : i \in DOMAIN g})  BY <2>3, FiniteRange
  <2>5. {g[i] : i \in DOMAIN g} = R  OBVIOUS
  <2>6. R \in SUBSET Response  BY <1>0, <2>1
  <2> QED  BY <2>4, <2>5, <2>6
<1> HIDE DEF R
<1>2. Sound(f) /\ Same(c, f)  BY <1>1, SettleSound
<1> HIDE DEF f
<1>3. s \in Seq(Response) /\ OfBoth(s, c.deferred, c.inbound)
  <2> DEFINE p == Spared(c, kind)
  <2>1. p \in Seq(Response) /\ From(p, c.inbound)  BY <1>0, PartOf DEF Spared
  <2> HIDE DEF p
  <2>2. s = c.deferred \o p  BY DEF Deferred, p
  <2> HIDE DEF s
  <2> QED  BY <1>0, <2>1, <2>2, FromBoth
<1>6. Len(s) <= Len(c.deferred) + PumpBatch
  <2> DEFINE p == Spared(c, kind)
             J == Current(c, PumpBatch) \ Own(c, kind)
  <2>1. PumpBatch \in Nat  BY CapacityAssumption
  <2>2. \A i \in J : i <= PumpBatch  BY DEF Current
  <2>3. p = Part(c.inbound, J)  BY DEF Spared
  <2> HIDE DEF J, p
  <2>4. p \in Seq(Response) /\ Len(p) <= PumpBatch  BY <1>0, <2>1, <2>2, <2>3, PartOf
  <2>5. s = c.deferred \o p  BY DEF Deferred, p
  <2> HIDE DEF s
  <2>6. Len(s) = Len(c.deferred) + Len(p) /\ Len(p) \in Nat /\ Len(c.deferred) \in Nat
    BY <1>0, <2>4, <2>5
  <2> QED  BY <2>1, <2>4, <2>6
<1> HIDE DEF s
<1>4. ASSUME ~(Len(c.deferred) + PumpBatch > DeferCap) PROVE Sound(d)
  <2>1. f \in Client  BY <1>2 DEF Sound, Good
  <2>2. PumpBatch \in Nat /\ DeferCap \in Nat  BY CapacityAssumption
  <2>3. Rest(c, PumpBatch) \in Seq(Response) /\ From(Rest(c, PumpBatch), c.inbound)
    BY <1>0, <2>2, RestOf
  <2>4. /\ d \in Client /\ d.session = f.session /\ d.cursor = f.cursor /\ d.seen = f.seen
        /\ d.poll = f.poll /\ d.init = f.init /\ d.retry = f.retry /\ d.waiting = f.waiting
        /\ d.out = f.out /\ d.deferred = s /\ d.inbound = Rest(c, PumpBatch) /\ Still(f, d)
    BY <1>3, <2>1, <2>3 DEF Client, Still
  <2> HIDE DEF d
  <2>5. PollsOfSession(d)  BY <1>2, <2>4 DEF Sound, Good, PollsOfSession
  <2>6. f.inbound = c.inbound /\ f.deferred = c.deferred  BY <1>2 DEF Same, Steady, Still
  <2>7. Good(d)  BY <1>2, <1>3, <2>3, <2>4, <2>5, <2>6, GoodStays DEF Sound, From, OfBoth
  <2> DEFINE m == [i \in DOMAIN d.out |-> i]
  <2>8. Within(d.out, f.out, m)  BY <2>4 DEF Within
  <2> HIDE DEF m
  <2>13. /\ \A i \in DOMAIN d.inbound : \E j \in DOMAIN f.inbound : d.inbound[i] = f.inbound[j]
         /\ \A i \in DOMAIN d.deferred : \/ \E j \in DOMAIN f.deferred : d.deferred[i] = f.deferred[j]
                                         \/ \E j \in DOMAIN f.inbound : d.deferred[i] = f.inbound[j]
    BY <1>3, <2>3, <2>4, <2>6 DEF From, OfBoth
  <2>14. Opens(f, server, loads) /\ Still(f, d) /\ d.out = f.out  BY <1>2, <2>4 DEF Sound
  <2>9. Opens(d, server, loads)  BY <2>8, <2>13, <2>14, OpensStays
  <2>10. Len(d.inbound) <= Len(f.inbound) /\ Len(d.inbound) \in Nat /\ Len(f.inbound) \in Nat
    BY <1>0, <2>2, <2>3, <2>4, <2>6, RestOf
  <2>11. Len(s) <= DeferCap /\ Len(s) \in Nat  BY <1>0, <1>3, <1>4, <1>6, <2>2
  <2>12. Fits(d)  BY <1>2, <2>4, <2>10, <2>11, CapacityAssumption DEF Sound, Fits, Still
  <2> QED  BY <2>7, <2>9, <2>12 DEF Sound
<1>5. Pumped(c, kind) = c \/ (~(Len(c.deferred) + PumpBatch > DeferCap) /\ Pumped(c, kind) = d)
  BY Zenon DEF Pumped, d, f, R, s
<1> HIDE DEF d
<1> QED  BY <1>4, <1>5

-------------------------------------------------------------------------------
(* Every step keeps the order and the sessions                             *)

(* The client is sound; the server's sessions and the requests that nobody *)
(* will get an answer to have their types.                                 *)
IInv == Sound(client) /\ Gone \in FiniteSubsets(Nat) /\ server \in Sessions

(* A script's request joins the queue, and its id is a new one.            *)
LEMMA RequestSound ==
  ASSUME NEW c, Sound(c), CanSend(c), Gone \in FiniteSubsets(Nat),
         NEW kind \in Kinds \ {"poll", "init"}, NEW data \in Seq(Datum)
  PROVE  /\ Sound(enqueue(c, kind, data)) /\ FreshId(c) \in Nat
         /\ Apart(c, enqueue(c, kind, data)) /\ enqueue(c, kind, data) \in Client
<1>4. Sound(enqueue(c, kind, data))  BY EnqueueSound
<1>1. Sound(enqueue(c, kind, data)) /\ FreshId(c) \in Nat \ {0}  BY <1>4, FreshIdFresh DEF Sound, Good
<1>2. c \in Client /\ enqueue(c, kind, data) \in Client  BY <1>1 DEF Sound, Good
<1>3. Apart(c, enqueue(c, kind, data))  BY <1>2 DEF Apart, enqueue, Client
<1> QED  BY <1>1, <1>2, <1>3

LEMMA DropPollSound ==
  ASSUME NEW c, Sound(c), NEW begun \in BOOLEAN
  PROVE  LET d == dropPoll(c, begun) IN Sound(d) /\ Apart(c, d) /\ d \in Client
<1> DEFINE e == cancel(c, c.poll, begun)
           d == [e EXCEPT !.poll = 0]
<1>1. Sound(e) /\ Apart(c, e) /\ e \in Client  BY CancelSound
<1> HIDE DEF e
<1>2. /\ d \in Client /\ d.session = e.session /\ d.cursor = e.cursor /\ d.seen = e.seen
      /\ d.poll = 0 /\ d.init = e.init /\ d.retry = e.retry /\ d.waiting = e.waiting
      /\ d.out = e.out /\ d.inbound = e.inbound /\ d.deferred = e.deferred /\ Apart(e, d)
      /\ Steady(e, d)
  BY <1>1 DEF Client, Apart, Steady, Still
<1>3. dropPoll(c, begun) = d  BY DEF dropPoll, e
<1> HIDE DEF d
<1>4. PollsOfSession(d)  BY <1>1, <1>2 DEF Sound, Good, PollsOfSession
<1>6. Good(d)  BY <1>1, <1>2, <1>4, GoodWith DEF Sound
<1>5. Sound(d)  BY <1>1, <1>2, <1>6, SoundSteady
<1> QED  BY <1>1, <1>2, <1>3, <1>5 DEF Apart

(* Who waits is no part of the order.                                      *)
LEMMA WaitSound ==
  ASSUME NEW c, Sound(c), NEW wait \in Waits
  PROVE  Sound([c EXCEPT !.wait = wait])
<1> DEFINE d == [c EXCEPT !.wait = wait]
<1>1. c \in Client  BY DEF Sound, Good
<1>2. d \in Client /\ Same(c, d)  BY <1>1 DEF Client, Same, Steady, Still
<1> HIDE DEF d
<1>3. Sound(d)  BY <1>2, SoundSame
<1> QED  BY <1>3 DEF d

LEMMA submitTurnSound ==
  ASSUME IInv, submitTurn
  PROVE  Sound(client')
<1> DEFINE id == FreshId(client)
           c == enqueue(client, "turn", <<>>)
<1>1. Sound(client) /\ client \in Client /\ client.wait \in Waits  BY DEF IInv, Sound, Good, Client
<1>2. "turn" \in Kinds \ {"poll", "init"} /\ <<>> \in Seq(Datum)  BY DEF Kinds
<1>3. Sound(c) /\ id \in Nat /\ Apart(client, c) /\ c \in Client  BY <1>1, <1>2, RequestSound DEF IInv, submitTurn, ByScript
<1>4. client' = [c EXCEPT !.wait = @ \cup {<<"turn", id>>}, !.latest = id]  BY DEF submitTurn
<1> HIDE DEF c, id
<1>5. c.wait \cup {<<"turn", id>>} \in Waits  BY <1>1, <1>2, <1>3, WaitsWith DEF Apart
<1>6. client' \in Client /\ Same(c, client')  BY <1>3, <1>4, <1>5 DEF Client, Same, Steady, Still
<1> QED  BY <1>3, <1>6, SoundSame

LEMMA requestOneSound ==
  ASSUME IInv, NEW kind, requestOne(kind)
  PROVE  Sound(client')
<1> DEFINE id == FreshId(client)
           c == enqueue(client, kind, <<>>)
<1>1. Sound(client) /\ client \in Client /\ client.wait \in Waits  BY DEF IInv, Sound, Good, Client
<1>2. kind \in Kinds \ {"poll", "init"} /\ <<>> \in Seq(Datum)  BY DEF Kinds, requestOne
<1>3. Sound(c) /\ id \in Nat /\ Apart(client, c) /\ c \in Client  BY <1>1, <1>2, RequestSound DEF IInv, requestOne, ByScript
<1>4. client' = [c EXCEPT !.wait = @ \cup {<<kind, id>>}]  BY DEF requestOne
<1> HIDE DEF c, id
<1>5. c.wait \cup {<<kind, id>>} \in Waits  BY <1>1, <1>2, <1>3, WaitsWith DEF Apart
<1> QED  BY <1>3, <1>4, <1>5, WaitSound

(* The oldest receipts make room for a new one, or the request is refused. *)
LEMMA RequestOfWaits ==
  ASSUME NEW c, Sound(c), CanSend(c), Gone \in FiniteSubsets(Nat),
         NEW kind \in Kinds \ {"poll", "init"}
  PROVE  Sound([enqueue(c, kind, <<>>) EXCEPT !.wait = @ \cup {<<kind, FreshId(c)>>}])
<1> DEFINE id == FreshId(c)
           d == enqueue(c, kind, <<>>)
<1>1. c.wait \in Waits /\ <<>> \in Seq(Datum)  BY DEF Sound, Good, Client
<1>2. Sound(d) /\ id \in Nat /\ Apart(c, d)  BY <1>1, RequestSound
<1> HIDE DEF d, id
<1>3. d.wait \cup {<<kind, id>>} \in Waits  BY <1>1, <1>2, WaitsWith DEF Apart
<1>4. Sound([d EXCEPT !.wait = d.wait \cup {<<kind, id>>}])  BY <1>2, <1>3, WaitSound
<1> QED  BY <1>4 DEF d, id

LEMMA submitDispositionSound ==
  ASSUME IInv, submitDisposition
  PROVE  Sound(client')
<1> DEFINE c == IF Cardinality(Receipts(client, "disposition")) >= ReceiptCap
                THEN [client EXCEPT !.kept = @ \ Receipts(client, "disposition")] ELSE client
<1>1. Sound(client) /\ client \in Client /\ client.kept \in Waits  BY DEF IInv, Sound, Good, Client
<1>2. Sound(c) /\ CanSend(c)
  <2>4. CanSend(client)  BY DEF submitDisposition, ByScript
  <2> DEFINE kept == client.kept \ Receipts(client, "disposition")
             d == [client EXCEPT !.kept = kept]
  <2>1. kept \in Waits  BY <1>1, WaitsWithout
  <2> HIDE DEF kept
  <2>2. d \in Client /\ Same(client, d)  BY <1>1, <2>1 DEF Client, Same, Steady, Still
  <2> HIDE DEF d
  <2>3. Sound(d) /\ CanSend(d)  BY <1>1, <2>2, <2>4, SoundSame DEF CanSend, Same, Steady, Still
  <2> QED  BY <1>1, <2>3, <2>4 DEF d, kept
<1>3. "disposition" \in Kinds \ {"poll", "init"}  BY DEF Kinds
<1>4. client' = c \/ client' = [enqueue(c, "disposition", <<>>) EXCEPT !.wait = @ \cup {<<"disposition", FreshId(c)>>}]
  BY Zenon DEF submitDisposition, c
<1> HIDE DEF c
<1> QED  BY <1>2, <1>3, <1>4, RequestOfWaits DEF IInv

LEMMA submitCommentSound ==
  ASSUME IInv, submitComment
  PROVE  Sound(client')
<1>1. Sound(client) /\ client.wait \in Waits  BY DEF IInv, Sound, Good, Client
<1>2. PICK old \in SUBSET Receipts(client, "comment") :
        LET c == [client EXCEPT !.wait = @ \ old] IN
        client' = IF Cardinality(Receipts(c, "comment")) >= ReceiptCap THEN c
                  ELSE [enqueue(c, "comment", <<>>) EXCEPT !.wait = @ \cup {<<"comment", FreshId(c)>>}]
  BY Zenon DEF submitComment
<1> DEFINE c == [client EXCEPT !.wait = client.wait \ old]
<1>3. Sound(c)
  <2>1. client.wait \ old \in Waits  BY <1>1, WaitsWithout
  <2> QED  BY <1>1, <2>1, WaitSound
<1>6. CanSend(c)
  <2>1. CanSend(client) /\ client \in Client  BY <1>1 DEF submitComment, ByScript, Sound, Good
  <2>2. c.halted = client.halted /\ c.out = client.out  BY <2>1 DEF Client
  <2> QED  BY <2>1, <2>2 DEF CanSend
<1>4. "comment" \in Kinds \ {"poll", "init"}  BY DEF Kinds
<1>5. client' = c \/ client' = [enqueue(c, "comment", <<>>) EXCEPT !.wait = @ \cup {<<"comment", FreshId(c)>>}]
  BY <1>2, Zenon
<1> HIDE DEF c
<1> QED  BY <1>3, <1>4, <1>5, <1>6, RequestOfWaits DEF IInv

LEMMA cancelTurnSound ==
  ASSUME IInv, NEW begun \in BOOLEAN, cancelTurn(begun)
  PROVE  Sound(client')
<1> DEFINE b == cancel(client, client.latest, begun)
           c == dropPoll(b, begun)
           d == [c EXCEPT !.wait = @ \ {<<"turn", c.latest>>}]
           e == enqueue(d, "interruption", <<>>)
           f == [e EXCEPT !.latest = 0]
<1>1. Sound(b)  BY CancelSound DEF IInv
<1> HIDE DEF b
<1>2. Sound(c)  BY <1>1, DropPollSound
<1> HIDE DEF c
<1>3. c.wait \ {<<"turn", c.latest>>} \in Waits  BY <1>2, WaitsWithout DEF Sound, Good, Client
<1>4. Sound(d)  BY <1>2, <1>3, WaitSound
<1>5. client' = d \/ (CanSend(d) /\ client' = f)  BY Zenon DEF cancelTurn, b, c, d, e, f
<1> HIDE DEF d
<1>6. "interruption" \in Kinds \ {"poll", "init"} /\ <<>> \in Seq(Datum)  BY DEF Kinds
<1>7. ASSUME CanSend(d) PROVE Sound(e) /\ e \in Client  BY <1>4, <1>6, <1>7, RequestSound DEF IInv
<1> HIDE DEF e
<1>8. ASSUME CanSend(d) PROVE f \in Client /\ Same(e, f)
  BY <1>7, <1>8 DEF Client, Same, Steady, Still
<1> HIDE DEF f
<1>9. ASSUME CanSend(d) PROVE Sound(f)  BY <1>7, <1>8, <1>9, SoundSame
<1> QED  BY <1>4, <1>5, <1>9

LEMMA requestPlayerAutochatSound ==
  ASSUME IInv, NEW begun \in BOOLEAN, requestPlayerAutochat(begun)
  PROVE  Sound(client')
<1> DEFINE c == dropPoll(client, begun)
<1>1. Sound(c)  BY DropPollSound DEF IInv
<1>2. "autochat" \in Kinds \ {"poll", "init"}  BY DEF Kinds
<1>3. \/ client' = c
      \/ /\ CanSend(c)
         /\ client' = [enqueue(c, "autochat", <<>>) EXCEPT !.wait = @ \cup {<<"autochat", FreshId(c)>>}]
  BY Zenon DEF requestPlayerAutochat, c
<1> HIDE DEF c
<1> QED  BY <1>1, <1>2, <1>3, RequestOfWaits DEF IInv

LEMMA cancelPlayerAutochatSound ==
  ASSUME IInv, NEW begun \in BOOLEAN, cancelPlayerAutochat(begun)
  PROVE  Sound(client')
<1> DEFINE own == {w \in client.wait : w[1] = "autochat"}
           id == IF own = {} THEN 0 ELSE (CHOOSE w \in own : TRUE)[2]
           S == Receipts(client, "autochat")
           c == cancel(client, id, begun)
<1>1. client' = [c EXCEPT !.wait = @ \ S, !.kept = @ \ S]
  BY DEF cancelPlayerAutochat, WithoutAutochat
<1> HIDE DEF own, id
<1>2. Sound(c) /\ c \in Client  BY CancelSound DEF IInv
<1> HIDE DEF c, S
<1>3. c.wait \ S \in Waits /\ c.kept \ S \in Waits  BY <1>2, WaitsWithout DEF Client
<1>4. client' \in Client /\ Same(c, client')  BY <1>1, <1>2, <1>3 DEF Client, Same, Steady, Still
<1> QED  BY <1>2, <1>4, SoundSame

LEMMA MenusSound ==
  ASSUME NEW c, Sound(c), NEW menus \in Lines
  PROVE  Sound([c EXCEPT !.menus = menus])
<1> DEFINE d == [c EXCEPT !.menus = menus]
<1>1. c \in Client  BY DEF Sound, Good
<1>2. d \in Client /\ Same(c, d)  BY <1>1 DEF Client, Same, Steady, Still
<1> HIDE DEF d
<1>3. Sound(d)  BY <1>2, SoundSame
<1> QED  BY <1>3 DEF d

LEMMA MediaSound ==
  ASSUME NEW c, Sound(c), NEW media \in Downloads
  PROVE  Sound([c EXCEPT !.media = media])
<1> DEFINE d == [c EXCEPT !.media = media]
<1>1. c \in Client  BY DEF Sound, Good
<1>2. d \in Client /\ Same(c, d)  BY <1>1 DEF Client, Same, Steady, Still
<1> HIDE DEF d
<1>3. Sound(d)  BY <1>2, SoundSame
<1> QED  BY <1>3 DEF d

LEMMA requestMenuDialogueTtsSound ==
  ASSUME IInv, NEW begun \in BOOLEAN, requestMenuDialogueTts(begun)
  PROVE  Sound(client')
<1> DEFINE c == dropPoll(client, begun)
           id == FreshId(c)
           d == enqueue(c, "menu", <<>>)
           line == [state |-> "requesting", clip |-> 0]
           e == [d EXCEPT !.menus = With(@, id, line)]
<1>1. Sound(c)  BY DropPollSound DEF IInv
<1>2. client' = c \/ (CanSend(c) /\ client' = e)  BY Zenon DEF requestMenuDialogueTts, c, d, e, id, line
<1> HIDE DEF c
<1>3. "menu" \in Kinds \ {"poll", "init"} /\ <<>> \in Seq(Datum)  BY DEF Kinds
<1>9. SUFFICES ASSUME CanSend(c), client' = e PROVE Sound(e)  BY <1>1, <1>2
<1>4. Sound(d) /\ d \in Client /\ id \in Nat  BY <1>1, <1>3, <1>9, RequestSound DEF IInv
<1>5. line \in [state : Phases, clip : Clips \cup {0}]  BY DEF Phases
<1> HIDE DEF d, id, line
<1>6. d.menus \in Tables(Nat, [state : Phases, clip : Clips \cup {0}])  BY <1>4 DEF Client, Lines
<1>7. With(d.menus, id, line) \in Lines  BY <1>4, <1>5, <1>6, TableWith DEF Lines
<1>8. Sound(e)  BY <1>4, <1>7, MenusSound
<1> QED  BY <1>8

(* The line goes, and with the last one its clip.                          *)
LEMMA cancelMenuDialogueTtsSound ==
  ASSUME IInv, NEW begun \in BOOLEAN, cancelMenuDialogueTts(begun)
  PROVE  Sound(client')
<1>1. PICK x \in DOMAIN client.menus : client' = WithoutMenu(client, x, begun)
  BY DEF cancelMenuDialogueTts
<1> DEFINE clip == client.menus[x].clip
           id == IF client.menus[x].state = "requesting" THEN x ELSE 0
           c == cancel(client, id, begun)
           e == [c EXCEPT !.menus = Without(@, {x})]
           f == cancel(e, e.media[clip].id, begun)
           g == [f EXCEPT !.media = Without(@, {clip})]
<1>2. client' \in {e, g}  BY <1>1, Zenon DEF WithoutMenu, clip, id, c, e, f, g
<1> HIDE DEF id, clip
<1>3. Sound(c)  BY CancelSound DEF IInv
<1> HIDE DEF c
<1>4. c.menus \in Tables(Nat, [state : Phases, clip : Clips \cup {0}])
  BY <1>3 DEF Sound, Good, Client, Lines
<1>5. Without(c.menus, {x}) \in Lines  BY <1>4, TableWithout DEF Lines
<1>6. Sound(e)  BY <1>3, <1>5, MenusSound
<1> HIDE DEF e
<1>7. Sound(f)  BY <1>6, CancelSound
<1> HIDE DEF f
<1>8. f.media \in Tables(Clips, [state : Phases, id : Nat])  BY <1>7 DEF Sound, Good, Client, Downloads
<1>9. Without(f.media, {clip}) \in Downloads  BY <1>8, TableWithout DEF Downloads
<1>10. Sound(g)  BY <1>7, <1>9, MediaSound
<1> HIDE DEF g
<1> QED  BY <1>2, <1>6, <1>10

LEMMA prepareMediaSound ==
  ASSUME IInv, prepareMedia
  PROVE  Sound(client')
<1> DEFINE id == FreshId(client)
<1>1. PICK clip \in SpeechClips :
        client' = [enqueue(client, "media", <<clip>>) EXCEPT
                     !.media = With(@, clip, [state |-> "preparing", id |-> id])]
  BY Zenon DEF prepareMedia
<1> DEFINE d == enqueue(client, "media", <<clip>>)
           row == [state |-> "preparing", id |-> id]
<1>2. "media" \in Kinds \ {"poll", "init"} /\ <<clip>> \in Seq(Datum) /\ clip \in Clips
  BY DEF Kinds, Datum, Clips
<1>3. Sound(d) /\ id \in Nat  BY <1>2, RequestSound DEF IInv, prepareMedia, ByScript
<1>4. row \in [state : Phases, id : Nat]  BY <1>3 DEF Phases
<1>5. client' = [d EXCEPT !.media = With(d.media, clip, row)]  BY <1>1
<1> HIDE DEF d, row
<1>6. d.media \in Tables(Clips, [state : Phases, id : Nat])  BY <1>3 DEF Sound, Good, Client, Downloads
<1>7. With(d.media, clip, row) \in Downloads  BY <1>2, <1>4, <1>6, TableWith DEF Downloads
<1> QED  BY <1>3, <1>5, <1>7, MediaSound

LEMMA releaseMediaSound ==
  ASSUME IInv, NEW begun \in BOOLEAN, releaseMedia(begun)
  PROVE  Sound(client')
<1>1. PICK clip : client' = Released(client, clip, begun)
  BY Zenon DEF releaseMedia, releaseSpeech, releaseMenuClip
<1> DEFINE d == cancel(client, client.media[clip].id, begun)
           e == [d EXCEPT !.media = Without(d.media, {clip})]
<1>2. Sound(d) /\ Sound(client)  BY CancelSound DEF IInv
<1>3. client' \in {client, e}  BY <1>1, Zenon DEF Released, d, e
<1> HIDE DEF d
<1>4. d.media \in Tables(Clips, [state : Phases, id : Nat])  BY <1>2 DEF Sound, Good, Client, Downloads
<1>5. Without(d.media, {clip}) \in Downloads  BY <1>4, TableWithout DEF Downloads
<1>6. Sound(e)  BY <1>2, <1>5, MediaSound
<1> HIDE DEF e
<1> QED  BY <1>2, <1>3, <1>6

(* A character that is chosen begins the handshake.                        *)
LEMMA ConfiguredSound ==
  ASSUME NEW c, Sound(c), Gone \in FiniteSubsets(Nat)
  PROVE  Sound(Configured(c))
<1>1. ASSUME NEW d, Sound(d), NEW status \in Statuses PROVE Sound([d EXCEPT !.status = status])
  <2> DEFINE e == [d EXCEPT !.status = status]
  <2>1. e \in Client /\ Same(d, e)  BY <1>1 DEF Sound, Good, Client, Same, Steady, Still
  <2> HIDE DEF e
  <2>2. Sound(e)  BY <1>1, <2>1, SoundSame
  <2> QED  BY <2>2 DEF e
<1>2. Sound([c EXCEPT !.status = "waiting_identity"])
  <2>1. "waiting_identity" \in Statuses  BY DEF Statuses
  <2> QED  BY <1>1, <2>1
<1>3. ASSUME c.session = 0 PROVE Sound([beginSession(c) EXCEPT !.status = "connecting"])
  <2> DEFINE d == beginSession(c)
  <2>1. Sound(d) /\ "connecting" \in Statuses  BY <1>3, BeginSound DEF Statuses
  <2> HIDE DEF d
  <2>2. Sound([d EXCEPT !.status = "connecting"])  BY <1>1, <2>1
  <2> QED  BY <2>2 DEF d
<1> QED  BY <1>2, <1>3 DEF Configured

LEMMA prepareSound ==
  ASSUME IInv, prepare
  PROVE  Sound(client')
<1> DEFINE d == [client EXCEPT !.prepared = TRUE, !.bound = TRUE]
<1>1. Sound(client) /\ client \in Client  BY DEF IInv, Sound, Good
<1>2. d \in Client /\ Same(client, d)  BY <1>1 DEF Client, Same, Steady, Still
<1>3. client' = Configured(d)  BY DEF prepare
<1> HIDE DEF d
<1> QED  BY <1>1, <1>2, <1>3, SoundSame, ConfiguredSound DEF IInv

LEMMA RechosenSound ==
  ASSUME IInv, choose
  PROVE  LET d == [client EXCEPT !.bound = TRUE, !.snapshot = NoSnapshot, !.attempts = 0,
                                 !.retry = FALSE, !.rejected = FALSE] IN
           Sound(d) /\ client' = Configured(d)
<1> DEFINE d == [client EXCEPT !.bound = TRUE, !.snapshot = NoSnapshot, !.attempts = 0,
                               !.retry = FALSE, !.rejected = FALSE]
<1>1. Sound(client) /\ client \in Client  BY DEF IInv, Sound, Good
<1>2. NoSnapshot \in [key : Nat, loaded : BOOLEAN]  BY DEF NoSnapshot
<1>3. /\ d \in Client /\ d.session = client.session /\ d.cursor = client.cursor
      /\ d.seen = client.seen /\ d.poll = client.poll /\ d.init = client.init /\ d.retry = FALSE
      /\ d.waiting = client.waiting /\ d.out = client.out /\ d.inbound = client.inbound
      /\ d.deferred = client.deferred
      /\ d.gen = client.gen /\ d.halted = client.halted /\ d.made = client.made /\ d.snapshot.key = 0
      /\ d.loaded = client.loaded /\ ~d.rejected
  BY <1>1, <1>2 DEF Client, NoSnapshot
<1>4. client' = Configured(d)  BY DEF choose
<1> HIDE DEF d
<1>7. PollsOfSession(client)  BY <1>1 DEF Sound, Good
<1>5. PollsOfSession(d)  BY <1>3, <1>7 DEF PollsOfSession
<1>8. Good(d)  BY <1>1, <1>3, <1>5, GoodWith DEF Sound
<1>9. client.rejected /\ client.init = 0 /\ Opens(client, server, loads)  BY <1>1 DEF choose, Sound
<1>10. ~AskedNow(client)
  <2>1. client.out \in Seq(Request)  BY <1>1 DEF Client
  <2>2. \A i \in DOMAIN client.out : client.out[i].id # 0  BY <2>1, IdsOfRequests
  <2> QED  BY <1>9, <2>2 DEF Opens, AsksSound, AskedNow, Inits
<1>11. ClientSound(d, server, loads)
  <2>1. ClientSound(client, server, loads)  BY <1>9 DEF Opens
  <2> QED  BY <1>3, <1>9, <2>1 DEF ClientSound
<1>12. Opens(d, server, loads)  BY <1>1, <1>3, <1>9, <1>10, <1>11, OpensOver
<1>13. Fits(d)  BY <1>1, <1>3 DEF Sound, Fits
<1>6. Sound(d)  BY <1>8, <1>12, <1>13 DEF Sound
<1> QED  BY <1>4, <1>6 DEF d

LEMMA chooseSound ==
  ASSUME IInv, choose
  PROVE  Sound(client')
BY RechosenSound, ConfiguredSound DEF IInv

LEMMA finishLoadedSaveSound ==
  ASSUME IInv, finishLoadedSave
  PROVE  Sound(client')
<1> DEFINE d == [client EXCEPT !.waiting = FALSE]
<1>1. Sound(client) /\ client \in Client  BY DEF IInv, Sound, Good
<1>2. client.session = 0  BY <1>1 DEF finishLoadedSave, Sound, Good, PollsOfSession
<1>3. /\ d \in Client /\ d.session = 0 /\ d.cursor = client.cursor
      /\ d.seen = client.seen /\ d.poll = client.poll /\ d.init = client.init
      /\ d.retry = client.retry /\ d.waiting = FALSE /\ d.out = client.out
      /\ d.inbound = client.inbound /\ d.deferred = client.deferred /\ Steady(client, d)
  BY <1>1, <1>2 DEF Client, Steady, Still
<1>4. client' = beginSession(d)  BY DEF finishLoadedSave
<1> HIDE DEF d
<1>5. PollsOfSession(d)  BY <1>1, <1>2, <1>3 DEF Sound, Good, PollsOfSession
<1>7. Good(d)  BY <1>1, <1>3, <1>5, GoodWith DEF Sound
<1>6. Sound(d)  BY <1>1, <1>3, <1>7, SoundSteady
<1> QED  BY <1>3, <1>4, <1>6, BeginSound DEF IInv

LEMMA pumpSound ==
  ASSUME IInv, NEW kind, pump(kind)
  PROVE  Sound(client')
BY PumpedSound DEF IInv, pump

LEMMA pumpDispositionResultSound ==
  ASSUME IInv, pumpDispositionResult
  PROVE  Sound(client')
<1> DEFINE c == Pumped(client, "disposition")
<1>1. PICK w : client' = [c EXCEPT !.kept = @ \ {w}]  BY Zenon DEF pumpDispositionResult
<1>2. Sound(c)  BY PumpedSound DEF IInv
<1> HIDE DEF c
<1>3. c \in Client /\ c.kept \ {w} \in Waits  BY <1>2, WaitsWithout DEF Sound, Good, Client
<1>4. client' \in Client /\ Same(c, client')  BY <1>1, <1>3 DEF Client, Same, Steady, Still
<1> QED  BY <1>2, <1>4, SoundSame

LEMMA haltSound ==
  ASSUME IInv, halt
  PROVE  Sound(client')
<1> DEFINE wait == {w \in client.wait : w[1] # "turn"}
           gen == client.gen + 1
<1>1. Sound(client) /\ client \in Client  BY DEF IInv, Sound, Good
<1>2. wait \in Waits
  <2>1. wait = client.wait \ {w \in client.wait : w[1] = "turn"} /\ client.wait \in Waits
    BY <1>1 DEF Client
  <2> QED  BY <2>1, WaitsWithout
<1>3. <<>> \in Seq(Request) /\ <<>> \in Seq(Response) /\ "halted" \in Statuses  BY DEF Statuses
<1>4. client' = [client EXCEPT !.halted = TRUE, !.gen = gen, !.out = <<>>, !.inbound = <<>>,
                               !.wait = wait, !.latest = 0, !.status = "halted"]
  BY DEF halt
<1>7. gen \in Nat  BY <1>1 DEF Client
<1> HIDE DEF wait, gen
<1>5. /\ client' \in Client /\ client'.session = client.session /\ client'.cursor = client.cursor
      /\ client'.seen = client.seen /\ client'.poll = client.poll /\ client'.init = client.init
      /\ client'.retry = client.retry /\ client'.waiting = client.waiting
      /\ client'.out = <<>> /\ client'.inbound = <<>> /\ client'.deferred = client.deferred
      /\ client'.gen = gen /\ client'.halted /\ client'.snapshot = client.snapshot
      /\ client'.made = client.made /\ client'.loaded = client.loaded
      /\ client'.rejected = client.rejected
  BY <1>1, <1>2, <1>3, <1>4, <1>7 DEF Client
<1>6. PollsOfSession(client')  BY <1>1, <1>5 DEF Sound, Good, PollsOfSession
<1>8. Good(client')  BY <1>1, <1>5, <1>6, GoodStays DEF Sound
<1>9. gen = client.gen + 1 /\ Opens(client, server, loads)  BY <1>1 DEF gen, Sound
<1>10. Opens(client', server, loads)  BY <1>1, <1>5, <1>9, OpensHalt
<1>11. gen \in 1..(MaxGenerations + 1)
  <2>1. client.gen <= MaxGenerations /\ client.gen \in Nat /\ MaxGenerations \in Nat
    BY <1>1, CapacityAssumption DEF halt, Sound, Fits, Client
  <2> QED  BY <1>9, <2>1
<1>12. Len(client'.out) = 0 /\ Len(client'.inbound) = 0  BY <1>5
<1>13. Fits(client')  BY <1>1, <1>5, <1>11, <1>12, CapacityAssumption DEF Sound, Fits
<1> QED  BY <1>8, <1>10, <1>13 DEF Sound

(* The client of a fresh process.                                          *)
LEMMA FreshType == Fresh0 \in Client
<1>1. DOMAIN <<>> = {} /\ IsFiniteSet({})  BY FS_EmptySet
<1>2. <<>> \in Tables(Nat, [state : Phases, clip : Clips \cup {0}])
  <2>1. <<>> \in [{} -> [state : Phases, clip : Clips \cup {0}]]  OBVIOUS
  <2> QED  BY <1>1, <2>1 DEF Tables, FiniteSubsets
<1>3. <<>> \in Tables(Clips, [state : Phases, id : Nat])
  <2>1. <<>> \in [{} -> [state : Phases, id : Nat]]  OBVIOUS
  <2> QED  BY <1>1, <2>1 DEF Tables, FiniteSubsets
<1>4. {} \in Waits  BY FS_EmptySet DEF Waits, FiniteSubsets
<1>5. "waiting_identity" \in Statuses /\ NoSnapshot \in [key : Nat, loaded : BOOLEAN]
  BY DEF Statuses, NoSnapshot
<1>6. <<>> \in Seq(Nat) /\ <<>> \in Seq(Request) /\ <<>> \in Seq(Response)  OBVIOUS
<1> QED  BY <1>2, <1>3, <1>4, <1>5, <1>6 DEF Fresh0, Client, Lines, Downloads

(* A fence leaves nothing of the generation but the downloads and what the *)
(* handshake made; the next handshake begins, unless a calendar is read.   *)
LEMMA cancelGenerationSound ==
  ASSUME IInv, NEW kind, NEW begun \in BOOLEAN, cancelGeneration(kind, begun)
  PROVE  /\ Good(client') /\ Fits(client') /\ Opens(client', server, loads')
         /\ Gone' \in FiniteSubsets(Nat)
<1> DEFINE c == client
           loadedSave == kind = "load"
           identityChange == kind # "interrupt"
           running == c.out # <<>> /\ (c.out[1].gen # c.gen \/ (begun /\ ~c.out[1].cancelled))
           menuClips == {c.menus[x].clip : x \in DOMAIN c.menus}
           media == Without(c.media, menuClips)
           out == IF running THEN <<[c.out[1] EXCEPT !.cancelled = TRUE]>> ELSE <<>>
           inbound == Part(c.inbound, {i \in DOMAIN c.inbound : c.inbound[i].gen # c.gen})
           prepared == c.prepared /\ ~identityChange
           bound == c.bound /\ ~identityChange
           rejected == c.rejected /\ ~identityChange
           gen == c.gen + 1
           d == [Fresh0 EXCEPT
                   !.gen = gen, !.made = c.made, !.seen = c.seen, !.cursor = c.cursor,
                   !.prepared = prepared, !.bound = bound, !.rejected = rejected,
                   !.loaded = loadedSave, !.waiting = loadedSave,
                   !.media = media, !.out = out, !.inbound = inbound]
           e == beginSession(d)
           status == IF selected(e) THEN "connecting" ELSE "waiting_identity"
<1>1. Sound(c) /\ Good(c) /\ c \in Client /\ c.gen \in Nat /\ Gone \in FiniteSubsets(Nat)
  BY DEF IInv, Sound, Good, Client
<1>2. /\ client' = [e EXCEPT !.status = status]
      /\ Gone' = {d.media[m].id : m \in DOMAIN d.media} \ {0}
  BY DEF cancelGeneration, Gone
<1>3. media \in Downloads
  <2>1. c.media \in Tables(Clips, [state : Phases, id : Nat])  BY <1>1 DEF Client, Downloads
  <2> QED  BY <2>1, TableWithout DEF Downloads
<1>4. /\ out \in Seq(Request)
      /\ \A i \in DOMAIN out : \E j \in DOMAIN c.out :
           /\ out[i].kind = c.out[j].kind /\ out[i].id = c.out[j].id /\ out[i].data = c.out[j].data
           /\ out[i].gen = c.out[j].gen
      /\ Len(out) <= 1 /\ (c.out = <<>> => out = <<>>)
  <2>1. CASE running
    <3> DEFINE q == [c.out[1] EXCEPT !.cancelled = TRUE]
    <3>1. c.out \in Seq(Request) /\ c.out # <<>>  BY <1>1, <2>1 DEF Client
    <3>2. 1 \in DOMAIN c.out /\ c.out[1] \in Request  BY <3>1
    <3>3. /\ q \in Request /\ q.kind = c.out[1].kind /\ q.id = c.out[1].id
          /\ q.data = c.out[1].data /\ q.gen = c.out[1].gen
      BY <3>2 DEF Request
    <3>4. out = <<q>>  BY <2>1
    <3> HIDE DEF q, out
    <3> QED  BY <3>2, <3>3, <3>4
  <2>2. CASE ~running
    <3>1. out = <<>>  BY <2>2
    <3> HIDE DEF out
    <3> QED  BY <3>1
  <2> QED  BY <2>1, <2>2
<1>16. \A i \in DOMAIN out : i = 1 /\ 1 \in DOMAIN c.out
        /\ out[i].kind = c.out[1].kind /\ out[i].id = c.out[1].id
        /\ out[i].data = c.out[1].data /\ out[i].gen = c.out[1].gen
  <2>1. CASE running
    <3> DEFINE q == [c.out[1] EXCEPT !.cancelled = TRUE]
    <3>1. c.out \in Seq(Request) /\ c.out # <<>>  BY <1>1, <2>1 DEF Client
    <3>2. 1 \in DOMAIN c.out /\ c.out[1] \in Request  BY <3>1
    <3>3. /\ q.kind = c.out[1].kind /\ q.id = c.out[1].id
          /\ q.data = c.out[1].data /\ q.gen = c.out[1].gen
      BY <3>2 DEF Request
    <3>4. out = <<q>>  BY <2>1
    <3> HIDE DEF q, out
    <3> QED  BY <3>2, <3>3, <3>4
  <2>2. CASE ~running
    <3>1. out = <<>>  BY <2>2
    <3> HIDE DEF out
    <3> QED  BY <3>1
  <2> QED  BY <2>1, <2>2
<1>5. inbound \in Seq(Response) /\ From(inbound, c.inbound) /\ Len(inbound) <= Len(c.inbound)
  <2>1. c.inbound \in Seq(Response)  BY <1>1 DEF Client
  <2> QED  BY <2>1, PartOf
<1>6. /\ gen \in Nat /\ loadedSave \in BOOLEAN /\ prepared \in BOOLEAN
      /\ bound \in BOOLEAN /\ rejected \in BOOLEAN
  BY <1>1 DEF Client
<1>7. Fresh0 \in Client  BY FreshType
<1> HIDE DEF media, out, inbound, prepared, bound, rejected, gen, loadedSave
<1>8. /\ d \in Client /\ d.session = 0 /\ d.poll = 0 /\ d.init = 0 /\ ~d.retry
      /\ d.cursor = c.cursor /\ d.seen = c.seen /\ d.out = out /\ d.inbound = inbound
      /\ d.deferred = <<>> /\ d.media = media
      /\ d.gen = gen /\ ~d.halted /\ d.made = c.made /\ d.snapshot.key = 0 /\ d.loaded = loadedSave
  <2>1. c.made \in Nat /\ c.seen \in Seq(Nat) /\ c.cursor \in Nat  BY <1>1 DEF Client
  <2>2. d \in Client  BY <1>3, <1>4, <1>5, <1>6, <1>7, <2>1 DEF Client
  <2>3. /\ d.session = 0 /\ d.poll = 0 /\ d.init = 0 /\ ~d.retry
        /\ d.cursor = c.cursor /\ d.seen = c.seen /\ d.out = out /\ d.inbound = inbound
        /\ d.deferred = <<>> /\ d.media = media
        /\ d.gen = gen /\ ~d.halted /\ d.made = c.made /\ d.snapshot.key = 0 /\ d.loaded = loadedSave
    BY DEF Fresh0, NoSnapshot
  <2> QED  BY <2>2, <2>3
<1> HIDE DEF d
<1>9. PollsOfSession(d)  BY <1>8 DEF PollsOfSession
<1>10. Good(d)  BY <1>1, <1>4, <1>5, <1>8, <1>9, GoodStays DEF From
<1>14. gen = c.gen + 1 /\ c.gen < MaxGenerations /\ loads' = IF loadedSave THEN loads \cup {gen} ELSE loads
  BY DEF cancelGeneration, gen, loadedSave
<1>15. Opens(d, server, loads')
  <2> DEFINE m == [i \in DOMAIN d.out |-> 1]
  <2>1. loads \subseteq 1..c.gen /\ Opens(c, server, loads)  BY <1>1 DEF Sound, Opens
  <2>2. d.loaded <=> d.gen \in loads'  BY <1>1, <1>8, <1>14, <2>1
  <2>3. loads' = loads \/ loads' = loads \cup {c.gen + 1}  BY <1>14
  <2>4. Within(d.out, c.out, m)  BY <1>8, <1>16 DEF Within
  <2> HIDE DEF m
  <2> QED  BY <1>1, <1>5, <1>8, <1>14, <2>1, <2>2, <2>3, <2>4, OpensFence DEF From
<1>17. Fits(d)
  <2>1. MaxGenerations \in Nat /\ {OutCap, InCap, DeferCap} \subseteq Nat \ {0}  BY CapacityAssumption
  <2>2. d.gen \in 1..(MaxGenerations + 1) /\ d.gen <= MaxGenerations  BY <1>1, <1>8, <1>14, <2>1
  <2>3. Len(d.out) <= OutCap /\ Len(d.deferred) <= DeferCap  BY <1>4, <1>8, <2>1
  <2>4. Len(inbound) \in Nat /\ Len(c.inbound) \in Nat  BY <1>1, <1>5 DEF Client
  <2>5. Len(d.inbound) <= InCap + 1  BY <1>1, <1>5, <1>8, <2>1, <2>4 DEF Sound, Fits
  <2> QED  BY <2>2, <2>3, <2>5 DEF Fits
<1>11. Good(e) /\ Opens(e, server, loads') /\ Fits(e)
  BY <1>1, <1>8, <1>10, <1>15, <1>17, BeginGood, BeginOpens
<1> HIDE DEF e
<1>12. Good(client') /\ Opens(client', server, loads') /\ Fits(client')
  <2>1. status \in Statuses  BY DEF Statuses
  <2> HIDE DEF status
  <2>2. client' \in Client /\ Same(e, client')
    BY <1>2, <1>11, <2>1 DEF Sound, Good, Client, Same, Steady, Still
  <2>3. Good(client')  BY <1>11, <2>2, GoodSame
  <2> QED  BY <1>11, <2>2, <2>3, OpensSteady DEF Same
<1>13. Gone' \in FiniteSubsets(Nat)
  <2> DEFINE f == [m \in DOMAIN d.media |-> d.media[m].id]
             T == {d.media[m].id : m \in DOMAIN d.media}
  <2>1. IsFiniteSet(DOMAIN d.media) /\ d.media \in [DOMAIN d.media -> [state : Phases, id : Nat]]
    <3>1. d.media \in Tables(Clips, [state : Phases, id : Nat])  BY <1>8 DEF Client, Downloads
    <3> QED  BY <3>1, TableOf
  <2>2. IsFiniteSet({f[m] : m \in DOMAIN f})  BY <2>1, FiniteRange
  <2>3. {f[m] : m \in DOMAIN f} = T  OBVIOUS
  <2>4. T \in SUBSET Nat /\ IsFiniteSet(T)  BY <2>1, <2>2, <2>3
  <2>5. Gone' = T \ {0}  BY <1>2
  <2> HIDE DEF T
  <2>6. IsFiniteSet(T \ {0})  BY <2>4, FS_Difference
  <2> QED  BY <2>4, <2>5, <2>6 DEF FiniteSubsets
<1> QED  BY <1>12, <1>13

(* The result of the request at the head of the queue arrives, or is lost. *)
LEMMA DeliverGood ==
  ASSUME IInv, client.out # <<>>, NEW code \in Codes, NEW data \in Seq(Datum),
         Answered(client, Result(Head(client.out), code, data)),
         Deliver(Head(client.out), code, data)
  PROVE  Good(client') /\ Gone' \in FiniteSubsets(Nat)
<1> DEFINE q == Head(client.out)
           r == Result(q, code, data)
           out == Tail(client.out)
           inbound == Append(client.inbound, r)
<1>1. Good(client) /\ client \in Client  BY DEF IInv, Sound, Good
<1>2. client.out \in Seq(Request) /\ client.inbound \in Seq(Response)  BY <1>1 DEF Client
<1>3. q \in Request /\ out \in Seq(Request)  BY <1>2
<1>4. /\ \A i \in DOMAIN out : i + 1 \in DOMAIN client.out /\ out[i] = client.out[i + 1]
  BY <1>2
<1>5. r \in Response  BY <1>3, ResultType
<1> HIDE DEF r, out
<1>6. /\ inbound \in Seq(Response)
      /\ \A i \in DOMAIN inbound : inbound[i] = r
                                  \/ (i \in DOMAIN client.inbound /\ inbound[i] = client.inbound[i])
  BY <1>2, <1>5
<1> HIDE DEF inbound
<1> DEFINE d == [client EXCEPT !.out = out]
<1>7. /\ d \in Client /\ d.session = client.session /\ d.cursor = client.cursor
      /\ d.seen = client.seen /\ d.poll = client.poll /\ d.init = client.init
      /\ d.retry = client.retry /\ d.waiting = client.waiting /\ d.out = out
      /\ d.inbound = client.inbound /\ d.deferred = client.deferred
  BY <1>1, <1>3 DEF Client
<1>8. Good(d)
  <2> HIDE DEF d
  <2>1. PollsOfSession(d)  BY <1>1, <1>7 DEF Sound, Good, PollsOfSession
  <2> QED  BY <1>1, <1>4, <1>7, <2>1, GoodStays
<1>9. CASE client' = [client EXCEPT !.out = out, !.inbound = inbound] /\ Gone' = Gone
  <2>1. /\ client' \in Client /\ client'.session = d.session /\ client'.cursor = d.cursor
        /\ client'.seen = d.seen /\ client'.poll = d.poll /\ client'.init = d.init
        /\ client'.retry = d.retry /\ client'.waiting = d.waiting /\ client'.out = d.out
        /\ client'.inbound = inbound /\ client'.deferred = d.deferred
    BY <1>1, <1>3, <1>6, <1>9 DEF Client
  <2> HIDE DEF d
  <2>2. PollsOfSession(client')  BY <1>8, <2>1 DEF Sound, Good, PollsOfSession
  <2>3. \A i \in DOMAIN client'.out : Asked(client', client'.out[i])
    BY <1>8, <2>1 DEF Sound, Good, Asked
  <2>4. \A i \in DOMAIN client'.deferred : Answered(client', client'.deferred[i])
    BY <1>8, <2>1 DEF Sound, Good, Answered
  <2>5. \A i \in DOMAIN inbound : Answered(client', inbound[i])
    <3>1. \A i \in DOMAIN client.inbound : Answered(client, client.inbound[i])  BY <1>1 DEF Sound, Good
    <3>2. Answered(client, r)  BY DEF r
    <3>3. \A i \in DOMAIN inbound : Answered(client, inbound[i])  BY <1>6, <3>1, <3>2
    <3>4. client'.poll = client.poll /\ client'.cursor = client.cursor  BY <1>7, <2>1
    <3> QED  BY <3>3, <3>4 DEF Answered
  <2> QED  BY <1>8, <1>9, <2>1, <2>2, <2>3, <2>4, <2>5 DEF Sound, Good, IInv
<1>10. CASE client' = d /\ Gone' = Gone \cup {q.id}
  <2>1. q.id \in Nat  BY <1>3 DEF Request
  <2>2. Gone \in SUBSET Nat /\ IsFiniteSet(Gone)  BY DEF IInv, FiniteSubsets
  <2>3. IsFiniteSet(Gone \cup {q.id})  BY <2>2, FS_AddElement
  <2>4. Gone' \in FiniteSubsets(Nat)  BY <1>10, <2>1, <2>2, <2>3 DEF FiniteSubsets
  <2> QED  BY <1>8, <1>10, <2>4
<1> QED  BY <1>9, <1>10 DEF Deliver, Gone, r, out, inbound

LEMMA DeliverSound ==
  ASSUME IInv, client.out # <<>>, NEW code \in Codes, NEW data \in Seq(Datum),
         Answered(client, Result(Head(client.out), code, data)),
         NEW S, Opens(client, S, loads),
         Truthful(S, Result(Head(client.out), code, data)),
         Head(client.out).kind = "init" /\ code = "reject" => ~OpenedIn(S, Head(client.out).gen),
         Deliver(Head(client.out), code, data)
  PROVE  /\ Good(client') /\ Fits(client') /\ Opens(client', S, loads)
         /\ Gone' \in FiniteSubsets(Nat)
<1> DEFINE q == Head(client.out)
           r == Result(q, code, data)
           new == IF Len(client.inbound) < InCap THEN Append(client.inbound, r) ELSE client.inbound
<1>1. Good(client') /\ Gone' \in FiniteSubsets(Nat)  BY DeliverGood
<1>2. client \in Client /\ client.out \in Seq(Request) /\ client.inbound \in Seq(Response)
  BY DEF IInv, Sound, Good, Client
<1>3. q = client.out[1]  BY <1>2
<1>4. r.id = q.id /\ r.kind = q.kind /\ r.gen = q.gen /\ r.code = code  BY DEF Result
<1>5. client' = [client EXCEPT !.out = Tail(client.out), !.inbound = new]
  BY <1>2 DEF Deliver, Client
<1>6. Truthful(S, r)  OBVIOUS
<1> HIDE DEF q, r
<1>7. Len(client.inbound) \in Nat /\ InCap \in Nat /\ Len(client.inbound) <= InCap + 1
  BY <1>2, CapacityAssumption DEF IInv, Sound, Fits
<1>8. /\ Len(new) <= InCap + 1
      /\ \A i \in DOMAIN new : new[i] = r \/ \E j \in DOMAIN client.inbound : new[i] = client.inbound[j]
  <2>1. /\ Len(Append(client.inbound, r)) = Len(client.inbound) + 1
        /\ \A i \in DOMAIN Append(client.inbound, r) :
             Append(client.inbound, r)[i] = r \/ (i \in DOMAIN client.inbound /\ Append(client.inbound, r)[i] = client.inbound[i])
    BY <1>2
  <2> QED  BY <1>7, <2>1
<1> HIDE DEF new
<1>9. /\ Still(client, client') /\ client'.out = Tail(client.out) /\ client'.inbound = new
      /\ client'.deferred = client.deferred
  BY <1>2, <1>5 DEF Client, Still
<1>10. r.kind = "init" /\ r.code = "reject" => ~OpenedIn(S, r.gen)  BY <1>4 DEF q
<1>11. Opens(client', S, loads)  BY <1>2, <1>3, <1>4, <1>6, <1>8, <1>9, <1>10, OpensHead
<1>12. Len(client'.out) <= Len(client.out) /\ Len(client'.out) \in Nat /\ Len(client.out) \in Nat
  BY <1>2, <1>9
<1>13. Fits(client')
  <2>1. Fits(client) /\ OutCap \in Nat  BY CapacityAssumption DEF IInv, Sound
  <2>2. Len(client'.out) <= OutCap  BY <1>12, <2>1 DEF Fits
  <2> QED  BY <1>8, <1>9, <2>1, <2>2 DEF Fits, Still
<1> QED  BY <1>1, <1>11, <1>13

(* The server opens a session for a key, once.                             *)
LEMMA OpenOpens ==
  ASSUME IInv, client.out # <<>>, Head(client.out).kind = "init"
  PROVE  LET q == Head(client.out) IN
         /\ Opens(client, Open(q), loads)
         /\ \E j \in DOMAIN Open(q) : Open(q)[j].key = q.data[1] /\ Open(q)[j].gen = q.gen
         /\ ~Opened(q) => ~OpenedIn(server, q.gen)
<1> DEFINE q == Head(client.out)
           s == [key |-> q.data[1], gen |-> q.gen, loaded |-> q.data[2], events |-> 0]
           C == Known(server) \cup Sent(client) \cup Chosen(client)
           a == Claim(q.data[1], q.gen, q.data[2])
<1>1. /\ client \in Client /\ client.out \in Seq(Request) /\ server \in Seq(Session)
      /\ Opens(client, server, loads)
  BY DEF IInv, Sound, Good, Client, Sessions
<1>2. q = client.out[1] /\ 1 \in DOMAIN client.out /\ q \in Request  BY <1>1
<1>3. 1 \in Inits(client) /\ q.id # 0
  <2>1. q.id # 0  BY <1>2 DEF Request
  <2> QED  BY <1>2, <2>1 DEF Inits
<1>4. a \in Sent(client)  BY <1>2, <1>3 DEF Sent
<1>5. Agree(C, client.made, client.gen, loads)  BY <1>1 DEF Opens
<1>6. s.key = q.data[1] /\ s.gen = q.gen /\ s.loaded = q.data[2]  OBVIOUS
<1>7. a.key = q.data[1] /\ a.gen = q.gen  BY DEF Claim
<1>8. ASSUME NEW j \in DOMAIN server PROVE server[j].key = q.data[1] <=> server[j].gen = q.gen
  <2> DEFINE b == Claim(server[j].key, server[j].gen, server[j].loaded)
  <2>1. b \in C /\ a \in C  BY <1>4 DEF Known
  <2>2. b.key = server[j].key /\ b.gen = server[j].gen  BY DEF Claim
  <2> HIDE DEF a, b, C, q
  <2> QED  BY <1>5, <1>7, <2>1, <2>2 DEF Agree
<1> HIDE DEF q, s, a, C
<1>9. CASE Opened(q)
  <2>1. Open(q) = server  BY <1>9 DEF Open
  <2>2. PICK j \in DOMAIN server : server[j].key = q.data[1]  BY <1>9 DEF Opened
  <2> QED  BY <1>1, <1>8, <1>9, <2>1, <2>2 DEF q
<1>10. CASE ~Opened(q)
  <2>1. Open(q) = Append(server, s)  BY <1>10 DEF Open, s
  <2>2. \A j \in DOMAIN server : server[j].key # client.out[1].data[1]  BY <1>2, <1>10 DEF Opened
  <2>3. Opens(client, Open(q), loads)  BY <1>1, <1>2, <1>3, <1>6, <2>1, <2>2, OpensOpen
  <2>4. Len(server) + 1 \in DOMAIN Open(q) /\ Open(q)[Len(server) + 1] = s  BY <1>1, <2>1
  <2>5. ~OpenedIn(server, q.gen)  BY <1>8, <1>10 DEF OpenedIn, Opened
  <2> QED  BY <1>6, <2>3, <2>4, <2>5 DEF q
<1> QED  BY <1>9, <1>10

LEMMA OpenType ==
  ASSUME IInv, client.out # <<>>, Head(client.out).kind = "init"
  PROVE  Open(Head(client.out)) \in Sessions
<1> DEFINE q == Head(client.out)
           s == [key |-> q.data[1], gen |-> q.gen, loaded |-> q.data[2], events |-> 0]
<1>1. client.out \in Seq(Request) /\ server \in Sessions  BY DEF IInv, Sound, Good, Client
<1>2. q \in Request /\ q = client.out[1] /\ 1 \in DOMAIN client.out  BY <1>1
<1>3. Asked(client, q)  BY <1>2 DEF IInv, Sound, Good
<1>4. q.data[1] \in Nat /\ q.data[2] \in BOOLEAN /\ q.gen \in Nat  BY <1>2, <1>3 DEF Asked, Request
<1> HIDE DEF q
<1>8. 0 \in 0..MaxEvents  BY CapacityAssumption
<1>5. s \in Session  BY <1>4, <1>8 DEF Session
<1>6. Open(q) \in {server, Append(server, s)}  BY DEF Open
<1> HIDE DEF s
<1>7. Append(server, s) \in Sessions  BY <1>1, <1>5 DEF Sessions
<1> QED  BY <1>1, <1>6, <1>7 DEF q

LEMMA FinishInitSound ==
  ASSUME IInv, FinishInit
  PROVE  IInv'
<1> DEFINE q == Head(client.out)
<1>1. client.out \in Seq(Request)  BY DEF IInv, Sound, Good, Client
<1>2. client.out # <<>> /\ q.kind = "init" /\ q = client.out[1] /\ 1 \in DOMAIN client.out
  BY <1>1 DEF FinishInit, Head1
<1>3. q \in Request /\ Asked(client, q)  BY <1>1, <1>2 DEF IInv, Sound, Good
<1>4. q.data[1] \in Nat  BY <1>2, <1>3 DEF Asked
<1>5. Open(q) \in Sessions /\ server \in Sessions  BY <1>2, OpenType DEF IInv
<1>6. \/ server' = Open(q) /\ Deliver(q, "ok", <<q.data[1]>>)
      \/ server' = Open(q) /\ Deliver(q, "retry", <<>>)
      \/ \E code \in Failures : (code = "retry" \/ ~Opened(q)) /\ server' = server /\ Deliver(q, code, <<>>)
  BY DEF FinishInit
<1>7. /\ <<q.data[1]>> \in Seq(Datum) /\ <<>> \in Seq(Datum)
      /\ {"ok", "retry"} \cup Failures \subseteq Codes /\ "ok" \notin Failures /\ "retry" \in Failures
  BY <1>4 DEF Datum, Codes, Failures
<1>8. /\ Answered(client, Result(q, "ok", <<q.data[1]>>))
      /\ Result(q, "ok", <<q.data[1]>>).gen = q.gen /\ Result(q, "ok", <<q.data[1]>>).data[1] = q.data[1]
  BY <1>2, <1>4 DEF Answered, Result
<1>9. \A code \in Failures : Answered(client, Result(q, code, <<>>)) /\ \A S : Truthful(S, Result(q, code, <<>>))
  BY DEF Answered, Truthful, Result, Failures
<1>10. /\ Opens(client, Open(q), loads) /\ Opens(client, server, loads)
       /\ \E j \in DOMAIN Open(q) : Open(q)[j].key = q.data[1] /\ Open(q)[j].gen = q.gen
       /\ ~Opened(q) => ~OpenedIn(server, q.gen)
  BY <1>2, OpenOpens DEF IInv, Sound
<1> HIDE DEF q
<1>11. server' \in Sessions /\ loads' = loads  BY <1>5, <1>6 DEF FinishInit
<1>12. /\ Good(client') /\ Fits(client') /\ Opens(client', server', loads)
       /\ Gone' \in FiniteSubsets(Nat)
  <2>1. CASE server' = Open(q) /\ Deliver(q, "ok", <<q.data[1]>>)
    <3>1. Truthful(Open(q), Result(q, "ok", <<q.data[1]>>))  BY <1>8, <1>10 DEF Truthful
    <3> QED  BY <1>2, <1>7, <1>8, <1>10, <2>1, <3>1, DeliverSound DEF q
  <2>2. CASE server' = Open(q) /\ Deliver(q, "retry", <<>>)
    BY <1>2, <1>7, <1>9, <1>10, <2>2, DeliverSound DEF q
  <2>3. CASE \E code \in Failures : (code = "retry" \/ ~Opened(q)) /\ server' = server /\ Deliver(q, code, <<>>)
    <3>1. PICK code \in Failures : (code = "retry" \/ ~Opened(q)) /\ server' = server /\ Deliver(q, code, <<>>)
      BY <2>3
    <3>2. code \in Codes  BY <1>7
    <3> QED  BY <1>2, <1>7, <1>9, <1>10, <3>1, <3>2, DeliverSound DEF q
  <2> QED  BY <1>6, <2>1, <2>2, <2>3
<1> QED  BY <1>11, <1>12 DEF IInv, Sound

LEMMA FinishPollOkSound ==
  ASSUME IInv, FinishPollOk
  PROVE  IInv'
<1> DEFINE q == Head(client.out)
<1>1. client.out \in Seq(Request) /\ server \in Sessions  BY DEF IInv, Sound, Good, Client
<1>2. client.out # <<>> /\ q.kind = "poll" /\ q = client.out[1] /\ 1 \in DOMAIN client.out
  BY <1>1 DEF FinishPollOk, Head1
<1>3. q \in Request /\ Asked(client, q)  BY <1>1, <1>2 DEF IInv, Sound, Good
<1>4. q.data[1] \in Nat /\ (q.id = client.poll => q.data[1] = client.cursor)
  BY <1>2, <1>3 DEF Asked
<1>12. PICK i \in DOMAIN server : \E upto \in q.data[1]..server[i].events :
        Deliver(q, "ok", <<q.data[1], upto>>)
  BY DEF FinishPollOk
<1>5. PICK upto \in q.data[1]..server[i].events : Deliver(q, "ok", <<q.data[1], upto>>)
  BY <1>12
<1> HIDE DEF q
<1>13. server[i] \in Session  BY <1>1 DEF Sessions
<1>6. server[i].events \in 0..MaxEvents /\ MaxEvents \in Nat  BY <1>13, CapacityAssumption DEF Session
<1>7. upto \in 0..MaxEvents /\ q.data[1] <= upto  BY <1>4, <1>6
<1> DEFINE data == <<q.data[1], upto>>
<1>8. data \in Seq(Datum) /\ data[1] = q.data[1] /\ data[2] = upto /\ "ok" \in Codes
  BY <1>4, <1>6, <1>7 DEF Datum, Codes
<1> HIDE DEF data
<1>9. Answered(client, Result(q, "ok", data))  BY <1>2, <1>4, <1>7, <1>8 DEF Answered, Result
<1>14. Truthful(server, Result(q, "ok", data)) /\ Opens(client, server, loads)
  BY <1>2 DEF Truthful, Result, IInv, Sound
<1>10. /\ Good(client') /\ Fits(client') /\ Opens(client', server, loads)
       /\ Gone' \in FiniteSubsets(Nat)
  BY <1>2, <1>5, <1>8, <1>9, <1>14, DeliverSound DEF q, data
<1>11. server' = server /\ loads' = loads  BY DEF FinishPollOk
<1> QED  BY <1>1, <1>10, <1>11 DEF IInv, Sound

LEMMA FinishOtherSound ==
  ASSUME IInv, FinishOther
  PROVE  IInv'
<1> DEFINE q == Head(client.out)
<1>1. client.out \in Seq(Request) /\ server \in Sessions  BY DEF IInv, Sound, Good, Client
<1>2. client.out # <<>> /\ q \in Request  BY <1>1 DEF FinishOther
<1>3. \/ Deliver(q, "retry", <<>>)
      \/ q.kind = "menu" /\ \E clip \in MenuClips : Deliver(q, "ok", <<clip>>)
      \/ q.kind \notin {"init", "poll", "menu"} /\ Deliver(q, "ok", q.data)
  BY DEF FinishOther
<1>4. server' = server /\ loads' = loads  BY DEF FinishOther
<1>5. q.data \in Seq(Datum) /\ <<>> \in Seq(Datum) /\ {"ok", "retry"} \subseteq Codes
  BY <1>2 DEF Request, Codes
<1>6. Answered(client, Result(q, "retry", <<>>)) /\ Truthful(server, Result(q, "retry", <<>>))
  BY DEF Answered, Truthful, Result
<1>7. q.kind \notin {"init", "poll", "menu"} =>
        Answered(client, Result(q, "ok", q.data)) /\ Truthful(server, Result(q, "ok", q.data))
  BY DEF Answered, Truthful, Result
<1>9. Opens(client, server, loads)  BY DEF IInv, Sound
<1> HIDE DEF q
<1>8. /\ Good(client') /\ Fits(client') /\ Opens(client', server, loads)
      /\ Gone' \in FiniteSubsets(Nat)
  <2>1. CASE Deliver(q, "retry", <<>>)
    BY <1>2, <1>5, <1>6, <1>9, <2>1, DeliverSound DEF q
  <2>2. CASE q.kind = "menu" /\ \E clip \in MenuClips : Deliver(q, "ok", <<clip>>)
    <3>1. PICK clip \in MenuClips : Deliver(q, "ok", <<clip>>)  BY <2>2
    <3> DEFINE data == <<clip>>
    <3>2. data \in Seq(Datum) /\ data[1] = clip  BY DEF Datum, Clips
    <3> HIDE DEF data
    <3>3. Answered(client, Result(q, "ok", data)) /\ Truthful(server, Result(q, "ok", data))
      BY <2>2, <3>2 DEF Answered, Truthful, Result
    <3> QED  BY <1>2, <1>5, <1>9, <3>1, <3>2, <3>3, DeliverSound DEF q, data
  <2>3. CASE q.kind \notin {"init", "poll", "menu"} /\ Deliver(q, "ok", q.data)
    BY <1>2, <1>5, <1>7, <1>9, <2>3, DeliverSound DEF q
  <2> QED  BY <1>3, <2>1, <2>2, <2>3
<1> QED  BY <1>1, <1>4, <1>8 DEF IInv, Sound

LEMMA FinishCancelledSound ==
  ASSUME IInv, FinishCancelled
  PROVE  IInv'
<1> DEFINE q == Head(client.out)
           r == Result(q, "cancelled", <<>>)
           out == Tail(client.out)
           d == [client EXCEPT !.out = out]
           inbound == IF Len(client.inbound) > InCap THEN client.inbound ELSE Append(client.inbound, r)
<1>1. Good(client) /\ client \in Client /\ client.out \in Seq(Request) /\ server \in Sessions
      /\ client.inbound \in Seq(Response)
  BY DEF IInv, Sound, Good, Client
<1>2. client.out # <<>> /\ q \in Request /\ out \in Seq(Request)  BY <1>1 DEF FinishCancelled
<1>3. \A i \in DOMAIN out : i + 1 \in DOMAIN client.out /\ out[i] = client.out[i + 1]  BY <1>1, <1>2
<1>4. "cancelled" \in Codes /\ <<>> \in Seq(Datum)  BY DEF Codes
<1>5. r \in Response /\ r.code = "cancelled"  BY <1>2, <1>4, ResultType, Zenon
<1>12. /\ r.id = q.id /\ r.kind = q.kind /\ r.gen = q.gen /\ q = client.out[1]
       /\ out = Tail(client.out)
  BY <1>1, <1>2 DEF Result
<1>6. server' \in Sessions
  <2>1. server' \in (IF q.kind = "init" THEN {server, Open(q)} ELSE {server})
    BY DEF FinishCancelled
  <2>2. q.kind = "init" => Open(q) \in Sessions  BY <1>2, OpenType
  <2> QED  BY <1>1, <2>1, <2>2
<1>7. client' = [client EXCEPT !.out = out, !.inbound = inbound] /\ Gone' = Gone
  <2>1. client' = publishCancelled(d, q) /\ Gone' = Gone  BY DEF FinishCancelled, Gone
  <2>2. d.inbound = client.inbound  BY <1>1 DEF Client
  <2>3. d = [client EXCEPT !.out = out, !.inbound = client.inbound]  BY <1>1 DEF Client
  <2> HIDE DEF r, out
  <2>4. [d EXCEPT !.inbound = Append(d.inbound, r)]
          = [client EXCEPT !.out = out, !.inbound = Append(client.inbound, r)]
    BY <1>1, <2>2 DEF Client
  <2> HIDE DEF d
  <2> QED  BY <2>1, <2>2, <2>3, <2>4 DEF publishCancelled, r
<1> HIDE DEF r, out
<1>8. /\ inbound \in Seq(Response)
      /\ \A i \in DOMAIN inbound : inbound[i].code # "ok"
                                  \/ (i \in DOMAIN client.inbound /\ inbound[i] = client.inbound[i])
  BY <1>1, <1>5
<1>15. /\ Len(inbound) <= InCap + 1
       /\ \A i \in DOMAIN inbound : inbound[i] = r \/ (i \in DOMAIN client.inbound /\ inbound[i] = client.inbound[i])
  <2>1. InCap \in Nat /\ Len(client.inbound) \in Nat /\ Len(client.inbound) <= InCap + 1
    BY <1>1, CapacityAssumption DEF IInv, Sound, Fits
  <2> QED  BY <1>1, <1>5, <2>1
<1> HIDE DEF inbound
<1>9. /\ client' \in Client /\ client'.session = client.session /\ client'.cursor = client.cursor
      /\ client'.seen = client.seen /\ client'.poll = client.poll /\ client'.init = client.init
      /\ client'.retry = client.retry /\ client'.waiting = client.waiting /\ client'.out = out
      /\ client'.inbound = inbound /\ client'.deferred = client.deferred /\ Still(client, client')
  BY <1>1, <1>2, <1>7, <1>8 DEF Client, Still
<1>10. PollsOfSession(client')  BY <1>1, <1>9 DEF Sound, Good, PollsOfSession
<1>11. Good(client')  BY <1>1, <1>3, <1>8, <1>9, <1>10, GoodStays
<1>13. Opens(client, server', loads)
  <2>1. server' \in (IF q.kind = "init" THEN {server, Open(q)} ELSE {server}) /\ Opens(client, server, loads)
    BY DEF FinishCancelled, IInv, Sound
  <2>2. q.kind = "init" => Opens(client, Open(q), loads)  BY <1>2, OpenOpens
  <2> QED  BY <2>1, <2>2
<1>14. Opens(client', server', loads)
  <2>1. Truthful(server', r) /\ r.code # "reject"  BY <1>5 DEF Truthful
  <2>2. \A i \in DOMAIN client'.inbound : client'.inbound[i] = r
          \/ \E j \in DOMAIN client.inbound : client'.inbound[i] = client.inbound[j]
    BY <1>9, <1>15
  <2> HIDE DEF q
  <2> QED  BY <1>1, <1>2, <1>9, <1>12, <1>13, <2>1, <2>2, OpensHead
<1>16. Fits(client')
  <2>1. Len(client'.out) <= Len(client.out) /\ Len(client'.out) \in Nat /\ Len(client.out) \in Nat
    BY <1>1, <1>2, <1>9, <1>12
  <2> QED  BY <1>9, <1>15, <2>1, CapacityAssumption DEF IInv, Sound, Fits, Still
<1>17. loads' = loads  BY DEF FinishCancelled
<1> QED  BY <1>6, <1>7, <1>11, <1>14, <1>16, <1>17 DEF IInv, Sound

LEMMA ServerEventSound ==
  ASSUME IInv, ServerEvent
  PROVE  IInv'
<1>1. PICK i \in DOMAIN server :
        server[i].events < MaxEvents /\ server' = [server EXCEPT ![i].events = @ + 1]
  BY DEF ServerEvent
<1>2. server \in Sessions  BY DEF IInv
<1> DEFINE n == server[i].events + 1
           s == [server[i] EXCEPT !.events = n]
<1>5. server[i] \in Session  BY <1>2 DEF Sessions
<1>8. n \in 0..MaxEvents  BY <1>1, <1>5, CapacityAssumption DEF Session
<1> HIDE DEF n
<1>6. s \in Session  BY <1>5, <1>8 DEF Session
<1>7. server' = [server EXCEPT ![i] = s]  BY <1>1 DEF n
<1> HIDE DEF s
<1>3. server' \in Sessions  BY <1>2, <1>6, <1>7 DEF Sessions
<1>4. client' = client /\ Gone' = Gone  BY DEF ServerEvent, Gone
<1>9. /\ DOMAIN server' = DOMAIN server
      /\ \A j \in DOMAIN server : /\ server'[j].key = server[j].key /\ server'[j].gen = server[j].gen
                                  /\ server'[j].loaded = server[j].loaded
  <2>1. s.key = server[i].key /\ s.gen = server[i].gen /\ s.loaded = server[i].loaded
    BY <1>5 DEF s, Session
  <2> QED  BY <1>2, <1>7, <2>1 DEF Sessions
<1>10. Opens(client, server', loads)  BY <1>9, OpensEvent DEF IInv, Sound
<1>11. loads' = loads  BY DEF ServerEvent
<1> QED  BY <1>3, <1>4, <1>10, <1>11 DEF IInv, Sound

(* The invariant holds at the start, and every step keeps it.              *)
THEOREM InductiveInvariant == Spec => []IInv
<1>1. Init => IInv
  <2> SUFFICES ASSUME Init PROVE IInv  OBVIOUS
  <2>1. client \in Client  BY FreshType DEF Init
  <2>2. client.seen = [i \in 1..client.cursor |-> i]
    <3>1. <<>> = [i \in 1..0 |-> i]  OBVIOUS
    <3> QED  BY <3>1 DEF Init, Fresh0
  <2>3. PollsOfSession(client)  BY DEF Init, Fresh0, PollsOfSession
  <2>4. client.out = <<>> /\ client.inbound = <<>> /\ client.deferred = <<>>  BY DEF Init, Fresh0
  <2>8. client.cursor <= MaxEvents  BY CapacityAssumption DEF Init, Fresh0
  <2>9. Good(client)  BY <2>1, <2>2, <2>3, <2>4, <2>8 DEF Good
  <2>10. client = Fresh0 /\ server = <<>> /\ loads = {}  BY DEF Init
  <2>11. Fits(Fresh0)  BY CapacityAssumption DEF Fits, Fresh0
  <2>5. Sound(client)  BY <2>9, <2>10, <2>11, OpensInit DEF Sound
  <2>6. Gone \in FiniteSubsets(Nat)  BY FS_EmptySet DEF Init, Gone, FiniteSubsets
  <2>7. server \in Sessions  BY DEF Init, Sessions
  <2> QED  BY <2>5, <2>6, <2>7 DEF IInv
<1>2. IInv /\ [Next]_vars => IInv'
  <2> SUFFICES ASSUME IInv, [Next]_vars PROVE IInv'  OBVIOUS
  <2>0. ASSUME Elsewhere, Sound(client') PROVE IInv'  BY <2>0 DEF Elsewhere, Gone, IInv, Sound
  <2>1. ASSUME NEW due \in BOOLEAN, Poll(due) PROVE IInv'
    <3>1. Sound(client') /\ Elsewhere  BY <2>1, PolledSound DEF Poll, IInv
    <3> QED  BY <2>0, <3>1
  <2>2. ASSUME NEW kind, pump(kind) PROVE IInv'
    <3>1. Sound(client') /\ Elsewhere  BY <2>2, pumpSound DEF pump, Quiet
    <3> QED  BY <2>0, <3>1
  <2>3. ASSUME NEW kind, requestOne(kind) PROVE IInv'
    <3>1. Sound(client') /\ Elsewhere  BY <2>3, requestOneSound DEF requestOne, Quiet
    <3> QED  BY <2>0, <3>1
  <2>4. CASE pumpDispositionResult
    <3>1. Sound(client') /\ Elsewhere  BY <2>4, pumpDispositionResultSound DEF pumpDispositionResult, Quiet
    <3> QED  BY <2>0, <3>1
  <2>5. CASE submitTurn
    <3>1. Sound(client') /\ Elsewhere  BY <2>5, submitTurnSound DEF submitTurn, Quiet
    <3> QED  BY <2>0, <3>1
  <2>6. CASE submitDisposition
    <3>1. Sound(client') /\ Elsewhere  BY <2>6, submitDispositionSound DEF submitDisposition, Quiet
    <3> QED  BY <2>0, <3>1
  <2>7. CASE submitComment
    <3>1. Sound(client') /\ Elsewhere  BY <2>7, submitCommentSound DEF submitComment, Quiet
    <3> QED  BY <2>0, <3>1
  <2>8. CASE prepareMedia
    <3>1. Sound(client') /\ Elsewhere  BY <2>8, prepareMediaSound DEF prepareMedia, Quiet
    <3> QED  BY <2>0, <3>1
  <2>9. ASSUME NEW begun \in BOOLEAN, cancelTurn(begun) PROVE IInv'
    <3>1. Sound(client') /\ Elsewhere  BY <2>9, cancelTurnSound DEF cancelTurn, Quiet
    <3> QED  BY <2>0, <3>1
  <2>10. ASSUME NEW begun \in BOOLEAN, requestPlayerAutochat(begun) PROVE IInv'
    <3>1. Sound(client') /\ Elsewhere  BY <2>10, requestPlayerAutochatSound DEF requestPlayerAutochat, Quiet
    <3> QED  BY <2>0, <3>1
  <2>11. ASSUME NEW begun \in BOOLEAN, cancelPlayerAutochat(begun) PROVE IInv'
    <3>1. Sound(client') /\ Elsewhere  BY <2>11, cancelPlayerAutochatSound DEF cancelPlayerAutochat, Quiet
    <3> QED  BY <2>0, <3>1
  <2>12. ASSUME NEW begun \in BOOLEAN, requestMenuDialogueTts(begun) PROVE IInv'
    <3>1. Sound(client') /\ Elsewhere  BY <2>12, requestMenuDialogueTtsSound DEF requestMenuDialogueTts, Quiet
    <3> QED  BY <2>0, <3>1
  <2>13. ASSUME NEW begun \in BOOLEAN, cancelMenuDialogueTts(begun) PROVE IInv'
    <3>1. Sound(client') /\ Elsewhere  BY <2>13, cancelMenuDialogueTtsSound DEF cancelMenuDialogueTts
    <3> QED  BY <2>0, <3>1
  <2>14. ASSUME NEW begun \in BOOLEAN, releaseMedia(begun) PROVE IInv'
    <3>1. Sound(client') /\ Elsewhere  BY <2>14, releaseMediaSound DEF releaseMedia, releaseSpeech, releaseMenuClip, Quiet
    <3> QED  BY <2>0, <3>1
  <2>15. ASSUME NEW kind, NEW begun \in BOOLEAN, cancelGeneration(kind, begun) PROVE IInv'
    <3>1. /\ Good(client') /\ Fits(client') /\ Opens(client', server, loads')
          /\ Gone' \in FiniteSubsets(Nat)
      BY <2>15, cancelGenerationSound
    <3>2. server' = server  BY <2>15 DEF cancelGeneration
    <3> QED  BY <3>1, <3>2 DEF IInv, Sound
  <2>16. CASE prepare
    <3>1. Sound(client') /\ Elsewhere  BY <2>16, prepareSound DEF prepare, Quiet
    <3> QED  BY <2>0, <3>1
  <2>17. CASE choose
    <3>1. Sound(client') /\ Elsewhere  BY <2>17, chooseSound DEF choose, Quiet
    <3> QED  BY <2>0, <3>1
  <2>18. CASE finishLoadedSave
    <3>1. Sound(client') /\ Elsewhere  BY <2>18, finishLoadedSaveSound DEF finishLoadedSave, Quiet
    <3> QED  BY <2>0, <3>1
  <2>19. CASE halt
    <3>1. Sound(client') /\ Elsewhere  BY <2>19, haltSound DEF halt, Quiet
    <3> QED  BY <2>0, <3>1
  <2>20. CASE Finish
    BY <2>20, FinishInitSound, FinishPollOkSound, FinishOtherSound, FinishCancelledSound DEF Finish
  <2>21. CASE ServerEvent
    BY <2>21, ServerEventSound
  <2>22. CASE UNCHANGED vars
    BY <2>22 DEF vars, Gone, IInv, Sound
  <2>23. CASE speakMenuClip
    BY <2>23 DEF speakMenuClip, Elsewhere, Gone, IInv, Sound
  <2> QED
    BY <2>1, <2>2, <2>3, <2>4, <2>5, <2>6, <2>7, <2>8, <2>9, <2>10, <2>11, <2>12, <2>13, <2>14,
       <2>15, <2>16, <2>17, <2>18, <2>19, <2>20, <2>21, <2>22, <2>23, Zenon DEF Next
<1> QED  BY <1>1, <1>2, PTL DEF Spec

(* Every event of a session reaches the GLOBAL script once and in order:   *)
(* the cursor that the next poll sends is what was handed over, and no     *)
(* answer to a poll that was cancelled, given up or replayed moves it.     *)
THEOREM EventsInOrderHolds == Spec => []EventsInOrder
<1>1. IInv => EventsInOrder  BY DEF IInv, Sound, Good, EventsInOrder
<1> QED  BY <1>1, InductiveInvariant, PTL

(* Sessions as the server sees them: however often a handshake is retried, *)
(* fenced or cancelled half way, a generation opens one session, the       *)
(* client uses that one, and it says whether a load began the generation.  *)
THEOREM SessionInvHolds == Spec => []SessionInv
<1>1. ASSUME IInv PROVE SessionInv
  <2>0. client \in Client /\ Opens(client, server, loads) /\ Fits(client) /\ client.cursor <= MaxEvents
    BY <1>1 DEF IInv, Sound, Good
  <2>1. TypeOK
    <3>1. client.cursor \in 0..MaxEvents  BY <2>0, CapacityAssumption DEF Client
    <3>2. \A x \in DOMAIN client.menus : client.menus[x].state \in Phases
      <4>1. client.menus \in [DOMAIN client.menus -> [state : Phases, clip : Clips \cup {0}]]
        <5>1. client.menus \in Lines  BY <2>0 DEF Client
        <5> QED  BY <5>1, TableOf DEF Lines
      <4> QED  BY <4>1
    <3>3. client.status \in Statuses /\ client.attempts \in Nat  BY <2>0 DEF Client
    <3> QED  BY <2>0, <3>1, <3>2, <3>3 DEF TypeOK, Fits, Phases, Statuses
  <2>2. OneSessionPerGeneration  BY <2>0 DEF OneSessionPerGeneration, Opens, ClientSound
  <2>3. LoadedAsBegun
    <3> SUFFICES ASSUME NEW i \in DOMAIN server PROVE server[i].loaded <=> server[i].gen \in loads
      BY DEF LoadedAsBegun
    <3> DEFINE a == Claim(server[i].key, server[i].gen, server[i].loaded)
    <3>1. a \in Known(server)  BY DEF Known
    <3>2. a.gen = server[i].gen /\ a.loaded = server[i].loaded  BY DEF Claim
    <3> HIDE DEF a
    <3>3. a.loaded <=> a.gen \in loads  BY <2>0, <3>1 DEF Opens, Agree
    <3> QED  BY <3>2, <3>3
  <2> QED  BY <2>1, <2>2, <2>3 DEF SessionInv
<1> QED  BY <1>1, InductiveInvariant, PTL

-------------------------------------------------------------------------------
(* Menu lines and their clips                                              *)

(* A download under way has an id, and a line that is being prepared is on *)
(* one, or on a clip that was released; menu lines are only ever given the *)
(* clips of menu lines.                                                    *)
Lined(c) ==
  /\ \A m \in DOMAIN c.media : c.media[m].state = "preparing" => c.media[m].id # 0
  /\ \A x \in DOMAIN c.menus :
       /\ c.menus[x] \in [state : Phases, clip : MenuClips \cup {0}]
       /\ c.menus[x].state = "preparing" =>
            LET clip == c.menus[x].clip IN
            IF clip \in DOMAIN c.media THEN c.media[clip].id # 0 ELSE clip \in plays.released

(* Most of what happens to the client leaves both tables alone.            *)
Shown(c, d) ==
  {"menus", "media"} \subseteq DOMAIN d /\ d.menus = c.menus /\ d.media = c.media

LEMMA ClientShown ==
  ASSUME NEW c \in Client
  PROVE  Shown(c, c)
BY DEF Shown, Client

LEMMA LinedSame ==
  ASSUME NEW c, Lined(c), NEW d, Shown(c, d)
  PROVE  Lined(d)
BY DEF Lined, Shown

LEMMA ShownThen ==
  ASSUME NEW c, NEW d, NEW e, Shown(c, d), Shown(d, e)
  PROVE  Shown(c, e)
BY DEF Shown

LEMMA EnqueueShown ==
  ASSUME NEW c, Shown(c, c), NEW kind, NEW data
  PROVE  Shown(c, enqueue(c, kind, data))
<1> DEFINE q == [id |-> FreshId(c), gen |-> c.gen, kind |-> kind, data |-> data, cancelled |-> FALSE]
<1>1. enqueue(c, kind, data) = [c EXCEPT !.out = Append(@, q)]  BY DEF enqueue
<1> HIDE DEF q
<1> QED  BY <1>1 DEF Shown

LEMMA CancelShown ==
  ASSUME NEW c, Shown(c, c), NEW id, NEW begun
  PROVE  Shown(c, cancel(c, id, begun))
<1> DEFINE d == [c EXCEPT !.out = Tail(@)]
           at == {i \in DOMAIN c.out : c.out[i].id = id /\ ~c.out[i].cancelled}
           out == [i \in DOMAIN c.out |-> [c.out[i] EXCEPT !.cancelled = @ \/ i \in at]]
           r == Result(c.out[1], "cancelled", <<>>)
<1>1. Shown(c, d)  BY DEF Shown
<1>2. Shown(c, [c EXCEPT !.out = out])
  <2> HIDE DEF out
  <2> QED  BY DEF Shown
<1>3. Shown(d, [d EXCEPT !.inbound = Append(@, r)])
  <2> HIDE DEF d, r
  <2> QED  BY <1>1 DEF Shown
<1>4. cancel(c, id, begun) \in {c, d, [c EXCEPT !.out = out], [d EXCEPT !.inbound = Append(@, r)]}
  BY Zenon DEF cancel, publishCancelled, d, out, r, at
<1> HIDE DEF d, out, r
<1> QED  BY <1>1, <1>2, <1>3, <1>4, ShownThen

LEMMA DropPollShown ==
  ASSUME NEW c, Shown(c, c), NEW begun
  PROVE  Shown(c, dropPoll(c, begun))
<1> DEFINE d == cancel(c, c.poll, begun)
<1>1. Shown(c, d)  BY CancelShown
<1>2. dropPoll(c, begun) = [d EXCEPT !.poll = 0]  BY DEF dropPoll
<1> HIDE DEF d
<1> QED  BY <1>1, <1>2 DEF Shown

LEMMA BeginShown ==
  ASSUME NEW c, Shown(c, c)
  PROVE  Shown(c, beginSession(c))
<1> DEFINE s == Snapshot(c)
           d == [c EXCEPT !.retry = FALSE, !.attempts = Attempts(c), !.snapshot = s, !.made = s.key]
           e == enqueue(d, "init", <<d.snapshot.key, d.snapshot.loaded>>)
           id == FreshId(d)
<1>1. beginSession(c) \in {c, [e EXCEPT !.init = id], [d EXCEPT !.status = "error"]}
  BY Zenon DEF beginSession, d, e, id, s
<1> HIDE DEF s
<1>2. Shown(c, d)  BY DEF Shown
<1> HIDE DEF d, id
<1>3. Shown(d, d)  BY <1>2 DEF Shown
<1>4. Shown(d, e)  BY <1>3, EnqueueShown
<1> HIDE DEF e
<1> QED  BY <1>1, <1>2, <1>4 DEF Shown

LEMMA ScheduleShown ==
  ASSUME NEW c, Shown(c, c), NEW due
  PROVE  Shown(c, schedulePoll(c, due))
<1> DEFINE d == enqueue(c, "poll", <<c.cursor>>)
           id == FreshId(c)
<1>1. Shown(c, d)  BY EnqueueShown
<1>2. schedulePoll(c, due) \in {c, [d EXCEPT !.poll = id]}  BY Zenon DEF schedulePoll, d, id
<1> HIDE DEF d, id
<1> QED  BY <1>1, <1>2 DEF Shown

LEMMA SettleShown ==
  ASSUME NEW c, Shown(c, c), NEW R
  PROVE  Shown(c, settle(c, R))
<1> DEFINE P == {<<r.kind, r.id>> : r \in R}
           Q == {<<r.kind, r.id>> : r \in {r \in R : r.kind \in {"disposition", "autochat"}}}
<1>1. settle(c, R) = [c EXCEPT !.wait = @ \ P, !.kept = @ \cup Q]  BY DEF settle
<1> HIDE DEF P, Q
<1> QED  BY <1>1 DEF Shown

LEMMA PumpedShown ==
  ASSUME NEW c, Shown(c, c), NEW kind
  PROVE  Shown(c, Pumped(c, kind))
<1> DEFINE d == settle(c, {c.inbound[i] : i \in Own(c, kind)})
           s == Rest(c, PumpBatch)
           t == Deferred(c, kind)
<1>1. Shown(c, d)  BY SettleShown
<1>2. Pumped(c, kind) \in {c, [d EXCEPT !.inbound = s, !.deferred = t]}  BY Zenon DEF Pumped, d, s, t
<1> HIDE DEF d, s, t
<1> QED  BY <1>1, <1>2 DEF Shown

LEMMA ConfiguredShown ==
  ASSUME NEW c, Shown(c, c)
  PROVE  Shown(c, Configured(c))
<1> DEFINE d == beginSession(c)
<1>1. Shown(c, d)  BY BeginShown
<1>2. Configured(c) \in {c, [c EXCEPT !.status = "waiting_identity"], [d EXCEPT !.status = "connecting"]}
  BY Zenon DEF Configured, d
<1> HIDE DEF d
<1> QED  BY <1>1, <1>2 DEF Shown

(* The lines that are given another state are no longer prepared.          *)
LEMMA SetMenusLined ==
  ASSUME NEW c, Shown(c, c), Lined(c), NEW ids, NEW state \in Phases \ {"preparing"}
  PROVE  LET d == SetMenus(c, ids, state) IN
           Lined(d) /\ Shown(d, d) /\ d.media = c.media
<1> DEFINE d == SetMenus(c, ids, state)
           menus == [x \in DOMAIN c.menus |->
                       IF x \in ids THEN [c.menus[x] EXCEPT !.state = state] ELSE c.menus[x]]
<1>1. \A x \in DOMAIN c.menus : c.menus[x] \in [state : Phases, clip : MenuClips \cup {0}]
  BY DEF Lined
<1>2. DOMAIN menus = DOMAIN c.menus
      /\ \A x \in DOMAIN c.menus : /\ menus[x] \in [state : Phases, clip : MenuClips \cup {0}]
                                   /\ menus[x].clip = c.menus[x].clip
                                   /\ menus[x].state = "preparing" => c.menus[x].state = "preparing"
  BY <1>1
<1>3. d = [c EXCEPT !.menus = menus]  BY DEF SetMenus
<1> HIDE DEF d, menus
<1>4. d.menus = menus /\ d.media = c.media /\ Shown(d, d)  BY <1>3 DEF Shown
<1> QED  BY <1>2, <1>4 DEF Lined, d

(* The lines on a clip move on with it.                                    *)
LEMMA SetMediaLined ==
  ASSUME NEW c, Shown(c, c), Lined(c), NEW clips, NEW state \in Phases \ {"preparing"}
  PROVE  LET d == SetMedia(c, clips, state) IN Lined(d) /\ Shown(d, d)
<1> DEFINE media == [m \in DOMAIN c.media |->
                       IF m \in clips THEN [state |-> state, id |-> 0] ELSE c.media[m]]
           d == [c EXCEPT !.media = media]
           e == SetMenus(d, MenusOn(c, clips), state)
           menus == [x \in DOMAIN c.menus |->
                       IF x \in MenusOn(c, clips) THEN [c.menus[x] EXCEPT !.state = state] ELSE c.menus[x]]
<1>1. \A x \in DOMAIN c.menus : c.menus[x] \in [state : Phases, clip : MenuClips \cup {0}]
  BY DEF Lined
<1>2. d.media = media /\ d.menus = c.menus /\ Shown(d, d)
  <2> HIDE DEF media
  <2> QED  BY DEF Shown
<1>3. SetMedia(c, clips, state) = e
  <2>1. MenusOn(d, clips) = MenusOn(c, clips)  BY <1>2 DEF MenusOn
  <2> QED  BY <2>1 DEF SetMedia
<1>4. e = [d EXCEPT !.menus = menus]  BY <1>2 DEF SetMenus
<1>5. e.menus = menus /\ e.media = media /\ Shown(e, e)
  <2> HIDE DEF menus, media, d, e
  <2> QED  BY <1>2, <1>4 DEF Shown
<1>6. \A m \in DOMAIN media : media[m].state = "preparing" => m \notin clips /\ media[m] = c.media[m]
  OBVIOUS
<1>7. \A x \in DOMAIN menus : /\ menus[x] \in [state : Phases, clip : MenuClips \cup {0}]
                              /\ menus[x].clip = c.menus[x].clip
                              /\ menus[x].state = "preparing" =>
                                   c.menus[x].state = "preparing" /\ c.menus[x].clip \notin clips
  BY <1>1 DEF MenusOn
<1>8. DOMAIN menus = DOMAIN c.menus /\ DOMAIN media = DOMAIN c.media
      /\ \A m \in DOMAIN c.media : m \notin clips => media[m] = c.media[m]
  OBVIOUS
<1> HIDE DEF menus, media, d, e
<1>9. Lined(e)  BY <1>5, <1>6, <1>7, <1>8 DEF Lined
<1> QED  BY <1>3, <1>5, <1>9

(* A line whose clip is known takes its state; else it asks for it.        *)
LEMMA PrepareLined ==
  ASSUME NEW c, Sound(c), Lined(c), Gone \in FiniteSubsets(Nat),
         NEW id \in DOMAIN c.menus, NEW clip \in MenuClips
  PROVE  Lined(prepareMenuDialogueMedia(c, id, clip))
<1> DEFINE known == clip \in DOMAIN c.media
           state == IF known THEN c.media[clip].state ELSE IF CanSend(c) THEN "preparing" ELSE "failed"
           line == [state |-> state, clip |-> clip]
           menus == [c.menus EXCEPT ![id] = line]
           e == [c EXCEPT !.menus[id] = line]
           f == enqueue(e, "media", <<clip>>)
           row == [state |-> "preparing", id |-> FreshId(e)]
           g == [f EXCEPT !.media = With(@, clip, row)]
<1>0. c \in Client /\ c.menus \in Lines  BY DEF Sound, Good, Client
<1>1. Lined(c) /\ line \in [state : Phases, clip : MenuClips \cup {0}]
  <2>1. c.media \in Downloads  BY <1>0 DEF Client
  <2>2. c.media \in [DOMAIN c.media -> [state : Phases, id : Nat]]  BY <2>1, TableOf DEF Downloads
  <2>3. state \in Phases  BY <2>2 DEF Phases
  <2> HIDE DEF state
  <2> QED  BY <2>3
<1>2. e = [c EXCEPT !.menus = menus]  BY <1>0 DEF Client
<1>3. e.menus = menus /\ e.media = c.media /\ Shown(e, e)
  <2> HIDE DEF menus
  <2> QED  BY <1>0, <1>2 DEF Client, Shown
<1>4. DOMAIN menus = DOMAIN c.menus /\ menus[id] = line /\ line.clip = clip /\ line.state = state
      /\ \A x \in DOMAIN c.menus : x # id => menus[x] = c.menus[x]
  <2>1. c.menus \in [DOMAIN c.menus -> [state : Phases, clip : Clips \cup {0}]]
    BY <1>0, TableOf DEF Lines
  <2> HIDE DEF state
  <2> QED  BY <2>1
<1>5. prepareMenuDialogueMedia(c, id, clip) = IF known \/ ~CanSend(c) THEN e ELSE g
  BY Zenon DEF prepareMenuDialogueMedia, e, f, g, line, row, state
<1>6. CASE known \/ ~CanSend(c)
  <2>1. known => c.media[clip].state = state  OBVIOUS
  <2>2. ~known => state = "failed"  BY <1>6
  <2> HIDE DEF line, state, menus, e, g
  <2>3. Lined(e)  BY <1>1, <1>3, <1>4, <2>1, <2>2 DEF Lined
  <2> QED  BY <1>5, <1>6, <2>3
<1>7. CASE ~(known \/ ~CanSend(c))
  <2>1. FreshId(e) # 0
    <3> DEFINE d == e
    <3>1. menus \in Lines
      <4>1. /\ c.menus \in [DOMAIN c.menus -> [state : Phases, clip : Clips \cup {0}]]
            /\ DOMAIN c.menus \subseteq Nat /\ IsFiniteSet(DOMAIN c.menus)
        BY <1>0, TableOf DEF Lines
      <4>2. line \in [state : Phases, clip : Clips \cup {0}]  BY <1>7 DEF Phases, Clips
      <4> HIDE DEF line
      <4>3. menus \in [DOMAIN c.menus -> [state : Phases, clip : Clips \cup {0}]]  BY <4>1, <4>2
      <4>4. DOMAIN menus = DOMAIN c.menus  OBVIOUS
      <4> HIDE DEF menus
      <4> QED  BY <4>1, <4>3, <4>4, TableOf DEF Lines
    <3> HIDE DEF menus, e
    <3>2. e \in Client  BY <1>0, <1>2, <3>1 DEF Client
    <3> QED  BY <3>2, FreshIdFresh
  <2> DEFINE media == With(c.media, clip, row)
  <2>2. f.menus = menus /\ f.media = c.media /\ Shown(f, f)
    <3> HIDE DEF menus, e, line
    <3>1. Shown(e, f)  BY <1>3, EnqueueShown
    <3> HIDE DEF f
    <3> QED  BY <1>3, <3>1 DEF Shown
  <2>3. g.menus = menus /\ g.media = media
    <3> HIDE DEF f, menus, row
    <3> QED  BY <2>2 DEF Shown
  <2>4. DOMAIN media = DOMAIN c.media \cup {clip} /\ media[clip] = row
        /\ \A m \in DOMAIN c.media : m # clip => media[m] = c.media[m]
    BY DEF With
  <2>5. row.id # 0  BY <2>1
  <2> HIDE DEF line, state, menus, e, f, g, media, row
  <2>6. Lined(g)  BY <1>1, <1>3, <1>4, <1>7, <2>3, <2>4, <2>5 DEF Lined
  <2> QED  BY <1>5, <1>7, <2>6
<1> QED  BY <1>6, <1>7

(* A failed request fails the line that asked and the lines on its clip.   *)
LEMMA FailedLined ==
  ASSUME NEW c, Shown(c, c), Lined(c), NEW r
  PROVE  Lined(Failed(c, r))
<1> DEFINE d == IF r.id = c.init THEN InitFailed(c, r) ELSE c
           clips == {m \in DOMAIN c.media : c.media[m].id = r.id}
           wait == d.wait \ {<<"turn", r.id>>, <<"controls", r.id>>}
           poll == IF d.poll = r.id THEN 0 ELSE d.poll
           status == IF c.session = 0 THEN "error"
                     ELSE IF clips = {} \/ r.id = c.poll THEN "ready" ELSE d.status
           e == [d EXCEPT !.wait = wait, !.poll = poll, !.status = status]
           x == {m \in DOMAIN e.menus : m = r.id /\ e.menus[m].state = "requesting"}
           f == SetMenus(e, x, "failed")
<1>1. Shown(c, d)
  <2>1. Shown(c, InitFailed(c, r))
    <3> DEFINE retry == r.code = "retry" /\ c.attempts < MaxAttempts
               rejected == r.code = "reject"
    <3>1. InitFailed(c, r) = [c EXCEPT !.init = 0, !.retry = retry, !.rejected = rejected]
      BY DEF InitFailed
    <3> HIDE DEF retry, rejected
    <3> QED  BY <3>1 DEF Shown
  <2> QED  BY <2>1
<1>2. Failed(c, r) = SetMedia(f, clips, "failed")
  BY Zenon DEF Failed, d, clips, e, x, f, wait, poll, status
<1> HIDE DEF d, wait, poll, status
<1>3. Shown(c, e)  BY <1>1 DEF Shown
<1> HIDE DEF e, clips
<1>4. Lined(e) /\ Shown(e, e)  BY <1>3, LinedSame DEF Shown
<1>5. "failed" \in Phases \ {"preparing"}  BY DEF Phases
<1> HIDE DEF x
<1>6. Lined(f) /\ Shown(f, f)  BY <1>4, <1>5, SetMenusLined
<1> HIDE DEF f
<1> QED  BY <1>2, <1>5, <1>6, SetMediaLined

LEMMA HandleLined ==
  ASSUME NEW c, Sound(c), Lined(c), Gone \in FiniteSubsets(Nat), NEW r \in Response, Answered(c, r),
         ResultSound(c, server, r)
  PROVE  Lined(Handle(c, r))
<1> DEFINE Dropped(d) == [d EXCEPT !.wait = @ \ {<<"turn", r.id>>}]
           Keeps(d) == Lined(d) /\ Shown(d, d)
<1>0. Shown(c, c) /\ Keeps(c)  BY ClientShown DEF Sound, Good
<1>1. Keeps(settle(c, {r}))
  <2>1. Shown(c, settle(c, {r}))  BY <1>0, SettleShown
  <2> QED  BY <2>1, LinedSame DEF Shown
<1>2. Lined(Failed(c, r))  BY <1>0, FailedLined
<1>3. Keeps(Accepted(c, r))
  <2> DEFINE d == Accepted(c, r)
  <2>1. Shown(c, d)  BY <1>0 DEF Shown, Accepted
  <2> HIDE DEF d
  <2> QED  BY <2>1, LinedSame DEF Shown, d
<1>4. Keeps(Events(c, r))
  <2> DEFINE d == Events(c, r)
             seen == c.seen \o [i \in 1..(r.data[2] - r.data[1]) |-> r.data[1] + i]
  <2>1. d \in {[c EXCEPT !.poll = 0], [c EXCEPT !.poll = 0, !.cursor = r.data[2], !.seen = seen]}
    BY DEF Events
  <2> HIDE DEF d, seen
  <2>2. Shown(c, d)  BY <1>0, <2>1 DEF Shown
  <2> QED  BY <2>2, LinedSame DEF Shown, d
<1>5. Keeps(SetMedia(c, {r.data[1]}, "ready"))
  <2>1. "ready" \in Phases \ {"preparing"}  BY DEF Phases
  <2> QED  BY <1>0, <2>1, SetMediaLined
<1>6. r.kind = "menu" /\ r.code = "ok" /\ r.id \in DOMAIN c.menus =>
        Keeps(prepareMenuDialogueMedia(c, r.id, r.data[1]))
  <2> SUFFICES ASSUME r.kind = "menu", r.code = "ok", r.id \in DOMAIN c.menus
               PROVE  Keeps(prepareMenuDialogueMedia(c, r.id, r.data[1]))
    OBVIOUS
  <2>1. r.data[1] \in MenuClips  BY DEF Answered
  <2> DEFINE d == prepareMenuDialogueMedia(c, r.id, r.data[1])
  <2>2. Lined(d) /\ d \in Client  BY <2>1, PrepareLined, PrepareSound DEF Sound, Good
  <2> HIDE DEF d
  <2> QED  BY <2>2, ClientShown DEF d
<1>7. ASSUME NEW d, Keeps(d) PROVE Lined(Dropped(d))
  <2> DEFINE wait == d.wait \ {<<"turn", r.id>>}
             e == [d EXCEPT !.wait = wait]
  <2> HIDE DEF wait
  <2>1. Shown(d, e)  BY <1>7 DEF Shown
  <2> HIDE DEF e
  <2>2. Lined(e)  BY <1>7, <2>1, LinedSame
  <2> QED  BY <2>2 DEF e, wait
<1> DEFINE d == IF r.kind = "init" /\ r.code = "ok" /\ r.id = c.init THEN Accepted(c, r)
                ELSE IF OwnPoll(c, r) THEN Events(c, r)
                ELSE IF r.kind = "media" /\ r.code = "ok"
                  THEN IF r.data[1] \in DOMAIN c.media THEN SetMedia(c, {r.data[1]}, "ready") ELSE c
                ELSE IF r.kind = "menu" /\ r.code = "ok"
                  THEN IF r.id \in DOMAIN c.menus THEN prepareMenuDialogueMedia(c, r.id, r.data[1]) ELSE c
                ELSE IF Settles(c, r, "controls") THEN settle(c, {r}) ELSE c
<1>9. Handle(c, r) \in {settle(c, {r}), Failed(c, r), Dropped(d)}  BY Zenon DEF Handle
<1> HIDE DEF Keeps, Dropped
<1>10. Keeps(d)  BY <1>0, <1>1, <1>3, <1>4, <1>5, <1>6
<1> HIDE DEF d
<1>11. Lined(Dropped(d)) /\ Lined(settle(c, {r}))  BY <1>1, <1>7, <1>10 DEF Keeps
<1> QED  BY <1>2, <1>9, <1>11

LEMMA FoldLined ==
  ASSUME NEW c, Sound(c), Lined(c), Gone \in FiniteSubsets(Nat), NEW s \in Seq(Response),
         OfBoth(s, c.deferred, c.inbound)
  PROVE  Sound(HandleAll(c, s)) /\ Lined(HandleAll(c, s))
<1> DEFINE n == Len(s)
           Keeps(d) == Sound(d) /\ Lined(d) /\ d.inbound = c.inbound /\ d.deferred = c.deferred
<1>1. n \in Nat /\ DOMAIN s = 1..n  OBVIOUS
<1>2. PICK h : Stepwise(h, c, s, n)
  <2> HIDE DEF n
  <2> QED  BY <1>1, HandleOneByOne
<1> DEFINE K == {k \in Nat : k <= n => Keeps(h[k])}
<1>3. 0 \in K  BY <1>2 DEF Stepwise
<1>4. ASSUME NEW k \in Nat, k \in K PROVE k + 1 \in K
  <2> SUFFICES ASSUME k + 1 <= n PROVE Keeps(h[k + 1])  OBVIOUS
  <2>1. Keeps(h[k])  BY <1>1, <1>4
  <2>2. k + 1 \in DOMAIN s /\ k + 1 \in 1..n /\ s[k + 1] \in Response  BY <1>1
  <2>3. Answered(h[k], s[k + 1]) /\ ResultSound(h[k], server, s[k + 1])
    BY <2>1, <2>2 DEF Sound, Good, Opens, OfBoth
  <2>4. h[k + 1] = Handle(h[k], s[k + 1])  BY <1>2, <2>2 DEF Stepwise
  <2>5. LET d == Handle(h[k], s[k + 1]) IN
          Sound(d) /\ Lined(d) /\ d.inbound = h[k].inbound /\ d.deferred = h[k].deferred
    BY <2>1, <2>2, <2>3, HandleSound, HandleLined
  <2> QED  BY <2>1, <2>4, <2>5
<1>5. n \in K
  <2> HIDE DEF K, n
  <2> QED  BY <1>1, <1>3, <1>4, AllNaturals
<1> QED  BY <1>1, <1>2, <1>5 DEF Stepwise

LEMMA PolledLined ==
  ASSUME NEW c, Sound(c), Lined(c), Gone \in FiniteSubsets(Nat), NEW due
  PROVE  Lined(Polled(c, due))
<1> DEFINE s == c.deferred \o Drained(c, PollMax)
           f == HandleAll(c, s)
           rest == Rest(c, PollMax)
           d == [f EXCEPT !.deferred = <<>>, !.inbound = rest]
           e == IF d.retry /\ due THEN beginSession(d) ELSE d
<1>0. c \in Client /\ c.inbound \in Seq(Response) /\ c.deferred \in Seq(Response)
  BY DEF Sound, Good, Client
<1>1. s \in Seq(Response) /\ OfBoth(s, c.deferred, c.inbound)
  <2> DEFINE p == Drained(c, PollMax)
  <2>1. p \in Seq(Response) /\ From(p, c.inbound)  BY <1>0, PartOf DEF Drained
  <2> HIDE DEF p
  <2>2. s = c.deferred \o p  BY DEF p
  <2> HIDE DEF s
  <2> QED  BY <1>0, <2>1, <2>2, FromBoth
<1>5. Polled(c, due) = schedulePoll(e, due)  BY Zenon DEF Polled, e, d, f, s, rest
<1> HIDE DEF s
<1>2. Sound(f) /\ Lined(f)  BY <1>1, FoldLined
<1> HIDE DEF f, rest
<1>3. Shown(f, f)  BY <1>2, ClientShown DEF Sound, Good
<1>4. Shown(f, d) /\ Shown(d, d)  BY <1>3 DEF Shown
<1> HIDE DEF d
<1>6. Shown(d, e) /\ Shown(e, e)
  <2>1. Shown(d, beginSession(d))  BY <1>4, BeginShown
  <2>2. Shown(d, e)  BY <1>4, <2>1
  <2> HIDE DEF e
  <2> QED  BY <2>2 DEF Shown
<1> HIDE DEF e
<1>7. Shown(e, schedulePoll(e, due))  BY <1>6, ScheduleShown
<1> QED  BY <1>2, <1>4, <1>5, <1>6, <1>7, LinedSame

(* Requests that scripts make, apart from those for clips.                 *)
LEMMA RequestShown ==
  ASSUME NEW c, Shown(c, c), NEW kind
  PROVE  Shown(c, [enqueue(c, kind, <<>>) EXCEPT !.wait = @ \cup {<<kind, FreshId(c)>>}])
<1> DEFINE d == enqueue(c, kind, <<>>)
           id == FreshId(c)
<1>1. Shown(c, d)  BY EnqueueShown
<1> HIDE DEF d, id
<1>2. Shown(c, [d EXCEPT !.wait = @ \cup {<<kind, id>>}])  BY <1>1 DEF Shown
<1> QED  BY <1>2 DEF d, id

LEMMA ScriptShown ==
  ASSUME IInv,
         \/ submitTurn \/ submitDisposition \/ submitComment
         \/ \E kind \in {"controls", "debug"} : requestOne(kind)
         \/ \E begun \in BOOLEAN : \/ cancelTurn(begun) \/ requestPlayerAutochat(begun)
                                   \/ cancelPlayerAutochat(begun)
  PROVE  Shown(client, client')
<1>0. Shown(client, client)  BY ClientShown DEF IInv, Sound, Good
<1>1. CASE submitTurn
  <2> DEFINE c == enqueue(client, "turn", <<>>)
             id == FreshId(client)
  <2>1. Shown(client, c)  BY <1>0, EnqueueShown
  <2>2. client' = [c EXCEPT !.wait = @ \cup {<<"turn", id>>}, !.latest = id]
    BY <1>1 DEF submitTurn
  <2> HIDE DEF c, id
  <2> QED  BY <2>1, <2>2 DEF Shown
<1>2. CASE submitDisposition
  <2> DEFINE c == IF Cardinality(Receipts(client, "disposition")) >= ReceiptCap
                  THEN [client EXCEPT !.kept = @ \ Receipts(client, "disposition")] ELSE client
  <2>1. client' = c \/ client' = [enqueue(c, "disposition", <<>>) EXCEPT !.wait = @ \cup {<<"disposition", FreshId(c)>>}]
    BY <1>2, Zenon DEF submitDisposition
  <2>2. Shown(client, c) /\ Shown(c, c)  BY <1>0 DEF Shown
  <2> HIDE DEF c
  <2> QED  BY <2>1, <2>2, RequestShown, ShownThen
<1>3. CASE submitComment
  <2>1. PICK old \in SUBSET Receipts(client, "comment") :
          LET c == [client EXCEPT !.wait = @ \ old] IN
          client' = IF Cardinality(Receipts(c, "comment")) >= ReceiptCap THEN c
                    ELSE [enqueue(c, "comment", <<>>) EXCEPT !.wait = @ \cup {<<"comment", FreshId(c)>>}]
    BY <1>3, Zenon DEF submitComment
  <2> DEFINE c == [client EXCEPT !.wait = @ \ old]
  <2>2. client' = c \/ client' = [enqueue(c, "comment", <<>>) EXCEPT !.wait = @ \cup {<<"comment", FreshId(c)>>}]
    BY <2>1, Zenon
  <2>3. Shown(client, c) /\ Shown(c, c)  BY <1>0 DEF Shown
  <2> HIDE DEF c
  <2> QED  BY <2>2, <2>3, RequestShown, ShownThen
<1>4. ASSUME NEW kind, requestOne(kind) PROVE Shown(client, client')
  BY <1>0, <1>4, RequestShown DEF requestOne
<1>5. ASSUME NEW begun, cancelTurn(begun) PROVE Shown(client, client')
  <2> DEFINE b == cancel(client, client.latest, begun)
             c == dropPoll(b, begun)
             d == [c EXCEPT !.wait = @ \ {<<"turn", c.latest>>}]
             e == enqueue(d, "interruption", <<>>)
  <2>1. client' \in {d, [e EXCEPT !.latest = 0]}  BY <1>5, Zenon DEF cancelTurn, b, c, d, e
  <2>2. Shown(client, b)  BY <1>0, CancelShown
  <2> HIDE DEF b
  <2>3. Shown(b, c) /\ Shown(c, c)
    <3>1. Shown(b, b)  BY <2>2 DEF Shown
    <3>2. Shown(b, c)  BY <3>1, DropPollShown
    <3> HIDE DEF c
    <3> QED  BY <3>2 DEF Shown
  <2> HIDE DEF c
  <2>4. Shown(c, d) /\ Shown(d, d)  BY <2>3 DEF Shown
  <2> HIDE DEF d
  <2>5. Shown(d, e)  BY <2>4, EnqueueShown
  <2> HIDE DEF e
  <2> QED  BY <2>1, <2>2, <2>3, <2>4, <2>5 DEF Shown
<1>6. ASSUME NEW begun, requestPlayerAutochat(begun) PROVE Shown(client, client')
  <2> DEFINE c == dropPoll(client, begun)
  <2>1. client' = c \/ client' = [enqueue(c, "autochat", <<>>) EXCEPT !.wait = @ \cup {<<"autochat", FreshId(c)>>}]
    BY <1>6, Zenon DEF requestPlayerAutochat, c
  <2>2. Shown(client, c)  BY <1>0, DropPollShown
  <2> HIDE DEF c
  <2>3. Shown(c, c)  BY <2>2 DEF Shown
  <2> QED  BY <2>1, <2>2, <2>3, RequestShown, ShownThen
<1>7. ASSUME NEW begun, cancelPlayerAutochat(begun) PROVE Shown(client, client')
  <2> DEFINE own == {w \in client.wait : w[1] = "autochat"}
             id == IF own = {} THEN 0 ELSE (CHOOSE w \in own : TRUE)[2]
             S == Receipts(client, "autochat")
             c == cancel(client, id, begun)
  <2>1. client' = [c EXCEPT !.wait = @ \ S, !.kept = @ \ S]
    BY <1>7 DEF cancelPlayerAutochat, WithoutAutochat
  <2> HIDE DEF own, id, S
  <2>2. Shown(client, c)  BY <1>0, CancelShown
  <2> HIDE DEF c
  <2> QED  BY <2>1, <2>2 DEF Shown
<1> QED  BY <1>1, <1>2, <1>3, <1>4, <1>5, <1>6, <1>7

LEMMA OthersShown ==
  ASSUME IInv,
         \/ prepare \/ choose \/ finishLoadedSave \/ halt \/ Finish \/ ServerEvent
         \/ pumpDispositionResult \/ \E kind \in {"controls", "debug", "autochat"} : pump(kind)
  PROVE  Shown(client, client')
<1>0. Shown(client, client)  BY ClientShown DEF IInv, Sound, Good
<1>1. CASE prepare
  <2> DEFINE d == [client EXCEPT !.prepared = TRUE, !.bound = TRUE]
  <2>1. Shown(client, d) /\ Shown(d, d)  BY <1>0 DEF Shown
  <2>2. client' = Configured(d)  BY <1>1 DEF prepare
  <2> HIDE DEF d
  <2> QED  BY <2>1, <2>2, ConfiguredShown, ShownThen
<1>2. CASE choose
  <2> DEFINE d == [client EXCEPT !.bound = TRUE, !.snapshot = NoSnapshot, !.attempts = 0,
                                 !.retry = FALSE, !.rejected = FALSE]
  <2>1. Shown(client, d) /\ Shown(d, d)  BY <1>0 DEF Shown
  <2>2. client' = Configured(d)  BY <1>2 DEF choose
  <2> HIDE DEF d
  <2> QED  BY <2>1, <2>2, ConfiguredShown, ShownThen
<1>3. CASE finishLoadedSave
  <2> DEFINE d == [client EXCEPT !.waiting = FALSE]
  <2>1. Shown(client, d) /\ Shown(d, d)  BY <1>0 DEF Shown
  <2>2. client' = beginSession(d)  BY <1>3 DEF finishLoadedSave
  <2> HIDE DEF d
  <2> QED  BY <2>1, <2>2, BeginShown, ShownThen
<1>4. CASE halt
  BY <1>0, <1>4 DEF halt, Shown
<1>5. CASE Finish
  <2>1. ASSUME NEW q, NEW code, NEW data, Deliver(q, code, data) PROVE Shown(client, client')
    <3> DEFINE r == Result(q, code, data)
    <3>1. client' = [client EXCEPT !.out = Tail(@), !.inbound = Append(@, r)]
          \/ client' = [client EXCEPT !.out = Tail(@)]
      BY <2>1 DEF Deliver
    <3> HIDE DEF r
    <3> QED  BY <1>0, <3>1 DEF Shown
  <2>2. CASE FinishInit  BY <2>1, <2>2 DEF FinishInit
  <2>3. CASE FinishPollOk
    <3>1. PICK i \in DOMAIN server : \E upto \in Head(client.out).data[1]..server[i].events :
            Deliver(Head(client.out), "ok", <<Head(client.out).data[1], upto>>)
      BY <2>3 DEF FinishPollOk
    <3> QED  BY <2>1, <3>1
  <2>4. CASE FinishOther  BY <2>1, <2>4 DEF FinishOther
  <2>5. CASE FinishCancelled
    <3> DEFINE q == Head(client.out)
               d == [client EXCEPT !.out = Tail(@)]
               r == Result(q, "cancelled", <<>>)
    <3>1. client' \in {d, [d EXCEPT !.inbound = Append(@, r)]}
      BY <2>5 DEF FinishCancelled, publishCancelled
    <3>2. Shown(client, d)  BY <1>0 DEF Shown
    <3> HIDE DEF d, r
    <3> QED  BY <3>1, <3>2 DEF Shown
  <2> QED  BY <1>5, <2>2, <2>3, <2>4, <2>5 DEF Finish
<1>6. CASE ServerEvent
  BY <1>0, <1>6 DEF ServerEvent
<1>7. CASE pumpDispositionResult
  <2> DEFINE c == Pumped(client, "disposition")
  <2>1. PICK w : client' = [c EXCEPT !.kept = @ \ {w}]  BY <1>7, Zenon DEF pumpDispositionResult
  <2>2. Shown(client, c)  BY <1>0, PumpedShown
  <2> HIDE DEF c
  <2> QED  BY <2>1, <2>2 DEF Shown
<1>8. ASSUME NEW kind, pump(kind) PROVE Shown(client, client')
  BY <1>0, <1>8, PumpedShown DEF pump
<1> QED  BY <1>1, <1>2, <1>3, <1>4, <1>5, <1>6, <1>7, <1>8

(* A new line has no clip yet.                                             *)
LEMMA requestMenuDialogueTtsLined ==
  ASSUME IInv, Lined(client), NEW begun, requestMenuDialogueTts(begun)
  PROVE  Lined(client')
<1> DEFINE c == dropPoll(client, begun)
           id == FreshId(c)
           d == enqueue(c, "menu", <<>>)
           line == [state |-> "requesting", clip |-> 0]
           menus == With(d.menus, id, line)
<1>1. client' \in {c, [d EXCEPT !.menus = menus]}
  BY Zenon DEF requestMenuDialogueTts, c, d, id, line, menus
<1>2. Shown(client, c) /\ Shown(c, c)
  <2>1. Shown(client, client)  BY ClientShown DEF IInv, Sound, Good
  <2>2. Shown(client, c)  BY <2>1, DropPollShown
  <2> HIDE DEF c
  <2> QED  BY <2>2 DEF Shown
<1> HIDE DEF c
<1>3. Shown(c, d)  BY <1>2, EnqueueShown
<1>4. Lined(c) /\ Lined(d)  BY <1>2, <1>3, LinedSame
<1>5. line \in [state : Phases, clip : MenuClips \cup {0}] /\ line.state # "preparing"
  BY DEF Phases
<1> HIDE DEF d, id, line
<1>6. \A x \in DOMAIN menus : menus[x] = line \/ (x \in DOMAIN d.menus /\ menus[x] = d.menus[x])
  <2>1. menus = [y \in DOMAIN d.menus \cup {id} |-> IF y = id THEN line ELSE d.menus[y]]  BY DEF With
  <2> HIDE DEF menus
  <2>2. DOMAIN menus = DOMAIN d.menus \cup {id}  BY <2>1
  <2> QED  BY <2>1, <2>2
<1> DEFINE e == [d EXCEPT !.menus = menus]
<1> HIDE DEF menus
<1>7. e.menus = menus /\ e.media = d.media  BY <1>3 DEF Shown
<1> HIDE DEF e
<1>8. Lined(e)  BY <1>4, <1>5, <1>6, <1>7 DEF Lined
<1> QED  BY <1>1, <1>4, <1>8 DEF e

(* The clip goes with the last line that is on it.                         *)
LEMMA cancelMenuDialogueTtsLined ==
  ASSUME IInv, Lined(client), NEW begun, cancelMenuDialogueTts(begun)
  PROVE  Lined(client')
<1>1. PICK x \in DOMAIN client.menus : client' = WithoutMenu(client, x, begun)
  BY DEF cancelMenuDialogueTts
<1> DEFINE clip == client.menus[x].clip
           id == IF client.menus[x].state = "requesting" THEN x ELSE 0
           c == cancel(client, id, begun)
           e == [c EXCEPT !.menus = Without(@, {x})]
           f == cancel(e, e.media[clip].id, begun)
           g == [f EXCEPT !.media = Without(@, {clip})]
<1>2. client' = IF clip = 0 \/ MenusOn(e, {clip}) # {} \/ clip \notin DOMAIN e.media THEN e ELSE g
  BY <1>1, Zenon DEF WithoutMenu, clip, id, c, e, f, g
<1> HIDE DEF id, clip
<1>3. Shown(client, c)
  <2>1. Shown(client, client)  BY ClientShown DEF IInv, Sound, Good
  <2> QED  BY <2>1, CancelShown
<1>4. Lined(c)  BY <1>3, LinedSame
<1> HIDE DEF c
<1>5. e.menus = Without(c.menus, {x}) /\ e.media = c.media /\ Shown(e, e)  BY <1>3 DEF Shown
<1> HIDE DEF e
<1>6. DOMAIN e.menus \subseteq DOMAIN c.menus /\ \A y \in DOMAIN e.menus : e.menus[y] = c.menus[y]
  BY <1>5 DEF Without
<1>7. Lined(e)  BY <1>4, <1>5, <1>6 DEF Lined
<1>8. Shown(e, f)  BY <1>5, CancelShown
<1> HIDE DEF f
<1>9. g.menus = e.menus /\ g.media = Without(e.media, {clip})  BY <1>8 DEF Shown
<1> HIDE DEF g
<1>10. DOMAIN g.media = DOMAIN e.media \ {clip} /\ \A m \in DOMAIN g.media : g.media[m] = e.media[m]
  BY <1>9 DEF Without
<1>11. ASSUME MenusOn(e, {clip}) = {} PROVE Lined(g)
  <2>1. \A y \in DOMAIN e.menus : e.menus[y].clip # clip  BY <1>11 DEF MenusOn
  <2>2. \A m \in DOMAIN g.media : g.media[m].state = "preparing" => g.media[m].id # 0
    BY <1>7, <1>10 DEF Lined
  <2>3. ASSUME NEW y \in DOMAIN e.menus, e.menus[y].state = "preparing"
        PROVE  LET m == e.menus[y].clip IN
               IF m \in DOMAIN g.media THEN g.media[m].id # 0 ELSE m \in plays.released
    BY <1>7, <1>10, <2>1, <2>3 DEF Lined
  <2>4. \A y \in DOMAIN e.menus : e.menus[y] \in [state : Phases, clip : MenuClips \cup {0}]
    BY <1>7 DEF Lined
  <2> QED  BY <1>9, <2>2, <2>3, <2>4 DEF Lined
<1> QED  BY <1>2, <1>7, <1>11

LEMMA prepareMediaLined ==
  ASSUME IInv, Lined(client), prepareMedia
  PROVE  Lined(client')
<1> DEFINE id == FreshId(client)
           row == [state |-> "preparing", id |-> id]
<1>1. PICK clip \in SpeechClips :
        client' = [enqueue(client, "media", <<clip>>) EXCEPT !.media = With(@, clip, row)]
  BY Zenon DEF prepareMedia
<1> DEFINE d == enqueue(client, "media", <<clip>>)
<1>2. Shown(client, d)
  <2>1. Shown(client, client)  BY ClientShown DEF IInv, Sound, Good
  <2> QED  BY <2>1, EnqueueShown
<1>3. Lined(d)  BY <1>2, LinedSame
<1>4. row.id # 0  BY FreshIdFresh DEF IInv, Sound, Good
<1> HIDE DEF d, row
<1>5. client'.menus = d.menus /\ client'.media = With(d.media, clip, row)
  BY <1>1, <1>2 DEF Shown, d
<1>6. /\ DOMAIN client'.media = DOMAIN d.media \cup {clip} /\ client'.media[clip] = row
      /\ \A m \in DOMAIN d.media : m # clip => client'.media[m] = d.media[m]
  BY <1>5 DEF With
<1> QED  BY <1>3, <1>4, <1>5, <1>6 DEF Lined

(* Only the clip that is released goes.                                    *)
LEMMA ReleasedLined ==
  ASSUME IInv, Lined(client), NEW clip, NEW begun, client' = Released(client, clip, begun)
  PROVE  /\ \A m \in DOMAIN client'.media : client'.media[m].state = "preparing" => client'.media[m].id # 0
         /\ \A x \in DOMAIN client'.menus :
              /\ client'.menus[x] \in [state : Phases, clip : MenuClips \cup {0}]
              /\ client'.menus[x].state = "preparing" =>
                   LET m == client'.menus[x].clip IN
                   IF m \in DOMAIN client'.media THEN client'.media[m].id # 0
                   ELSE m = clip \/ m \in plays.released
<1> DEFINE d == cancel(client, client.media[clip].id, begun)
           e == [d EXCEPT !.media = Without(@, {clip})]
<1>1. client' \in {client, e}  BY Zenon DEF Released, d, e
<1>2. Shown(client, d)
  <2>1. Shown(client, client)  BY ClientShown DEF IInv, Sound, Good
  <2> QED  BY <2>1, CancelShown
<1>3. Lined(d)  BY <1>2, LinedSame
<1> HIDE DEF d
<1>4. e.menus = d.menus /\ e.media = Without(d.media, {clip})  BY <1>2 DEF Shown
<1> HIDE DEF e
<1>5. DOMAIN e.media = DOMAIN d.media \ {clip} /\ \A m \in DOMAIN e.media : e.media[m] = d.media[m]
  BY <1>4 DEF Without
<1>6. CASE client' = client  BY <1>6 DEF Lined
<1>7. CASE client' = e
  <2>1. \A m \in DOMAIN e.media : e.media[m].state = "preparing" => e.media[m].id # 0
    BY <1>3, <1>5 DEF Lined
  <2>2. ASSUME NEW x \in DOMAIN e.menus
        PROVE  /\ e.menus[x] \in [state : Phases, clip : MenuClips \cup {0}]
               /\ e.menus[x].state = "preparing" =>
                    LET m == e.menus[x].clip IN
                    IF m \in DOMAIN e.media THEN e.media[m].id # 0
                    ELSE m = clip \/ m \in plays.released
    <3>1. x \in DOMAIN d.menus /\ e.menus[x] = d.menus[x]  BY <1>4
    <3>2. \A m \in DOMAIN d.media : m # clip => m \in DOMAIN e.media /\ e.media[m] = d.media[m]
      BY <1>5
    <3>3. \A m \in DOMAIN e.media : m \in DOMAIN d.media /\ e.media[m] = d.media[m]
      BY <1>5
    <3> QED  BY <1>3, <3>1, <3>2, <3>3 DEF Lined
  <2> QED  BY <1>7, <2>1, <2>2
<1> QED  BY <1>1, <1>6, <1>7

(* No menu line is on the clip of a spoken line; a menu line whose clip is *)
(* released knows that it was.                                             *)
LEMMA releaseMediaLined ==
  ASSUME IInv, Lined(client), "released" \in DOMAIN plays, NEW begun, releaseMedia(begun)
  PROVE  Lined(client)'
<1>1. CASE releaseSpeech(begun)
  <2>1. PICK clip \in SpeechClips : client' = Released(client, clip, begun)
    BY <1>1, Zenon DEF releaseSpeech
  <2>2. clip \notin MenuClips \cup {0}  BY CapacityAssumption
  <2>3. plays' = plays  BY <1>1 DEF releaseSpeech, Quiet
  <2>4. \A x \in DOMAIN client'.menus : client'.menus[x].clip # clip
    BY <2>1, <2>2, ReleasedLined
  <2> QED  BY <2>1, <2>3, <2>4, ReleasedLined DEF Lined
<1>2. CASE releaseMenuClip(begun)
  <2>1. PICK clip \in MenuClips :
          /\ client' = Released(client, clip, begun)
          /\ plays' = [plays EXCEPT !.due[clip] = @ - 1, !.released = @ \cup {clip}]
    BY <1>2, Zenon DEF releaseMenuClip
  <2>2. plays'.released = plays.released \cup {clip}  BY <2>1
  <2> QED  BY <2>1, <2>2, ReleasedLined DEF Lined
<1> QED  BY <1>1, <1>2 DEF releaseMedia

(* What is being downloaded again is on the way.                           *)
LEMMA PlaysLined ==
  ASSUME Lined(client'), "released" \in DOMAIN plays, plays' \in {plays, PlaysAfter(client')}
  PROVE  Lined(client)'
<1>1. CASE plays' = plays  BY <1>1 DEF Lined
<1>2. CASE plays' = PlaysAfter(client')
  <2>1. plays'.released = plays.released \ DOMAIN client'.media  BY <1>2 DEF PlaysAfter
  <2> QED  BY <2>1 DEF Lined
<1> QED  BY <1>1, <1>2

(* A fence leaves downloads, but no lines.                                 *)
LEMMA cancelGenerationLined ==
  ASSUME IInv, Lined(client), NEW kind, NEW begun, cancelGeneration(kind, begun)
  PROVE  Lined(client')
<1> DEFINE clips == {client.menus[x].clip : x \in DOMAIN client.menus}
           media == Without(client.media, clips)
           out == IF client.out # <<>> /\ (client.out[1].gen # client.gen \/ (begun /\ ~client.out[1].cancelled))
                  THEN <<[client.out[1] EXCEPT !.cancelled = TRUE]>> ELSE <<>>
           inbound == Part(client.inbound, {i \in DOMAIN client.inbound : client.inbound[i].gen # client.gen})
           d == [Fresh0 EXCEPT
                   !.gen = client.gen + 1, !.made = client.made, !.seen = client.seen,
                   !.cursor = client.cursor,
                   !.prepared = client.prepared /\ ~(kind # "interrupt"),
                   !.bound = client.bound /\ ~(kind # "interrupt"),
                   !.rejected = client.rejected /\ ~(kind # "interrupt"),
                   !.loaded = kind = "load", !.waiting = kind = "load",
                   !.media = media, !.out = out, !.inbound = inbound]
           e == beginSession(d)
           status == IF selected(e) THEN "connecting" ELSE "waiting_identity"
<1>2. client' = [e EXCEPT !.status = status]  BY DEF cancelGeneration
<1> HIDE DEF out, inbound, status
<1> HIDE DEF media
<1>3. d.menus = <<>> /\ d.media = media /\ {"menus", "media"} \subseteq DOMAIN d  BY DEF Fresh0
<1> HIDE DEF d
<1>4. Shown(d, e)  BY <1>3, BeginShown DEF Shown
<1> HIDE DEF e
<1>5. client'.menus = <<>> /\ client'.media = media  BY <1>2, <1>3, <1>4 DEF Shown
<1>6. DOMAIN media \subseteq DOMAIN client.media /\ \A m \in DOMAIN media : media[m] = client.media[m]
  BY DEF media, Without
<1> QED  BY <1>5, <1>6 DEF Lined

(* Every step keeps the menu lines on clips that a download moves on, or   *)
(* that were released.                                                     *)
THEOREM LinedInvariant == Spec => [](Lined(client) /\ "released" \in DOMAIN plays)
<1>1. Init => Lined(client) /\ "released" \in DOMAIN plays
  BY DEF Init, Fresh0, NoPlays, Lined
<1>2. IInv /\ Lined(client) /\ "released" \in DOMAIN plays /\ [Next]_vars
        => (Lined(client) /\ "released" \in DOMAIN plays)'
  <2> DEFINE Aside == plays' \in {plays, PlaysAfter(client')}
             Goal == Lined(client)' /\ "released" \in DOMAIN plays'
  <2> SUFFICES ASSUME IInv, Lined(client), "released" \in DOMAIN plays, [Next]_vars
               PROVE  Goal
    OBVIOUS
  <2>0. ASSUME Lined(client'), Aside PROVE Goal
    BY <2>0, PlaysLined DEF PlaysAfter
  <2>1. ASSUME Shown(client, client'), Aside PROVE Goal
    <3>1. Lined(client')  BY <2>1, LinedSame
    <3> HIDE DEF Aside
    <3> QED  BY <2>0, <2>1, <3>1
  <2>2. ASSUME NEW due, Poll(due) PROVE Goal
    <3>1. Lined(client')  BY <2>2, PolledLined DEF Poll, IInv
    <3> QED  BY <2>0, <2>2, <3>1 DEF Poll
  <2>3. CASE \/ \E kind \in {"controls", "debug", "autochat"} : pump(kind)
             \/ pumpDispositionResult \/ prepare \/ choose \/ finishLoadedSave \/ halt
             \/ Finish \/ ServerEvent
    <3>1. Shown(client, client')  BY <2>3, OthersShown
    <3>2. plays' = plays
      <4>1. ASSUME NEW q, NEW code, NEW data, Deliver(q, code, data) PROVE plays' = plays
        BY <4>1 DEF Deliver
      <4>2. CASE Finish
        BY <4>1, <4>2 DEF Finish, FinishInit, FinishPollOk, FinishOther, FinishCancelled
      <4>3. CASE ~Finish
        BY <2>3, <4>3 DEF pump, pumpDispositionResult, prepare, choose, finishLoadedSave, halt,
             ServerEvent, Quiet
      <4> QED  BY <4>2, <4>3
    <3> QED  BY <2>1, <3>1, <3>2
  <2>4. CASE \/ submitTurn \/ submitDisposition \/ submitComment
             \/ \E kind \in {"controls", "debug"} : requestOne(kind)
    <3>1. Shown(client, client')  BY <2>4, ScriptShown
    <3>2. plays' = plays  BY <2>4 DEF submitTurn, submitDisposition, submitComment, requestOne, Quiet
    <3> QED  BY <2>1, <3>1, <3>2
  <2>5. ASSUME NEW begun \in BOOLEAN,
               cancelTurn(begun) \/ requestPlayerAutochat(begun) \/ cancelPlayerAutochat(begun)
        PROVE  Goal
    <3>1. Shown(client, client')  BY <2>5, ScriptShown
    <3>2. plays' = plays  BY <2>5 DEF cancelTurn, requestPlayerAutochat, cancelPlayerAutochat, Quiet
    <3> QED  BY <2>1, <3>1, <3>2
  <2>6. ASSUME NEW begun, requestMenuDialogueTts(begun) PROVE Goal
    <3>1. Lined(client')  BY <2>6, requestMenuDialogueTtsLined
    <3> QED  BY <2>0, <2>6, <3>1 DEF requestMenuDialogueTts, Quiet
  <2>7. ASSUME NEW begun, cancelMenuDialogueTts(begun) PROVE Goal
    <3>1. Lined(client')  BY <2>7, cancelMenuDialogueTtsLined
    <3> QED  BY <2>0, <2>7, <3>1 DEF cancelMenuDialogueTts
  <2>8. CASE prepareMedia
    <3>1. Lined(client')  BY <2>8, prepareMediaLined
    <3> QED  BY <2>0, <2>8, <3>1 DEF prepareMedia, Quiet
  <2>9. ASSUME NEW begun, releaseMedia(begun) PROVE Goal
    <3>1. "released" \in DOMAIN plays'
      BY <2>9 DEF releaseMedia, releaseSpeech, releaseMenuClip, Quiet
    <3> QED  BY <2>9, <3>1, releaseMediaLined
  <2>10. ASSUME NEW kind, NEW begun, cancelGeneration(kind, begun) PROVE Goal
    <3>1. Lined(client')  BY <2>10, cancelGenerationLined
    <3>2. Aside  BY <2>10 DEF cancelGeneration
    <3> HIDE DEF Aside
    <3> QED  BY <2>0, <3>1, <3>2
  <2>11. CASE UNCHANGED vars  BY <2>0, <2>11 DEF vars
  <2>12. CASE speakMenuClip
    <3>1. client' = client /\ plays'.released = plays.released /\ "released" \in DOMAIN plays'
      BY <2>12 DEF speakMenuClip
    <3> QED  BY <3>1 DEF Lined
  <2> HIDE DEF Goal
  <2> QED
    BY <2>2, <2>3, <2>4, <2>5, <2>6, <2>7, <2>8, <2>9, <2>10, <2>11, <2>12, Zenon DEF Next
<1> QED  BY <1>1, <1>2, InductiveInvariant, PTL DEF Spec

(* A menu line that is being prepared follows a download that will move it *)
(* on, also when it shares the clip with a line that was cancelled; only a *)
(* release, which asks no line, takes the clip from under it.              *)
THEOREM MenuFollowsItsClipHolds == Spec => []MenuFollowsItsClip
<1>1. Lined(client) => MenuFollowsItsClip  BY DEF Lined, MenuFollowsItsClip
<1> QED  BY <1>1, LinedInvariant, PTL

-------------------------------------------------------------------------------
(* Whoever waits                                                           *)

(* Someone waits for the answer x to a request of kind k; a download also  *)
(* has its clip.                                                           *)
Slots == {"turn", "controls", "debug", "disposition", "comment", "autochat"}
Expects(c, k, x, m) ==
  /\ x # 0
  /\ \/ k = "init" /\ x = c.init
     \/ k = "poll" /\ x = c.poll
     \/ k \in Slots /\ <<k, x>> \in c.wait
     \/ k = "menu" /\ x \in DOMAIN c.menus /\ c.menus[x].state = "requesting"
     \/ k = "media" /\ m \in DOMAIN c.media /\ x = c.media[m].id

(* The requests that will be answered, and the answers that will be read.  *)
(* Nothing answers a request whose answer was lost, and nothing settles a  *)
(* download that a fence cut off.                                          *)
Live(c) == {c.out[i] : i \in {i \in DOMAIN c.out : ~c.out[i].cancelled}}
ResultsOf(c) ==
  {c.deferred[i] : i \in DOMAIN c.deferred}
    \cup {c.inbound[i] : i \in {i \in DOMAIN c.inbound : c.inbound[i].gen = c.gen}}
Asking(q, k, x, m) == q.id = x /\ q.kind = k /\ (k = "media" => q.data[1] = m)
Answering(r, k, x, m) ==
  r.id = x /\ r.kind = k /\ r.code # "cancelled" /\ (k = "media" /\ r.code = "ok" => r.data[1] = m)
Due(c, L, R, k, x, m) ==
  \/ c.halted \/ x \in L \/ (k = "media" /\ x \in cut)
  \/ \E q \in Live(c) : q.gen = c.gen /\ Asking(q, k, x, m)
  \/ \E r \in R : Answering(r, k, x, m)

(* No id is waited for twice, so that an answer reaches who asked; the     *)
(* turn that can be cancelled is a turn; whoever waits has an answer due   *)
(* that is of the kind, and for the clip, that was asked for, unless the   *)
(* bridge is halted, the answer was lost, or a fence cut the download off. *)
Shaped(c) ==
  /\ \A w \in c.wait : w[1] \in Slots
  /\ \A m \in DOMAIN c.media : c.media[m].state # "requesting"
  /\ \A k, l, x, m, n : Expects(c, k, x, m) /\ Expects(c, l, x, n) => k = l /\ (k = "media" => m = n)
  /\ \A k, m : Expects(c, k, c.latest, m) => k = "turn"
Sure(c, L, R) == Shaped(c) /\ \A k, x, m : Expects(c, k, x, m) => Due(c, L, R, k, x, m)

(* Nobody begins to wait.                                                  *)
Fewer(c, d) ==
  /\ d.gen = c.gen /\ d.halted = c.halted /\ d.wait \subseteq c.wait /\ d.latest \in {c.latest, 0}
  /\ \A m \in DOMAIN d.media : d.media[m].state # "requesting"
  /\ \A k, x, m : Expects(d, k, x, m) => Expects(c, k, x, m)

LEMMA ShapedLess ==
  ASSUME NEW c, Shaped(c), NEW d, Fewer(c, d)
  PROVE  Shaped(d)
<1>1. \A w \in d.wait : w[1] \in Slots  BY DEF Shaped, Fewer
<1>2. \A k, l, x, m, n : Expects(d, k, x, m) /\ Expects(d, l, x, n) => k = l /\ (k = "media" => m = n)
  BY DEF Shaped, Fewer
<1>3. \A k, m : Expects(d, k, d.latest, m) => k = "turn"
  <2>1. \A k, m : ~Expects(d, k, 0, m)  BY DEF Expects
  <2> QED  BY <2>1 DEF Shaped, Fewer
<1> QED  BY <1>1, <1>2, <1>3 DEF Shaped, Fewer

LEMMA SureLess ==
  ASSUME NEW c, NEW L, NEW R, Sure(c, L, R), NEW d, Fewer(c, d), NEW M, NEW S,
         \A k, x, m : Expects(d, k, x, m) /\ Due(c, L, R, k, x, m) => Due(d, M, S, k, x, m)
  PROVE  Sure(d, M, S)
<1>1. Shaped(d)  BY ShapedLess DEF Sure
<1>2. \A k, x, m : Expects(d, k, x, m) => Due(d, M, S, k, x, m)  BY DEF Sure, Fewer
<1> QED  BY <1>1, <1>2 DEF Sure

(* What is due stays so while requests, losses and answers only join.      *)
LEMMA SureMore ==
  ASSUME NEW c, NEW L, NEW R, Sure(c, L, R), NEW d, Fewer(c, d), Live(c) \subseteq Live(d),
         NEW M, L \subseteq M, NEW S, R \subseteq S
  PROVE  Sure(d, M, S)
<1>1. ASSUME NEW k, NEW x, NEW m, Due(c, L, R, k, x, m) PROVE Due(d, M, S, k, x, m)
  BY <1>1 DEF Due, Fewer
<1> QED  BY <1>1, SureLess

(* An answer that nobody waits for any more may go.                        *)
LEMMA SureRead ==
  ASSUME NEW c, NEW L, NEW R, NEW r, Sure(c, L, R \cup {r}), NEW d, Fewer(c, d),
         Live(c) \subseteq Live(d), \A k, x, m : Expects(d, k, x, m) => ~Answering(r, k, x, m)
  PROVE  Sure(d, L, R)
<1>1. ASSUME NEW k, NEW x, NEW m, Expects(d, k, x, m), Due(c, L, R \cup {r}, k, x, m)
      PROVE  Due(d, L, R, k, x, m)
  BY <1>1 DEF Due, Fewer
<1> QED  BY <1>1, SureLess

(* So may a loss.                                                          *)
LEMMA SureForgot ==
  ASSUME NEW c, NEW L, NEW R, NEW id, Sure(c, L \cup {id}, R), NEW d, Fewer(c, d),
         Live(c) \subseteq Live(d), \A k, m : ~Expects(d, k, id, m)
  PROVE  Sure(d, L, R)
<1>1. ASSUME NEW k, NEW x, NEW m, Expects(d, k, x, m), Due(c, L \cup {id}, R, k, x, m)
      PROVE  Due(d, L, R, k, x, m)
  BY <1>1 DEF Due, Fewer
<1> QED  BY <1>1, SureLess

(* Whoever waits holds the id.                                             *)
LEMMA ExpectsHeld ==
  ASSUME NEW c, NEW k, NEW x, NEW m, Expects(c, k, x, m)
  PROVE  x \in Held(c) /\ c.latest \in Held(c)
<1>1. c.latest \in Held(c)  BY DEF Held
<1>2. CASE k = "init" /\ x = c.init  BY <1>1, <1>2 DEF Held
<1>3. CASE k = "poll" /\ x = c.poll  BY <1>1, <1>3 DEF Held
<1>4. CASE <<k, x>> \in c.wait
  <2> DEFINE w == <<k, x>>
  <2>1. w \in c.wait \cup c.kept /\ w[2] = x  BY <1>4
  <2> HIDE DEF w
  <2>2. x \in {v[2] : v \in c.wait \cup c.kept}  BY <2>1
  <2> QED  BY <1>1, <2>2 DEF Held
<1>5. CASE x \in DOMAIN c.menus  BY <1>1, <1>5 DEF Held
<1>6. CASE m \in DOMAIN c.media /\ x = c.media[m].id  BY <1>1, <1>6 DEF Held
<1> QED  BY <1>2, <1>3, <1>4, <1>5, <1>6 DEF Expects

(* A request is asked for under an id that nobody waits for.               *)
LEMMA SureAsk ==
  ASSUME NEW c \in Client, NEW L, NEW R, Sure(c, L, R), NEW q, q.id \notin Held(c), q.gen = c.gen,
         NEW d, d.gen = c.gen, d.halted = c.halted, Live(c) \subseteq Live(d), q \in Live(d),
         \A w \in d.wait : w \in c.wait \/ w[1] \in Slots,
         \A m \in DOMAIN d.media : d.media[m].state # "requesting",
         d.latest \in {c.latest, 0} \/ (d.latest = q.id /\ q.kind = "turn"),
         \A k, x, m : Expects(d, k, x, m) => Expects(c, k, x, m) \/ Asking(q, k, x, m)
  PROVE  Sure(d, L, R)
<1>1. \A k, x, m : Expects(c, k, x, m) => x # q.id /\ c.latest # q.id  BY ExpectsHeld
<1>2. \A w \in d.wait : w[1] \in Slots  BY DEF Sure, Shaped
<1>3. \A k, l, x, m, n : Expects(d, k, x, m) /\ Expects(d, l, x, n) => k = l /\ (k = "media" => m = n)
  <2> SUFFICES ASSUME NEW k, NEW l, NEW x, NEW m, NEW n, Expects(d, k, x, m), Expects(d, l, x, n)
               PROVE  k = l /\ (k = "media" => m = n)
    OBVIOUS
  <2>1. CASE x = q.id
    <3>1. Asking(q, k, x, m) /\ Asking(q, l, x, n)  BY <1>1, <2>1
    <3> QED  BY <3>1 DEF Asking
  <2>2. CASE x # q.id
    <3>1. Expects(c, k, x, m) /\ Expects(c, l, x, n)  BY <2>2 DEF Asking
    <3> QED  BY <3>1 DEF Sure, Shaped
  <2> QED  BY <2>1, <2>2
<1>4. \A k, m : Expects(d, k, d.latest, m) => k = "turn"
  <2> SUFFICES ASSUME NEW k, NEW m, Expects(d, k, d.latest, m) PROVE k = "turn"  OBVIOUS
  <2>1. d.latest # 0  BY DEF Expects
  <2>2. CASE Expects(c, k, d.latest, m)
    <3>1. d.latest = c.latest  BY <1>1, <2>1, <2>2
    <3> QED  BY <2>2, <3>1 DEF Sure, Shaped
  <2>3. CASE Asking(q, k, d.latest, m)
    <3>1. c.latest \in Held(c)  BY DEF Held
    <3>2. d.latest = q.id /\ q.kind = k  BY <2>3 DEF Asking
    <3> QED  BY <2>1, <3>1, <3>2
  <2> QED  BY <2>2, <2>3
<1>5. \A k, x, m : Expects(d, k, x, m) => Due(d, L, R, k, x, m)
  <2> SUFFICES ASSUME NEW k, NEW x, NEW m, Expects(d, k, x, m) PROVE Due(d, L, R, k, x, m)  OBVIOUS
  <2>1. CASE Asking(q, k, x, m)  BY <2>1 DEF Due
  <2>2. CASE Expects(c, k, x, m)
    <3>1. Due(c, L, R, k, x, m)  BY <2>2 DEF Sure
    <3> QED  BY <3>1 DEF Due
  <2> QED  BY <2>1, <2>2
<1> QED  BY <1>2, <1>3, <1>4, <1>5 DEF Sure, Shaped

(* Nothing that anyone waits for changes.                                  *)
Even(c, d) ==
  /\ d.gen = c.gen /\ d.halted = c.halted /\ d.init = c.init /\ d.poll = c.poll
  /\ d.wait = c.wait /\ d.latest = c.latest /\ d.menus = c.menus /\ d.media = c.media
LEMMA FewerEven ==
  ASSUME NEW c, Shaped(c), NEW d, Even(c, d)
  PROVE  Fewer(c, d)
BY DEF Shaped, Even, Fewer, Expects

(* cancel takes one request back, and loses no answer.                     *)
LEMMA CancelLive ==
  ASSUME NEW c \in Client, NEW id, NEW begun \in BOOLEAN
  PROVE  LET d == cancel(c, id, begun) IN
           /\ Even(c, d) /\ d.deferred = c.deferred /\ ResultsOf(c) \subseteq ResultsOf(d)
           /\ \A q \in Live(c) : q.id # id => q \in Live(d)
<1> DEFINE at == {i \in DOMAIN c.out : c.out[i].id = id /\ ~c.out[i].cancelled}
           d == cancel(c, id, begun)
           b == [c EXCEPT !.out = Tail(@)]
           r == Result(c.out[1], "cancelled", <<>>)
           Keeps(e) == /\ Even(c, e) /\ e.deferred = c.deferred /\ ResultsOf(c) \subseteq ResultsOf(e)
                       /\ \A q \in Live(c) : q.id # id => q \in Live(e)
<1>0. c.out \in Seq(Request) /\ c.inbound \in Seq(Response)  BY DEF Client
<1>1. \/ d \in {c, [c EXCEPT !.out = Marked(c, id)]}
      \/ 1 \in at /\ d \in {b, [b EXCEPT !.inbound = Append(@, r)]}
  BY Zenon DEF cancel, publishCancelled, Marked, b, r, at
<1>2. Keeps(c)  BY DEF Even
<1>3. Keeps([c EXCEPT !.out = Marked(c, id)])
  <2> DEFINE s == Marked(c, id)
             e == [c EXCEPT !.out = s]
  <2>1. \A i \in DOMAIN c.out : i \in DOMAIN s /\ (c.out[i].id # id => s[i] = c.out[i])
    <3> SUFFICES ASSUME NEW i \in DOMAIN c.out
                 PROVE  i \in DOMAIN s /\ (c.out[i].id # id => s[i] = c.out[i])
      OBVIOUS
    <3>1. i \in DOMAIN s /\ s[i] = [c.out[i] EXCEPT !.cancelled = @ \/ i \in at]  BY DEF Marked
    <3>2. c.out[i].id # id => i \notin at  OBVIOUS
    <3>3. c.out[i] \in Request  BY <1>0
    <3> HIDE DEF s, at
    <3> QED  BY <3>1, <3>2, <3>3 DEF Request
  <2> HIDE DEF s
  <2>2. /\ Even(c, e) /\ e.deferred = c.deferred /\ e.inbound = c.inbound /\ e.out = s
    BY DEF Client, Even
  <2> HIDE DEF e
  <2>3. ResultsOf(e) = ResultsOf(c)  BY <2>2 DEF ResultsOf, Even
  <2>4. \A q \in Live(c) : q.id # id => q \in Live(e)  BY <2>1, <2>2 DEF Live
  <2> QED  BY <2>2, <2>3, <2>4 DEF e, s
<1>4. ASSUME 1 \in at PROVE Keeps(b)
  <2>1. /\ Even(c, b) /\ b.deferred = c.deferred /\ b.inbound = c.inbound /\ b.out = Tail(c.out)
    BY DEF Client, Even
  <2> HIDE DEF b
  <2>2. ResultsOf(b) = ResultsOf(c)  BY <2>1 DEF ResultsOf, Even
  <2>3. \A i \in DOMAIN c.out : c.out[i].id # id => i - 1 \in DOMAIN b.out /\ b.out[i - 1] = c.out[i]
    BY <1>0, <1>4, <2>1
  <2>4. \A q \in Live(c) : q.id # id => q \in Live(b)  BY <2>3 DEF Live
  <2> QED  BY <2>1, <2>2, <2>4
<1>5. ASSUME 1 \in at PROVE Keeps([b EXCEPT !.inbound = Append(@, r)])
  <2> DEFINE e == [b EXCEPT !.inbound = Append(@, r)]
  <2> HIDE DEF r
  <2>1. b.inbound = c.inbound /\ Keeps(b)  BY <1>4, <1>5 DEF Client
  <2>2. /\ e.gen = b.gen /\ e.deferred = b.deferred /\ e.out = b.out /\ e.inbound = Append(c.inbound, r)
        /\ Even(b, e)
    BY DEF Client, Even
  <2> HIDE DEF b, e
  <2>3. \A i \in DOMAIN c.inbound : i \in DOMAIN e.inbound /\ e.inbound[i] = c.inbound[i]
    BY <1>0, <2>2
  <2>4. ResultsOf(c) \subseteq ResultsOf(e)  BY <2>1, <2>2, <2>3 DEF ResultsOf, Even
  <2>5. Even(c, e) /\ e.deferred = c.deferred  BY <2>1, <2>2 DEF Even
  <2>6. \A q \in Live(c) : q.id # id => q \in Live(e)  BY <2>1, <2>2 DEF Live
  <2> QED  BY <2>4, <2>5, <2>6 DEF e
<1> HIDE DEF b, r, at, d
<1>6. Keeps(d)  BY <1>1, <1>2, <1>3, <1>4, <1>5
<1> QED  BY <1>6 DEF d

(* Whoever waited for the request has lost it.                             *)
LEMMA SureCancel ==
  ASSUME NEW c \in Client, NEW L, NEW R, Sure(c, L, R), NEW id, NEW begun \in BOOLEAN
  PROVE  LET d == cancel(c, id, begun) IN
           Sure(d, L \cup {id}, R) /\ Even(c, d) /\ ResultsOf(c) \subseteq ResultsOf(d)
<1> DEFINE d == cancel(c, id, begun)
<1>1. /\ Even(c, d) /\ ResultsOf(c) \subseteq ResultsOf(d)
      /\ \A q \in Live(c) : q.id # id => q \in Live(d)
  BY CancelLive
<1> HIDE DEF d
<1>2. Fewer(c, d)  BY <1>1, FewerEven DEF Sure
<1>3. ASSUME NEW k, NEW x, NEW m, Due(c, L, R, k, x, m) PROVE Due(d, L \cup {id}, R, k, x, m)
  BY <1>1, <1>3 DEF Due, Asking, Even
<1>4. Sure(d, L \cup {id}, R)  BY <1>2, <1>3, SureLess
<1> QED  BY <1>1, <1>4 DEF d

(* A request joins the queue under an id that nobody waits for.            *)
LEMMA EnqueueLive ==
  ASSUME NEW c \in Client, Gone \in FiniteSubsets(Nat), NEW kind, NEW data
  PROVE  LET d == enqueue(c, kind, data)
             q == [id |-> FreshId(c), gen |-> c.gen, kind |-> kind, data |-> data, cancelled |-> FALSE] IN
           /\ Even(c, d) /\ d.inbound = c.inbound /\ d.deferred = c.deferred
           /\ Live(c) \subseteq Live(d) /\ q \in Live(d) /\ q.id \notin Held(c)
<1> DEFINE d == enqueue(c, kind, data)
           q == [id |-> FreshId(c), gen |-> c.gen, kind |-> kind, data |-> data, cancelled |-> FALSE]
<1>0. c.out \in Seq(Request)  BY DEF Client
<1>1. q.id \notin Held(c)  BY FreshIdFresh
<1>2. ~q.cancelled  OBVIOUS
<1>3. d = [c EXCEPT !.out = Append(c.out, q)]  BY DEF enqueue
<1> HIDE DEF d, q
<1>4. Even(c, d) /\ d.inbound = c.inbound /\ d.deferred = c.deferred /\ d.out = Append(c.out, q)
  BY <1>3 DEF Client, Even
<1>5. /\ \A i \in DOMAIN c.out : i \in DOMAIN d.out /\ d.out[i] = c.out[i]
      /\ Len(c.out) + 1 \in DOMAIN d.out /\ d.out[Len(c.out) + 1] = q
  BY <1>0, <1>4
<1>6. Live(c) \subseteq Live(d)  BY <1>5 DEF Live
<1>7. q \in Live(d)  BY <1>2, <1>5 DEF Live
<1> QED  BY <1>1, <1>4, <1>6, <1>7 DEF d, q

(* Whoever begins to wait does so for the request that joins.              *)
LEMMA SureRequest ==
  ASSUME NEW c \in Client, Gone \in FiniteSubsets(Nat), NEW kind, NEW data,
         NEW L, NEW R, Sure(c, L, R),
         NEW d, d.gen = c.gen, d.halted = c.halted, d.out = enqueue(c, kind, data).out,
         \A w \in d.wait : w \in c.wait \/ w[1] \in Slots,
         \A m \in DOMAIN d.media : d.media[m].state # "requesting",
         d.latest \in {c.latest, 0} \/ (d.latest = FreshId(c) /\ kind = "turn"),
         \A k, x, m : Expects(d, k, x, m) =>
           Expects(c, k, x, m) \/ (x = FreshId(c) /\ k = kind /\ (k = "media" => m = data[1]))
  PROVE  Sure(d, L, R)
<1> DEFINE e == enqueue(c, kind, data)
           q == [id |-> FreshId(c), gen |-> c.gen, kind |-> kind, data |-> data, cancelled |-> FALSE]
<1>1. Live(c) \subseteq Live(e) /\ q \in Live(e) /\ q.id \notin Held(c)  BY EnqueueLive
<1>2. q.id = FreshId(c) /\ q.kind = kind /\ q.data = data /\ q.gen = c.gen  OBVIOUS
<1> HIDE DEF e, q
<1>3. Live(d) = Live(e)  BY DEF Live, e
<1>4. \A k, x, m : Expects(d, k, x, m) => Expects(c, k, x, m) \/ Asking(q, k, x, m)
  BY <1>2 DEF Asking
<1> QED  BY <1>1, <1>2, <1>3, <1>4, SureAsk

(* What is sure of the client as it is.                                    *)
SureNow(c) == Sure(c, lost, ResultsOf(c))

(* A script waits in one of the slots.                                     *)
LEMMA WaitSure ==
  ASSUME NEW c \in Client, Gone \in FiniteSubsets(Nat), SureNow(c), NEW kind \in Slots,
         NEW latest \in {c.latest, 0} \cup (IF kind = "turn" THEN {FreshId(c)} ELSE {})
  PROVE  LET d == [enqueue(c, kind, <<>>) EXCEPT !.wait = @ \cup {<<kind, FreshId(c)>>}, !.latest = latest] IN
           SureNow(d) /\ d.halted = c.halted
<1> DEFINE e == enqueue(c, kind, <<>>)
           id == FreshId(c)
           w == <<kind, id>>
           d == [e EXCEPT !.wait = @ \cup {w}, !.latest = latest]
<1>1. Even(c, e) /\ e.inbound = c.inbound /\ e.deferred = c.deferred  BY EnqueueLive
<1>2. w[1] = kind /\ \A k, x : <<k, x>> = w => k = kind /\ x = id  OBVIOUS
<1>3. e = [c EXCEPT !.out = e.out]  BY DEF enqueue, Client
<1> HIDE DEF e, w
<1>4. /\ d.wait = e.wait \cup {w} /\ d.latest = latest /\ d.init = e.init /\ d.poll = e.poll
      /\ d.gen = e.gen /\ d.halted = e.halted /\ d.menus = e.menus /\ d.media = e.media
      /\ d.out = e.out /\ d.inbound = e.inbound /\ d.deferred = e.deferred
  BY <1>3 DEF Client
<1> HIDE DEF d
<1>5. \A k, x, m : Expects(d, k, x, m) => Expects(c, k, x, m) \/ (x = id /\ k = kind)
  BY <1>1, <1>2, <1>4 DEF Expects, Even
<1>6. kind # "media"  BY DEF Slots
<1>7. ResultsOf(d) = ResultsOf(c)  BY <1>1, <1>4 DEF ResultsOf, Even
<1>8. /\ d.gen = c.gen /\ d.out = e.out /\ d.halted = c.halted
      /\ \A v \in d.wait : v \in c.wait \/ v[1] \in Slots
      /\ \A m \in DOMAIN d.media : d.media[m].state # "requesting"
      /\ d.latest \in {c.latest, 0} \/ (d.latest = id /\ kind = "turn")
  BY <1>1, <1>2, <1>4 DEF SureNow, Sure, Shaped, Even
<1>9. Sure(d, lost, ResultsOf(c))  BY <1>5, <1>6, <1>8, SureRequest DEF SureNow, e, id
<1> QED  BY <1>7, <1>8, <1>9 DEF SureNow, d, e, id, w

LEMMA RequestSure ==
  ASSUME NEW c \in Client, Gone \in FiniteSubsets(Nat), SureNow(c), NEW kind \in Slots
  PROVE  LET d == [enqueue(c, kind, <<>>) EXCEPT !.wait = @ \cup {<<kind, FreshId(c)>>}] IN
           SureNow(d) /\ d.halted = c.halted
<1> DEFINE e == enqueue(c, kind, <<>>)
           w == <<kind, FreshId(c)>>
           d == [e EXCEPT !.wait = @ \cup {w}]
           f == [e EXCEPT !.wait = @ \cup {w}, !.latest = c.latest]
<1>1. SureNow(f) /\ f.halted = c.halted  BY WaitSure
<1>2. e = [c EXCEPT !.out = e.out]  BY DEF enqueue, Client
<1> HIDE DEF e, w
<1>3. f = d  BY <1>2 DEF Client
<1> HIDE DEF f
<1> QED  BY <1>1, <1>3 DEF d, e, w

(* Nobody waits for a poll that was dropped.                               *)
LEMMA DropPollSure ==
  ASSUME NEW c, Sound(c), NEW L, NEW R, Sure(c, L, R), NEW begun \in BOOLEAN
  PROVE  LET d == dropPoll(c, begun) IN
           /\ Sure(d, L, R) /\ d.halted = c.halted /\ d.latest = c.latest /\ d.wait = c.wait
           /\ ResultsOf(c) \subseteq ResultsOf(d)
<1> DEFINE e == cancel(c, c.poll, begun)
           d == [e EXCEPT !.poll = 0]
<1>1. Sure(e, L \cup {c.poll}, R) /\ Even(c, e) /\ ResultsOf(c) \subseteq ResultsOf(e)
  BY SureCancel DEF Sound, Good
<1>2. e \in Client  BY CancelSound
<1>3. dropPoll(c, begun) = d  BY DEF dropPoll
<1> HIDE DEF e
<1>4. /\ d.poll = 0 /\ d.gen = e.gen /\ d.halted = e.halted /\ d.init = e.init /\ d.wait = e.wait
      /\ d.latest = e.latest /\ d.menus = e.menus /\ d.media = e.media
      /\ d.out = e.out /\ d.inbound = e.inbound /\ d.deferred = e.deferred
  BY <1>2 DEF Client
<1> HIDE DEF d
<1>5. \A k, x, m : Expects(d, k, x, m) => Expects(e, k, x, m) /\ k # "poll"
  BY <1>4 DEF Expects, Slots
<1>6. Fewer(e, d)  BY <1>1, <1>4, <1>5 DEF Fewer, Sure, Shaped
<1>7. \A k, m : ~Expects(d, k, c.poll, m)
  <2> SUFFICES ASSUME NEW k, NEW m, Expects(d, k, c.poll, m) PROVE FALSE  OBVIOUS
  <2>1. Expects(e, k, c.poll, m) /\ k # "poll"  BY <1>5
  <2>2. Expects(e, "poll", c.poll, m)  BY <1>1, <2>1 DEF Expects, Even
  <2> QED  BY <1>1, <2>1, <2>2 DEF Sure, Shaped
<1>8. Live(e) \subseteq Live(d) /\ ResultsOf(d) = ResultsOf(e)  BY <1>4 DEF Live, ResultsOf
<1>9. Sure(d, L, R)  BY <1>1, <1>6, <1>7, <1>8, SureForgot
<1> QED  BY <1>1, <1>3, <1>4, <1>8, <1>9 DEF Even

-------------------------------------------------------------------------------
(* Whoever waits, through what scripts and the player do                   *)

LEMMA submitTurnSure ==
  ASSUME IInv, SureNow(client), submitTurn
  PROVE  SureNow(client') /\ client'.halted = client.halted
<1>1. client \in Client /\ Gone \in FiniteSubsets(Nat)  BY DEF IInv, Sound, Good
<1>2. "turn" \in Slots  BY DEF Slots
<1>3. client' = [enqueue(client, "turn", <<>>) EXCEPT
                   !.wait = @ \cup {<<"turn", FreshId(client)>>}, !.latest = FreshId(client)]
  BY DEF submitTurn
<1> QED  BY <1>1, <1>2, <1>3, WaitSure

LEMMA requestOneSure ==
  ASSUME IInv, SureNow(client), NEW kind, requestOne(kind)
  PROVE  SureNow(client') /\ client'.halted = client.halted
<1>1. client \in Client /\ Gone \in FiniteSubsets(Nat)  BY DEF IInv, Sound, Good
<1>2. kind \in Slots  BY DEF requestOne, Slots
<1>3. client' = [enqueue(client, kind, <<>>) EXCEPT !.wait = @ \cup {<<kind, FreshId(client)>>}]
  BY DEF requestOne
<1> QED  BY <1>1, <1>2, <1>3, RequestSure

(* Fewer wait, with the same queues.                                       *)
LEMMA SureFewer ==
  ASSUME NEW c, SureNow(c), NEW d, Fewer(c, d),
         d.out = c.out, d.inbound = c.inbound, d.deferred = c.deferred
  PROVE  SureNow(d) /\ d.halted = c.halted
<1>1. d.gen = c.gen /\ d.halted = c.halted  BY DEF Fewer
<1>2. Live(d) = Live(c) /\ ResultsOf(d) = ResultsOf(c)  BY <1>1 DEF Live, ResultsOf
<1>3. Sure(d, lost, ResultsOf(c))  BY <1>2, SureMore DEF SureNow
<1> QED  BY <1>1, <1>2, <1>3 DEF SureNow

(* Scripts may stop waiting.                                               *)
LEMMA SureWaits ==
  ASSUME NEW c \in Client, SureNow(c), NEW wait, wait \subseteq c.wait
  PROVE  SureNow([c EXCEPT !.wait = wait]) /\ [c EXCEPT !.wait = wait].halted = c.halted
<1> DEFINE d == [c EXCEPT !.wait = wait]
<1>1. /\ d.gen = c.gen /\ d.halted = c.halted /\ d.init = c.init /\ d.poll = c.poll /\ d.wait = wait
      /\ d.latest = c.latest /\ d.menus = c.menus /\ d.media = c.media
      /\ d.out = c.out /\ d.inbound = c.inbound /\ d.deferred = c.deferred
  BY DEF Client
<1> HIDE DEF d
<1>2. Fewer(c, d)  BY <1>1 DEF SureNow, Sure, Shaped, Fewer, Expects
<1>3. SureNow(d) /\ d.halted = c.halted  BY <1>1, <1>2, SureFewer
<1> QED  BY <1>3 DEF d

LEMMA submitDispositionSure ==
  ASSUME IInv, SureNow(client), submitDisposition
  PROVE  SureNow(client') /\ client'.halted = client.halted
<1> DEFINE kept == client.kept \ Receipts(client, "disposition")
           b == [client EXCEPT !.kept = kept]
           c == IF Cardinality(Receipts(client, "disposition")) >= ReceiptCap THEN b ELSE client
<1>1. client \in Client /\ client.kept \in Waits /\ Gone \in FiniteSubsets(Nat)
  BY DEF IInv, Sound, Good, Client
<1>2. client' = c \/ client' = [enqueue(c, "disposition", <<>>) EXCEPT !.wait = @ \cup {<<"disposition", FreshId(c)>>}]
  BY Zenon DEF submitDisposition, c, b, kept
<1>3. kept \in Waits  BY <1>1, WaitsWithout
<1> HIDE DEF kept
<1>4. b \in Client /\ SureNow(b) /\ b.halted = client.halted
  <2>1. /\ b \in Client /\ Even(client, b)
        /\ b.out = client.out /\ b.inbound = client.inbound /\ b.deferred = client.deferred
    BY <1>1, <1>3 DEF Client, Even
  <2> HIDE DEF b
  <2>2. Fewer(client, b)  BY <2>1, FewerEven DEF SureNow, Sure
  <2> QED  BY <2>1, <2>2, SureFewer
<1> HIDE DEF b
<1>5. c \in Client /\ SureNow(c) /\ c.halted = client.halted  BY <1>1, <1>4
<1> HIDE DEF c
<1>6. "disposition" \in Slots  BY DEF Slots
<1> QED  BY <1>1, <1>2, <1>5, <1>6, RequestSure

LEMMA submitCommentSure ==
  ASSUME IInv, SureNow(client), submitComment
  PROVE  SureNow(client') /\ client'.halted = client.halted
<1>1. client \in Client /\ client.wait \in Waits /\ Gone \in FiniteSubsets(Nat)
  BY DEF IInv, Sound, Good, Client
<1>2. PICK old \in SUBSET Receipts(client, "comment") :
        LET c == [client EXCEPT !.wait = @ \ old] IN
        client' = IF Cardinality(Receipts(c, "comment")) >= ReceiptCap THEN c
                  ELSE [enqueue(c, "comment", <<>>) EXCEPT !.wait = @ \cup {<<"comment", FreshId(c)>>}]
  BY Zenon DEF submitComment
<1> DEFINE wait == client.wait \ old
           c == [client EXCEPT !.wait = wait]
<1>3. client' = c \/ client' = [enqueue(c, "comment", <<>>) EXCEPT !.wait = @ \cup {<<"comment", FreshId(c)>>}]
  BY <1>2, Zenon
<1>4. wait \in Waits /\ wait \subseteq client.wait  BY <1>1, WaitsWithout
<1> HIDE DEF wait
<1>5. SureNow(c) /\ c.halted = client.halted  BY <1>1, <1>4, SureWaits
<1>6. c \in Client  BY <1>1, <1>4 DEF Client
<1> HIDE DEF c
<1>7. "comment" \in Slots  BY DEF Slots
<1> QED  BY <1>1, <1>3, <1>5, <1>6, <1>7, RequestSure

(* More answers are to hand than those that are counted on.                *)
LEMMA SureOf ==
  ASSUME NEW c, NEW L, NEW R, Sure(c, L, R), Shaped(c), L \subseteq lost, R \subseteq ResultsOf(c)
  PROVE  SureNow(c)
<1>1. ASSUME NEW k, NEW x, NEW m, Due(c, L, R, k, x, m) PROVE Due(c, lost, ResultsOf(c), k, x, m)
  BY <1>1 DEF Due
<1> QED  BY <1>1 DEF Sure, SureNow

(* Only a turn waits under the id of the last turn, and it is given up.    *)
LEMMA cancelTurnSure ==
  ASSUME IInv, SureNow(client), NEW begun \in BOOLEAN, cancelTurn(begun)
  PROVE  SureNow(client') /\ client'.halted = client.halted
<1> DEFINE b == cancel(client, client.latest, begun)
           c == dropPoll(b, begun)
           wait == c.wait \ {<<"turn", c.latest>>}
           d == [c EXCEPT !.wait = wait]
           e == enqueue(d, "interruption", <<>>)
           f == [e EXCEPT !.latest = 0]
           R == ResultsOf(client)
           id == client.latest
<1>0. Sound(client) /\ client \in Client /\ Gone \in FiniteSubsets(Nat) /\ Sure(client, lost, R)
  BY DEF IInv, Sound, Good, SureNow
<1>1. client' = d \/ client' = f  BY Zenon DEF cancelTurn, b, c, d, e, f, wait
<1>2. Sound(b) /\ Sure(b, lost \cup {id}, R) /\ Even(client, b) /\ R \subseteq ResultsOf(b)
  BY <1>0, CancelSound, SureCancel
<1> HIDE DEF b
<1>3. /\ Sound(c) /\ c \in Client /\ Sure(c, lost \cup {id}, R) /\ c.latest = id
      /\ c.halted = client.halted /\ R \subseteq ResultsOf(c)
  BY <1>2, DropPollSure, DropPollSound DEF Even
<1> HIDE DEF c, R
<1>4. wait \in Waits  BY <1>3, WaitsWithout DEF Client
<1>5. /\ d.gen = c.gen /\ d.halted = c.halted /\ d.init = c.init /\ d.poll = c.poll /\ d.wait = wait
      /\ d.latest = c.latest /\ d.menus = c.menus /\ d.media = c.media /\ d \in Client
      /\ d.out = c.out /\ d.inbound = c.inbound /\ d.deferred = c.deferred
  BY <1>3, <1>4 DEF Client
<1> HIDE DEF d
<1>6. Fewer(c, d)  BY <1>3, <1>5 DEF Sure, Shaped, Fewer, Expects
<1>7. \A k, m : ~Expects(d, k, id, m)
  <2> SUFFICES ASSUME NEW k, NEW m, Expects(d, k, id, m) PROVE FALSE  OBVIOUS
  <2>1. Expects(c, k, id, m)  BY <1>6 DEF Fewer
  <2>2. k = "turn"  BY <1>3, <2>1 DEF Sure, Shaped
  <2>3. <<"turn", id>> \in d.wait  BY <2>2 DEF Expects
  <2> QED  BY <1>3, <1>5, <2>3
<1>8. Live(c) \subseteq Live(d) /\ ResultsOf(d) = ResultsOf(c)  BY <1>5 DEF Live, ResultsOf
<1>9. Sure(d, lost, R)  BY <1>3, <1>6, <1>7, <1>8, SureForgot
<1>10. SureNow(d)  BY <1>3, <1>8, <1>9, SureOf DEF Sure
<1>11. SureNow(f) /\ f.halted = d.halted
  <2>1. Even(d, e) /\ e.inbound = d.inbound /\ e.deferred = d.deferred  BY <1>0, <1>5, EnqueueLive
  <2>2. e = [d EXCEPT !.out = e.out]  BY <1>5 DEF enqueue, Client
  <2> HIDE DEF e
  <2>3. /\ f.gen = d.gen /\ f.halted = d.halted /\ f.init = d.init /\ f.poll = d.poll /\ f.wait = d.wait
        /\ f.latest = 0 /\ f.menus = d.menus /\ f.media = d.media
        /\ f.out = e.out /\ f.inbound = d.inbound /\ f.deferred = d.deferred
    BY <1>5, <2>1, <2>2 DEF Client, Even
  <2> HIDE DEF f
  <2>4. \A k, x, m : Expects(f, k, x, m) => Expects(d, k, x, m)  BY <2>3 DEF Expects
  <2>5. Sure(f, lost, ResultsOf(d))
    <3>1. f.out = enqueue(d, "interruption", <<>>).out  BY <2>3 DEF e
    <3>2. /\ \A w \in f.wait : w \in d.wait
          /\ \A m \in DOMAIN f.media : f.media[m].state # "requesting"
      BY <1>10, <2>3 DEF SureNow, Sure, Shaped
    <3> QED  BY <1>0, <1>5, <1>10, <2>3, <2>4, <3>1, <3>2, SureRequest DEF SureNow
  <2>6. ResultsOf(f) = ResultsOf(d)  BY <2>3 DEF ResultsOf
  <2> QED  BY <2>3, <2>5, <2>6 DEF SureNow
<1> QED  BY <1>1, <1>3, <1>5, <1>10, <1>11

LEMMA requestPlayerAutochatSure ==
  ASSUME IInv, SureNow(client), NEW begun \in BOOLEAN, requestPlayerAutochat(begun)
  PROVE  SureNow(client') /\ client'.halted = client.halted
<1> DEFINE c == dropPoll(client, begun)
<1>1. Sound(client) /\ Gone \in FiniteSubsets(Nat)  BY DEF IInv
<1>2. \/ client' = c
      \/ client' = [enqueue(c, "autochat", <<>>) EXCEPT !.wait = @ \cup {<<"autochat", FreshId(c)>>}]
  BY Zenon DEF requestPlayerAutochat, c
<1>3. /\ c \in Client /\ Sure(c, lost, ResultsOf(client)) /\ c.halted = client.halted
      /\ ResultsOf(client) \subseteq ResultsOf(c)
  BY <1>1, DropPollSound, DropPollSure DEF SureNow
<1> HIDE DEF c
<1>4. SureNow(c)  BY <1>3, SureOf DEF Sure
<1>5. "autochat" \in Slots  BY DEF Slots
<1> QED  BY <1>1, <1>2, <1>3, <1>4, <1>5, RequestSure

LEMMA cancelPlayerAutochatSure ==
  ASSUME IInv, SureNow(client), NEW begun \in BOOLEAN, cancelPlayerAutochat(begun)
  PROVE  SureNow(client') /\ client'.halted = client.halted
<1> DEFINE own == {w \in client.wait : w[1] = "autochat"}
           id == IF own = {} THEN 0 ELSE (CHOOSE w \in own : TRUE)[2]
           S == Receipts(client, "autochat")
           c == cancel(client, id, begun)
           R == ResultsOf(client)
<1>0. Sound(client) /\ client \in Client /\ client.wait \in Waits /\ Sure(client, lost, R)
  BY DEF IInv, Sound, Good, Client, SureNow
<1>1. client' = [c EXCEPT !.wait = @ \ S, !.kept = @ \ S]
  BY DEF cancelPlayerAutochat, WithoutAutochat
<1>2. id = 0 \/ <<"autochat", id>> \in client.wait
  <2>1. CASE own # {}
    <3> DEFINE w == CHOOSE w \in own : TRUE
    <3>1. w \in own  BY <2>1
    <3> HIDE DEF w
    <3>2. w \in Kinds \X Nat /\ w[1] = "autochat"  BY <1>0, <3>1 DEF Waits, FiniteSubsets
    <3>3. w = <<"autochat", w[2]>>  BY <3>2
    <3>4. id = w[2]  BY <2>1 DEF w
    <3> QED  BY <3>1, <3>3, <3>4
  <2> QED  BY <2>1
<1> HIDE DEF own, id
<1>3. c \in Client /\ Sure(c, lost \cup {id}, R) /\ Even(client, c) /\ R \subseteq ResultsOf(c)
  BY <1>0, CancelSound, SureCancel
<1> HIDE DEF c, R
<1>4. /\ client'.gen = c.gen /\ client'.halted = c.halted /\ client'.init = c.init
      /\ client'.poll = c.poll /\ client'.wait = c.wait \ S /\ client'.latest = c.latest
      /\ client'.menus = c.menus /\ client'.media = c.media
      /\ client'.out = c.out /\ client'.inbound = c.inbound /\ client'.deferred = c.deferred
  BY <1>1, <1>3 DEF Client
<1>5. Fewer(c, client')  BY <1>3, <1>4 DEF Sure, Shaped, Fewer, Expects
<1>6. \A k, m : ~Expects(client', k, id, m)
  <2> SUFFICES ASSUME NEW k, NEW m, Expects(client', k, id, m) PROVE FALSE  OBVIOUS
  <2>1. id # 0 /\ Expects(c, k, id, m)  BY <1>5 DEF Fewer, Expects
  <2> DEFINE w == <<"autochat", id>>
  <2>2. w \in client.wait /\ w[1] = "autochat"  BY <1>2, <2>1
  <2>3. w \in S  BY <2>2 DEF Receipts
  <2>4. Expects(c, "autochat", id, m)  BY <1>3, <2>1, <2>2 DEF Expects, Even, Slots
  <2>5. k = "autochat"  BY <1>3, <2>1, <2>4 DEF Sure, Shaped
  <2>6. w \in client'.wait  BY <2>5 DEF Expects
  <2> QED  BY <1>4, <2>3, <2>6
<1>7. Live(c) \subseteq Live(client') /\ ResultsOf(client') = ResultsOf(c)
  BY <1>4 DEF Live, ResultsOf
<1>8. Sure(client', lost, R)  BY <1>3, <1>5, <1>6, <1>7, SureForgot
<1>9. SureNow(client')  BY <1>3, <1>7, <1>8, SureOf DEF Sure
<1> QED  BY <1>3, <1>4, <1>9 DEF Even

LEMMA requestMenuDialogueTtsSure ==
  ASSUME IInv, SureNow(client), NEW begun \in BOOLEAN, requestMenuDialogueTts(begun)
  PROVE  SureNow(client') /\ client'.halted = client.halted
<1> DEFINE c == dropPoll(client, begun)
           id == FreshId(c)
           d == enqueue(c, "menu", <<>>)
           line == [state |-> "requesting", clip |-> 0]
           menus == With(d.menus, id, line)
           e == [d EXCEPT !.menus = menus]
<1>1. Sound(client) /\ Gone \in FiniteSubsets(Nat)  BY DEF IInv
<1>2. client' = c \/ client' = e  BY Zenon DEF requestMenuDialogueTts, c, d, e, id, line, menus
<1>3. /\ c \in Client /\ Sure(c, lost, ResultsOf(client)) /\ c.halted = client.halted
      /\ ResultsOf(client) \subseteq ResultsOf(c)
  BY <1>1, DropPollSound, DropPollSure DEF SureNow
<1> HIDE DEF c
<1>4. SureNow(c)  BY <1>3, SureOf DEF Sure
<1>5. Even(c, d) /\ d.inbound = c.inbound /\ d.deferred = c.deferred  BY <1>1, <1>3, EnqueueLive
<1>6. d = [c EXCEPT !.out = d.out]  BY <1>3 DEF enqueue, Client
<1>7. DOMAIN menus = DOMAIN c.menus \cup {id} /\ \A x \in DOMAIN c.menus : x # id => menus[x] = c.menus[x]
  BY <1>5 DEF With, Even
<1> HIDE DEF d, line, menus
<1>8. /\ e.menus = menus /\ e.gen = c.gen /\ e.halted = c.halted /\ e.init = c.init /\ e.poll = c.poll
      /\ e.wait = c.wait /\ e.latest = c.latest /\ e.media = c.media
      /\ e.out = d.out /\ e.inbound = c.inbound /\ e.deferred = c.deferred
  BY <1>3, <1>5, <1>6 DEF Client, Even
<1> HIDE DEF e
<1>9. \A k, x, m : Expects(e, k, x, m) => Expects(c, k, x, m) \/ (x = id /\ k = "menu")
  BY <1>7, <1>8 DEF Expects
<1>10. Sure(e, lost, ResultsOf(c))
  <2>1. e.out = enqueue(c, "menu", <<>>).out  BY <1>8 DEF d
  <2>2. /\ \A w \in e.wait : w \in c.wait
        /\ \A m \in DOMAIN e.media : e.media[m].state # "requesting"
    BY <1>4, <1>8 DEF SureNow, Sure, Shaped
  <2> QED  BY <1>1, <1>3, <1>4, <1>8, <1>9, <2>1, <2>2, SureRequest DEF SureNow, id
<1>11. ResultsOf(e) = ResultsOf(c)  BY <1>8 DEF ResultsOf
<1> QED  BY <1>2, <1>3, <1>4, <1>8, <1>10, <1>11 DEF SureNow

(* A clip that is released is not waited for.                              *)
LEMMA ReleaseSure ==
  ASSUME NEW c, Sound(c), SureNow(c), NEW clip \in DOMAIN c.media, NEW begun \in BOOLEAN
  PROVE  LET d == [cancel(c, c.media[clip].id, begun) EXCEPT !.media = Without(@, {clip})] IN
           SureNow(d) /\ d.halted = c.halted
<1> DEFINE id == c.media[clip].id
           b == cancel(c, id, begun)
           d == [b EXCEPT !.media = Without(@, {clip})]
           R == ResultsOf(c)
<1>1. b \in Client /\ Sure(b, lost \cup {id}, R) /\ Even(c, b) /\ R \subseteq ResultsOf(b)
  BY CancelSound, SureCancel DEF SureNow, Sound, Good
<1> HIDE DEF b, R
<1>2. /\ d.gen = b.gen /\ d.halted = b.halted /\ d.init = b.init /\ d.poll = b.poll
      /\ d.wait = b.wait /\ d.latest = b.latest /\ d.menus = b.menus /\ d.media = Without(b.media, {clip})
      /\ d.out = b.out /\ d.inbound = b.inbound /\ d.deferred = b.deferred
  BY <1>1 DEF Client
<1> HIDE DEF d
<1>3. DOMAIN d.media = DOMAIN b.media \ {clip} /\ \A m \in DOMAIN d.media : d.media[m] = b.media[m]
  BY <1>2 DEF Without
<1>4. \A k, x, m : Expects(d, k, x, m) => Expects(b, k, x, m) /\ (k = "media" => m # clip)
  BY <1>2, <1>3 DEF Expects, Slots
<1>5. Fewer(b, d)  BY <1>1, <1>2, <1>3, <1>4 DEF Sure, Shaped, Fewer
<1>6. \A k, m : ~Expects(d, k, id, m)
  <2> SUFFICES ASSUME NEW k, NEW m, Expects(d, k, id, m) PROVE FALSE  OBVIOUS
  <2>1. id # 0 /\ Expects(b, k, id, m) /\ (k = "media" => m # clip)  BY <1>4 DEF Expects
  <2>2. Expects(b, "media", id, clip)  BY <1>1, <2>1 DEF Expects, Even
  <2> QED  BY <1>1, <2>1, <2>2 DEF Sure, Shaped
<1>7. Live(b) \subseteq Live(d) /\ ResultsOf(d) = ResultsOf(b)  BY <1>2 DEF Live, ResultsOf
<1>8. Sure(d, lost, R)  BY <1>1, <1>5, <1>6, <1>7, SureForgot
<1>9. SureNow(d)  BY <1>1, <1>7, <1>8, SureOf DEF Sure
<1> QED  BY <1>1, <1>2, <1>9 DEF Even, d, b

(* Neither is the answer to a line that was cancelled.                     *)
LEMMA cancelMenuDialogueTtsSure ==
  ASSUME IInv, SureNow(client), NEW begun \in BOOLEAN, cancelMenuDialogueTts(begun)
  PROVE  SureNow(client') /\ client'.halted = client.halted
<1>1. PICK y \in DOMAIN client.menus : client' = WithoutMenu(client, y, begun)
  BY DEF cancelMenuDialogueTts
<1> DEFINE clip == client.menus[y].clip
           id == IF client.menus[y].state = "requesting" THEN y ELSE 0
           c == cancel(client, id, begun)
           e == [c EXCEPT !.menus = Without(@, {y})]
           g == [cancel(e, e.media[clip].id, begun) EXCEPT !.media = Without(@, {clip})]
           R == ResultsOf(client)
<1>2. client' = e \/ (clip \in DOMAIN e.media /\ client' = g)
  BY <1>1, Zenon DEF WithoutMenu, clip, id, c, e, g
<1>3. id = 0 \/ (id = y /\ client.menus[y].state = "requesting")  OBVIOUS
<1> HIDE DEF id, clip
<1>4. Sound(client) /\ client \in Client /\ Sure(client, lost, R)
  BY DEF IInv, Sound, Good, SureNow
<1>5. Sound(c) /\ c \in Client /\ Sure(c, lost \cup {id}, R) /\ Even(client, c) /\ R \subseteq ResultsOf(c)
  BY <1>4, CancelSound, SureCancel
<1> HIDE DEF c, R
<1>6. Sound(e)
  <2>1. c.menus \in Tables(Nat, [state : Phases, clip : Clips \cup {0}])  BY <1>5 DEF Client, Lines
  <2>2. Without(c.menus, {y}) \in Lines  BY <2>1, TableWithout DEF Lines
  <2> QED  BY <1>5, <2>2, MenusSound
<1>7. /\ e.gen = c.gen /\ e.halted = c.halted /\ e.init = c.init /\ e.poll = c.poll
      /\ e.wait = c.wait /\ e.latest = c.latest /\ e.media = c.media /\ e.menus = Without(c.menus, {y})
      /\ e.out = c.out /\ e.inbound = c.inbound /\ e.deferred = c.deferred
  BY <1>5 DEF Client
<1> HIDE DEF e
<1>8. DOMAIN e.menus = DOMAIN c.menus \ {y} /\ \A x \in DOMAIN e.menus : e.menus[x] = c.menus[x]
  BY <1>7 DEF Without
<1>9. \A k, x, m : Expects(e, k, x, m) => Expects(c, k, x, m) /\ (k = "menu" => x # y)
  BY <1>7, <1>8 DEF Expects, Slots
<1>10. Fewer(c, e)  BY <1>5, <1>7, <1>9 DEF Sure, Shaped, Fewer
<1>11. \A k, m : ~Expects(e, k, id, m)
  <2> SUFFICES ASSUME NEW k, NEW m, Expects(e, k, id, m) PROVE FALSE  OBVIOUS
  <2>1. id # 0 /\ Expects(c, k, id, m) /\ (k = "menu" => id # y)  BY <1>9 DEF Expects
  <2>2. Expects(c, "menu", id, m)  BY <1>1, <1>3, <1>5, <2>1 DEF Expects, Even
  <2>3. k = "menu"  BY <1>5, <2>1, <2>2 DEF Sure, Shaped
  <2> QED  BY <1>3, <2>1, <2>3
<1>12. Live(c) \subseteq Live(e) /\ ResultsOf(e) = ResultsOf(c)  BY <1>7 DEF Live, ResultsOf
<1>13. Sure(e, lost, R)  BY <1>5, <1>10, <1>11, <1>12, SureForgot
<1>14. SureNow(e) /\ e.halted = client.halted  BY <1>5, <1>7, <1>12, <1>13, SureOf DEF Sure, Even
<1>15. clip \in DOMAIN e.media => SureNow(g) /\ g.halted = e.halted  BY <1>6, <1>14, ReleaseSure
<1> QED  BY <1>2, <1>14, <1>15

LEMMA releaseMediaSure ==
  ASSUME IInv, SureNow(client), NEW begun \in BOOLEAN, releaseMedia(begun)
  PROVE  SureNow(client') /\ client'.halted = client.halted
<1>1. PICK clip : client' = Released(client, clip, begun)
  BY Zenon DEF releaseMedia, releaseSpeech, releaseMenuClip
<1>2. CASE clip \notin DOMAIN client.media  BY <1>1, <1>2 DEF Released
<1>3. CASE clip \in DOMAIN client.media
  <2>1. client' = [cancel(client, client.media[clip].id, begun) EXCEPT !.media = Without(@, {clip})]
    BY <1>1, <1>3, Zenon DEF Released
  <2> QED  BY <1>3, <2>1, ReleaseSure DEF IInv
<1> QED  BY <1>2, <1>3

(* A clip is asked for; whoever waited for it before waits for the new one. *)
LEMMA ClipSure ==
  ASSUME NEW c \in Client, Gone \in FiniteSubsets(Nat), NEW R, Sure(c, lost, R), NEW clip
  PROVE  LET d == [enqueue(c, "media", <<clip>>) EXCEPT
                     !.media = With(@, clip, [state |-> "preparing", id |-> FreshId(c)])] IN
           Sure(d, lost, R) /\ d.halted = c.halted /\ ResultsOf(d) = ResultsOf(c) /\ d.gen = c.gen
<1> DEFINE id == FreshId(c)
           b == enqueue(c, "media", <<clip>>)
           row == [state |-> "preparing", id |-> id]
           d == [b EXCEPT !.media = With(@, clip, row)]
<1>1. Even(c, b) /\ b.inbound = c.inbound /\ b.deferred = c.deferred  BY EnqueueLive
<1>2. b = [c EXCEPT !.out = b.out]  BY DEF enqueue, Client
<1>3. row.id = id /\ row.state = "preparing"  OBVIOUS
<1> HIDE DEF b, row
<1>4. /\ d.gen = c.gen /\ d.halted = c.halted /\ d.init = c.init /\ d.poll = c.poll
      /\ d.wait = c.wait /\ d.latest = c.latest /\ d.menus = c.menus /\ d.media = With(c.media, clip, row)
      /\ d.out = b.out /\ d.inbound = c.inbound /\ d.deferred = c.deferred
  BY <1>1, <1>2 DEF Client, Even
<1> HIDE DEF d
<1>5. /\ DOMAIN d.media = DOMAIN c.media \cup {clip} /\ d.media[clip] = row
      /\ \A m \in DOMAIN c.media : m # clip => d.media[m] = c.media[m]
  BY <1>4 DEF With
<1>6. \A k, x, m : Expects(d, k, x, m) => Expects(c, k, x, m) \/ (x = id /\ k = "media" /\ m = clip)
  BY <1>3, <1>4, <1>5 DEF Expects
<1>7. /\ \A w \in d.wait : w \in c.wait
      /\ \A m \in DOMAIN d.media : d.media[m].state # "requesting"
  BY <1>3, <1>4, <1>5 DEF Sure, Shaped
<1>8. d.out = enqueue(c, "media", <<clip>>).out /\ <<clip>>[1] = clip  BY <1>4 DEF b
<1>9. Sure(d, lost, R)  BY <1>4, <1>6, <1>7, <1>8, SureRequest DEF id
<1>10. ResultsOf(d) = ResultsOf(c)  BY <1>4 DEF ResultsOf
<1> QED  BY <1>4, <1>9, <1>10 DEF d, b, row, id

LEMMA prepareMediaSure ==
  ASSUME IInv, SureNow(client), prepareMedia
  PROVE  SureNow(client') /\ client'.halted = client.halted
<1>1. PICK clip \in SpeechClips :
        client' = [enqueue(client, "media", <<clip>>) EXCEPT
                     !.media = With(@, clip, [state |-> "preparing", id |-> FreshId(client)])]
  BY Zenon DEF prepareMedia
<1>2. client \in Client /\ Gone \in FiniteSubsets(Nat)  BY DEF IInv, Sound, Good
<1> QED  BY <1>1, <1>2, ClipSure DEF SureNow

(* The handshake that begins is waited for.                                *)
Safely(c, d, L, R) ==
  Sure(d, L, R) /\ d.halted = c.halted /\ d.gen = c.gen /\ ResultsOf(d) = ResultsOf(c)
LEMMA SafelyEven ==
  ASSUME NEW c, NEW L, NEW R, Sure(c, L, R), NEW d, Even(c, d),
         d.out = c.out, d.inbound = c.inbound, d.deferred = c.deferred
  PROVE  Safely(c, d, L, R)
<1>1. Fewer(c, d)  BY FewerEven DEF Sure
<1>2. Live(d) = Live(c) /\ ResultsOf(d) = ResultsOf(c)  BY DEF Live, ResultsOf, Even
<1>3. Sure(d, L, R)  BY <1>1, <1>2, SureMore
<1> QED  BY <1>2, <1>3 DEF Safely, Even
LEMMA SafelyThen ==
  ASSUME NEW c, NEW d, NEW e, NEW L, NEW R, Safely(c, d, L, R), Safely(d, e, L, R)
  PROVE  Safely(c, e, L, R)
BY DEF Safely

LEMMA BeginSure ==
  ASSUME NEW c \in Client, Gone \in FiniteSubsets(Nat), NEW L, NEW R, Sure(c, L, R)
  PROVE  Safely(c, beginSession(c), L, R)
<1> DEFINE s == Snapshot(c)
           d == [c EXCEPT !.retry = FALSE, !.attempts = Attempts(c), !.snapshot = s, !.made = s.key]
           data == <<d.snapshot.key, d.snapshot.loaded>>
           id == FreshId(d)
           e == enqueue(d, "init", data)
           f == [e EXCEPT !.init = id]
           g == [d EXCEPT !.status = "error"]
<1>1. beginSession(c) \in {c, f, g}  BY Zenon DEF beginSession, d, e, f, g, id, s, data
<1>2. s \in [key : Nat, loaded : BOOLEAN] /\ Attempts(c) \in Nat
  BY DEF Client, Snapshot, Attempts
<1> HIDE DEF s
<1>3. d \in Client /\ Even(c, d) /\ d.out = c.out /\ d.inbound = c.inbound /\ d.deferred = c.deferred
  BY <1>2 DEF Client, Even
<1> HIDE DEF d, data
<1>4. Safely(c, d, L, R)  BY <1>3, SafelyEven
<1>5. Safely(d, g, L, R)
  <2>1. Even(d, g) /\ g.out = d.out /\ g.inbound = d.inbound /\ g.deferred = d.deferred
    BY <1>3 DEF Client, Even
  <2> HIDE DEF g
  <2> QED  BY <1>4, <2>1, SafelyEven DEF Safely
<1>6. Safely(d, f, L, R)
  <2>1. Even(d, e) /\ e.inbound = d.inbound /\ e.deferred = d.deferred  BY <1>3, EnqueueLive
  <2>2. e = [d EXCEPT !.out = e.out]  BY <1>3 DEF enqueue, Client
  <2> HIDE DEF e, id
  <2>3. /\ f.gen = d.gen /\ f.halted = d.halted /\ f.init = id /\ f.poll = d.poll
        /\ f.wait = d.wait /\ f.latest = d.latest /\ f.menus = d.menus /\ f.media = d.media
        /\ f.out = e.out /\ f.inbound = d.inbound /\ f.deferred = d.deferred
    BY <1>3, <2>1, <2>2 DEF Client, Even
  <2> HIDE DEF f
  <2>4. \A k, x, m : Expects(f, k, x, m) => Expects(d, k, x, m) \/ (x = id /\ k = "init")
    BY <2>3 DEF Expects
  <2>5. /\ \A w \in f.wait : w \in d.wait
        /\ \A m \in DOMAIN f.media : f.media[m].state # "requesting"
    BY <1>4, <2>3 DEF Safely, Sure, Shaped
  <2>6. f.out = enqueue(d, "init", data).out  BY <2>3 DEF e
  <2>7. Sure(f, L, R)  BY <1>3, <1>4, <2>3, <2>4, <2>5, <2>6, SureRequest DEF id, Safely
  <2>8. ResultsOf(f) = ResultsOf(d)  BY <2>3 DEF ResultsOf
  <2> QED  BY <2>3, <2>7, <2>8 DEF Safely
<1>7. Safely(c, c, L, R)  BY DEF Safely
<1> HIDE DEF f, g
<1> QED  BY <1>1, <1>4, <1>5, <1>6, <1>7, SafelyThen

(* So is the poll that is scheduled.                                       *)
LEMMA ScheduleSure ==
  ASSUME NEW c \in Client, Gone \in FiniteSubsets(Nat), NEW L, NEW R, Sure(c, L, R), NEW due
  PROVE  Safely(c, schedulePoll(c, due), L, R)
<1> DEFINE id == FreshId(c)
           e == enqueue(c, "poll", <<c.cursor>>)
           f == [e EXCEPT !.poll = id]
<1>1. schedulePoll(c, due) \in {c, f}  BY Zenon DEF schedulePoll, e, f, id
<1>2. Even(c, e) /\ e.inbound = c.inbound /\ e.deferred = c.deferred  BY EnqueueLive
<1>3. e = [c EXCEPT !.out = e.out]  BY DEF enqueue, Client
<1> HIDE DEF e, id
<1>4. /\ f.gen = c.gen /\ f.halted = c.halted /\ f.init = c.init /\ f.poll = id
      /\ f.wait = c.wait /\ f.latest = c.latest /\ f.menus = c.menus /\ f.media = c.media
      /\ f.out = e.out /\ f.inbound = c.inbound /\ f.deferred = c.deferred
  BY <1>2, <1>3 DEF Client, Even
<1> HIDE DEF f
<1>5. \A k, x, m : Expects(f, k, x, m) => Expects(c, k, x, m) \/ (x = id /\ k = "poll")
  BY <1>4 DEF Expects
<1>6. /\ \A w \in f.wait : w \in c.wait
      /\ \A m \in DOMAIN f.media : f.media[m].state # "requesting"
  BY <1>4 DEF Sure, Shaped
<1>7. f.out = enqueue(c, "poll", <<c.cursor>>).out  BY <1>4 DEF e
<1>8. Sure(f, L, R)  BY <1>4, <1>5, <1>6, <1>7, SureRequest DEF id
<1>9. Safely(c, f, L, R) /\ Safely(c, c, L, R)  BY <1>4, <1>8 DEF Safely, ResultsOf
<1> QED  BY <1>1, <1>9

LEMMA ConfiguredSure ==
  ASSUME NEW c, Sound(c), Gone \in FiniteSubsets(Nat), NEW R, Sure(c, lost, R)
  PROVE  Safely(c, Configured(c), lost, R)
<1> DEFINE d == beginSession(c)
<1>1. c \in Client  BY DEF Sound, Good
<1>2. \/ Configured(c) = c
      \/ Configured(c) = [c EXCEPT !.status = "waiting_identity"]
      \/ c.session = 0 /\ Configured(c) = [d EXCEPT !.status = "connecting"]
  <2>1. CASE ~selected(c)  BY <2>1 DEF Configured
  <2>2. CASE selected(c) /\ c.session = 0  BY <2>2, Zenon DEF Configured, d
  <2>3. CASE selected(c) /\ c.session # 0  BY <2>3 DEF Configured
  <2> QED  BY <2>1, <2>2, <2>3
<1>3. ASSUME NEW b \in Client, Sure(b, lost, R), NEW status \in Statuses
      PROVE  Safely(b, [b EXCEPT !.status = status], lost, R)
  <2> DEFINE e == [b EXCEPT !.status = status]
  <2>1. Even(b, e) /\ e.out = b.out /\ e.inbound = b.inbound /\ e.deferred = b.deferred
    BY <1>3 DEF Client, Even
  <2> HIDE DEF e
  <2>2. Safely(b, e, lost, R)  BY <1>3, <2>1, SafelyEven
  <2> QED  BY <2>2 DEF e
<1>4. Safely(c, c, lost, R) /\ {"waiting_identity", "connecting"} \subseteq Statuses
  BY DEF Safely, Statuses
<1>5. Safely(c, d, lost, R)  BY <1>1, BeginSure
<1>6. c.session = 0 => d \in Client  BY BeginSound DEF Sound, Good
<1> HIDE DEF d
<1>7. c.session = 0 => Safely(c, [d EXCEPT !.status = "connecting"], lost, R)
  <2> SUFFICES ASSUME c.session = 0 PROVE Safely(c, [d EXCEPT !.status = "connecting"], lost, R)
    OBVIOUS
  <2>1. Sure(d, lost, R) /\ "connecting" \in Statuses  BY <1>4, <1>5 DEF Safely
  <2>2. Safely(d, [d EXCEPT !.status = "connecting"], lost, R)  BY <1>3, <1>6, <2>1
  <2> QED  BY <1>5, <2>2, SafelyThen
<1>8. Safely(c, [c EXCEPT !.status = "waiting_identity"], lost, R)  BY <1>1, <1>3, <1>4
<1> QED  BY <1>2, <1>4, <1>7, <1>8


LEMMA prepareSure ==
  ASSUME IInv, SureNow(client), prepare
  PROVE  SureNow(client') /\ client'.halted = client.halted
<1> DEFINE d == [client EXCEPT !.prepared = TRUE, !.bound = TRUE]
           R == ResultsOf(client)
<1>1. Sound(client) /\ client \in Client /\ Gone \in FiniteSubsets(Nat) /\ Sure(client, lost, R)
  BY DEF IInv, Sound, Good, SureNow
<1>2. /\ d \in Client /\ Same(client, d) /\ Even(client, d)
      /\ d.out = client.out /\ d.inbound = client.inbound /\ d.deferred = client.deferred
  BY <1>1 DEF Client, Same, Steady, Still, Even
<1>3. client' = Configured(d)  BY DEF prepare
<1> HIDE DEF d, R
<1>4. Sound(d) /\ Safely(client, d, lost, R)  BY <1>1, <1>2, SoundSame, SafelyEven
<1>5. Safely(d, client', lost, R)  BY <1>1, <1>3, <1>4, ConfiguredSure DEF Safely
<1>6. Safely(client, client', lost, R)  BY <1>4, <1>5, SafelyThen
<1> QED  BY <1>6 DEF Safely, SureNow, R

LEMMA chooseSure ==
  ASSUME IInv, SureNow(client), choose
  PROVE  SureNow(client') /\ client'.halted = client.halted
<1> DEFINE d == [client EXCEPT !.bound = TRUE, !.snapshot = NoSnapshot, !.attempts = 0,
                               !.retry = FALSE, !.rejected = FALSE]
           R == ResultsOf(client)
<1>1. client \in Client /\ Gone \in FiniteSubsets(Nat) /\ Sure(client, lost, R)
  BY DEF IInv, Sound, Good, SureNow
<1>2. /\ d \in Client /\ Even(client, d)
      /\ d.out = client.out /\ d.inbound = client.inbound /\ d.deferred = client.deferred
  BY <1>1 DEF Client, NoSnapshot, Even
<1>3. Sound(d) /\ client' = Configured(d)  BY RechosenSound
<1> HIDE DEF d, R
<1>4. Safely(client, d, lost, R)  BY <1>1, <1>2, SafelyEven
<1>5. Safely(d, client', lost, R)  BY <1>1, <1>2, <1>3, <1>4, ConfiguredSure DEF Safely
<1>6. Safely(client, client', lost, R)  BY <1>4, <1>5, SafelyThen
<1> QED  BY <1>6 DEF Safely, SureNow, R

LEMMA finishLoadedSaveSure ==
  ASSUME IInv, SureNow(client), finishLoadedSave
  PROVE  SureNow(client') /\ client'.halted = client.halted
<1> DEFINE d == [client EXCEPT !.waiting = FALSE]
           R == ResultsOf(client)
<1>1. client \in Client /\ Gone \in FiniteSubsets(Nat) /\ Sure(client, lost, R)
  BY DEF IInv, Sound, Good, SureNow
<1>2. /\ d \in Client /\ Even(client, d)
      /\ d.out = client.out /\ d.inbound = client.inbound /\ d.deferred = client.deferred
  BY <1>1 DEF Client, Even
<1>3. client' = beginSession(d)  BY DEF finishLoadedSave
<1> HIDE DEF d, R
<1>4. Safely(client, d, lost, R)  BY <1>1, <1>2, SafelyEven
<1>5. Safely(d, client', lost, R)  BY <1>1, <1>2, <1>3, <1>4, BeginSure DEF Safely
<1>6. Safely(client, client', lost, R)  BY <1>4, <1>5, SafelyThen
<1> QED  BY <1>6 DEF Safely, SureNow, R

-------------------------------------------------------------------------------
(* Whoever waits, while results are handled                                *)

(* Nobody begins to wait, and no request joins or goes.                    *)
Spent(c, d) == Fewer(c, d) /\ d.out = c.out

LEMMA SpentThen ==
  ASSUME NEW c, NEW d, NEW e, Spent(c, d), Spent(d, e)
  PROVE  Spent(c, e)
BY DEF Spent, Fewer

LEMMA SetMenusSpent ==
  ASSUME NEW c \in Client, Shaped(c), NEW ids, NEW state \in Phases \ {"requesting"}
  PROVE  LET d == SetMenus(c, ids, state) IN
           /\ d \in Client /\ Spent(c, d) /\ d.media = c.media
           /\ \A x, m : Expects(d, "menu", x, m) => x \notin ids
<1> DEFINE menus == [x \in DOMAIN c.menus |->
                       IF x \in ids THEN [c.menus[x] EXCEPT !.state = state] ELSE c.menus[x]]
           d == SetMenus(c, ids, state)
<1>0. /\ c.menus \in [DOMAIN c.menus -> [state : Phases, clip : Clips \cup {0}]]
      /\ DOMAIN c.menus \subseteq Nat /\ IsFiniteSet(DOMAIN c.menus)
  <2>1. c.menus \in Lines  BY DEF Client
  <2> QED  BY <2>1, TableOf DEF Lines
<1>1. /\ menus \in [DOMAIN c.menus -> [state : Phases, clip : Clips \cup {0}]]
      /\ DOMAIN menus = DOMAIN c.menus
      /\ \A x \in DOMAIN c.menus : IF x \in ids THEN menus[x].state = state ELSE menus[x] = c.menus[x]
  BY <1>0
<1>2. d = [c EXCEPT !.menus = menus]  BY DEF SetMenus
<1> HIDE DEF d, menus
<1>3. menus \in Lines  BY <1>0, <1>1, TableOf DEF Lines
<1>4. /\ d \in Client /\ d.gen = c.gen /\ d.halted = c.halted /\ d.init = c.init /\ d.poll = c.poll
      /\ d.wait = c.wait /\ d.latest = c.latest /\ d.media = c.media /\ d.menus = menus
      /\ d.out = c.out
  BY <1>2, <1>3 DEF Client
<1>5. \A k, x, m : Expects(d, k, x, m) => Expects(c, k, x, m) /\ (k = "menu" => x \notin ids)
  BY <1>1, <1>4 DEF Expects, Slots
<1>6. Spent(c, d)  BY <1>4, <1>5 DEF Spent, Fewer, Shaped
<1> QED  BY <1>4, <1>5, <1>6 DEF d

LEMMA SetMediaSpent ==
  ASSUME NEW c \in Client, Shaped(c), NEW clips, NEW state \in Phases \ {"requesting"}
  PROVE  LET d == SetMedia(c, clips, state) IN
           Spent(c, d) /\ \A x, m : Expects(d, "media", x, m) => m \notin clips
<1> DEFINE media == [m \in DOMAIN c.media |->
                       IF m \in clips THEN [state |-> state, id |-> 0] ELSE c.media[m]]
           d == [c EXCEPT !.media = media]
           e == SetMenus(d, MenusOn(c, clips), state)
<1>0. /\ c.media \in [DOMAIN c.media -> [state : Phases, id : Nat]]
      /\ DOMAIN c.media \subseteq Clips /\ IsFiniteSet(DOMAIN c.media)
  <2>1. c.media \in Downloads  BY DEF Client
  <2> QED  BY <2>1, TableOf DEF Downloads
<1>1. /\ media \in [DOMAIN c.media -> [state : Phases, id : Nat]]
      /\ DOMAIN media = DOMAIN c.media
      /\ \A m \in DOMAIN c.media :
           IF m \in clips THEN media[m].state = state /\ media[m].id = 0 ELSE media[m] = c.media[m]
  BY <1>0
<1>2. SetMedia(c, clips, state) = e  BY DEF SetMedia
<1> HIDE DEF media
<1>3. media \in Downloads  BY <1>0, <1>1, TableOf DEF Downloads
<1>4. /\ d \in Client /\ d.gen = c.gen /\ d.halted = c.halted /\ d.init = c.init /\ d.poll = c.poll
      /\ d.wait = c.wait /\ d.latest = c.latest /\ d.media = media /\ d.menus = c.menus
      /\ d.out = c.out
  BY <1>3 DEF Client
<1> HIDE DEF d
<1>5. \A k, x, m : Expects(d, k, x, m) => Expects(c, k, x, m) /\ (k = "media" => m \notin clips)
  BY <1>1, <1>4 DEF Expects, Slots
<1>6. \A m \in DOMAIN media : media[m].state # "requesting"  BY <1>1 DEF Shaped
<1>7. Spent(c, d)  BY <1>4, <1>5, <1>6 DEF Spent, Fewer
<1>8. Shaped(d)  BY <1>7, ShapedLess DEF Spent
<1>9. Spent(d, e)  BY <1>4, <1>8, SetMenusSpent
<1> HIDE DEF e
<1>10. Spent(c, e)  BY <1>7, <1>9, SpentThen
<1>11. \A x, m : Expects(e, "media", x, m) => m \notin clips  BY <1>5, <1>9 DEF Spent, Fewer
<1> QED  BY <1>2, <1>10, <1>11


(* Nobody waits for r any more.                                            *)
Read(d, r) == \A k, x, m : Expects(d, k, x, m) => ~Answering(r, k, x, m)

LEMMA SettleSpent ==
  ASSUME NEW c \in Client, Shaped(c), NEW R
  PROVE  LET d == settle(c, R) IN
           /\ Spent(c, d) /\ d.inbound = c.inbound /\ d.deferred = c.deferred
           /\ d.wait = c.wait \ {<<r.kind, r.id>> : r \in R}
<1> DEFINE P == {<<r.kind, r.id>> : r \in {r \in R : r.kind \in {"disposition", "autochat"}}}
           Q == {<<r.kind, r.id>> : r \in R}
           d == settle(c, R)
<1>1. d = [c EXCEPT !.wait = c.wait \ Q, !.kept = c.kept \cup P]  BY DEF settle
<1> HIDE DEF d, P, Q
<1>2. /\ d.gen = c.gen /\ d.halted = c.halted /\ d.init = c.init /\ d.poll = c.poll
      /\ d.wait = c.wait \ Q /\ d.latest = c.latest /\ d.media = c.media /\ d.menus = c.menus
      /\ d.out = c.out /\ d.inbound = c.inbound /\ d.deferred = c.deferred
  BY <1>1 DEF Client
<1>3. Spent(c, d)  BY <1>2 DEF Spent, Fewer, Expects, Shaped
<1> QED  BY <1>2, <1>3 DEF d, Q

LEMMA SettleRead ==
  ASSUME NEW c \in Client, Shaped(c), NEW r, r.kind \in Slots
  PROVE  Spent(c, settle(c, {r})) /\ Read(settle(c, {r}), r)
<1> DEFINE d == settle(c, {r})
           w == <<r.kind, r.id>>
<1>1. Spent(c, d) /\ d.wait = c.wait \ {w}
  <2>1. {<<q.kind, q.id>> : q \in {r}} = {w}  OBVIOUS
  <2> HIDE DEF w
  <2> QED  BY <2>1, SettleSpent
<1> HIDE DEF d
<1>2. \A m : ~Expects(d, r.kind, r.id, m)  BY <1>1 DEF Expects, Slots
<1> QED  BY <1>1, <1>2 DEF Read, Answering, d

(* A handshake or a poll that is answered is over.                         *)
LEMMA AcceptedRead ==
  ASSUME NEW c \in Client, Shaped(c), NEW r, r.kind = "init"
  PROVE  Spent(c, Accepted(c, r)) /\ Read(Accepted(c, r), r)
<1> DEFINE d == Accepted(c, r)
<1>1. /\ d.gen = c.gen /\ d.halted = c.halted /\ d.init = 0 /\ d.poll = c.poll
      /\ d.wait = c.wait /\ d.latest = c.latest /\ d.media = c.media /\ d.menus = c.menus
      /\ d.out = c.out
  BY DEF Client, Accepted
<1> HIDE DEF d
<1>2. Spent(c, d)  BY <1>1 DEF Spent, Fewer, Expects, Shaped
<1>3. \A x, m : ~Expects(d, "init", x, m)  BY <1>1 DEF Expects, Slots
<1> QED  BY <1>2, <1>3 DEF Read, Answering, d
LEMMA EventsRead ==
  ASSUME NEW c \in Client, Shaped(c), NEW r, r.kind = "poll"
  PROVE  Spent(c, Events(c, r)) /\ Read(Events(c, r), r)
<1> DEFINE d == Events(c, r)
           seen == c.seen \o [i \in 1..(r.data[2] - r.data[1]) |-> r.data[1] + i]
<1>1. d \in {[c EXCEPT !.poll = 0], [c EXCEPT !.poll = 0, !.cursor = r.data[2], !.seen = seen]}
  BY DEF Events
<1> HIDE DEF d, seen
<1>2. /\ d.gen = c.gen /\ d.halted = c.halted /\ d.init = c.init /\ d.poll = 0
      /\ d.wait = c.wait /\ d.latest = c.latest /\ d.media = c.media /\ d.menus = c.menus
      /\ d.out = c.out
  BY <1>1 DEF Client
<1>3. Spent(c, d)  BY <1>2 DEF Spent, Fewer, Expects, Shaped
<1>4. \A x, m : ~Expects(d, "poll", x, m)  BY <1>2 DEF Expects, Slots
<1> QED  BY <1>3, <1>4 DEF Read, Answering, d

(* A failure is told to whoever waits for it, unless a script has it told  *)
(* by a lane of its own.                                                   *)
LEMMA FailedRead ==
  ASSUME NEW c, Sound(c), Shaped(c), NEW r \in Response, ResultSound(c, server, r), r.code \in Failures,
         \A k \in {"disposition", "debug", "autochat", "comment"} : ~Settles(c, r, k)
  PROVE  Spent(c, Failed(c, r)) /\ Read(Failed(c, r), r)
<1> DEFINE d == IF r.id = c.init THEN InitFailed(c, r) ELSE c
           clips == {m \in DOMAIN c.media : c.media[m].id = r.id}
           poll == IF d.poll = r.id THEN 0 ELSE d.poll
           gone == {<<"turn", r.id>>, <<"controls", r.id>>}
           wait == d.wait \ gone
           status == IF c.session = 0 THEN "error"
                     ELSE IF clips = {} \/ r.id = c.poll THEN "ready" ELSE d.status
           e == [d EXCEPT !.wait = wait, !.poll = poll, !.status = status]
           y == {m \in DOMAIN e.menus : m = r.id /\ e.menus[m].state = "requesting"}
           f == SetMenus(e, y, "failed")
           g == SetMedia(f, clips, "failed")
<1>0. c \in Client /\ r.id \in Nat \ {0} /\ c.wait \in Waits  BY DEF Sound, Good, Client, Response
<1>1. /\ d \in Client /\ d.gen = c.gen /\ d.halted = c.halted /\ d.init \in {0, c.init}
      /\ (r.id = c.init => d.init = 0) /\ d.poll = c.poll /\ d.wait = c.wait /\ d.latest = c.latest
      /\ d.media = c.media /\ d.menus = c.menus /\ d.out = c.out /\ d.status = c.status
  <2>1. CASE r.id = c.init
    <3> DEFINE b == InitFailed(c, r)
    <3>1. b \in Client  BY <2>1, InitFailedSound DEF Sound, Good
    <3>2. /\ b.gen = c.gen /\ b.halted = c.halted /\ b.init = 0 /\ b.poll = c.poll /\ b.wait = c.wait
          /\ b.latest = c.latest /\ b.media = c.media /\ b.menus = c.menus /\ b.out = c.out
          /\ b.status = c.status
      <4> DEFINE retry == r.code = "retry" /\ c.attempts < MaxAttempts
                 rejected == r.code = "reject"
      <4>1. b = [c EXCEPT !.init = 0, !.retry = retry, !.rejected = rejected]  BY DEF InitFailed
      <4> HIDE DEF b, retry, rejected
      <4> QED  BY <1>0, <4>1 DEF Client
    <3>3. d = b  BY <2>1
    <3> HIDE DEF b, d
    <3> QED  BY <3>1, <3>2, <3>3
  <2>2. CASE r.id # c.init
    <3>1. d = c  BY <2>2
    <3> HIDE DEF d
    <3> QED  BY <1>0, <2>2, <3>1
  <2> QED  BY <2>1, <2>2
<1> HIDE DEF d
<1>2. Failed(c, r) = g
  BY Zenon DEF Failed, d, clips, e, y, f, g, poll, wait, gone, status
<1>3. status \in Statuses /\ poll \in Nat /\ poll # r.id /\ poll \in {0, c.poll}
  BY <1>0, <1>1 DEF Statuses, Client
<1>4. wait \in Waits  BY <1>0, <1>1, WaitsWithout
<1>5. \A k, x, m : <<k, x>> \in wait => <<k, x>> \in c.wait /\ <<k, x>> \notin gone  BY <1>1
<1> HIDE DEF status, wait, poll
<1>6. /\ e \in Client /\ e.gen = c.gen /\ e.halted = c.halted /\ e.init = d.init /\ e.poll = poll
      /\ e.wait = wait /\ e.latest = c.latest /\ e.media = c.media /\ e.menus = c.menus /\ e.out = c.out
  BY <1>1, <1>3, <1>4 DEF Client
<1> HIDE DEF e
<1>7. \A k, x, m : Expects(e, k, x, m) => Expects(c, k, x, m)
  BY <1>1, <1>3, <1>5, <1>6 DEF Expects
<1>8. Spent(c, e)
  <2>1. e.wait \subseteq c.wait  BY <1>1, <1>6 DEF wait
  <2> QED  BY <1>6, <1>7, <2>1 DEF Spent, Fewer, Shaped
<1>9. Shaped(e) /\ "failed" \in Phases \ {"requesting"}  BY <1>8, ShapedLess DEF Spent, Phases
<1>10. Spent(e, f) /\ f \in Client /\ f.media = e.media /\ \A x, m : Expects(f, "menu", x, m) => x \notin y
  <2> HIDE DEF y
  <2> QED  BY <1>6, <1>9, SetMenusSpent
<1>11. Shaped(f)  BY <1>9, <1>10, ShapedLess DEF Spent
<1> HIDE DEF f
<1>12. Spent(f, g) /\ \A x, m : Expects(g, "media", x, m) => m \notin clips
  BY <1>9, <1>10, <1>11, SetMediaSpent
<1> HIDE DEF g
<1>13. Spent(c, g)  BY <1>8, <1>10, <1>12, SpentThen
<1>14. ASSUME NEW k, NEW m, Expects(g, k, r.id, m), k = r.kind PROVE FALSE
  <2>1. /\ Expects(f, k, r.id, m) /\ Expects(e, k, r.id, m) /\ Expects(c, k, r.id, m)
    BY <1>8, <1>10, <1>12, <1>14 DEF Spent, Fewer
  <2>2. k # "init" /\ k # "poll"  BY <1>0, <1>1, <1>3, <1>6, <2>1 DEF Expects, Slots
  <2>3. k \notin {"turn", "controls"}
    <3> DEFINE v == <<k, r.id>>
    <3>1. ASSUME k \in {"turn", "controls"} PROVE FALSE
      <4>1. v \in wait  BY <1>6, <2>1, <3>1 DEF Expects
      <4>2. v \in gone  BY <3>1
      <4> QED  BY <4>1, <4>2 DEF wait
    <3> QED  BY <3>1
  <2>4. k \notin {"disposition", "debug", "autochat", "comment"}
    BY <1>14, <2>1 DEF Settles, Expects
  <2>5. k # "menu"
    <3>1. ASSUME k = "menu" PROVE FALSE
      <4>1. r.id \in y  BY <2>1, <3>1 DEF Expects, Slots
      <4> QED  BY <1>10, <2>1, <3>1, <4>1
    <3> QED  BY <3>1
  <2>6. k # "media"
    <3>1. ASSUME k = "media" PROVE FALSE
      <4>1. m \in clips  BY <2>1, <3>1 DEF Expects, Slots
      <4> QED  BY <1>12, <1>14, <3>1, <4>1
    <3> QED  BY <3>1
  <2> QED  BY <2>1, <2>2, <2>3, <2>4, <2>5, <2>6 DEF Expects, Slots
<1>15. Read(g, r)  BY <1>14 DEF Read, Answering
<1> QED  BY <1>2, <1>13, <1>15


(* The line that is prepared waits for its clip instead of its answer.     *)
LEMMA PrepareRead ==
  ASSUME NEW c, Sound(c), Gone \in FiniteSubsets(Nat), NEW R, Sure(c, lost, R),
         NEW id \in DOMAIN c.menus, NEW clip \in MenuClips
  PROVE  LET d == prepareMenuDialogueMedia(c, id, clip) IN
           /\ Sure(d, lost, R) /\ d.gen = c.gen /\ d.halted = c.halted
           /\ \A m : ~Expects(d, "menu", id, m)
<1> DEFINE known == clip \in DOMAIN c.media
           state == IF known THEN c.media[clip].state ELSE IF CanSend(c) THEN "preparing" ELSE "failed"
           line == [state |-> state, clip |-> clip]
           menus == [c.menus EXCEPT ![id] = line]
           e == [c EXCEPT !.menus[id] = line]
           f == enqueue(e, "media", <<clip>>)
           g == [f EXCEPT !.media = With(@, clip, [state |-> "preparing", id |-> FreshId(e)])]
<1>0. c \in Client /\ c.menus \in Lines /\ c.media \in Downloads /\ Shaped(c)
  BY DEF Sound, Good, Client, Sure
<1>1. /\ c.menus \in [DOMAIN c.menus -> [state : Phases, clip : Clips \cup {0}]]
      /\ DOMAIN c.menus \subseteq Nat /\ IsFiniteSet(DOMAIN c.menus)
  BY <1>0, TableOf DEF Lines
<1>2. state \in Phases /\ state # "requesting"
  <2>1. c.media \in [DOMAIN c.media -> [state : Phases, id : Nat]]  BY <1>0, TableOf DEF Downloads
  <2>2. known => c.media[clip].state # "requesting"  BY <1>0 DEF Shaped
  <2> QED  BY <2>1, <2>2 DEF Phases
<1>3. line \in [state : Phases, clip : Clips \cup {0}] /\ line.state # "requesting"
  <2> HIDE DEF state
  <2> QED  BY <1>2 DEF Clips
<1>4. prepareMenuDialogueMedia(c, id, clip) = e \/ prepareMenuDialogueMedia(c, id, clip) = g
  BY Zenon DEF prepareMenuDialogueMedia, e, f, g, line, state
<1> HIDE DEF line
<1>5. /\ menus \in [DOMAIN c.menus -> [state : Phases, clip : Clips \cup {0}]]
      /\ DOMAIN menus = DOMAIN c.menus /\ menus[id] = line
      /\ \A x \in DOMAIN c.menus : x # id => menus[x] = c.menus[x]
  BY <1>1, <1>3
<1>6. e = [c EXCEPT !.menus = menus]  BY <1>0 DEF Client
<1> HIDE DEF menus, e
<1>7. menus \in Lines  BY <1>1, <1>5, TableOf DEF Lines
<1>8. /\ e \in Client /\ e.gen = c.gen /\ e.halted = c.halted /\ e.init = c.init /\ e.poll = c.poll
      /\ e.wait = c.wait /\ e.latest = c.latest /\ e.media = c.media /\ e.menus = menus
      /\ e.out = c.out
  BY <1>0, <1>6, <1>7 DEF Client
<1>9. \A k, x, m : Expects(e, k, x, m) => Expects(c, k, x, m) /\ (k = "menu" => x # id)
  BY <1>3, <1>5, <1>8 DEF Expects, Slots
<1>10. Fewer(c, e) /\ Live(e) = Live(c)  BY <1>0, <1>8, <1>9 DEF Fewer, Shaped, Live
<1>11. Sure(e, lost, R)  BY <1>10, SureMore
<1>12. /\ Sure(g, lost, R) /\ g.gen = e.gen /\ g.halted = e.halted
  BY <1>8, <1>11, ClipSure
<1>13. g.menus = e.menus
  <2>1. f = [e EXCEPT !.out = f.out]  BY <1>8 DEF enqueue, Client
  <2> HIDE DEF f
  <2> QED  BY <1>8, <2>1 DEF Client
<1> HIDE DEF g, f
<1>14. \A m : ~Expects(g, "menu", id, m)  BY <1>3, <1>5, <1>8, <1>13 DEF Expects, Slots
<1> QED  BY <1>4, <1>8, <1>9, <1>11, <1>12, <1>14

(* Whoever waited for a result that is handled waits no more.              *)
LEMMA HandleSure ==
  ASSUME NEW c, Sound(c), Gone \in FiniteSubsets(Nat), NEW r \in Response, Answered(c, r),
         ResultSound(c, server, r), NEW R, Sure(c, lost, R \cup {r})
  PROVE  LET d == Handle(c, r) IN Sure(d, lost, R) /\ d.gen = c.gen /\ d.halted = c.halted
<1> DEFINE S == R \cup {r}
           Told == \E k \in {"disposition", "debug", "autochat", "comment"} : Settles(c, r, k)
           Keeps(d) == d \in Client /\ Sure(d, lost, S) /\ d.gen = c.gen /\ d.halted = c.halted
           Late(d) == \A k, x, m : Expects(d, k, x, m) /\ Answering(r, k, x, m) => k = "turn"
           Done(d) == Sure(d, lost, R) /\ d.gen = c.gen /\ d.halted = c.halted
           wait(d) == d.wait \ {<<"turn", r.id>>}
           Dropped(d) == [d EXCEPT !.wait = @ \ {<<"turn", r.id>>}]
           d == IF r.kind = "init" /\ r.code = "ok" /\ r.id = c.init THEN Accepted(c, r)
                ELSE IF OwnPoll(c, r) THEN Events(c, r)
                ELSE IF r.kind = "media" /\ r.code = "ok"
                  THEN IF r.data[1] \in DOMAIN c.media THEN SetMedia(c, {r.data[1]}, "ready") ELSE c
                ELSE IF r.kind = "menu" /\ r.code = "ok"
                  THEN IF r.id \in DOMAIN c.menus THEN prepareMenuDialogueMedia(c, r.id, r.data[1]) ELSE c
                ELSE IF Settles(c, r, "controls") THEN settle(c, {r}) ELSE c
<1>0. c \in Client /\ Shaped(c) /\ Sure(c, lost, S) /\ r.id # 0 /\ r.kind \in Kinds /\ r.code \in Codes
  BY DEF Sound, Good, Sure, Response
<1>1. Handle(c, r) = IF Told THEN settle(c, {r}) ELSE IF r.code \in Failures THEN Failed(c, r) ELSE Dropped(d)
  BY Zenon DEF Handle
<1> HIDE DEF d
<1>2. ASSUME NEW e, Spent(c, e), Read(e, r) PROVE Done(e)
  <2>1. Fewer(c, e) /\ Live(e) = Live(c)  BY <1>2 DEF Spent, Live
  <2>2. Sure(e, lost, R)  BY <1>0, <1>2, <2>1, SureRead DEF Read
  <2> QED  BY <2>1, <2>2 DEF Fewer
<1>3. ASSUME NEW e \in Client, Spent(c, e) PROVE Keeps(e)
  <2>1. Fewer(c, e) /\ Live(e) = Live(c)  BY <1>3 DEF Spent, Live
  <2>2. Sure(e, lost, S)  BY <1>0, <2>1, SureMore
  <2> QED  BY <1>3, <2>1, <2>2 DEF Fewer
<1>4. CASE Told
  <2>1. r.kind \in Slots  BY <1>4 DEF Settles, Slots
  <2> QED  BY <1>0, <1>1, <1>2, <1>4, <2>1, SettleRead
<1>5. CASE ~Told /\ r.code \in Failures
  BY <1>0, <1>1, <1>2, <1>5, FailedRead
<1>6. CASE ~Told /\ r.code \notin Failures
  <2>1. r.code \in {"ok", "cancelled"}  BY <1>0, <1>6 DEF Codes, Failures
  <2>2. Keeps(d) /\ Late(d)
    <3>1. CASE r.kind = "init" /\ r.code = "ok" /\ r.id = c.init
      <4>1. d = Accepted(c, r)  BY <3>1 DEF d
      <4>2. Spent(c, d) /\ Read(d, r)  BY <1>0, <3>1, <4>1, AcceptedRead
      <4>3. d \in Client  BY <3>1, <4>1, AcceptedSound DEF Sound, Good
      <4> QED  BY <1>3, <4>2, <4>3 DEF Read
    <3>2. CASE OwnPoll(c, r)
      <4>1. d = Events(c, r) /\ r.kind = "poll"  BY <3>2 DEF d, OwnPoll
      <4>2. Spent(c, d) /\ Read(d, r)  BY <1>0, <4>1, EventsRead
      <4>3. d \in Client  BY <3>2, <4>1, EventsSound DEF Sound, Good
      <4> QED  BY <1>3, <4>2, <4>3 DEF Read
    <3>3. CASE r.kind = "media" /\ r.code = "ok" /\ r.data[1] \in DOMAIN c.media
      <4>1. d = SetMedia(c, {r.data[1]}, "ready")  BY <3>3 DEF d, OwnPoll
      <4>2. "ready" \in Phases \ {"requesting"}  BY DEF Phases
      <4>3. Spent(c, d) /\ \A x, m : Expects(d, "media", x, m) => m \notin {r.data[1]}
        BY <1>0, <4>1, <4>2, SetMediaSpent
      <4>4. d \in Client  BY <4>1, <4>2, SetMediaSound DEF Sound, Good
      <4>5. Late(d)  BY <3>3, <4>3 DEF Answering
      <4> QED  BY <1>3, <4>3, <4>4, <4>5
    <3>4. CASE r.kind = "menu" /\ r.code = "ok" /\ r.id \in DOMAIN c.menus
      <4>1. d = prepareMenuDialogueMedia(c, r.id, r.data[1])  BY <3>4 DEF d, OwnPoll
      <4>2. r.data[1] \in MenuClips  BY <3>4 DEF Answered
      <4>3. /\ Sure(d, lost, S) /\ d.gen = c.gen /\ d.halted = c.halted
            /\ \A m : ~Expects(d, "menu", r.id, m)
        BY <1>0, <3>4, <4>1, <4>2, PrepareRead
      <4>4. d \in Client  BY <3>4, <4>1, <4>2, PrepareSound DEF Sound, Good
      <4>5. Late(d)  BY <3>4, <4>3 DEF Answering
      <4> QED  BY <4>3, <4>4, <4>5
    <3>5. CASE Settles(c, r, "controls")
      <4>1. d = settle(c, {r}) /\ r.kind = "controls"  BY <3>5 DEF d, OwnPoll, Settles
      <4>2. r.kind \in Slots  BY <4>1 DEF Slots
      <4>3. Spent(c, d) /\ Read(d, r)  BY <1>0, <4>1, <4>2, SettleRead
      <4>4. {r} \in SUBSET Response /\ IsFiniteSet({r})  BY FS_Singleton
      <4>5. d \in Client  BY <4>1, <4>4, SettleSound DEF Sound, Good
      <4> QED  BY <1>3, <4>3, <4>5 DEF Read
    <3>6. CASE /\ ~(r.kind = "init" /\ r.code = "ok" /\ r.id = c.init) /\ ~OwnPoll(c, r)
               /\ ~(r.kind = "media" /\ r.code = "ok" /\ r.data[1] \in DOMAIN c.media)
               /\ ~(r.kind = "menu" /\ r.code = "ok" /\ r.id \in DOMAIN c.menus)
               /\ ~Settles(c, r, "controls")
      <4>1. d = c
        <5>1. CASE r.kind = "media" /\ r.code = "ok"  BY <3>6, <5>1 DEF d
        <5>2. CASE r.kind = "menu" /\ r.code = "ok"  BY <3>6, <5>2 DEF d
        <5>3. CASE ~(r.kind = "media" /\ r.code = "ok") /\ ~(r.kind = "menu" /\ r.code = "ok")
          BY <3>6, <5>3 DEF d
        <5> QED  BY <5>1, <5>2, <5>3
      <4>2. ASSUME NEW k, NEW m, Expects(c, k, r.id, m), Answering(r, k, r.id, m) PROVE k = "turn"
        <5>1. r.kind = k /\ r.code = "ok"  BY <2>1, <4>2 DEF Answering
        <5>2. k # "media"  BY <3>6, <4>2, <5>1 DEF Expects, Slots, Answering
        <5>3. k \notin {"disposition", "debug", "autochat", "comment"}
          BY <1>6, <4>2, <5>1 DEF Settles, Expects
        <5>4. k # "init" /\ k # "poll" /\ k # "menu"
          BY <3>6, <4>2, <5>1 DEF Expects, Slots, OwnPoll
        <5>5. k # "controls"  BY <3>6, <4>2, <5>1 DEF Expects, Settles
        <5> QED  BY <4>2, <5>2, <5>3, <5>4, <5>5 DEF Expects, Slots
      <4>3. Late(c)  BY <4>2 DEF Answering
      <4> QED  BY <1>0, <4>1, <4>3
    <3> QED  BY <3>1, <3>2, <3>3, <3>4, <3>5, <3>6
  <2>3. Done(Dropped(d))
    <3> DEFINE e == Dropped(d)
               w == <<"turn", r.id>>
    <3>1. e = [d EXCEPT !.wait = d.wait \ {w}]  OBVIOUS
    <3> HIDE DEF w, Dropped
    <3>2. /\ e.gen = d.gen /\ e.halted = d.halted /\ e.init = d.init /\ e.poll = d.poll
          /\ e.wait = d.wait \ {w} /\ e.latest = d.latest /\ e.media = d.media /\ e.menus = d.menus
          /\ e.out = d.out
      BY <2>2, <3>1 DEF Client
    <3> HIDE DEF e
    <3>3. Fewer(d, e) /\ Live(e) = Live(d)
      BY <2>2, <3>2 DEF Sure, Shaped, Fewer, Expects, Live
    <3>4. \A m : ~Expects(e, "turn", r.id, m)  BY <3>2 DEF Expects, Slots, w
    <3>5. \A k, x, m : Expects(e, k, x, m) => ~Answering(r, k, x, m)
      BY <2>2, <3>3, <3>4 DEF Answering, Fewer
    <3>6. Sure(e, lost, R)  BY <2>2, <3>3, <3>5, SureRead
    <3> QED  BY <2>2, <3>2, <3>6 DEF e
  <2> HIDE DEF Dropped
  <2> QED  BY <1>1, <1>6, <2>3
<1> QED  BY <1>4, <1>5, <1>6


(* A queue of results is handled in turn.                                  *)
LEMMA FoldSure ==
  ASSUME NEW c, Sound(c), Gone \in FiniteSubsets(Nat), NEW s \in Seq(Response),
         OfBoth(s, c.deferred, c.inbound), NEW Q, Sure(c, lost, {s[i] : i \in 1..Len(s)} \cup Q)
  PROVE  LET d == HandleAll(c, s) IN
           /\ d \in Client /\ Sound(d) /\ Sure(d, lost, Q) /\ d.gen = c.gen /\ d.halted = c.halted
           /\ d.inbound = c.inbound /\ d.deferred = c.deferred
<1> DEFINE n == Len(s)
           Left(k) == {s[i] : i \in (k + 1)..n} \cup Q
           Keeps(d, k) ==
             /\ Sound(d) /\ Sure(d, lost, Left(k)) /\ d.gen = c.gen /\ d.halted = c.halted
             /\ d.inbound = c.inbound /\ d.deferred = c.deferred
<1>1. n \in Nat /\ DOMAIN s = 1..n  OBVIOUS
<1>2. PICK h : Stepwise(h, c, s, n)
  <2> HIDE DEF n
  <2> QED  BY <1>1, HandleOneByOne
<1> DEFINE K == {k \in Nat : k <= n => Keeps(h[k], k)}
<1>3. 0 \in K  BY <1>2 DEF Stepwise
<1>4. ASSUME NEW k \in Nat, k \in K PROVE k + 1 \in K
  <2> SUFFICES ASSUME k + 1 <= n PROVE Keeps(h[k + 1], k + 1)  OBVIOUS
  <2>8. k <= n  BY <1>1
  <2>1. Keeps(h[k], k)
    <3> HIDE DEF Keeps, n
    <3> QED  BY <1>4, <2>8
  <2>2. k + 1 \in DOMAIN s /\ k + 1 \in 1..n /\ s[k + 1] \in Response  BY <1>1
  <2>3. Answered(h[k], s[k + 1]) /\ ResultSound(h[k], server, s[k + 1])
    BY <2>1, <2>2 DEF Sound, Good, Opens, OfBoth
  <2>4. h[k + 1] = Handle(h[k], s[k + 1])  BY <1>2, <2>2 DEF Stepwise
  <2>5. Left(k) = Left(k + 1) \cup {s[k + 1]}
    <3>1. (k + 1)..n = ((k + 1) + 1)..n \cup {k + 1}  BY <1>1
    <3> HIDE DEF n
    <3> QED  BY <3>1
  <2> HIDE DEF Left
  <2>6. LET d == Handle(h[k], s[k + 1]) IN
          Sound(d) /\ d.inbound = h[k].inbound /\ d.deferred = h[k].deferred
    BY <2>1, <2>2, <2>3, HandleSound
  <2>7. LET d == Handle(h[k], s[k + 1]) IN
          Sure(d, lost, Left(k + 1)) /\ d.gen = h[k].gen /\ d.halted = h[k].halted
    BY <2>1, <2>2, <2>3, <2>5, HandleSure
  <2> QED  BY <2>1, <2>4, <2>6, <2>7
<1>5. n \in K
  <2> HIDE DEF K, n
  <2> QED  BY <1>1, <1>3, <1>4, AllNaturals
<1>6. Left(n) = Q  BY <1>1
<1>7. Keeps(h[n], n)  BY <1>1, <1>5
<1>8. h[n] = HandleAll(c, s)  BY <1>2 DEF Stepwise
<1> HIDE DEF Left, n
<1> QED  BY <1>6, <1>7, <1>8 DEF Sound, Good

(* Every result that is taken from the queue, or left in it, is there.     *)
LEMMA PartHas ==
  ASSUME NEW s \in Seq(Response), NEW I, NEW i \in I, i \in DOMAIN s
  PROVE  \E j \in DOMAIN Part(s, I) : Part(s, I)[j] = s[i]
<1> DEFINE p == Part(s, I)
<1>1. p \in Seq(Response) /\ \E m : Enumerates(p, m, s, I, Len(s))  BY PartEnumerates
<1> HIDE DEF p
<1>2. PICK m : Enumerates(p, m, s, I, Len(s))  BY <1>1
<1>3. i \in I \cap (1..Len(s))  OBVIOUS
<1>4. PICK j \in 1..Len(p) : m[j] = i  BY <1>2, <1>3 DEF Enumerates
<1>5. p[j] = s[m[j]]  BY <1>2 DEF Enumerates
<1>6. j \in DOMAIN p /\ p[j] = s[i]  BY <1>1, <1>4, <1>5
<1> QED  BY <1>6 DEF p
LEMMA RestHas ==
  ASSUME NEW c \in Client, NEW n \in Nat, NEW i \in DOMAIN c.inbound, i > n
  PROVE  \E j \in DOMAIN Rest(c, n) : Rest(c, n)[j] = c.inbound[i]
<1> DEFINE s == c.inbound
           t == SubSeq(s, n + 1, Len(s))
<1>1. s \in Seq(Response) /\ Len(s) \in Nat /\ i \in 1..Len(s)  BY DEF Client
<1>2. Rest(c, n) = t  BY DEF Rest
<1> HIDE DEF s
<1>3. i - n \in DOMAIN t /\ t[i - n] = s[n + (i - n)]  BY <1>1
<1>4. n + (i - n) = i  BY <1>1
<1> QED  BY <1>2, <1>3, <1>4 DEF s

LEMMA PolledSure ==
  ASSUME NEW c, Sound(c), Gone \in FiniteSubsets(Nat), SureNow(c), NEW due \in BOOLEAN
  PROVE  LET d == Polled(c, due) IN SureNow(d) /\ d.halted = c.halted
<1> DEFINE p == Drained(c, PollMax)
           s == c.deferred \o p
           rest == Rest(c, PollMax)
           Q == {rest[i] : i \in {i \in DOMAIN rest : rest[i].gen = c.gen}}
           f == HandleAll(c, s)
           d == [f EXCEPT !.deferred = <<>>, !.inbound = rest]
           e == IF d.retry /\ due THEN beginSession(d) ELSE d
<1>0. /\ c \in Client /\ c.inbound \in Seq(Response) /\ c.deferred \in Seq(Response)
      /\ PollMax \in Nat
  BY CapacityAssumption DEF Sound, Good, Client
<1>1. p \in Seq(Response) /\ From(p, c.inbound)  BY <1>0, PartOf DEF Drained
<1>2. Polled(c, due) = schedulePoll(e, due)  BY Zenon DEF Polled, e, d, f, s, p, rest
<1>15. Sound(d)  BY EmptiedSound DEF Emptied, d, f, s, p, rest
<1>3. ASSUME NEW i \in Current(c, PollMax), i \in DOMAIN c.inbound
      PROVE  \E j \in DOMAIN p : p[j] = c.inbound[i]
  <2>1. p = Part(c.inbound, Current(c, PollMax))  BY DEF Drained
  <2> QED  BY <1>0, <1>3, <2>1, PartHas
<1> HIDE DEF p
<1>4. s \in Seq(Response) /\ OfBoth(s, c.deferred, c.inbound)
  <2>1. s = c.deferred \o p  OBVIOUS
  <2> HIDE DEF s
  <2> QED  BY <1>0, <1>1, <2>1, FromBoth
<1>5. /\ \A i \in DOMAIN c.deferred : i \in 1..Len(s) /\ s[i] = c.deferred[i]
      /\ \A j \in DOMAIN p : Len(c.deferred) + j \in 1..Len(s) /\ s[Len(c.deferred) + j] = p[j]
  BY <1>0, <1>1
<1> HIDE DEF s
<1>6. ResultsOf(c) \subseteq {s[i] : i \in 1..Len(s)} \cup Q
  <2> SUFFICES ASSUME NEW r \in ResultsOf(c) PROVE (\E i \in 1..Len(s) : r = s[i]) \/ r \in Q
    OBVIOUS
  <2>1. CASE \E i \in DOMAIN c.deferred : r = c.deferred[i]  BY <1>5, <2>1
  <2>2. ASSUME NEW i \in DOMAIN c.inbound, c.inbound[i].gen = c.gen, r = c.inbound[i]
        PROVE  (\E j \in 1..Len(s) : r = s[j]) \/ r \in Q
    <3>1. CASE i <= PollMax
      <4>1. i \in Current(c, PollMax)  BY <2>2, <3>1 DEF Current
      <4>2. PICK j \in DOMAIN p : p[j] = r  BY <1>3, <2>2, <4>1
      <4> QED  BY <1>5, <4>2
    <3>2. CASE ~(i <= PollMax)
      <4>1. i \in Nat  BY <1>0
      <4>2. i > PollMax  BY <1>0, <3>2, <4>1
      <4>3. PICK j \in DOMAIN rest : rest[j] = c.inbound[i]  BY <1>0, <4>2, RestHas
      <4> HIDE DEF rest
      <4> QED  BY <2>2, <4>3
    <3> QED  BY <3>1, <3>2
  <2> QED  BY <2>1, <2>2 DEF ResultsOf
<1>7. Sure(c, lost, {s[i] : i \in 1..Len(s)} \cup Q)
  <2> HIDE DEF Q
  <2>1. Fewer(c, c)  BY DEF Fewer, SureNow, Sure, Shaped
  <2> QED  BY <1>6, <2>1, SureMore DEF SureNow
<1>8. /\ f \in Client /\ Sure(f, lost, Q) /\ f.gen = c.gen /\ f.halted = c.halted
  <2> HIDE DEF Q
  <2> QED  BY <1>4, <1>7, FoldSure
<1>9. rest \in Seq(Response)  BY <1>0, RestOf
<1> HIDE DEF f, rest
<1>10. /\ d \in Client /\ Even(f, d) /\ d.out = f.out /\ d.inbound = rest /\ d.deferred = <<>>
  <2>1. <<>> \in Seq(Response)  OBVIOUS
  <2>2. d \in Client  BY <1>8, <1>9, <2>1 DEF Client
  <2>3. d.out = f.out /\ d.inbound = rest /\ d.deferred = <<>> /\ Even(f, d)
    BY <1>8 DEF Client, Even
  <2> QED  BY <2>2, <2>3
<1> HIDE DEF d
<1>11. ResultsOf(d) = Q  BY <1>8, <1>10 DEF ResultsOf, Even
<1> HIDE DEF Q
<1>12. Sure(d, lost, Q)
  <2>1. Fewer(f, d) /\ Live(f) = Live(d)  BY <1>8, <1>10, FewerEven DEF Sure, Live
  <2> QED  BY <1>8, <2>1, SureMore
<1>13. Safely(d, e, lost, Q)
  <2>1. Safely(d, beginSession(d), lost, Q)  BY <1>10, <1>12, BeginSure
  <2>2. Safely(d, d, lost, Q)  BY <1>12 DEF Safely
  <2> QED  BY <2>1, <2>2
<1>14. Safely(d, schedulePoll(e, due), lost, Q)
  <2>1. Sound(e)  BY <1>15, RetriedSound
  <2> HIDE DEF e
  <2>2. Safely(e, schedulePoll(e, due), lost, Q)  BY <1>13, <2>1, ScheduleSure DEF Safely, Sound, Good
  <2> QED  BY <1>13, <2>2, SafelyThen
<1> QED  BY <1>2, <1>8, <1>10, <1>11, <1>14 DEF Safely, SureNow, Even


(* A pump takes only the answers that it settles.                          *)
LEMMA PumpedSure ==
  ASSUME NEW c, Sound(c), SureNow(c), NEW kind \in Slots
  PROVE  LET d == Pumped(c, kind) IN SureNow(d) /\ d.halted = c.halted /\ Sound(d)
<1> DEFINE R == {c.inbound[i] : i \in Own(c, kind)}
           f == settle(c, R)
           p == Spared(c, kind)
           s == c.deferred \o p
           rest == Rest(c, PumpBatch)
           d == [f EXCEPT !.inbound = rest, !.deferred = s]
<1>0. /\ c \in Client /\ c.inbound \in Seq(Response) /\ c.deferred \in Seq(Response)
      /\ PumpBatch \in Nat /\ Shaped(c)
  BY CapacityAssumption DEF Sound, Good, Client, SureNow, Sure
<1>1. Sound(Pumped(c, kind))  BY PumpedSound
<1>2. Pumped(c, kind) = c \/ Pumped(c, kind) = d
  BY Zenon DEF Pumped, Deferred, d, f, R, p, s, rest
<1>3. p \in Seq(Response)  BY <1>0, PartOf DEF Spared
<1>4. ASSUME NEW i \in Current(c, PumpBatch) \ Own(c, kind), i \in DOMAIN c.inbound
      PROVE  \E j \in DOMAIN p : p[j] = c.inbound[i]
  <2> DEFINE I == Current(c, PumpBatch) \ Own(c, kind)
  <2>1. p = Part(c.inbound, I) /\ i \in I  BY <1>4 DEF Spared
  <2> HIDE DEF I, p
  <2>2. \E j \in DOMAIN Part(c.inbound, I) : Part(c.inbound, I)[j] = c.inbound[i]
    BY <1>0, <1>4, <2>1, PartHas
  <2> QED  BY <2>1, <2>2
<1> HIDE DEF p
<1>5. /\ s \in Seq(Response)
      /\ \A i \in DOMAIN c.deferred : i \in DOMAIN s /\ s[i] = c.deferred[i]
      /\ \A j \in DOMAIN p : Len(c.deferred) + j \in DOMAIN s /\ s[Len(c.deferred) + j] = p[j]
  BY <1>0, <1>3
<1>6. rest \in Seq(Response)  BY <1>0, RestOf
<1>7. /\ Spent(c, f) /\ f.inbound = c.inbound /\ f.deferred = c.deferred
      /\ f.wait = c.wait \ {<<r.kind, r.id>> : r \in R}
  <2> HIDE DEF R
  <2> QED  BY <1>0, SettleSpent
<1>8. f = [c EXCEPT !.wait = f.wait, !.kept = f.kept]
  <2> DEFINE P == {<<r.kind, r.id>> : r \in {r \in R : r.kind \in {"disposition", "autochat"}}}
             Q == {<<r.kind, r.id>> : r \in R}
  <2>1. f = [c EXCEPT !.wait = c.wait \ Q, !.kept = c.kept \cup P]  BY DEF settle
  <2> HIDE DEF f, P, Q
  <2> QED  BY <1>0, <2>1 DEF Client
<1> HIDE DEF f, s, rest
<1>9. Even(f, d) /\ d.out = f.out /\ d.inbound = rest /\ d.deferred = s /\ d.halted = c.halted
  BY <1>0, <1>8 DEF Client, Even
<1> HIDE DEF d
<1>10. Fewer(c, d) /\ Live(d) = Live(c)
  <2>1. Shaped(f)  BY <1>0, <1>7, ShapedLess DEF Spent
  <2>2. Spent(f, d)  BY <1>9, <2>1, FewerEven DEF Spent
  <2>3. Spent(c, d)  BY <1>7, <2>2, SpentThen
  <2> QED  BY <2>3 DEF Spent, Live
<1>11. ASSUME NEW k, NEW x, NEW m, Expects(d, k, x, m), Due(c, lost, ResultsOf(c), k, x, m)
       PROVE  Due(d, lost, ResultsOf(d), k, x, m)
  <2>1. d.gen = c.gen /\ d.halted = c.halted  BY <1>10 DEF Fewer
  <2>2. ASSUME NEW r \in ResultsOf(c), Answering(r, k, x, m) PROVE r \in ResultsOf(d)
    <3>1. CASE \E i \in DOMAIN c.deferred : r = c.deferred[i]
      BY <1>5, <1>9, <3>1 DEF ResultsOf
    <3>2. ASSUME NEW i \in DOMAIN c.inbound, c.inbound[i].gen = c.gen, r = c.inbound[i]
          PROVE  r \in ResultsOf(d)
      <4>1. i \in Nat  BY <1>0
      <4>2. i \notin Own(c, kind)
        <5>1. ASSUME i \in Own(c, kind) PROVE FALSE
          <6>1. r \in R /\ r.kind = kind  BY <3>2, <5>1 DEF Own, Settles
          <6> DEFINE w == <<r.kind, r.id>>
          <6>2. w \in {<<q.kind, q.id>> : q \in R}  BY <6>1
          <6>3. k = r.kind /\ x = r.id  BY <2>2 DEF Answering
          <6>4. w \in d.wait  BY <1>11, <6>1, <6>3 DEF Expects, Slots
          <6> HIDE DEF w, R
          <6> QED  BY <1>7, <1>9, <6>2, <6>4 DEF Even
        <5> QED  BY <5>1
      <4>3. CASE i <= PumpBatch
        <5>1. i \in Current(c, PumpBatch)  BY <3>2, <4>3 DEF Current
        <5>2. PICK j \in DOMAIN p : p[j] = r  BY <1>4, <3>2, <4>2, <5>1
        <5>3. Len(c.deferred) + j \in DOMAIN d.deferred /\ d.deferred[Len(c.deferred) + j] = r
          BY <1>5, <1>9, <5>2
        <5> QED  BY <5>3 DEF ResultsOf
      <4>4. CASE ~(i <= PumpBatch)
        <5>1. i > PumpBatch  BY <1>0, <4>1, <4>4
        <5>2. PICK j \in DOMAIN rest : rest[j] = r  BY <1>0, <3>2, <5>1, RestHas DEF rest
        <5>3. j \in DOMAIN d.inbound /\ d.inbound[j] = r /\ d.inbound[j].gen = d.gen
          BY <1>9, <2>1, <3>2, <5>2
        <5> QED  BY <5>3 DEF ResultsOf
      <4> QED  BY <4>3, <4>4
    <3> QED  BY <3>1, <3>2 DEF ResultsOf
  <2> QED  BY <1>10, <1>11, <2>1, <2>2 DEF Due
<1>12. SureNow(d)  BY <1>10, <1>11, SureLess DEF SureNow
<1> QED  BY <1>1, <1>2, <1>9, <1>12

LEMMA pumpSure ==
  ASSUME IInv, SureNow(client), NEW kind, pump(kind)
  PROVE  SureNow(client') /\ client'.halted = client.halted
<1>1. kind \in Slots /\ client' = Pumped(client, kind)  BY DEF pump, Slots
<1> QED  BY <1>1, PumpedSure DEF IInv

LEMMA pumpDispositionResultSure ==
  ASSUME IInv, SureNow(client), pumpDispositionResult
  PROVE  SureNow(client') /\ client'.halted = client.halted
<1> DEFINE c == Pumped(client, "disposition")
<1>1. PICK w : client' = [c EXCEPT !.kept = @ \ {w}]  BY Zenon DEF pumpDispositionResult
<1>2. "disposition" \in Slots  BY DEF Slots
<1>3. SureNow(c) /\ c.halted = client.halted /\ Sound(c)  BY <1>2, PumpedSure DEF IInv
<1> HIDE DEF c
<1>4. /\ Even(c, client') /\ client'.out = c.out
      /\ client'.inbound = c.inbound /\ client'.deferred = c.deferred
  BY <1>1, <1>3 DEF Sound, Good, Client, Even
<1>5. Fewer(c, client')  BY <1>3, <1>4, FewerEven DEF SureNow, Sure
<1> QED  BY <1>3, <1>4, <1>5, SureFewer


-------------------------------------------------------------------------------
(* Whoever waits, while requests are answered                              *)

LEMMA TailLive ==
  ASSUME NEW c \in Client, c.out # <<>>, NEW d, d.out = Tail(c.out)
  PROVE  /\ Live(c) \subseteq Live(d) \cup {c.out[1]}
         /\ c.out[1].cancelled => Live(c) \subseteq Live(d)
<1>1. c.out \in Seq(Request)  BY DEF Client
<1>2. \A i \in DOMAIN c.out : i = 1 \/ (i - 1 \in DOMAIN d.out /\ d.out[i - 1] = c.out[i])
  BY <1>1
<1>3. ASSUME NEW i \in DOMAIN c.out, ~c.out[i].cancelled PROVE i = 1 \/ c.out[i] \in Live(d)
  BY <1>2, <1>3 DEF Live
<1> QED  BY <1>3 DEF Live

(* An answer joins the queue, or is lost with a full one.                  *)
LEMMA DeliverSure ==
  ASSUME IInv, SureNow(client), client.out # <<>>, ~Head(client.out).cancelled,
         NEW code \in Codes \ {"cancelled"}, NEW data,
         Head(client.out).kind = "media" /\ code = "ok" => data[1] = Head(client.out).data[1],
         Deliver(Head(client.out), code, data)
  PROVE  Sure(client', lost', ResultsOf(client')) /\ client'.halted = client.halted
<1> DEFINE q == Head(client.out)
           r == Result(q, code, data)
           b == [client EXCEPT !.out = Tail(@), !.inbound = Append(@, r)]
<1>0. client \in Client /\ client.inbound \in Seq(Response) /\ q = client.out[1]
  BY DEF IInv, Sound, Good, Client
<1>1. \/ client' = b /\ lost' = lost
      \/ client' = [client EXCEPT !.out = Tail(@)] /\ lost' = lost \cup {q.id}
  BY Zenon DEF Deliver, b, r, q
<1>2. /\ r.id = q.id /\ r.gen = q.gen /\ r.kind = q.kind /\ r.code = code /\ r.data = data
  BY DEF Result
<1> HIDE DEF r
<1>3. /\ Even(client, client') /\ client'.out = Tail(client.out) /\ client'.deferred = client.deferred
      /\ \/ client'.inbound = Append(client.inbound, r) /\ lost' = lost
         \/ client'.inbound = client.inbound /\ lost' = lost \cup {q.id}
  BY <1>0, <1>1 DEF Client, Even
<1> HIDE DEF b, q
<1>4. \A i \in DOMAIN client.inbound :
        i \in DOMAIN client'.inbound /\ client'.inbound[i] = client.inbound[i]
  BY <1>0, <1>3
<1>5. ResultsOf(client) \subseteq ResultsOf(client')  BY <1>3, <1>4 DEF ResultsOf, Even
<1>6. Live(client) \subseteq Live(client') \cup {q}  BY <1>0, <1>3, TailLive
<1>7. lost' = lost \cup {q.id} \/ (q.gen = client.gen => r \in ResultsOf(client'))
  <2>1. ASSUME client'.inbound = Append(client.inbound, r), q.gen = client.gen
        PROVE  r \in ResultsOf(client')
    <3>1. Len(client.inbound) + 1 \in DOMAIN client'.inbound
          /\ client'.inbound[Len(client.inbound) + 1] = r
      BY <1>0, <2>1
    <3>2. r.gen = client'.gen  BY <1>2, <1>3, <2>1 DEF Even
    <3> QED  BY <3>1, <3>2 DEF ResultsOf
  <2> QED  BY <1>3, <2>1
<1>8. ASSUME NEW k, NEW x, NEW m, Due(client, lost, ResultsOf(client), k, x, m)
      PROVE  Due(client', lost', ResultsOf(client'), k, x, m)
  <2>1. lost \subseteq lost' /\ client'.gen = client.gen /\ client'.halted = client.halted
    BY <1>3 DEF Even
  <2>2. ASSUME q.gen = client.gen, Asking(q, k, x, m) PROVE Due(client', lost', ResultsOf(client'), k, x, m)
    <3>1. CASE lost' = lost \cup {q.id}  BY <2>2, <3>1 DEF Due, Asking
    <3>2. CASE r \in ResultsOf(client')
      <4>1. Answering(r, k, x, m)  BY <1>2, <2>2 DEF Asking, Answering, q
      <4> QED  BY <3>2, <4>1 DEF Due
    <3> QED  BY <1>7, <2>2, <3>1, <3>2
  <2> QED  BY <1>5, <1>6, <1>8, <2>1, <2>2 DEF Due
<1>9. Fewer(client, client')  BY <1>3, FewerEven DEF SureNow, Sure
<1>10. Sure(client', lost', ResultsOf(client'))  BY <1>8, <1>9, SureLess DEF SureNow
<1> QED  BY <1>3, <1>10 DEF Even

LEMMA FinishSure ==
  ASSUME IInv, SureNow(client), FinishInit \/ FinishPollOk \/ FinishOther
  PROVE  Sure(client', lost', ResultsOf(client')) /\ client'.halted = client.halted
<1> DEFINE q == Head(client.out)
<1>1. CASE FinishInit
  <2>1. \E code \in Codes \ {"cancelled"} : \E data : Deliver(q, code, data)
    BY <1>1, Zenon DEF FinishInit, Codes, Failures, q
  <2>2. client.out # <<>> /\ ~q.cancelled /\ q.kind # "media"  BY <1>1 DEF FinishInit, Head1
  <2> QED  BY <2>1, <2>2, DeliverSure
<1>2. CASE FinishPollOk
  <2>1. \E code \in Codes \ {"cancelled"} : \E data : Deliver(q, code, data)
    <3>1. "ok" \in Codes \ {"cancelled"}  BY DEF Codes
    <3> QED  BY <1>2, <3>1, Zenon DEF FinishPollOk, q
  <2>2. client.out # <<>> /\ ~q.cancelled /\ q.kind # "media"  BY <1>2 DEF FinishPollOk, Head1
  <2> QED  BY <2>1, <2>2, DeliverSure
<1>3. CASE FinishOther
  <2>1. client.out # <<>> /\ ~q.cancelled  BY <1>3 DEF FinishOther
  <2>2. \E code \in Codes \ {"cancelled"} : \E data :
          (q.kind = "media" /\ code = "ok" => data[1] = q.data[1]) /\ Deliver(q, code, data)
    <3>1. {"ok", "retry"} \subseteq Codes \ {"cancelled"}  BY DEF Codes
    <3>2. \/ Deliver(q, "retry", <<>>)
          \/ q.kind = "menu" /\ \E clip \in MenuClips : Deliver(q, "ok", <<clip>>)
          \/ Deliver(q, "ok", q.data)
      BY <1>3 DEF FinishOther
    <3>3. CASE Deliver(q, "retry", <<>>)  BY <3>1, <3>3, Zenon
    <3>4. CASE q.kind = "menu" /\ \E clip \in MenuClips : Deliver(q, "ok", <<clip>>)
      BY <3>1, <3>4, Zenon
    <3>5. CASE Deliver(q, "ok", q.data)  BY <3>1, <3>5, Zenon
    <3> QED  BY <3>2, <3>3, <3>4, <3>5
  <2> QED  BY <2>1, <2>2, DeliverSure
<1> QED  BY <1>1, <1>2, <1>3

(* Nobody waits for a request that was cancelled.                          *)
LEMMA FinishCancelledSure ==
  ASSUME IInv, SureNow(client), FinishCancelled
  PROVE  Sure(client', lost', ResultsOf(client')) /\ client'.halted = client.halted
<1> DEFINE q == Head(client.out)
           r == Result(q, "cancelled", <<>>)
           b == [client EXCEPT !.out = Tail(@)]
<1>0. /\ client \in Client /\ client.inbound \in Seq(Response) /\ lost' = lost
      /\ client.out # <<>> /\ client.out[1].cancelled
  BY DEF IInv, Sound, Good, Client, FinishCancelled
<1>1. client' \in {b, [b EXCEPT !.inbound = Append(@, r)]}
  BY Zenon DEF FinishCancelled, publishCancelled, b, r, q
<1> HIDE DEF r
<1>2. /\ Even(client, client') /\ client'.out = Tail(client.out) /\ client'.deferred = client.deferred
      /\ client'.inbound \in {client.inbound, Append(client.inbound, r)}
  BY <1>0, <1>1 DEF Client, Even
<1>3. \A i \in DOMAIN client.inbound :
        i \in DOMAIN client'.inbound /\ client'.inbound[i] = client.inbound[i]
  BY <1>0, <1>2
<1>4. ResultsOf(client) \subseteq ResultsOf(client')  BY <1>2, <1>3 DEF ResultsOf, Even
<1>5. Live(client) \subseteq Live(client')  BY <1>0, <1>2, TailLive
<1>6. Fewer(client, client')  BY <1>2, FewerEven DEF SureNow, Sure
<1>7. Sure(client', lost', ResultsOf(client'))  BY <1>0, <1>4, <1>5, <1>6, SureMore DEF SureNow
<1> QED  BY <1>2, <1>7 DEF Even


-------------------------------------------------------------------------------
(* Whoever waits, through every step                                       *)

LEMMA BeginDomain ==
  ASSUME NEW c
  PROVE  DOMAIN beginSession(c) = DOMAIN c
<1> DEFINE d == [c EXCEPT !.retry = FALSE, !.attempts = Attempts(c),
                          !.snapshot = Snapshot(c), !.made = Snapshot(c).key]
           e == enqueue(d, "init", <<d.snapshot.key, d.snapshot.loaded>>)
           f == [e EXCEPT !.init = FreshId(d)]
           g == [d EXCEPT !.status = "error"]
<1>1. beginSession(c) \in {c, f, g}  BY Zenon DEF beginSession, d, e, f, g
<1>2. DOMAIN d = DOMAIN c  OBVIOUS
<1> HIDE DEF d
<1>3. DOMAIN e = DOMAIN d  BY DEF enqueue
<1> HIDE DEF e
<1>4. DOMAIN f = DOMAIN e /\ DOMAIN g = DOMAIN d  OBVIOUS
<1> HIDE DEF f, g
<1> QED  BY <1>1, <1>2, <1>3, <1>4

(* A fence leaves nobody waiting, but for the clips of spoken lines, whose *)
(* downloads it cuts off.                                                  *)
LEMMA cancelGenerationSure ==
  ASSUME IInv, SureNow(client), NEW kind, NEW begun \in BOOLEAN, cancelGeneration(kind, begun)
  PROVE  SureNow(client)' /\ client'.halted = client.halted
<1> DEFINE c == client
           loadedSave == kind = "load"
           identityChange == kind # "interrupt"
           running == c.out # <<>> /\ (c.out[1].gen # c.gen \/ (begun /\ ~c.out[1].cancelled))
           media == Without(c.media, {c.menus[x].clip : x \in DOMAIN c.menus})
           q == [c.out[1] EXCEPT !.cancelled = TRUE]
           out == IF running THEN <<q>> ELSE <<>>
           inbound == Part(c.inbound, {i \in DOMAIN c.inbound : c.inbound[i].gen # c.gen})
           prepared == c.prepared /\ ~identityChange
           bound == c.bound /\ ~identityChange
           rejected == c.rejected /\ ~identityChange
           gen == c.gen + 1
           d == [Fresh0 EXCEPT
                   !.gen = gen, !.made = c.made, !.seen = c.seen, !.cursor = c.cursor,
                   !.prepared = prepared, !.bound = bound, !.rejected = rejected,
                   !.loaded = loadedSave, !.waiting = loadedSave,
                   !.media = media, !.out = out, !.inbound = inbound]
           e == beginSession(d)
           status == IF selected(e) THEN "connecting" ELSE "waiting_identity"
           L == {d.media[m].id : m \in DOMAIN d.media} \ {0}
           f == [e EXCEPT !.status = status]
<1>1. /\ c \in Client /\ Gone \in FiniteSubsets(Nat) /\ Shaped(c) /\ ~c.halted
  BY DEF IInv, Sound, Good, SureNow, Sure, cancelGeneration
<1>2. client' = f /\ cut' = L  BY DEF cancelGeneration
<1>3. media \in Downloads /\ DOMAIN media \subseteq DOMAIN c.media
      /\ \A m \in DOMAIN media : media[m] = c.media[m]
  <2>1. c.media \in Tables(Clips, [state : Phases, id : Nat])  BY <1>1 DEF Client, Downloads
  <2>2. media \in Downloads  BY <2>1, TableWithout DEF Downloads
  <2> QED  BY <2>2 DEF Without
<1>4. out \in Seq(Request)
  <2>1. running => q \in Request
    <3>1. c.out \in Seq(Request)  BY <1>1 DEF Client
    <3>2. running => c.out[1] \in Request  BY <3>1
    <3> QED  BY <3>2 DEF Request
  <2> HIDE DEF q, running
  <2> QED  BY <2>1
<1>5. inbound \in Seq(Response)
  <2>1. c.inbound \in Seq(Response)  BY <1>1 DEF Client
  <2> QED  BY <2>1, PartOf
<1>6. /\ gen \in Nat /\ loadedSave \in BOOLEAN /\ prepared \in BOOLEAN
      /\ bound \in BOOLEAN /\ rejected \in BOOLEAN
      /\ c.made \in Nat /\ c.seen \in Seq(Nat) /\ c.cursor \in Nat
  BY <1>1 DEF Client
<1> HIDE DEF media, out, inbound, prepared, bound, rejected, gen, loadedSave, e, status, f
<1>7. /\ d \in Client /\ d.gen = gen /\ ~d.halted /\ d.init = 0 /\ d.poll = 0 /\ d.wait = {}
      /\ d.latest = 0 /\ d.menus = <<>> /\ d.media = media
  <2>1. d \in Client  BY <1>3, <1>4, <1>5, <1>6, FreshType DEF Client
  <2> QED  BY <2>1 DEF Fresh0
<1> HIDE DEF d
<1>8. \A k, x, m : Expects(d, k, x, m) => Expects(c, k, x, m) /\ k = "media" /\ x \in L
  <2>1. DOMAIN d.menus = {}  BY <1>7
  <2> QED  BY <1>3, <1>7, <2>1 DEF Expects, Slots
<1>9. Shaped(d)
  <2>1. \A m \in DOMAIN d.media : d.media[m].state # "requesting"  BY <1>1, <1>3, <1>7 DEF Shaped
  <2>2. \A k, l, x, m, n : Expects(d, k, x, m) /\ Expects(d, l, x, n) => k = l /\ (k = "media" => m = n)
    BY <1>1, <1>8 DEF Shaped
  <2>3. \A k, m : ~Expects(d, k, d.latest, m)  BY <1>7 DEF Expects
  <2> QED  BY <1>7, <2>1, <2>2, <2>3 DEF Shaped
<1>10. Sure(d, L, ResultsOf(d))  BY <1>8, <1>9 DEF Sure, Due
<1>11. Safely(d, e, L, ResultsOf(d))  BY <1>1, <1>7, <1>10, BeginSure DEF e
<1>12. /\ Even(e, f) /\ f.out = e.out /\ f.inbound = e.inbound /\ f.deferred = e.deferred
  <2>1. {"gen", "halted", "init", "poll", "wait", "latest", "menus", "media", "out", "inbound", "deferred"}
          \subseteq DOMAIN e
    BY <1>7, BeginDomain DEF e, Client
  <2> QED  BY <2>1 DEF f, Even
<1>13. Safely(e, f, L, ResultsOf(d))  BY <1>11, <1>12, SafelyEven DEF Safely
<1>14. Safely(d, f, L, ResultsOf(d))  BY <1>11, <1>13, SafelyThen
<1>15. Sure(client', L, ResultsOf(client'))  BY <1>2, <1>14 DEF Safely
<1>16. client'.media = d.media
  <2>1. Shown(d, d)  BY <1>7, ClientShown
  <2>2. Shown(d, e)  BY <2>1, BeginShown DEF e
  <2> QED  BY <1>2, <1>12, <2>2 DEF Shown, Even
<1>17. ASSUME NEW k, NEW x, NEW m, Expects(client', k, x, m)
       PROVE  Due(client, lost, ResultsOf(client), k, x, m)'
  <2>1. CASE k = "media"
    <3>1. x \in L  BY <1>16, <1>17, <2>1 DEF Expects, Slots
    <3> QED  BY <1>2, <2>1, <3>1 DEF Due
  <2>2. CASE k # "media"
    <3>1. x \notin L
      <4> SUFFICES ASSUME x \in L PROVE FALSE  OBVIOUS
      <4>1. PICK n \in DOMAIN client'.media : x = client'.media[n].id  BY <1>16
      <4>2. Expects(client', "media", x, n)  BY <4>1 DEF Expects
      <4> QED  BY <1>15, <1>17, <2>2, <4>2 DEF Sure, Shaped
    <3>2. Due(client', L, ResultsOf(client'), k, x, m)  BY <1>15, <1>17 DEF Sure
    <3> QED  BY <2>2, <3>1, <3>2 DEF Due
  <2> QED  BY <2>1, <2>2
<1>18. SureNow(client)'  BY <1>15, <1>17 DEF SureNow, Sure
<1> QED  BY <1>1, <1>2, <1>7, <1>14, <1>18 DEF Safely, Client


(* Nothing is due from a bridge that is halted.                            *)
LEMMA haltSure ==
  ASSUME IInv, SureNow(client), halt
  PROVE  Sure(client', lost', ResultsOf(client'))
<1> DEFINE wait == {w \in client.wait : w[1] # "turn"}
           gen == client.gen + 1
<1>1. client \in Client /\ Shaped(client)  BY DEF IInv, Sound, Good, SureNow, Sure
<1>2. wait \subseteq client.wait  OBVIOUS
<1>3. client' = [client EXCEPT !.halted = TRUE, !.gen = gen, !.out = <<>>, !.inbound = <<>>,
                               !.wait = wait, !.latest = 0, !.status = "halted"]
  BY DEF halt
<1> HIDE DEF wait, gen
<1>4. /\ client'.halted /\ client'.init = client.init /\ client'.poll = client.poll
      /\ client'.wait = wait /\ client'.latest = 0
      /\ client'.menus = client.menus /\ client'.media = client.media
  BY <1>1, <1>3 DEF Client
<1>5. \A k, x, m : Expects(client', k, x, m) => Expects(client, k, x, m)
  BY <1>2, <1>4 DEF Expects
<1>6. \A k, m : ~Expects(client', k, client'.latest, m)  BY <1>4 DEF Expects
<1>7. Shaped(client')  BY <1>1, <1>2, <1>4, <1>5, <1>6 DEF Shaped
<1>8. \A k, x, m : Due(client', lost', ResultsOf(client'), k, x, m)  BY <1>4 DEF Due
<1> QED  BY <1>7, <1>8 DEF Sure

(* Every step keeps the answers that someone waits for.                    *)
THEOREM SureInvariant == Spec => []SureNow(client)
<1>1. Init => SureNow(client)
  <2> SUFFICES ASSUME Init PROVE SureNow(client)  OBVIOUS
  <2>1. /\ client.init = 0 /\ client.poll = 0 /\ client.wait = {} /\ client.latest = 0
        /\ client.menus = <<>> /\ client.media = <<>>
    BY DEF Init, Fresh0
  <2>2. DOMAIN client.menus = {} /\ DOMAIN client.media = {}  BY <2>1
  <2>3. \A k, x, m : ~Expects(client, k, x, m)  BY <2>1, <2>2 DEF Expects
  <2> QED  BY <2>1, <2>2, <2>3 DEF SureNow, Sure, Shaped
<1>2. IInv /\ SureNow(client) /\ [Next]_vars => SureNow(client)'
  <2> DEFINE Goal == SureNow(client)'
  <2> SUFFICES ASSUME IInv, SureNow(client), [Next]_vars PROVE Goal
    OBVIOUS
  <2>0. ASSUME Sure(client', lost', ResultsOf(client')), cut' = cut PROVE Goal
    BY <2>0 DEF SureNow, Sure, Due
  <2>1. ASSUME SureNow(client'), lost' = lost, cut' = cut PROVE Goal  BY <2>0, <2>1 DEF SureNow
  <2>2. ASSUME NEW due \in BOOLEAN, Poll(due) PROVE Goal
    <3>1. SureNow(client')  BY <2>2, PolledSure DEF Poll, IInv
    <3> QED  BY <2>1, <2>2, <3>1 DEF Poll, Elsewhere
  <2>3. ASSUME NEW kind, pump(kind) PROVE Goal
    <3>1. SureNow(client')  BY <2>3, pumpSure
    <3> QED  BY <2>1, <2>3, <3>1 DEF pump, Quiet, Elsewhere
  <2>4. ASSUME NEW kind, requestOne(kind) PROVE Goal
    <3>1. SureNow(client')  BY <2>4, requestOneSure
    <3> QED  BY <2>1, <2>4, <3>1 DEF requestOne, Quiet, Elsewhere
  <2>5. CASE pumpDispositionResult
    <3>1. SureNow(client')  BY <2>5, pumpDispositionResultSure
    <3> QED  BY <2>1, <2>5, <3>1 DEF pumpDispositionResult, Quiet, Elsewhere
  <2>6. CASE submitTurn
    <3>1. SureNow(client')  BY <2>6, submitTurnSure
    <3> QED  BY <2>1, <2>6, <3>1 DEF submitTurn, Quiet, Elsewhere
  <2>7. CASE submitDisposition
    <3>1. SureNow(client')  BY <2>7, submitDispositionSure
    <3> QED  BY <2>1, <2>7, <3>1 DEF submitDisposition, Quiet, Elsewhere
  <2>8. CASE submitComment
    <3>1. SureNow(client')  BY <2>8, submitCommentSure
    <3> QED  BY <2>1, <2>8, <3>1 DEF submitComment, Quiet, Elsewhere
  <2>9. CASE prepareMedia
    <3>1. SureNow(client')  BY <2>9, prepareMediaSure
    <3> QED  BY <2>1, <2>9, <3>1 DEF prepareMedia, Quiet, Elsewhere
  <2>10. ASSUME NEW begun \in BOOLEAN, cancelTurn(begun) PROVE Goal
    <3>1. SureNow(client')  BY <2>10, cancelTurnSure
    <3> QED  BY <2>1, <2>10, <3>1 DEF cancelTurn, Quiet, Elsewhere
  <2>11. ASSUME NEW begun \in BOOLEAN, requestPlayerAutochat(begun) PROVE Goal
    <3>1. SureNow(client')  BY <2>11, requestPlayerAutochatSure
    <3> QED  BY <2>1, <2>11, <3>1 DEF requestPlayerAutochat, Quiet, Elsewhere
  <2>12. ASSUME NEW begun \in BOOLEAN, cancelPlayerAutochat(begun) PROVE Goal
    <3>1. SureNow(client')  BY <2>12, cancelPlayerAutochatSure
    <3> QED  BY <2>1, <2>12, <3>1 DEF cancelPlayerAutochat, Quiet, Elsewhere
  <2>13. ASSUME NEW begun \in BOOLEAN, requestMenuDialogueTts(begun) PROVE Goal
    <3>1. SureNow(client')  BY <2>13, requestMenuDialogueTtsSure
    <3> QED  BY <2>1, <2>13, <3>1 DEF requestMenuDialogueTts, Quiet, Elsewhere
  <2>14. ASSUME NEW begun \in BOOLEAN, cancelMenuDialogueTts(begun) PROVE Goal
    <3>1. SureNow(client')  BY <2>14, cancelMenuDialogueTtsSure
    <3> QED  BY <2>1, <2>14, <3>1 DEF cancelMenuDialogueTts, Elsewhere
  <2>15. ASSUME NEW begun \in BOOLEAN, releaseMedia(begun) PROVE Goal
    <3>1. SureNow(client')  BY <2>15, releaseMediaSure
    <3> QED  BY <2>1, <2>15, <3>1 DEF releaseMedia, releaseSpeech, releaseMenuClip, Quiet, Elsewhere
  <2>16. ASSUME NEW begun \in BOOLEAN, NEW kind, cancelGeneration(kind, begun) PROVE Goal
    BY <2>16, cancelGenerationSure
  <2>17. CASE prepare
    <3>1. SureNow(client')  BY <2>17, prepareSure
    <3> QED  BY <2>1, <2>17, <3>1 DEF prepare, Quiet, Elsewhere
  <2>18. CASE choose
    <3>1. SureNow(client')  BY <2>18, chooseSure
    <3> QED  BY <2>1, <2>18, <3>1 DEF choose, Quiet, Elsewhere
  <2>19. CASE finishLoadedSave
    <3>1. SureNow(client')  BY <2>19, finishLoadedSaveSure
    <3> QED  BY <2>1, <2>19, <3>1 DEF finishLoadedSave, Quiet, Elsewhere
  <2>20. CASE halt
    <3>1. Sure(client', lost', ResultsOf(client'))  BY <2>20, haltSure
    <3> QED  BY <2>0, <2>20, <3>1 DEF halt, Quiet, Elsewhere
  <2>21. CASE Finish
    <3>1. Sure(client', lost', ResultsOf(client'))  BY <2>21, FinishSure, FinishCancelledSure DEF Finish
    <3>2. cut' = cut
      BY <2>21 DEF Finish, FinishInit, FinishPollOk, FinishOther, FinishCancelled, Deliver
    <3> QED  BY <2>0, <3>1, <3>2
  <2>22. CASE ServerEvent \/ UNCHANGED vars
    BY <2>1, <2>22 DEF ServerEvent, vars
  <2>23. CASE speakMenuClip
    <3>1. client' = client /\ lost' = lost /\ cut' = cut  BY <2>23 DEF speakMenuClip, Elsewhere
    <3> QED  BY <2>1, <3>1
  <2> HIDE DEF Goal
  <2> QED
    BY <2>2, <2>3, <2>4, <2>5, <2>6, <2>7, <2>8, <2>9, <2>10, <2>11, <2>12, <2>13, <2>14, <2>15,
       <2>16, <2>17, <2>18, <2>19, <2>20, <2>21, <2>22, <2>23, Zenon DEF Next
<1> QED  BY <1>1, <1>2, InductiveInvariant, PTL DEF Spec

(* Whoever waits for an answer waits for one that is still to come, that   *)
(* has come, or that a full inbound queue refused: no cancellation, pump,  *)
(* replay or fence forgets a request that someone still awaits.  Excepted  *)
(* are the clips of spoken lines whose download the last fence cut off.    *)
THEOREM NobodyWaitsHolds == Spec => []NobodyWaitsForNothing
<1>1. IInv /\ SureNow(client) => NobodyWaitsForNothing
  <2> SUFFICES ASSUME IInv, SureNow(client), ~client.halted PROVE NobodyWaitsForNothing
    BY DEF NobodyWaitsForNothing
  <2>1. client \in Client /\ client.wait \in Waits  BY DEF IInv, Sound, Good, Client
  <2>2. ASSUME NEW k, NEW id, NEW m, Expects(client, k, id, m), k # "media" \/ id \notin cut
        PROVE  Coming(id)
    <3>1. Due(client, lost, ResultsOf(client), k, id, m)  BY <2>2 DEF SureNow, Sure
    <3> QED  BY <2>2, <3>1 DEF Due, Live, ResultsOf, Asking, Answering, Coming, Ids
  <2>3. ASSUME NEW id \in Awaited PROVE Coming(id)
    <3>1. CASE id = client.init
      <4>1. \A m : Expects(client, "init", id, m)  BY <2>3, <3>1 DEF Awaited, Expects
      <4> QED  BY <2>2, <4>1
    <3>2. CASE id = client.poll
      <4>1. \A m : Expects(client, "poll", id, m)  BY <2>3, <3>2 DEF Awaited, Expects
      <4> QED  BY <2>2, <4>1
    <3>3. ASSUME NEW w \in client.wait, id = w[2] PROVE Coming(id)
      <4>1. w \in Kinds \X Nat  BY <2>1 DEF Waits, FiniteSubsets
      <4>2. w = <<w[1], w[2]>> /\ w[1] \in Slots  BY <4>1 DEF SureNow, Sure, Shaped
      <4>3. \A m : Expects(client, w[1], id, m)  BY <2>3, <3>3, <4>2 DEF Awaited, Expects
      <4> QED  BY <2>2, <4>2, <4>3 DEF Slots
    <3>4. CASE id \in DOMAIN client.menus /\ client.menus[id].state = "requesting"
      <4>1. \A m : Expects(client, "menu", id, m)  BY <2>3, <3>4 DEF Awaited, Expects
      <4> QED  BY <2>2, <4>1
    <3> QED  BY <2>3, <3>1, <3>2, <3>3, <3>4 DEF Awaited
  <2>4. ASSUME NEW id \in Downloading, id \notin cut PROVE Coming(id)
    <3>1. PICK m \in DOMAIN client.media : id = client.media[m].id  BY <2>4 DEF Downloading
    <3>2. Expects(client, "media", id, m)  BY <2>4, <3>1 DEF Downloading, Expects
    <3> QED  BY <2>2, <2>4, <3>2
  <2> QED  BY <2>3, <2>4 DEF NobodyWaitsForNothing
<1> QED  BY <1>1, SureInvariant, InductiveInvariant, PTL

===============================================================================
