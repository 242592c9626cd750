-------------------------- MODULE BeastTransportProofs --------------------------
(***************************************************************************)
(* Proofs about BeastTransport for all requests, media, quotas and bounds:  *)
(* whom a cancellation reaches, what the cache holds, what is called ready. *)
(***************************************************************************)
EXTENDS BeastTransport, FiniteSetTheorems, TLAPS

(* Whose execution is in progress, and how far it is.                      *)
Control ==
  /\ active = current
  /\ current = {} \/ \E r \in Requests : current = {r}
  /\ pc = "idle" <=> current = {}
  /\ pc \notin {"idle", "release"} => \A r \in current : results[r] = "none"
  /\ pc \in FileSteps => current \subseteq Media

(* Handlers are posted, and calls are in progress, for stopped requests.   *)
StoppedOnly == posts \subseteq stop /\ engine.ids \subseteq stop

(* A request stopped early is still to meet a test of the token.           *)
TestAhead == \A r \in early : r \in current => pc \in Tested \union {"release"}

(* What the files of a request are while it is executed, and before.       *)
Written == {"confirm", "isolate", "promote"}
FilesOf(r) ==
  /\ r \in current /\ pc \in Written => temp[r] = "good"
  /\ r \in current /\ pc = "store" => temp[r] = "bad"
  /\ r \in current /\ pc \in FileSteps \ {"inspect"} => entry[HashOf[r]] # "good"
  /\ results[r] = "none" /\ ~(r \in current /\ pc \in Written \union {"store"}) =>
       temp[r] = "absent"
  /\ results[r] = "none" /\ ~(r \in current /\ pc = "promote") => backup[r] = "absent"
OwnFiles == \A r \in Media : FilesOf(r)

(* A download that has been let through has its place.                     *)
Reserved == pc = "open" => Files <= Quota - 1

(* What is checked follows from where the execution is and what is known   *)
(* there of the request's token and files.                                 *)
IInv ==
  /\ CacheInv /\ StopsArrive
  /\ Control /\ StoppedOnly /\ TestAhead /\ OwnFiles /\ Reserved

-------------------------------------------------------------------------------
(* Counting files                                                          *)

Count(S, f) == Cardinality({x \in S : f[x] # "absent"})

(* The count of a finite directory is a number.                            *)
LEMMA CountType ==
  ASSUME NEW S, NEW f, IsFiniteSet(S)
  PROVE  Count(S, f) \in Nat
<1> DEFINE P == {x \in S : f[x] # "absent"}
<1>1. IsFiniteSet(P)  BY FS_Subset
<1> QED  BY <1>1, FS_CardinalityType DEF Count

(* Removing a file takes one from the count if it was there.               *)
LEMMA CountRemove ==
  ASSUME NEW S, NEW f \in [S -> Contents], IsFiniteSet(S), NEW x \in S
  PROVE  Count(S, [f EXCEPT ![x] = "absent"])
           = IF f[x] = "absent" THEN Count(S, f) ELSE Count(S, f) - 1
<1> DEFINE g == [f EXCEPT ![x] = "absent"]
           P == {y \in S : f[y] # "absent"}
           R == {y \in S : g[y] # "absent"}
<1>1. IsFiniteSet(P)  BY FS_Subset
<1>2. R = P \ {x}  OBVIOUS
<1>3. Cardinality(P \ {x}) = IF x \in P THEN Cardinality(P) - 1 ELSE Cardinality(P)
  BY <1>1, FS_RemoveElement
<1>4. x \in P <=> f[x] # "absent"  OBVIOUS
<1> QED  BY <1>2, <1>3, <1>4 DEF Count

(* Writing a file adds one to the count unless it was there.               *)
LEMMA CountWrite ==
  ASSUME NEW S, NEW f \in [S -> Contents], IsFiniteSet(S), NEW x \in S,
         NEW c \in Contents, c # "absent"
  PROVE  Count(S, [f EXCEPT ![x] = c])
           = IF f[x] # "absent" THEN Count(S, f) ELSE Count(S, f) + 1
<1> DEFINE g == [f EXCEPT ![x] = c]
           P == {y \in S : f[y] # "absent"}
           R == {y \in S : g[y] # "absent"}
<1>1. IsFiniteSet(P)  BY FS_Subset
<1>2. R = P \union {x}  OBVIOUS
<1>3. Cardinality(P \union {x}) = IF x \in P THEN Cardinality(P) ELSE Cardinality(P) + 1
  BY <1>1, FS_AddElement
<1>4. x \in P <=> f[x] # "absent"  OBVIOUS
<1> QED  BY <1>2, <1>3, <1>4 DEF Count

(* The requests and the names in the cache are finite.                     *)
LEMMA FiniteCache == IsFiniteSet(Media) /\ IsFiniteSet(Hashes)
<1>1. IsFiniteSet(Media)  BY TransportAssumption, FS_Subset
<1>2. HashOf \in Surjection(Media, Hashes)  BY TransportAssumption DEF Surjection, Hashes
<1> QED  BY <1>1, <1>2, FS_Surjection

(* Files is the sum of the three counts.                                   *)
LEMMA FilesCounted ==
  /\ Files = Count(Hashes, entry) + Count(Media, temp) + Count(Media, backup)
  /\ Files' = Count(Hashes, entry') + Count(Media, temp') + Count(Media, backup')
BY DEF Files, Count

-------------------------------------------------------------------------------
(* Everything but the quota                                                *)

Rest == /\ TypeOK /\ NoTempLeft /\ StopsArrive
        /\ Control /\ StoppedOnly /\ TestAhead /\ OwnFiles

(* A return keeps it, whatever became of the files under final names, if   *)
(* it tells the truth about the token and removes the temporary file.      *)
LEMMA ReturnStep ==
  ASSUME Rest, NEW r \in current, pc \notin {"idle", "release"},
         NEW outcome \in Outcomes \ {"none"}, Return(r, outcome),
         outcome = "cancelled" => r \in stop, outcome \in {"ok", "ready"} => r \notin early,
         UNCHANGED <<platform, active, posts, stop, engine, ghosts>>,
         entry' \in [Hashes -> Contents], temp' \in [Media -> Contents],
         backup' \in [Media -> Contents],
         \A q \in Media : q # r => temp'[q] = temp[q] /\ backup'[q] = backup[q],
         r \in Media => temp'[r] = "absent"
  PROVE  Rest'
<1> USE TransportAssumption DEF Rest, TypeOK, NoTempLeft, StopsArrive, NoStrayCancel, StopHonoured,
      Control, StoppedOnly, TestAhead, OwnFiles, FilesOf, Written, Tested, Pcs, Stages, FileSteps,
      Outcomes, Contents, EngineIdle, vars, thread, disk, ghosts, Return
<1>1. current = {r} /\ r \in Requests  OBVIOUS
<1>2. results' = [results EXCEPT ![r] = outcome] /\ pc' = "release" /\ current' = current  OBVIOUS
<1>3. TypeOK'
  <2>1. results' \in [Requests -> Outcomes]  BY <1>1, <1>2
  <2>2. early' \subseteq stop' /\ interrupts' \in 0..MaxInterrupts /\ crashes' \in 0..MaxCrashes
    OBVIOUS
  <2>3. pc' \in Pcs /\ io' = "none" /\ registered' = FALSE /\ cancelled' = cancelled  OBVIOUS
  <2> QED  BY <1>1, <1>2, <2>1, <2>2, <2>3
<1>4. NoTempLeft'  BY <1>1, <1>2
<1>5. StopsArrive'  BY <1>1, <1>2
<1>6. Control'  BY <1>1, <1>2
<1>7. StoppedOnly' /\ TestAhead'  BY <1>1, <1>2
<1>8. OwnFiles'
  <2> SUFFICES ASSUME NEW q \in Media PROVE FilesOf(q)'  OBVIOUS
  <2>1. CASE q = r  BY <2>1, <1>1, <1>2
  <2>2. CASE q # r  BY <2>2, <1>1, <1>2
  <2> QED  BY <2>1, <2>2
<1> QED  BY <1>3, <1>4, <1>5, <1>6, <1>7, <1>8

(* What is known of the threads, the tokens and the files of a request     *)
(* survives every step.                                                    *)
LEMMA RestStep ==
  ASSUME Rest, [Next]_vars
  PROVE  Rest'
<1> USE TransportAssumption DEF Rest, TypeOK, NoTempLeft, StopsArrive, NoStrayCancel, StopHonoured,
      Control, StoppedOnly, TestAhead, OwnFiles, FilesOf, Written, Tested, Pcs, Stages, FileSteps,
      Outcomes, Contents, EngineIdle, vars, thread, disk, ghosts
<1>1. ASSUME NEW r \in Requests, Serialize(r) PROVE Rest'
  <2>1. CASE Return(r, "failure")
    BY <1>1, <2>1, ReturnStep DEF Serialize
  <2>2. CASE pc' # "release"
    BY <1>1, <2>2 DEF Serialize, Return
  <2> QED  BY <1>1, <2>1, <2>2 DEF Serialize, Return
<1>2. ASSUME NEW r \in Requests, Register(r) PROVE Rest'
  BY <1>2 DEF Register
<1>3. ASSUME NEW r \in Requests, CancelHandler(r) PROVE Rest'
  BY <1>3 DEF CancelHandler
<1>4. ASSUME NEW r \in Requests, StageFails(r) PROVE Rest'
  <2>1. CASE Return(r, SocketError(r))
    BY <1>4, <2>1, ReturnStep DEF StageFails, StageDone, SocketError, IsCancelled
  <2> QED  BY <1>4, <2>1 DEF StageFails
<1>5. ASSUME NEW r \in Requests, StageContinues(r) PROVE Rest'
  <2>1. CASE Return(r, "failure")
    BY <1>5, <2>1, ReturnStep DEF StageContinues, StageDone, IsCancelled, Following
  <2>2. CASE pc' # "release"
    BY <1>5, <2>2 DEF StageContinues, StageDone, IsCancelled, Following, Return
  <2>3. Return(r, "failure") \/ (pc \in {"connect", "write", "header"} /\ pc' = Following[pc])
    BY <1>5 DEF StageContinues, StageDone
  <2> QED  BY <2>1, <2>2, <2>3 DEF Following
<1>6. ASSUME NEW r \in Requests, BodyDone(r) PROVE Rest'
  <2>1. CASE Return(r, "failure")
    BY <1>6, <2>1, ReturnStep DEF BodyDone, StageDone
  <2>3. CASE Return(r, "ok")
    BY <1>6, <2>3, ReturnStep DEF BodyDone, StageDone, IsCancelled
  <2>2. CASE pc' = "inspect"
    BY <1>6, <2>2 DEF BodyDone, StageDone, IsCancelled, Return
  <2> QED  BY <1>6, <2>1, <2>2, <2>3 DEF BodyDone
<1>7. ASSUME NEW r \in Requests, Inspect(r) PROVE Rest'
  <2>1. CASE Return(r, "failure")
    BY <1>7, <2>1, ReturnStep DEF Inspect
  <2>3. CASE Return(r, "ready")
    BY <1>7, <2>3, ReturnStep DEF Inspect
  <2>2. CASE pc' # "release"
    BY <1>7, <2>2 DEF Inspect, Return
  <2> QED  BY <1>7, <2>1, <2>2, <2>3 DEF Inspect
<1>8. ASSUME NEW r \in Requests, Measure(r) PROVE Rest'
  <2>1. CASE Return(r, "failure")
    BY <1>8, <2>1, ReturnStep DEF Measure
  <2>2. CASE pc' # "release"
    BY <1>8, <2>2 DEF Measure, Return
  <2> QED  BY <1>8, <2>1, <2>2 DEF Measure, Return
<1>9. ASSUME NEW r \in Requests, StoreOpen(r) PROVE Rest'
  <2>1. CASE Return(r, "failure")
    BY <1>9, <2>1, ReturnStep DEF StoreOpen, RemoveTemp
  <2>2. CASE pc' # "release"
    BY <1>9, <2>2 DEF StoreOpen, Return
  <2> QED  BY <1>9, <2>1, <2>2 DEF StoreOpen, Return
<1>10. ASSUME NEW r \in Requests, StoreWrite(r) PROVE Rest'
  <2>1. CASE Return(r, "failure")
    BY <1>10, <2>1, ReturnStep DEF StoreWrite, RemoveTemp
  <2>2. CASE pc' # "release"
    BY <1>10, <2>2 DEF StoreWrite, Return
  <2> QED  BY <1>10, <2>1, <2>2 DEF StoreWrite, Return
<1>11. ASSUME NEW r \in Requests, Confirm(r) PROVE Rest'
  <2>1. CASE Return(r, "cancelled")
    BY <1>11, <2>1, ReturnStep DEF Confirm, IsCancelled, RemoveTemp
  <2>2. CASE pc' # "release"
    BY <1>11, <2>2 DEF Confirm, IsCancelled, Return
  <2> QED  BY <1>11, <2>1, <2>2 DEF Confirm, IsCancelled, Return
<1>12. ASSUME NEW r \in Requests, Isolate(r) PROVE Rest'
  <2>1. CASE Return(r, "failure")
    BY <1>12, <2>1, ReturnStep DEF Isolate, RemoveTemp
  <2>2. CASE pc' # "release"
    BY <1>12, <2>2 DEF Isolate, Return
  <2> QED  BY <1>12, <2>1, <2>2 DEF Isolate, Return
<1>13. ASSUME NEW r \in Requests, Promote(r) PROVE Rest'
  <2>1. CASE Return(r, "ready")
    BY <1>13, <2>1, ReturnStep DEF Promote, RemoveTemp
  <2> QED  BY <1>13, <2>1 DEF Promote
<1>14. ASSUME NEW r \in Requests, PromoteFails(r) PROVE Rest'
  <2>1. CASE Return(r, "failure")
    BY <1>14, <2>1, ReturnStep DEF PromoteFails, RemoveTemp
  <2> QED  BY <1>14, <2>1 DEF PromoteFails
<1>15. CASE Release
  BY <1>15 DEF Release
<1>16. ASSUME NEW r \in Requests, StopCallback(r) PROVE Rest'
  BY <1>16 DEF StopCallback
<1>17. ASSUME NEW r \in Requests, InterruptPost(r) PROVE Rest'
  BY <1>17 DEF InterruptPost
<1>18. ASSUME NEW r \in Requests, ExecuteBegin(r) PROVE Rest'
  <2>1. CASE pc' = "idle"
    BY <1>18, <2>1 DEF ExecuteBegin
  <2>2. CASE pc' = "serialize"
    <3>1. r \notin stop /\ active = {}  BY <1>18, <2>2 DEF ExecuteBegin
    <3>0. /\ pc' = "serialize" /\ current' = {r} /\ cancelled' = FALSE /\ active' = {r}
          /\ results[r] = "none" /\ pc = "idle"
          /\ UNCHANGED <<io, registered, results, platform, posts, stop, engine, disk, ghosts>>
      BY <1>18, <2>2, <3>1 DEF ExecuteBegin
    <3>2. TypeOK'  BY <3>0
    <3>4. NoTempLeft'  BY <3>0
    <3>5. StopsArrive'  BY <3>0
    <3>6. Control'  BY <3>0
    <3>3. StoppedOnly' /\ TestAhead' /\ OwnFiles'
      BY <1>18, <2>2, <3>1 DEF ExecuteBegin
    <3> QED  BY <3>2, <3>3, <3>4, <3>5, <3>6
  <2> QED  BY <1>18, <2>1, <2>2 DEF ExecuteBegin
<1>19. ASSUME NEW r \in Requests, RequestStop(r) PROVE Rest'
  BY <1>19 DEF RequestStop
<1>20. ASSUME NEW r \in Requests, InterruptFind(r) PROVE Rest'
  BY <1>20 DEF InterruptFind
<1>21. ASSUME NEW how \in {"ok", "error"}, NetworkCompletes(how) PROVE Rest'
  BY <1>21 DEF NetworkCompletes
<1>22. CASE Crash
  <2>1. \A q \in Requests : results'[q] \in {results[q], "failure"} /\ (results'[q] = "none" => q \notin current)
    BY <1>22 DEF Crash
  <2>2. results' \in [Requests -> Outcomes]  BY <1>22 DEF Crash
  <2>3. crashes' \in 0..MaxCrashes /\ crashes' # 0  BY <1>22 DEF Crash
  <2>4. TypeOK'  BY <1>22, <2>2, <2>3 DEF Crash
  <2>5. NoTempLeft'  BY <2>3
  <2>6. StopsArrive' /\ Control'  BY <1>22, <2>1 DEF Crash
  <2>7. StoppedOnly' /\ TestAhead'  BY <1>22 DEF Crash
  <2>8. OwnFiles'  BY <1>22, <2>1 DEF Crash
  <2> QED  BY <2>4, <2>5, <2>6, <2>7, <2>8
<1>23. CASE DeadlineExpires
  BY <1>23 DEF DeadlineExpires
<1>24. CASE UNCHANGED vars
  BY <1>24
<1> QED
  BY <1>1, <1>2, <1>3, <1>4, <1>5, <1>6, <1>7, <1>8, <1>9, <1>10, <1>11, <1>12, <1>13, <1>14, <1>15, <1>16, <1>17, <1>18, <1>19, <1>20, <1>21, <1>22, <1>23, <1>24
     DEF Next, WorkerSteps, EngineSteps, Environment

-------------------------------------------------------------------------------
(* The quota                                                               *)

Space == WithinQuota /\ Reserved

(* Removing the temporary file of a request frees what it took.            *)
LEMMA RemovalCounts ==
  ASSUME TypeOK, NEW r \in Requests, RemoveTemp(r)
  PROVE  /\ temp' \in [Media -> Contents]
         /\ Count(Media, temp') <= Count(Media, temp)
         /\ r \in Media /\ temp[r] # "absent" => Count(Media, temp') = Count(Media, temp) - 1
<1>1. Count(Media, temp) \in Nat  BY FiniteCache, CountType
<1>2. CASE r \in Media
  <2>1. temp' = [temp EXCEPT ![r] = "absent"]  BY <1>2 DEF RemoveTemp
  <2>2. temp \in [Media -> Contents] /\ temp' \in [Media -> Contents]
    BY <2>1 DEF TypeOK, Contents
  <2>3. Count(Media, temp') = IF temp[r] = "absent" THEN Count(Media, temp) ELSE Count(Media, temp) - 1
    BY <1>2, <2>1, <2>2, FiniteCache, CountRemove
  <2> QED  BY <1>1, <1>2, <2>2, <2>3
<1>3. CASE r \notin Media
  BY <1>1, <1>3 DEF RemoveTemp, TypeOK
<1> QED  BY <1>2, <1>3

(* A download takes its place between the measurement and the opening of   *)
(* its file; the moves of the promotion add nothing.                       *)
LEMMA SpaceStep ==
  ASSUME Rest, Space, [Next]_vars
  PROVE  Space'
<1> USE TransportAssumption DEF Rest, Space, WithinQuota, Reserved
<1> DEFINE e == Count(Hashes, entry)
           t == Count(Media, temp)
           b == Count(Media, backup)
<1>1. e \in Nat /\ t \in Nat /\ b \in Nat  BY FiniteCache, CountType
<1>2. Files = e + t + b /\ Files \in Nat  BY <1>1, FilesCounted
<1>3. /\ entry \in [Hashes -> Contents] /\ temp \in [Media -> Contents]
      /\ backup \in [Media -> Contents]
  BY DEF TypeOK
<1>4. \A r \in current : r \in Requests /\ (pc \in FileSteps => r \in Media /\ HashOf[r] \in Hashes)
  BY DEF TypeOK, Control, Hashes
<1>5. ASSUME UNCHANGED disk, pc' # "open" PROVE Space'
  BY <1>5 DEF disk, Files
<1>6. ASSUME NEW r \in current, RemoveTemp(r), UNCHANGED <<entry, backup>>, pc' # "open" PROVE Space'
  <2>1. Count(Media, temp') <= t /\ Count(Media, temp') \in Nat
    BY <1>4, <1>6, RemovalCounts, FiniteCache, CountType
  <2> QED  BY <1>1, <1>2, <1>6, <2>1, FilesCounted
<1>7. ASSUME NEW r \in Requests, Measure(r) PROVE Space'
  BY <1>2, <1>7 DEF Measure, Return, disk, Files
<1>8. ASSUME NEW r \in Requests, StoreOpen(r) PROVE Space'
  <2>1. CASE Return(r, "failure") /\ RemoveTemp(r)
    BY <1>6, <1>8, <2>1 DEF StoreOpen, Return
  <2>2. CASE temp' = [temp EXCEPT ![r] = "bad"] /\ pc' = "store"
    <3>1. r \in Media  BY <1>4, <1>8 DEF StoreOpen, FileSteps
    <3>4. "bad" \in Contents  BY DEF Contents
    <3>5. Count(Media, [temp EXCEPT ![r] = "bad"])
            = IF temp[r] # "absent" THEN Count(Media, temp) ELSE Count(Media, temp) + 1
      <4>1. temp \in [Media -> Contents] /\ r \in Media /\ "bad" \in Contents /\ "bad" # "absent"
            /\ IsFiniteSet(Media)
        BY <1>3, <3>1, <3>4, FiniteCache
      <4> HIDE DEF Rest, Space, TransportAssumption
      <4> QED  BY <4>1, CountWrite, Zenon
    <3>2. Count(Media, temp') <= t + 1 /\ Count(Media, temp') \in Nat
      BY <1>1, <2>2, <3>5
    <3>3. Files <= Quota - 1 /\ UNCHANGED <<entry, backup>>  BY <1>8 DEF StoreOpen
    <3> QED  BY <1>1, <1>2, <2>2, <3>2, <3>3, FilesCounted
  <2> QED  BY <1>8, <2>1, <2>2 DEF StoreOpen
<1>9. ASSUME NEW r \in Requests, StoreWrite(r) PROVE Space'
  <2>1. CASE Return(r, "failure") /\ RemoveTemp(r)
    BY <1>6, <1>9, <2>1 DEF StoreWrite, Return
  <2>2. CASE temp' = [temp EXCEPT ![r] = "good"] /\ pc' = "confirm"
    <3>1. r \in Media /\ temp[r] # "absent"  BY <1>4, <1>9 DEF StoreWrite, FileSteps, OwnFiles, FilesOf
    <3>2. Count(Media, temp') = t
      BY <1>1, <1>3, <2>2, <3>1, FiniteCache, CountWrite DEF Contents
    <3>3. UNCHANGED <<entry, backup>>  BY <1>9 DEF StoreWrite
    <3> QED  BY <1>1, <1>2, <2>2, <3>2, <3>3, FilesCounted
  <2> QED  BY <1>9, <2>1, <2>2 DEF StoreWrite
<1>10. ASSUME NEW r \in Requests, Confirm(r) PROVE Space'
  BY <1>5, <1>6, <1>10 DEF Confirm, Return, disk
<1>11. ASSUME NEW r \in Requests, Isolate(r) PROVE Space'
  <2> DEFINE h == HashOf[r]
  <2>1. r \in Media /\ h \in Hashes /\ backup[r] = "absent" /\ pc' # "open"
    BY <1>4, <1>11 DEF Isolate, Return, FileSteps, OwnFiles, FilesOf, Control
  <2>2. CASE Return(r, "failure") /\ RemoveTemp(r) /\ UNCHANGED <<entry, backup>>
    BY <1>6, <1>11, <2>1, <2>2 DEF Isolate
  <2>3. CASE entry' = [entry EXCEPT ![h] = "absent"] /\ entry[h] = "absent" /\ UNCHANGED <<temp, backup>>
    BY <1>1, <1>2, <1>3, <2>1, <2>3, FilesCounted, FiniteCache, CountRemove
  <2>4. CASE /\ entry' = [entry EXCEPT ![h] = "absent"] /\ entry[h] # "absent"
             /\ backup' = [backup EXCEPT ![r] = entry[h]] /\ UNCHANGED temp
    <3>1. Count(Hashes, entry') = e - 1
      BY <1>3, <2>1, <2>4, FiniteCache, CountRemove
    <3>3. entry[h] \in Contents  BY <1>3, <2>1
    <3>4. Count(Media, [backup EXCEPT ![r] = entry[h]])
            = IF backup[r] # "absent" THEN Count(Media, backup) ELSE Count(Media, backup) + 1
      <4>1. backup \in [Media -> Contents] /\ r \in Media /\ entry[h] # "absent" /\ IsFiniteSet(Media)
        BY <1>3, <2>1, <2>4, FiniteCache
      <4> HIDE DEF Rest, Space, TransportAssumption, h
      <4> QED  BY <3>3, <4>1, CountWrite, Zenon
    <3>2. Count(Media, backup') = b + 1
      BY <2>1, <2>4, <3>4
    <3> QED  BY <1>1, <1>2, <2>1, <2>4, <3>1, <3>2, FilesCounted
  <2> QED  BY <1>11, <2>2, <2>3, <2>4 DEF Isolate
<1>12. ASSUME NEW r \in Requests, Promote(r) PROVE Space'
  <2> DEFINE h == HashOf[r]
  <2>1. r \in Media /\ h \in Hashes /\ temp[r] = "good" /\ pc' # "open"
    BY <1>4, <1>12 DEF Promote, Return, FileSteps, OwnFiles, FilesOf, Written
  <2>2. Count(Media, temp') = t - 1
    BY <1>12, <2>1, RemovalCounts DEF Promote
  <2>3. Count(Hashes, entry') <= e + 1 /\ Count(Hashes, entry') \in Nat
    <3>1. entry' = [entry EXCEPT ![h] = "good"]  BY <1>12, <2>1 DEF Promote
    <3>2. "good" \in Contents  BY DEF Contents
    <3>3. Count(Hashes, entry') = IF entry[h] # "absent" THEN e ELSE e + 1
      BY <1>3, <2>1, <3>1, <3>2, FiniteCache, CountWrite
    <3> QED  BY <1>1, <3>3
  <2>4. Count(Media, backup') <= b /\ Count(Media, backup') \in Nat
    BY <1>1, <1>3, <1>12, <2>1, FiniteCache, CountRemove, CountType DEF Promote
  <2> QED  BY <1>1, <1>2, <2>1, <2>2, <2>3, <2>4, FilesCounted
<1>13. ASSUME NEW r \in Requests, PromoteFails(r) PROVE Space'
  <2> DEFINE h == HashOf[r]
  <2>1. r \in Media /\ h \in Hashes /\ temp[r] = "good" /\ pc' # "open" /\ r \in current
    BY <1>4, <1>13 DEF PromoteFails, Return, FileSteps, OwnFiles, FilesOf, Written
  <2>2. CASE UNCHANGED <<entry, backup>>
    BY <1>6, <1>13, <2>1, <2>2 DEF PromoteFails
  <2>3. CASE /\ backup[r] # "absent" /\ entry' = [entry EXCEPT ![h] = backup[r]]
             /\ backup' = [backup EXCEPT ![r] = "absent"]
    <3>1. Count(Media, temp') = t - 1
      BY <1>13, <2>1, RemovalCounts DEF PromoteFails
    <3>2. Count(Hashes, entry') <= e + 1 /\ Count(Hashes, entry') \in Nat
      <4>1. backup[r] \in Contents  BY <1>3, <2>1
      <4>2. Count(Hashes, [entry EXCEPT ![h] = backup[r]]) = IF entry[h] # "absent" THEN e ELSE e + 1
        BY <1>3, <2>1, <2>3, <4>1, FiniteCache, CountWrite
      <4> QED  BY <1>1, <2>3, <4>2
    <3>3. Count(Media, backup') = b - 1
      BY <1>3, <2>1, <2>3, FiniteCache, CountRemove
    <3> QED  BY <1>1, <1>2, <2>1, <3>1, <3>2, <3>3, FilesCounted
  <2> QED  BY <1>13, <2>2, <2>3 DEF PromoteFails
<1>14. ASSUME NEW r \in Requests,
              \/ Serialize(r) \/ Register(r) \/ CancelHandler(r) \/ StageFails(r)
              \/ StageContinues(r) \/ BodyDone(r) \/ Inspect(r)
       PROVE  Space'
  BY <1>5, <1>14 DEF Serialize, Register, CancelHandler, StageFails, StageContinues, BodyDone, Inspect,
                     StageDone, Stages, Following, Return
<1>15. CASE Release \/ EngineSteps \/ Environment \/ DeadlineExpires \/ UNCHANGED vars
  <2>1. CASE Release  BY <1>5, <2>1 DEF Release
  <2>2. CASE EngineSteps \/ DeadlineExpires \/ UNCHANGED vars
    BY <2>2 DEF EngineSteps, StopCallback, InterruptPost, DeadlineExpires, vars, thread, disk, Files
  <2>3. CASE Environment
    BY <2>3 DEF Environment, ExecuteBegin, RequestStop, InterruptFind, NetworkCompletes, Crash,
                thread, disk, Files
  <2> QED  BY <1>15, <2>1, <2>2, <2>3
<1> QED  BY <1>7, <1>8, <1>9, <1>10, <1>11, <1>12, <1>13, <1>14, <1>15 DEF Next, WorkerSteps

-------------------------------------------------------------------------------
(* Theorems                                                                *)

(* In every reachable state of the transport and its cache the inductive   *)
(* invariant holds.                                                        *)
THEOREM Inductive == Spec => []IInv
<1>1. Init => IInv
  <2> SUFFICES ASSUME Init PROVE IInv  OBVIOUS
  <2>1. TypeOK
    <3>1. temp \in [Media -> Contents] /\ backup \in [Media -> Contents] /\ results \in [Requests -> Outcomes]
      BY DEF Init, Contents, Outcomes
    <3>2. interrupts \in 0..MaxInterrupts /\ crashes \in 0..MaxCrashes
      BY TransportAssumption DEF Init
    <3> QED  BY <3>1, <3>2 DEF Init, TypeOK, Pcs
  <2>4. WithinQuota /\ NoTempLeft
    BY DEF Init, WithinQuota, NoTempLeft
  <2>2. StopsArrive /\ Control /\ StoppedOnly /\ TestAhead /\ Reserved
    BY DEF Init, StopsArrive, NoStrayCancel, StopHonoured, Control, StoppedOnly, TestAhead, Reserved, FileSteps
  <2>3. OwnFiles
    BY DEF Init, OwnFiles, FilesOf
  <2> QED  BY <2>1, <2>2, <2>3, <2>4 DEF IInv, CacheInv
<1>2. IInv <=> Rest /\ Space  BY DEF IInv, Rest, Space, CacheInv
<1>3. IInv' <=> Rest' /\ Space'  BY DEF IInv, Rest, Space, CacheInv
<1>4. IInv /\ [Next]_vars => IInv'  BY <1>2, <1>3, RestStep, SpaceStep
<1> QED  BY <1>1, <1>4, PTL DEF Spec

(* The cache keeps its quota and its types, and holds no temporary file    *)
(* but the one being written and those of a crash.                         *)
THEOREM CacheInvHolds == Spec => []CacheInv
BY Inductive, PTL DEF IInv

(* A cancellation reaches the operation of its own request only, and what  *)
(* was stopped before the last test of its token never succeeds.           *)
THEOREM StopsArriveHolds == Spec => []StopsArrive
BY Inductive, PTL DEF IInv

(* What is reported ready is verified, and under a final name nothing gets *)
(* worse than it was (execute's media branch).                             *)
THEOREM OnlyVerifiedHolds == Spec => OnlyVerified
<1> DEFINE Ready == \A r \in Media : results[r] # "ready" /\ results'[r] = "ready"
                                       => entry'[HashOf[r]] = "good"
           Worse == \A h \in Hashes :
             /\ entry[h] = "good" => entry'[h] = "good"
             /\ entry[h] = "absent" /\ entry'[h] = "bad"
                  => \E r \in Media : HashOf[r] = h /\ backup[r] = "bad" /\ results'[r] = "failure"
<1>1. ASSUME Rest, [Next]_vars PROVE Ready /\ Worse
  <2> USE <1>1, TransportAssumption DEF Rest
  <2>1. entry \in [Hashes -> Contents] /\ results \in [Requests -> Outcomes]
    BY DEF TypeOK
  <2>2. ASSUME UNCHANGED entry, \A r \in Media : results'[r] = "ready" => results[r] = "ready"
        PROVE  Ready /\ Worse
    BY <2>2 DEF Contents
  <2>3. ASSUME NEW r \in Requests, Inspect(r) PROVE Ready /\ Worse
    BY <2>1, <2>3 DEF Inspect, Return, disk
  <2>4. ASSUME NEW r \in Requests, Isolate(r) PROVE Ready /\ Worse
    BY <2>1, <2>4 DEF Isolate, Return, FileSteps, OwnFiles, FilesOf, Control
  <2>5. ASSUME NEW r \in Requests, Promote(r) PROVE Ready /\ Worse
    BY <2>1, <2>5 DEF Promote, Return, FileSteps, OwnFiles, FilesOf, Control, Written, Hashes
  <2>6. ASSUME NEW r \in Requests, PromoteFails(r) PROVE Ready /\ Worse
    BY <2>1, <2>6 DEF PromoteFails, Return, FileSteps, OwnFiles, FilesOf, Control, Hashes
  <2>7. ASSUME NEW r \in Requests,
               \/ Serialize(r) \/ Register(r) \/ CancelHandler(r) \/ StageFails(r)
               \/ StageContinues(r) \/ BodyDone(r) \/ Measure(r) \/ StoreOpen(r) \/ StoreWrite(r)
               \/ Confirm(r)
        PROVE  Ready /\ Worse
    BY <2>1, <2>2, <2>7
       DEF Serialize, Register, CancelHandler, StageFails, StageContinues, BodyDone, Measure, StoreOpen,
           StoreWrite, Confirm, SocketError, Return, disk
  <2>8. CASE Release \/ EngineSteps \/ Environment \/ DeadlineExpires \/ UNCHANGED vars
    BY <2>1, <2>2, <2>8
       DEF Release, EngineSteps, StopCallback, InterruptPost, Environment, ExecuteBegin, RequestStop,
           InterruptFind, NetworkCompletes, Crash, DeadlineExpires, vars, thread, disk
  <2> QED  BY <2>3, <2>4, <2>5, <2>6, <2>7, <2>8 DEF Next, WorkerSteps
<1>2. IInv => Rest  BY DEF IInv, Rest, CacheInv
<1> QED  BY <1>1, <1>2, Inductive, PTL DEF OnlyVerified, ReadyIsVerified, NeverWorse, Spec

================================================================================
