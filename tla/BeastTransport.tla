---------------------------- MODULE BeastTransport ----------------------------
(***************************************************************************)
(* lorkhan::BeastTransport (beast_transport.cpp): one HTTP exchange at a   *)
(* time on the worker thread, cancellable from the engine thread, and the  *)
(* verified promotion of downloaded media into the on-disk cache.          *)
(*                                                                         *)
(* The worker thread runs execute.  Each network stage starts one          *)
(* asynchronous operation and then runs the operation's io_context until   *)
(* that operation and every posted handler are done.  The engine thread    *)
(* asks the stop_source to stop, which runs the stop_callback on that      *)
(* thread, and calls interrupt; both only post a cancel handler to the     *)
(* io_context.  The network may answer, fail or stay silent; the stage's   *)
(* timer may expire.  The process may die at any point and start again     *)
(* with the files it left.                                                 *)
(***************************************************************************)
EXTENDS Integers, FiniteSets

CONSTANTS
  Requests,      \* request ids; each is executed at most once
  Media,         \* those that download media
  HashOf,        \* the SHA-256 a media request's descriptor names
  Quota,         \* the cache quota, in files (every file counts one)
  MaxInterrupts, \* bound: how often the engine calls interrupt
  MaxCrashes     \* bound: how often the process dies

Hashes == {HashOf[r] : r \in Media}

ASSUME TransportAssumption ==
  /\ Media \subseteq Requests /\ HashOf \in [Media -> Hashes]
  /\ IsFiniteSet(Requests) /\ Quota \in Nat
  /\ MaxInterrupts \in Nat /\ MaxCrashes \in Nat

VARIABLES
  platform,   \* the build: a rename replaces its target on posix only
  pc,         \* where execute is on the worker thread
  current,    \* the request being executed, as a set of 0 or 1
  io,         \* the asynchronous operation of the stage in progress
  cancelled,  \* TransportOperation::cancelled of the current operation
  registered, \* the stop_callback of the current operation exists
  active,     \* Impl::activeOperation, as a set of 0 or 1 requests
  posts,      \* requests whose io_context holds a cancel handler
  stop,       \* requests whose token is stopped
  engine,     \* the engine thread's call in progress
  entry,      \* the file under its final name, per hash
  temp,       \* the temporary file of each media request
  backup,     \* the isolated old entry of each media request (Windows)
  results,    \* what execute returned for each request
  early,      \* history: requests stopped before the last test of the token
  interrupts, \* history: how often interrupt found its operation
  crashes     \* history: how often the process died

thread == <<pc, current, io, cancelled, registered>>
disk   == <<entry, temp, backup>>
ghosts == <<early, interrupts, crashes>>
vars   == <<platform, thread, active, posts, stop, engine, disk, results, ghosts>>

Stages    == {"connect", "write", "header", "body"}
FileSteps == {"inspect", "measure", "open", "store", "confirm", "isolate", "promote"}
Pcs       == {"idle", "serialize", "register", "release"} \union Stages \union FileSteps
Outcomes  == {"none", "ok", "ready", "cancelled", "failure"}
Contents  == {"absent", "good", "bad"}

(* The bytes of a file under each name; `bad' is partial or corrupt.       *)
Files == Cardinality({h \in Hashes : entry[h] # "absent"})
         + Cardinality({r \in Media : temp[r] # "absent"})
         + Cardinality({r \in Media : backup[r] # "absent"})

TypeOK ==
  /\ platform \in {"windows", "posix"}
  /\ pc \in Pcs /\ current \subseteq Requests /\ active \subseteq Requests
  /\ io \in {"none", "pending", "ok", "error"}
  /\ cancelled \in BOOLEAN /\ registered \in BOOLEAN
  /\ posts \subseteq Requests /\ stop \subseteq Requests
  /\ engine \in [op : {"idle", "callback", "post"}, ids : SUBSET Requests]
  /\ entry \in [Hashes -> Contents]
  /\ temp \in [Media -> Contents] /\ backup \in [Media -> Contents]
  /\ results \in [Requests -> Outcomes]
  /\ early \subseteq stop /\ interrupts \in 0..MaxInterrupts /\ crashes \in 0..MaxCrashes

(* The cache starts with whatever earlier runs and the disk left in it.    *)
Init ==
  /\ platform \in {"windows", "posix"}
  /\ pc = "idle" /\ current = {} /\ io = "none"
  /\ cancelled = FALSE /\ registered = FALSE
  /\ active = {} /\ posts = {} /\ stop = {}
  /\ engine = [op |-> "idle", ids |-> {}]
  /\ entry \in [Hashes -> Contents]
  /\ temp = [r \in Media |-> "absent"] /\ backup = [r \in Media |-> "absent"]
  /\ results = [r \in Requests |-> "none"]
  /\ early = {} /\ interrupts = 0 /\ crashes = 0
  /\ Files <= Quota

-------------------------------------------------------------------------------
(* execute on the worker thread                                            *)

(* The first statement: a stopped token returns without an operation.      *)
(* Otherwise the operation is installed under the operation mutex.         *)
ExecuteBegin(r) ==
  /\ pc = "idle" /\ results[r] = "none"
  /\ IF r \in stop \/ active # {}
     THEN /\ results' = [results EXCEPT ![r] = IF r \in stop THEN "cancelled" ELSE "failure"]
          /\ UNCHANGED <<thread, active>>
     ELSE /\ pc' = "serialize" /\ current' = {r} /\ cancelled' = FALSE
          /\ active' = {r}
          /\ UNCHANGED <<io, registered, results>>
  /\ UNCHANGED <<platform, posts, stop, engine, disk, ghosts>>

(* Every return runs the destructors: the temporary file is removed unless *)
(* it was promoted, the stop_callback is deregistered; then, a step later, *)
(* activeOperation is reset.                                               *)
Return(r, outcome) ==
  /\ pc' = "release" /\ io' = "none" /\ registered' = FALSE
  /\ results' = [results EXCEPT ![r] = outcome]
  /\ UNCHANGED <<current, cancelled>>

RemoveTemp(r) ==
  temp' = IF r \in Media THEN [temp EXCEPT ![r] = "absent"] ELSE temp

Release ==
  /\ pc = "release"
  /\ pc' = "idle" /\ current' = {} /\ cancelled' = FALSE
  /\ active' = active \ current /\ posts' = posts \ current
  /\ UNCHANGED <<platform, io, registered, stop, engine, disk,
                 results, ghosts>>

(* serializeRequest either yields a wire request or refuses.               *)
Serialize(r) ==
  /\ pc = "serialize" /\ r \in current
  /\ \/ pc' = "register" /\ UNCHANGED <<current, io, cancelled, registered, results>>
     \/ Return(r, "failure")
  /\ UNCHANGED <<platform, active, posts, stop, engine, disk, ghosts>>

(* Bug: only stops that come after the construction run the callback.      *)
RegisterLate(r) ==
  /\ pc = "register" /\ r \in current
  /\ registered' = TRUE
  /\ pc' = "connect" /\ io' = "pending"
  /\ UNCHANGED <<platform, current, cancelled, active, posts, stop, engine, disk,
                 results, ghosts>>

(* Constructing the stop_callback on a stopped token runs it at once.      *)
Register(r) ==
  /\ pc = "register" /\ r \in current
  /\ registered' = TRUE
  /\ posts' = IF r \in stop THEN posts \union {r} ELSE posts
  /\ pc' = "connect" /\ io' = "pending"
  /\ UNCHANGED <<platform, current, cancelled, active, stop, engine, disk, results,
                 ghosts>>

(* The network completes the stage's operation, well or badly.             *)
NetworkCompletes(how) ==
  /\ pc \in Stages /\ io = "pending"
  /\ io' = how
  /\ UNCHANGED <<platform, pc, current, cancelled, registered, active, posts, stop,
                 engine, disk, results, ghosts>>

(* expires_after: every stage has a deadline of at least a millisecond.    *)
DeadlineExpires ==
  /\ pc \in Stages /\ io = "pending"
  /\ io' = "error"
  /\ UNCHANGED <<platform, pc, current, cancelled, registered, active, posts, stop,
                 engine, disk, results, ghosts>>

(* A posted handler runs inside context.run(): it closes the socket, which *)
(* aborts the stage's operation if that is still pending.                  *)
CancelHandler(r) ==
  /\ pc \in Stages /\ r \in current /\ r \in posts
  /\ posts' = posts \ {r}
  /\ cancelled' = TRUE
  /\ io' = IF io = "pending" THEN "error" ELSE io
  /\ UNCHANGED <<platform, pc, current, registered, active, stop, engine, disk,
                 results, ghosts>>

(* The lambda cancelled().                                                 *)
IsCancelled(r) == r \in stop \/ cancelled

(* socketError's classification; timeouts and failures are one outcome.    *)
SocketError(r) ==
  IF IsCancelled(r) THEN "cancelled" ELSE "failure"

(* run() has returned: nothing pending, nothing posted.  An error or a     *)
(* cancellation ends execute; otherwise the next stage starts.  Between    *)
(* the header and the body, unacceptable framing or media headers are      *)
(* refused; after the body, so is an invalid response or digest.           *)
StageDone(r) == pc \in Stages /\ r \in current /\ io # "pending" /\ r \notin posts

Following == [connect |-> "write", write |-> "header", header |-> "body"]

StageFails(r) ==
  /\ StageDone(r) /\ (io # "ok" \/ IsCancelled(r))
  /\ Return(r, SocketError(r))
  /\ UNCHANGED <<platform, active, posts, stop, engine, disk, ghosts>>

StageContinues(r) ==
  /\ StageDone(r) /\ io = "ok" /\ ~IsCancelled(r) /\ pc # "body"
  /\ \/ pc' = Following[pc] /\ io' = "pending"
        /\ UNCHANGED <<current, cancelled, registered, results>>
     \/ pc = "header" /\ Return(r, "failure")
  /\ UNCHANGED <<platform, active, posts, stop, engine, disk, ghosts>>

(* The body has arrived: validateResponse or protocolFailure, or for media *)
(* the digest of the body against the descriptor.                          *)
BodyDone(r) ==
  /\ StageDone(r) /\ io = "ok" /\ ~IsCancelled(r) /\ pc = "body"
  /\ \/ r \notin Media /\ Return(r, "ok")
     \/ Return(r, "failure")
     \/ r \in Media /\ pc' = "inspect"
        /\ UNCHANGED <<current, io, cancelled, registered, results>>
  /\ UNCHANGED <<platform, active, posts, stop, engine, disk, ghosts>>

-------------------------------------------------------------------------------
(* The media cache                                                         *)

(* A regular file of the right digest is ready as it is; a corrupt one     *)
(* will be replaced.  Anything that cannot be read or is not a plain file  *)
(* is refused.                                                             *)
Inspect(r) ==
  /\ pc = "inspect" /\ r \in current
  /\ \/ entry[HashOf[r]] = "good" /\ Return(r, "ready")
     \/ entry[HashOf[r]] # "good" /\ pc' = "measure"
        /\ UNCHANGED <<current, io, cancelled, registered, results>>
     \/ Return(r, "failure")
  /\ UNCHANGED <<platform, active, posts, stop, engine, disk, ghosts>>

(* Every file under the cache root counts towards the quota, the leftovers *)
(* of earlier crashes and the corrupt entry included.                      *)
Measure(r) ==
  /\ pc = "measure" /\ r \in current
  /\ \/ Files <= Quota - 1 /\ pc' = "open"
        /\ UNCHANGED <<current, io, cancelled, registered, results>>
     \/ Return(r, "failure")
  /\ UNCHANGED <<platform, active, posts, stop, engine, disk, ghosts>>

(* The temporary file is opened (and exists, incomplete) ...               *)
StoreOpen(r) ==
  /\ pc = "open" /\ r \in current
  /\ \/ temp' = [temp EXCEPT ![r] = "bad"] /\ pc' = "store"
        /\ UNCHANGED <<current, io, cancelled, registered, results>>
     \/ Return(r, "failure") /\ RemoveTemp(r)
  /\ UNCHANGED <<platform, active, posts, stop, engine, entry, backup, ghosts>>

(* Bug: the stream is not tested after the flush.                          *)
StoreUnchecked(r) ==
  /\ pc = "store" /\ r \in current
  /\ temp' \in {temp, [temp EXCEPT ![r] = "good"]} /\ pc' = "confirm"
  /\ UNCHANGED <<current, io, cancelled, registered, results>>
  /\ UNCHANGED <<platform, active, posts, stop, engine, entry, backup, ghosts>>

(* ... and written and flushed, or a write error leaves it incomplete, in  *)
(* which case the return removes it.                                       *)
StoreWrite(r) ==
  /\ pc = "store" /\ r \in current
  /\ \/ temp' = [temp EXCEPT ![r] = "good"] /\ pc' = "confirm"
        /\ UNCHANGED <<current, io, cancelled, registered, results>>
     \/ Return(r, "failure") /\ RemoveTemp(r)
  /\ UNCHANGED <<platform, active, posts, stop, engine, entry, backup, ghosts>>

(* The last look at the token before the file is promoted.                 *)
Confirm(r) ==
  /\ pc = "confirm" /\ r \in current
  /\ IF IsCancelled(r)
     THEN Return(r, "cancelled") /\ RemoveTemp(r)
     ELSE /\ pc' = IF platform = "windows" THEN "isolate" ELSE "promote"
          /\ UNCHANGED <<current, io, cancelled, registered, results, temp>>
  /\ UNCHANGED <<platform, active, posts, stop, engine, entry, backup, ghosts>>

(* Windows: an entry in the way is renamed aside first.                    *)
Isolate(r) ==
  /\ pc = "isolate" /\ r \in current
  /\ LET h == HashOf[r] IN
       \/ /\ pc' = "promote"
          /\ entry' = [entry EXCEPT ![h] = "absent"]
          /\ backup' = IF entry[h] = "absent" THEN backup
                       ELSE [backup EXCEPT ![r] = entry[h]]
          /\ UNCHANGED <<current, io, cancelled, registered, results, temp>>
       \/ /\ entry[h] # "absent"
          /\ Return(r, "failure") /\ RemoveTemp(r)
          /\ UNCHANGED <<entry, backup>>
  /\ UNCHANGED <<platform, active, posts, stop, engine, ghosts>>

(* Bug: the file is copied to its final name and the original forgotten.   *)
PromoteCopies(r) ==
  /\ pc = "promote" /\ r \in current
  /\ entry' = [entry EXCEPT ![HashOf[r]] = temp[r]]
  /\ backup' = [backup EXCEPT ![r] = "absent"]
  /\ Return(r, "ready")
  /\ UNCHANGED <<platform, active, posts, stop, engine, temp, ghosts>>

(* The rename that promotes the file, and what follows its success ...     *)
Promote(r) ==
  /\ pc = "promote" /\ r \in current
  /\ entry' = [entry EXCEPT ![HashOf[r]] = temp[r]]
  /\ RemoveTemp(r)
  /\ \/ backup' = [backup EXCEPT ![r] = "absent"]
     \/ backup' = backup
  /\ Return(r, "ready")
  /\ UNCHANGED <<platform, active, posts, stop, engine, ghosts>>

(* ... or its failure: Windows tries to put the old entry back.            *)
PromoteFails(r) ==
  /\ pc = "promote" /\ r \in current
  /\ LET h == HashOf[r] IN
       IF backup[r] # "absent" /\ platform = "windows"
       THEN \/ entry' = [entry EXCEPT ![h] = backup[r]]
               /\ backup' = [backup EXCEPT ![r] = "absent"]
            \/ UNCHANGED <<entry, backup>>
       ELSE UNCHANGED <<entry, backup>>
  /\ RemoveTemp(r)
  /\ Return(r, "failure")
  /\ UNCHANGED <<platform, active, posts, stop, engine, ghosts>>

-------------------------------------------------------------------------------
(* The engine thread                                                       *)

EngineIdle == [op |-> "idle", ids |-> {}]

(* Where execute still has a test of the token ahead, whatever happens.    *)
Tested == {"serialize", "register", "measure", "open", "store", "confirm"} \union Stages

(* request_stop: the flag is set, then the registered callback runs here.  *)
RequestStop(r) ==
  /\ engine = EngineIdle /\ r \notin stop
  /\ stop' = stop \union {r}
  /\ early' = IF results[r] = "none" /\ (r \in current => pc \in Tested)
              THEN early \union {r} ELSE early
  /\ engine' = IF registered /\ r \in current
               THEN [op |-> "callback", ids |-> {r}] ELSE EngineIdle
  /\ UNCHANGED <<platform, thread, active, posts, disk, results, interrupts,
                 crashes>>

(* A callback deregistered before it started never runs.                   *)
StopCallback(r) ==
  /\ engine = [op |-> "callback", ids |-> {r}]
  /\ posts' = IF registered /\ r \in current THEN posts \union {r} ELSE posts
  /\ engine' = EngineIdle
  /\ UNCHANGED <<platform, thread, active, stop, disk, results, ghosts>>

(* Bug: whatever operation is active is interrupted.                       *)
InterruptAny(r) ==
  /\ engine = EngineIdle /\ r \in stop
  /\ active # {} /\ interrupts < MaxInterrupts
  /\ interrupts' = interrupts + 1
  /\ engine' = [op |-> "post", ids |-> active]
  /\ UNCHANGED <<platform, thread, active, posts, stop, disk, results, early,
                 crashes>>

(* interrupt: the active operation is copied under the operation mutex ... *)
(* The bridge interrupts only what it has stopped.                         *)
InterruptFind(r) ==
  /\ engine = EngineIdle /\ r \in stop
  /\ r \in active /\ interrupts < MaxInterrupts
  /\ interrupts' = interrupts + 1
  /\ engine' = [op |-> "post", ids |-> {r}]
  /\ UNCHANGED <<platform, thread, active, posts, stop, disk, results, early,
                 crashes>>

(* ... and the handler posted outside it.  Posted to an operation that has *)
(* finished meanwhile, it never runs: nobody runs that context again.      *)
InterruptPost(r) ==
  /\ engine = [op |-> "post", ids |-> {r}]
  /\ posts' = posts \union ({r} \intersect current)
  /\ engine' = EngineIdle
  /\ UNCHANGED <<platform, thread, active, stop, disk, results, ghosts>>

(* The process dies; a new one starts on the files that are there.         *)
Crash ==
  /\ crashes < MaxCrashes /\ crashes' = crashes + 1
  /\ pc' = "idle" /\ current' = {} /\ io' = "none"
  /\ cancelled' = FALSE /\ registered' = FALSE
  /\ active' = {} /\ posts' = {} /\ engine' = EngineIdle
  /\ results' = [r \in Requests |-> IF r \in current /\ results[r] = "none"
                                    THEN "failure" ELSE results[r]]
  /\ UNCHANGED <<platform, stop, disk, early, interrupts>>

-------------------------------------------------------------------------------
WorkerSteps ==
  \/ \E r \in Requests :
       \/ Serialize(r) \/ Register(r) \/ CancelHandler(r) \/ StageFails(r)
       \/ StageContinues(r) \/ BodyDone(r) \/ Inspect(r) \/ Measure(r) \/ StoreOpen(r)
       \/ StoreWrite(r) \/ Confirm(r) \/ Isolate(r) \/ Promote(r) \/ PromoteFails(r)
  \/ Release

EngineSteps == \E r \in Requests : StopCallback(r) \/ InterruptPost(r)

Environment ==
  \/ \E r \in Requests : ExecuteBegin(r) \/ RequestStop(r) \/ InterruptFind(r)
  \/ \E how \in {"ok", "error"} : NetworkCompletes(how)
  \/ Crash

Next == WorkerSteps \/ EngineSteps \/ Environment \/ DeadlineExpires

Spec == Init /\ [][Next]_vars

(* Both threads are scheduled.  Nothing is assumed of the network.         *)
Scheduling == WF_vars(WorkerSteps) /\ WF_vars(EngineSteps)

(* Timers fire.                                                            *)
Timers == WF_vars(DeadlineExpires)

FairSpec == Spec /\ Scheduling

-------------------------------------------------------------------------------
(* Properties                                                              *)

(* transport.hpp: interrupt touches only the operation its request owns.   *)
(* However late it posts, no other request is ever cancelled by it.        *)
NoStrayCancel ==
  /\ cancelled => current \subseteq stop
  /\ \A r \in Requests : results[r] = "cancelled" => r \in stop

(* A request stopped before the last test of its token never succeeds, so  *)
(* no cancelled download reaches the cache.  (Serving a verified file that *)
(* is already there promotes nothing and is not tested again.)             *)
StopHonoured == \A r \in early : results[r] \notin {"ok", "ready"}

(* What is reported ready is a verified file under its final name.         *)
ReadyIsVerified ==
  [][\A r \in Media : results[r] # "ready" /\ results'[r] = "ready"
                        => entry'[HashOf[r]] = "good"]_vars

(* Verified entries stay, and an unverified file appears under a final     *)
(* name only when a failed promotion puts the old entry back.              *)
NeverWorse ==
  [][\A h \in Hashes :
       /\ entry[h] = "good" => entry'[h] = "good"
       /\ entry[h] = "absent" /\ entry'[h] = "bad"
            => \E r \in Media : HashOf[r] = h /\ backup[r] = "bad"
                                /\ results'[r] = "failure"]_vars

(* The quota bounds everything on disk, crashed downloads included.        *)
WithinQuota == Files <= Quota

(* execute leaves no temporary file behind, except by dying.               *)
NoTempLeft ==
  crashes = 0 => \A r \in Media : temp[r] # "absent" => r \in current /\ pc \in FileSteps

(* The cache directory at any time: within its quota, with no temporary    *)
(* file but the one being written and those of a crash.                    *)
CacheInv == TypeOK /\ WithinQuota /\ NoTempLeft

(* A stop reaches its request, and that request alone.                     *)
StopsArrive == NoStrayCancel /\ StopHonoured

(* Final names hold verified files, and only those are reported ready.     *)
OnlyVerified == ReadyIsVerified /\ NeverWorse

(* Stopping a request ends its execution although the server never answers *)
(* and no timer fires, wherever execute was when the stop came.            *)
StopEndsExecution ==
  \A r \in Requests : r \in stop /\ r \in current ~> r \notin current

(* If timers fire, every execution returns, because every stage has its    *)
(* deadline.                                                               *)
ExecutionEnds == Timers => (pc # "idle" ~> pc = "idle")

(* execute returns: when it is stopped, and when a deadline passes.        *)
ExecuteReturns == StopEndsExecution /\ ExecutionEnds
===============================================================================
