----------------------------- MODULE NpcCommands -----------------------------
(***************************************************************************)
(* Operator commands about one actor: player.lua takes a command and waits  *)
(* for its outcome, npc_manager.lua in the GLOBAL script schedules a        *)
(* teleport and watches whether the engine has carried it out, and a ticket *)
(* that is saved with the game remembers where a summoned actor came from.  *)
(* Events arrive on later frames, the engine may fail a teleport it has     *)
(* accepted, actors walk, saves are loaded and sessions end meanwhile.  One *)
(* actor; that the tickets of others take up all the room is a choice.      *)
(***************************************************************************)
EXTENDS Naturals, Sequences, FiniteSets

CONSTANTS
  Places,
  Home,          \* where the actor and the player are at first
  MaxCommands,   \* bound: commands, numbered as the server makes them
  MaxSessions,   \* bound: sessions
  MaxWalks       \* bound: how often somebody walks to another place

VARIABLES
  session, open,  \* the bridge's generation, and whether its session is open
  command,        \* what was asked by each command, once it is handed out
  player,         \* player.lua: pendingGlobalDebugCommand, with the session it came in and
                  \* its age: "fresh", "expired" (20 s) or "overdue" (25 s)
  toGlobal, toPlayer,  \* events on their way
  ticket,         \* npc_manager.lua: the place in state.returns of the actor
  pending,        \* npc_manager.lua: state.pending; late: past the deadline (20 s)
  teleports,      \* what the engine carries out at the end of the frame
  where,          \* of the actor and the player
  away,           \* the place the actor was summoned from, until it is back there
  moved,          \* commands that have moved somebody
  told,           \* the verdicts on a command the server has received
  file,           \* a saved game: ticket, where and away; or nothing
  walks

engine == <<teleports, where, away, moved>>
events == <<toGlobal, toPlayer>>
vars == <<session, open, command, player, events, ticket, pending, engine, told, file, walks>>

Commands == 1..MaxCommands
Names == {"npc.status", "npc.visit", "npc.teleport", "npc.return"}
Nothing == [of |-> 0]
NoSave == [ticket |-> "none"]
Somebody == {"actor", "player"}

TypeOK ==
  /\ session \in 1..MaxSessions /\ open \in BOOLEAN
  /\ \A c \in Commands : command[c] \in Names \union {"none"}
  /\ player.of \in 0..MaxCommands /\ pending.of \in 0..MaxCommands
  /\ {ticket, away} \subseteq Places \union {"none"} /\ where \in [Somebody -> Places]
  /\ Len(teleports) <= 1

Init ==
  /\ session = 1 /\ open = TRUE
  /\ command = [c \in Commands |-> "none"]
  /\ player = Nothing /\ toGlobal = <<>> /\ toPlayer = <<>>
  /\ ticket = "none" /\ pending = Nothing
  /\ teleports = <<>> /\ where = Home
  /\ away = "none" /\ moved = {}
  /\ told = [c \in Commands |-> {}] /\ file = NoSave /\ walks = 0

--------------------------------------------------------------------------------
(* player.lua.                                                                 *)

\* submitDebugResult: sent in the session of the moment, and never again.  One that is
\* lost leaves told as it is, which can break no promise made of it.
Submit(c, verdict) == told' = IF open THEN [told EXCEPT ![c] = @ \union {verdict}] ELSE told

\* pumpDebugCommands: the next command is handed to GLOBAL
Take(c, name) ==
  /\ open /\ player = Nothing /\ command[c] = "none"
  /\ \A d \in 1..(c - 1) : command[d] # "none"
  /\ command' = [command EXCEPT ![c] = name]
  /\ player' = [of |-> c, session |-> session, age |-> "fresh"]
  /\ toGlobal' = Append(toGlobal, [of |-> c, session |-> session])
  /\ UNCHANGED <<session, open, toPlayer, ticket, pending, engine, told, file, walks>>

\* pumpDebugCommands: no outcome for 25 seconds
Timeout ==
  /\ player # Nothing /\ player.age = "overdue"
  /\ Submit(player.of, "failed") /\ player' = Nothing
  /\ UNCHANGED <<session, open, command, events, ticket, pending, engine, file, walks>>

\* LORKHAN_DEBUG_COMMAND_RESULT
Hear ==
  /\ toPlayer # <<>> /\ toPlayer' = Tail(toPlayer)
  /\ LET e == Head(toPlayer) IN
     IF e.of # player.of THEN UNCHANGED <<player, told>>
     ELSE /\ player' = Nothing
          /\ IF open /\ player.session = session THEN Submit(e.of, e.verdict) ELSE UNCHANGED told
  /\ UNCHANGED <<session, open, command, toGlobal, ticket, pending, engine, file, walks>>

--------------------------------------------------------------------------------
(* npc_manager.lua.                                                            *)

Emit(c, verdict) == toPlayer' = Append(toPlayer, [of |-> c, verdict |-> verdict])

\* as Refused, for a manager that summons an actor again
RefusedButSummons(c, available) == ~available \/ (command[c] = "npc.return" /\ ticket = "none")
\* M.start: what it refuses of a live command
Refused(c, available) ==
  \/ ~available
  \/ command[c] = "npc.teleport" /\ ticket # "none"
  \/ command[c] = "npc.return" /\ ticket = "none"
Fresh(c) == player.of = c /\ player.age = "fresh"
Dead(e) == e.session # session \/ ~Fresh(e.of) \/ pending # Nothing

Mover(c) == IF command[c] = "npc.visit" THEN "player" ELSE "actor"
Destination(c) ==
  CASE command[c] = "npc.visit" -> where["actor"]
    [] command[c] = "npc.return" -> ticket
    [] command[c] = "npc.teleport" -> where["player"]
Summons(c) == command[c] = "npc.teleport"

\* M.start: the ticket is stored before the cell is loaded and the teleport is
\* scheduled, and stays when that throws; full: there are 32 tickets already
Schedule(c, throws, full) ==
  /\ ticket' = IF Summons(c) /\ ~full THEN where["actor"] ELSE ticket
  /\ IF throws \/ (Summons(c) /\ full) THEN Emit(c, "failed") /\ UNCHANGED <<pending, teleports>>
     ELSE /\ pending' = [of |-> c, to |-> Destination(c), session |-> session, late |-> FALSE]
          /\ teleports' = <<[who |-> Mover(c), to |-> Destination(c), of |-> c]>>
          /\ UNCHANGED toPlayer

\* LORKHAN_DEBUG_COMMAND, on a frame after the teleports of the last one; available:
\* the reference is found, loading its cell
Start(available, throws, full) ==
  /\ teleports = <<>> /\ toGlobal # <<>> /\ toGlobal' = Tail(toGlobal)
  /\ LET e == Head(toGlobal)
         verdict == IF Dead(e) \/ command[e.of] # "npc.status" THEN "rejected" ELSE "succeeded"
     IN IF Dead(e) \/ verdict = "succeeded" \/ Refused(e.of, available)
        THEN Emit(e.of, verdict) /\ UNCHANGED <<ticket, pending, teleports>>
        ELSE Schedule(e.of, throws, full)
  /\ UNCHANGED <<session, open, command, player, where, away, moved, told, file, walks>>

\* M.poll: an actor that was returned gives back its ticket
Settled(c, matched) == IF matched /\ command[c] = "npc.return" THEN "none" ELSE ticket
Poll ==
  /\ pending # Nothing
  /\ LET c == pending.of
         matched == where[Mover(c)] = pending.to
         stale == pending.session # session
     IN /\ stale \/ matched \/ pending.late
        /\ IF stale THEN UNCHANGED <<ticket, toPlayer>>
           ELSE ticket' = Settled(c, matched) /\ Emit(c, IF matched THEN "succeeded" ELSE "failed")
  /\ pending' = Nothing
  /\ UNCHANGED <<session, open, command, player, toGlobal, engine, told, file, walks>>

--------------------------------------------------------------------------------
(* The engine, the world and time.                                             *)

\* an actor that is where it was summoned from is not away any more
Back(a, w) == IF a = w["actor"] THEN "none" ELSE a

\* the engine carries out a teleport, or drops it
Teleport(works) ==
  /\ teleports # <<>> /\ teleports' = Tail(teleports)
  /\ LET t == Head(teleports)
         w == [where EXCEPT ![t.who] = t.to]
         a == IF Summons(t.of) /\ away = "none" THEN where["actor"] ELSE away
     IN IF works THEN where' = w /\ away' = Back(a, w) /\ moved' = moved \union {t.of}
        ELSE UNCHANGED <<where, away, moved>>
  /\ UNCHANGED <<session, open, command, player, events, ticket, pending, told, file, walks>>

\* teleports are carried out before anybody goes on walking
Walk(who, place) ==
  /\ teleports = <<>> /\ walks < MaxWalks /\ walks' = walks + 1
  /\ place # where[who] /\ where' = [where EXCEPT ![who] = place]
  /\ away' = Back(away, where')
  /\ UNCHANGED <<session, open, command, player, events, ticket, pending, teleports, moved, told, file>>

\* time passes for the command that player.lua waits for
Later == [fresh |-> "expired", expired |-> "overdue"]
Wait ==
  /\ teleports = <<>> /\ player # Nothing /\ player.age # "overdue"
  /\ pending.of \in 1..(player.of - 1) => pending.late
  /\ player' = [player EXCEPT !.age = Later[@]]
  /\ pending' = IF pending.of = player.of THEN [pending EXCEPT !.late = TRUE] ELSE pending
  /\ UNCHANGED <<session, open, command, events, ticket, engine, told, file, walks>>
\* and for an older one that GLOBAL still watches
WaitOld ==
  /\ teleports = <<>> /\ pending # Nothing /\ pending.of # player.of /\ ~pending.late
  /\ pending' = [pending EXCEPT !.late = TRUE]
  /\ UNCHANGED <<session, open, command, player, events, ticket, engine, told, file, walks>>

\* a halt, a new input, a lost connection
Fence ==
  /\ open /\ session < MaxSessions
  /\ session' = session + 1 /\ open' = FALSE
  /\ UNCHANGED <<command, player, events, ticket, pending, engine, told, file, walks>>
NewSession ==
  /\ ~open /\ open' = TRUE
  /\ UNCHANGED <<session, command, player, events, ticket, pending, engine, told, file, walks>>

\* onSave between two frames: the teleports of the last one are carried out
Save ==
  /\ file = NoSave /\ teleports = <<>>
  /\ file' = [ticket |-> ticket, where |-> where, away |-> away]
  /\ UNCHANGED <<session, open, command, player, events, ticket, pending, engine, told, walks>>

\* M.load
Loaded == file.ticket
\* the game is loaded: scripts, events and the engine's queue begin anew, and a new
\* session follows
Load ==
  /\ file # NoSave /\ session < MaxSessions
  /\ session' = session + 1 /\ open' = FALSE
  /\ ticket' = Loaded /\ pending' = Nothing
  /\ player' = Nothing /\ toGlobal' = <<>> /\ toPlayer' = <<>>
  /\ teleports' = <<>> /\ where' = file.where /\ away' = file.away
  /\ UNCHANGED <<command, moved, told, file, walks>>

Teleporting == \E works \in BOOLEAN : Teleport(works)
Next ==
  \/ \E c \in Commands, name \in Names : Take(c, name)
  \/ Timeout \/ Hear
  \/ \E available, throws, full \in BOOLEAN : Start(available, throws, full)
  \/ Poll
  \/ Teleporting
  \/ \E who \in Somebody, place \in Places : Walk(who, place)
  \/ Wait \/ WaitOld
  \/ Fence \/ NewSession \/ Save \/ Load
Spec == Init /\ [][Next]_vars

--------------------------------------------------------------------------------
(* Properties.                                                                 *)

\* Nobody is stranded: an actor that was summoned and is not back has a ticket to
\* the place it came from, whatever threw, was dropped, walked or was loaded
\* between (M.start, M.poll, M.save, M.load).
NobodyIsStranded == away # "none" => ticket = away

\* The server gets one verdict on a command at most, and "rejected" only of a
\* command that moves nobody, now or later (M.start, player.lua's timeout).
VerdictsAreTrue == \A c \in Commands :
  Cardinality(told[c]) <= 1 /\ ("rejected" \in told[c] => c \notin moved)

NpcInv == TypeOK /\ NobodyIsStranded /\ VerdictsAreTrue

\* player.lua is ready for the next command, which a command of an older session must
\* not prevent although GLOBAL forgets it without a word (M.poll).
NobodyAsked == player = Nothing
================================================================================
