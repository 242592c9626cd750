------------------------------- MODULE SideLanes -------------------------------
(***************************************************************************)
(* Diary books, dispositions and NPC commands: three lanes of the GLOBAL    *)
(* script beside the conversation.  They share the session and nothing      *)
(* else, so a behaviour of this module is one of one of them, chosen at     *)
(* the start.                                                               *)
(***************************************************************************)
EXTENDS DiaryBooks

CONSTANTS
  Adjustments, Readings, QueueCap, ReceiptCap, OutCap, MaxMishaps, MaxChanges,  \* Disposition
  Places, Home, MaxCommands, MaxWalks                                           \* NpcCommands

\* the actor and the player begin somewhere; "none" is no place
ASSUME SideLanesAssumption ==
  /\ Home \in [{"actor", "player"} -> Places] /\ "none" \notin Places
  /\ MaxCommands \in Nat

VARIABLES
  lane,
  client, reading, sentIn, applied, heard, belief, mishaps, changes, lost,  \* Disposition
  command, player, toGlobal, toPlayer, ticket, pending, teleports,          \* NpcCommands
  where, away, moved, verdicts, file, walks

D == INSTANCE Disposition WITH
  MaxSessions <- MaxGenerations, session <- gen, open <- ready

N == INSTANCE NpcCommands WITH
  MaxSessions <- MaxGenerations, session <- gen, open <- ready, told <- verdicts

diary == <<lua, native, queue, world, told, net, troubles>>
disposition == <<client, reading, sentIn, applied, heard, belief, mishaps, changes, lost>>
npc == <<command, player, toGlobal, toPlayer, ticket, pending, teleports,
         where, away, moved, verdicts, file, walks>>

LanesInit == Init /\ D!Init /\ N!Init /\ lane \in {"diary", "disposition", "npc"}
LanesNext ==
  \/ lane = "diary" /\ Next /\ UNCHANGED <<lane, disposition, npc>>
  \/ lane = "disposition" /\ D!Next /\ UNCHANGED <<lane, diary, npc>>
  \/ lane = "npc" /\ N!Next /\ UNCHANGED <<lane, diary, disposition>>
LanesVars == <<vars, lane, disposition, npc>>
DVars == <<gen, ready, disposition>>
NVars == <<gen, ready, npc>>
LanesSpec == LanesInit /\ [][LanesNext]_LanesVars

\* The fairness of the lane that runs, with the lane inside each step, so that TLC has
\* one formula to check and not one for each lane.
Diary(A) == lane = "diary" /\ A
Disposed(A) == lane = "disposition" /\ A
Npc(A) == lane = "npc" /\ A

\* GLOBAL's update runs M.pump every frame, and time passes; the engine runs its
\* queue every frame; the transport answers every request; a handshake ends
DiaryFairness ==
  /\ WF_vars(Diary(Reset /\ ~Here)) /\ WF_vars(Diary(TimeOut /\ Hopeless))
  /\ WF_vars(Diary(Ask(TRUE))) /\ WF_vars(Diary(Fetch(TRUE))) /\ WF_vars(Diary(Watch))
  /\ WF_vars(Diary(Confirm)) /\ WF_vars(Diary(Submit(TRUE)))
  /\ WF_vars(Diary(EngineSteps)) /\ WF_vars(Diary(AnswerSteps)) /\ WF_vars(Diary(NewSession))
\* GLOBAL pumps on every poll and observes every second, an adjustment is applied or
\* expires, and the transport answers every request
DispositionFairness ==
  /\ \A a \in Adjustments :
       /\ WF_DVars(Disposed(D!Decide(a)))
       /\ WF_DVars(Disposed(D!Report(a, TRUE, FALSE, TRUE, TRUE)))
       /\ WF_DVars(Disposed(D!Report(a, TRUE, TRUE, TRUE, TRUE)))
  /\ WF_DVars(Disposed(D!Observe(TRUE))) /\ WF_DVars(Disposed(D!ServeSteps))
\* player.lua looks on every frame, also while the world is paused, the engine ends
\* every frame, and time passes
NpcFairness ==
  /\ WF_NVars(Npc(N!Timeout)) /\ WF_NVars(Npc(N!Teleporting))
  /\ WF_NVars(Npc(N!Wait)) /\ WF_NVars(Npc(N!WaitOld))
LanesFairness == DiaryFairness /\ DispositionFairness /\ NpcFairness

--------------------------------------------------------------------------------
(* Properties.                                                                 *)

\* Disposition: an adjustment is applied once.
AppliesOnce == D!AppliesOnce

\* NpcCommands: nobody is stranded, and verdicts are true.
NpcInv == N!NpcInv

\* Each lane comes to rest again and again: every delivery has its receipt, the server
\* knows the outcome of every adjustment, through fewer mishaps than there are attempts,
\* and how the actor feels whenever that changes, and no command blocks the next one.
EveryLaneSettles == []<>(
  CASE lane = "diary" -> AllTold
    [] lane = "disposition" -> D!OutcomesKnown /\ D!ReadingKnown
    [] lane = "npc" -> N!NobodyAsked)
================================================================================
