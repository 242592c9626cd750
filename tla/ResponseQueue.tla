----------------------------- MODULE ResponseQueue -----------------------------
(***************************************************************************)
(* The ordered response queue of response_queue.lua as operators on a      *)
(* record.  A queue holds the items of the lane in order (dialogue lines   *)
(* and commands), the line that has been handed to an actor, the lines     *)
(* that were played to the end, and whether a finished conversation may    *)
(* continue by itself (pendingRechat).                                     *)
(*                                                                         *)
(* The indices byLine, byMedia and byAction are functions of the items     *)
(* (every operation updates both), so the items stand for all four.  A     *)
(* media descriptor belongs to one line and an intent to one command, so   *)
(* the line names them.  The seen* sets forget after 256 entries; within   *)
(* one generation of a conversation the model never sends as many.         *)
(***************************************************************************)
EXTENDS Parts, FiniteSets, SequencesExt

CONSTANTS
  Dialogue,     \* line ids whose action is `say'
  Commands,     \* line ids that carry a command for an actor
  NoLine        \* no line is active

ASSUME LaneAssumption == NoLine \notin Dialogue \cup Commands
                         /\ Dialogue \cap Commands = {}

LineIds == Dialogue \cup Commands

Statuses == {"subtitle_ready", "waiting_media", "new", "preparing", "ready",
             "failed", "active", "queued"}

(* One queued line.  media: it has a media descriptor.  final: it is known *)
(* to be the last dialogue line of its response.  A command has its intent *)
(* exactly from the moment it is `ready'.                                  *)
Items == [line : LineIds, status : Statuses, media : BOOLEAN, final : BOOLEAN]

Queues == [items : Seq(Items), active : LineIds \cup {NoLine},
           pendingRechat : BOOLEAN, played : SUBSET Dialogue,
           seen : SUBSET LineIds]

NewQueue == [items |-> <<>>, active |-> NoLine, pendingRechat |-> FALSE,
             played |-> {}, seen |-> {}]

Queued(q) == {q.items[i].line : i \in DOMAIN q.items}

ItemOf(q, l) == q.items[CHOOSE i \in DOMAIN q.items : q.items[i].line = l]

(* q with the item of line l replaced by v.                                *)
WithItem(q, l, v) ==
  [q EXCEPT !.items = [i \in DOMAIN @ |-> IF @[i].line = l THEN v ELSE @[i]]]

WithStatus(q, l, s) == WithItem(q, l, [ItemOf(q, l) EXCEPT !.status = s])

Idle(q) == q.items = <<>> /\ q.active = NoLine

--------------------------------------------------------------------------------
(* Arrival of the server's events.                                         *)

(* A line of a response.complete as a new item.  A dialogue line waits for *)
(* its speech unless the response brings the media with it, or says that   *)
(* the line is subtitle only.                                              *)
NewItem(l, mute, embedded, last) ==
  [line   |-> l,
   status |-> CASE l \in Commands                  -> "queued"
                [] l \in Dialogue /\ l \in embedded -> "new"
                [] l \in mute \ embedded            -> "subtitle_ready"
                [] OTHER                            -> "waiting_media",
   media  |-> l \in embedded,
   final  |-> l = last]

(* The arriving response makes the line it repeats final, if it is.        *)
MarkFinal(q, l) ==
  IF l \in Queued(q) THEN WithItem(q, l, [ItemOf(q, l) EXCEPT !.final = TRUE]) ELSE q

(* Bug: a line that was already streamed is queued again.                  *)
EnqueueAgain(q, lines, commands, mute, embedded) ==
  LET last == lines[Len(lines)]
      add  == [i \in 1..Len(lines \o commands) |->
                 NewItem((lines \o commands)[i], mute, embedded, last)]
  IN [q EXCEPT !.items = @ \o add, !.seen = @ \cup ToSet(lines \o commands)]

(***************************************************************************)
(* enqueue: the lines of a response, its dialogue first and then its       *)
(* commands.  Lines that were streamed before are not queued twice; the    *)
(* final one only learns that it is final, or, if it has already been      *)
(* played, releases the continuation.                                      *)
(***************************************************************************)
Enqueue(q, lines, commands, mute, embedded) ==
  LET last == lines[Len(lines)]
      all  == lines \o commands
      new  == Part(all, {i \in DOMAIN all : all[i] \notin q.seen})
      add  == [i \in 1..Len(new) |-> NewItem(new[i], mute, embedded, last)]
      old  == IF last \in q.seen THEN MarkFinal(q, last) ELSE q
  IN [old EXCEPT !.items = @ \o add,
                 !.seen = @ \cup ToSet(new),
                 !.pendingRechat = @ \/ /\ last \in q.seen
                                        /\ last \notin Queued(q)
                                        /\ last \in q.played]

(* enqueueDialogueEvent: a streamed line, before its response and media.   *)
EnqueueDialogueEvent(q, l) ==
  IF l \in q.seen THEN q
  ELSE [q EXCEPT !.items = Append(@, [line |-> l, status |-> "waiting_media",
                                      media |-> FALSE, final |-> FALSE]),
                 !.seen = @ \cup {l}]

(* attachMedia: the first descriptor for a line that is still queued.      *)
CanAttachMedia(q, l) == l \in Queued(q) /\ ~ItemOf(q, l).media

AttachMedia(q, l) ==
  WithItem(q, l, [ItemOf(q, l) EXCEPT !.media = TRUE, !.status = "new"])

(* attachAction: the intent of a queued command that has none yet.         *)
CanAttachAction(q, c) == c \in Queued(q) /\ ItemOf(q, c).status = "queued"

AttachAction(q, c) == WithStatus(q, c, "ready")

--------------------------------------------------------------------------------
(* Dispatch and completion.                                                *)

(* markDispatched, for the head of a queue with no active line.            *)
MarkDispatched(q) ==
  [WithStatus(q, q.items[1].line, "active") EXCEPT !.active = q.items[1].line]

RemoveHead(q) == [q EXCEPT !.items = Tail(@), !.active = NoLine]

(* shouldAdvanceRechat: the continuation is due once nothing is queued;    *)
(* asking consumes it.                                                     *)
AdvanceDue(q) == q.pendingRechat /\ q.items = <<>>

ConsumeRechat(q) == [q EXCEPT !.pendingRechat = @ /\ q.items # <<>>]

(* completeDialogue accepts a status for another media id when the active  *)
(* line has no media of its own.                                           *)
DialogueActive(q, l) ==
  /\ q.active \in Dialogue
  /\ ItemOf(q, q.active).media => q.active = l

(* The queue before the continuation is consumed.                          *)
Completed(q, status) ==
  LET item == ItemOf(q, q.active)
  IN RemoveHead(IF status = "played"
                THEN [q EXCEPT !.played = @ \cup {item.line},
                               !.pendingRechat = @ \/ item.final]
                ELSE q)

CompleteDialogue(q, status) == ConsumeRechat(Completed(q, status))

(* canStartRechat: nothing is queued, or only the last line of the turn,   *)
(* and that line is being spoken.                                          *)
CanStartRechat(q, linesOfTurn) ==
  \/ q.items = <<>>
  \/ /\ Len(q.items) = 1
     /\ q.active \in linesOfTurn \cap Dialogue
     /\ q.items[1].media
     /\ q.items[1].final

ActionActive(q, c) == q.active = c /\ c \in Commands

CompleteAction(q) == ConsumeRechat(RemoveHead(q))

FailHead(q) == ConsumeRechat(RemoveHead(q))

--------------------------------------------------------------------------------
(* Cancellation.                                                           *)

(* Bug: the line an actor is speaking is reported by the lane as well.     *)
UndeliveredWithActive(q) == Queued(q) \cap Dialogue

(* cancel returns these, for the lane to report: the dialogue that no      *)
(* actor has been given.                                                   *)
Undelivered(q) == (Queued(q) \cap Dialogue) \ {q.active}

Cancel(q) == [q EXCEPT !.items = <<>>, !.active = NoLine, !.pendingRechat = FALSE]

(* cancelActions removes the commands that have not begun; the active one  *)
(* only when the caller says so (it is waiting for the player's answer).   *)
CancelledActions(q, cancelActive) ==
  (Queued(q) \cap Commands) \ (IF cancelActive THEN {} ELSE {q.active})

CancelActions(q, cancelActive) ==
  LET gone == CancelledActions(q, cancelActive)
  IN [q EXCEPT !.items = Part(@, {i \in DOMAIN @ : @[i].line \notin gone}),
               !.active = IF @ \in gone THEN NoLine ELSE @,
               !.pendingRechat = FALSE]
================================================================================
