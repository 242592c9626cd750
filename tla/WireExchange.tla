----------------------------- MODULE WireExchange -----------------------------
(***************************************************************************)
(* One request and its answer: BridgeService::validateRequest decides      *)
(* whether it is queued, serializeRequest puts it on the wire, the server  *)
(* answers whatever it likes, validateResponse decides what the game gets. *)
(*                                                                         *)
(* A request is its envelope (id, session, generation, kind) and its typed *)
(* payload, whose fields carry the names they have on the wire.  Text is a *)
(* value that passes the check at enqueue and is refused by the stricter   *)
(* one at serialization (text that is not a JSON object, a language tag).  *)
(***************************************************************************)
EXTENDS WireFormat

CONSTANTS
  Ids,              \* canonical UUIDs
  Text,             \* passes validateRequest, refused by serializeRequest
  Generation,       \* the service's current generation
  Requests,         \* what the bindings may enqueue
  Answers(_)        \* what the server may answer to a request on the wire

ASSUME GenerationAssumption == Generation \in Nat \ {0}

VARIABLES phase, request, wire, answer, result
vars == <<phase, request, wire, answer, result>>

None == [none |-> TRUE]

--------------------------------------------------------------------------------
(* validateRequest *)

Queries == {"controls_query", "diary_book_query", "debug_command_query"}
Reports == {"interruption", "action_result", "dialogue_delivery_result"}
Envelopes == {"init", "turn", "stt"}
EnvelopeIds == {"installation_id", "profile_id", "playthrough_id", "request_id", "turn_id",
                "message_id"}
Named == {"message_id", "request_id", "session_id"}

(* The payload fields that validateRequest checks by themselves: those of  *)
(* the session and its turns, then those of everything around them.        *)
CheckedInTurns(kind) ==
  CASE kind = "init" -> EnvelopeIds
    [] kind = "turn" -> EnvelopeIds \cup {"session_id", "payload"}
    [] kind = "stt" -> EnvelopeIds \cup {"session_id", "audio", "codec"}
    [] kind = "media" -> {"request_id", "session_id", "descriptor"}
    [] kind = "event_poll" -> {"session_id", "wait_ms"}
    [] kind = "interruption" -> Named \cup {"turn_id", "reason"}
    [] kind = "action_result" ->
         Named \cup {"turn_id", "action_id", "reason_code", "observed"}
    [] kind = "dialogue_delivery_result" ->
         Named \cup {"turn_id", "dialogue_message_id", "reason_code", "completed_at"}
    [] kind = "session_end" -> {"request_id", "session_id"}
    [] OTHER -> {}

CheckedInServices(kind) ==
  CASE kind \in Queries -> Named
    [] kind = "controls_select" -> Named \cup {"created_at"}
    [] kind = "diary_book_result" ->
         Named \cup {"delivery_id", "completed_at", "book_id", "content_hash"}
    [] kind = "debug_command_result" ->
         Named \cup {"command_id", "completed_at", "reason_code", "observed"}
    [] kind = "menu_dialogue_tts" -> Named \cup {"created_at", "text"}
    [] kind = "book_read_aloud" -> Named \cup {"created_at", "book_id", "title", "text"}
    [] kind = "player_autochat" -> Named \cup {"created_at", "intent"}
    [] kind = "gamedata" ->
         {"installation_id", "playthrough_id", "request_id", "observed_at", "payload"}
    [] OTHER -> {}

Checked(kind) == CheckedInTurns(kind) \cup CheckedInServices(kind)

(* The request id of these is the envelope's; a report carries the turn's. *)
OwnRequestId(kind) == kind \notin Reports \cup {"health", "event_poll"}

(* Bug: the session of the payload is not compared with the envelope's.    *)
ConsistentButSession(r) ==
  LET p == r.payload
  IN /\ OwnRequestId(r.kind) => p.request_id = r.id
     /\ r.kind \notin {"health", "gamedata"} => p.generation = r.generation
     /\ r.kind = "gamedata" => p.runtime_generation = r.generation

(* Game data takes session and generation from the envelope when sent.     *)
Consistent(r) ==
  LET p == r.payload
  IN /\ OwnRequestId(r.kind) => p.request_id = r.id
     /\ r.kind \notin {"health", "gamedata"} =>
          /\ p.generation = r.generation
          /\ (r.session = Null /\ r.kind \in Envelopes) \/ p.session_id = r.session
     /\ r.kind = "gamedata" => p.runtime_generation = r.generation

(* The identities a payload names.                                         *)
Identities(r) ==
  LET p == r.payload
  IN CASE r.kind = "dialogue_delivery_result" -> Identity(p.speaker)
       [] r.kind \in {"controls_query", "controls_select"} -> Identity(p.target)
       [] r.kind = "menu_dialogue_tts" -> Identity(p.actor)
       [] r.kind = "player_autochat" ->
            /\ IdentityOf(p.player, {"player"})
            /\ Identity(p.target) /\ p.target.kind # "player"
       [] OTHER -> TRUE

(* A character id comes with its binding, a calendar with a loaded save.   *)
InitBinding(p) ==
  /\ (p.character_id = Null) <=> (p.character_binding = Null)
  /\ p.character_id # Bad /\ p.character_binding # Bad
  /\ p.loaded_calendar # Null => p.loaded_save /\ p.loaded_calendar # Bad

Selection(p) ==
  CASE p.kind = "setting" ->
         /\ Closed(p.setting, {"scope", "key", "value", "change_token"}, {}, {})
         /\ p.selection_id = Null /\ p.selection_key = Null
    [] p.kind = "model_slot" ->
         p.setting = Null /\ p.selection_id = Null /\ p.selection_key \in Range(SlotKeys)
    [] OTHER -> p.setting = Null /\ p.selection_key = Null /\ p.selection_id # Bad

DiaryReceipt(p) ==
  \/ p.status = "succeeded" /\ p.reason_code = Null
  \/ p.status = "failed" /\ p.reason_code \notin {Null, Bad}

(* The observations with a validator of their own, which parses them.      *)
Observation(type, p) ==
  CASE type = "disposition" -> p # Text /\ Disposition(p)
    [] type = "item_pickup" -> p # Text /\ ItemPickup(p)
    [] type = "actor_resurrected" -> p # Text /\ ActorResurrected(p)
    [] type = "spell_cast" -> p # Text /\ SpellCast(p)
    [] type = "inventory" -> p # Text /\ Inventory(p)
    [] OTHER -> TRUE

Content(r) ==
  CASE r.kind = "init" -> InitBinding(r.payload)
    [] r.kind = "controls_select" -> Selection(r.payload)
    [] r.kind = "diary_book_result" -> DiaryReceipt(r.payload)
    [] r.kind = "gamedata" -> Observation(r.payload.type, r.payload.payload)
    [] OTHER -> TRUE

SessionNamed(r) ==
  r.session # Bad /\ (r.kind \notin {"health", "init"} => r.session # Null)

(* The outcome of enqueue; only a stale generation is told apart.          *)
validateRequest(r) ==
  IF r.id = Bad THEN "refused"
  ELSE IF r.generation # Generation THEN "stale_generation"
  ELSE IF /\ SessionNamed(r) /\ r.kind = r.payloadKind
          /\ \A f \in Checked(r.kind) : r.payload[f] # Bad
          /\ Consistent(r) /\ Identities(r) /\ Content(r)
       THEN "ok" ELSE "refused"

--------------------------------------------------------------------------------
(* serializeRequest *)

(* What leaves for each kind: the method, the status expected of a         *)
(* success, the field that is the idempotency key, the fields refused only *)
(* here (text that is no JSON object, the metadata of a recording) and the *)
(* identifying fields in the body, query, path or headers.                 *)
Get(sent) == [method |-> "GET", status |-> 200, key |-> Null, late |-> {}, sent |-> sent]
Post(status, key, late, sent) ==
  [method |-> "POST", status |-> status, key |-> key, late |-> late, sent |-> sent]

TurnRoute(kind) ==
  CASE kind = "health" -> Get({})
    [] kind = "init" ->
         Post(201, "message_id", {}, {"message_id", "generation", "installation_id", "profile_id",
                                      "playthrough_id"})
    [] kind = "turn" ->
         Post(202, "message_id", {"payload"}, EnvelopeIds \cup {"session_id", "generation"})
    [] kind = "event_poll" -> Get({"session_id", "generation", "after"})
    [] kind = "interruption" -> Post(202, "message_id", {}, Correlation)
    [] kind = "action_result" ->
         Post(200, "message_id", {"observed"}, Correlation \cup {"action_id", "status"})
    [] kind = "dialogue_delivery_result" ->
         Post(200, "message_id", {}, Correlation \cup {"dialogue_message_id", "status"})

SessionRoute(kind) ==
  CASE kind = "session_end" ->
         [Post(200, "request_id", {}, {"request_id", "session_id"}) EXCEPT !.method = "DELETE"]
    [] kind = "stt" ->
         Post(202, "message_id", {"language", "created_at", "sha256"}, Correlation)
    [] kind \in Queries -> Post(200, Null, {}, Addressed)
    [] kind = "controls_select" -> Post(200, "message_id", {}, Addressed)
    [] kind = "diary_book_result" ->
         Post(200, "message_id", {}, Addressed \cup {"delivery_id", "book_id", "status"})
    [] kind = "debug_command_result" ->
         Post(200, "message_id", {"observed"}, Addressed \cup {"command_id", "status"})

PlayerRoute(kind) ==
  CASE kind \in {"menu_dialogue_tts", "book_read_aloud", "player_autochat"} ->
         Post(201, "message_id", {}, Addressed)
    [] kind = "gamedata" ->
         Post(202, "request_id", {"payload"}, {"request_id", "session_id", "generation", "type"})
    [] kind = "media" -> Get({})

Route(kind) ==
  CASE kind \in Reports \cup {"health", "init", "turn", "event_poll"} -> TurnRoute(kind)
    [] kind \in {"menu_dialogue_tts", "book_read_aloud", "player_autochat", "gamedata", "media"} ->
         PlayerRoute(kind)
    [] OTHER -> SessionRoute(kind)

(* Game data is stamped with the envelope's session and generation.        *)
FieldOf(r, f) ==
  IF r.kind = "gamedata" /\ f = "session_id" THEN r.session
  ELSE IF r.kind = "gamedata" /\ f = "generation" THEN r.generation
  ELSE r.payload[f]

serializeRequest(r) ==
  LET route == Route(r.kind)
  IN [header |-> r.id, method |-> route.method, expectedStatus |-> route.status,
      key    |-> IF route.key = Null THEN Null ELSE r.payload[route.key],
      sent   |-> [f \in route.sent |-> FieldOf(r, f)]]

Serializable(r) ==
  \A f \in Route(r.kind).late : r.payload[f] \notin {Bad, Text}

--------------------------------------------------------------------------------
(* validateResponse *)

Failed(code) == [ok |-> FALSE, code |-> code]
Delivered(kind, session, body) ==
  [ok |-> TRUE, kind |-> kind, session |-> session, body |-> body]

(* protocolFailure: a typed error counts only if it answers this request.  *)
protocolFailure(r, a) ==
  IF a.status \in 300..399 THEN Failed("redirect_rejected")
  ELSE IF ~ProtocolError(a.body) THEN Failed("invalid_schema")
  ELSE IF a.body.correlation_id # r.id THEN Failed("transport_failure")
  ELSE Failed(protocolCode[a.body.code])

Parses(kind, d) ==
  CASE kind = "health" -> Health(d)
    [] kind = "init" -> SessionAccepted(d)
    [] kind = "turn" -> TurnAccepted(d)
    [] kind = "event_poll" -> Events(d)
    [] kind = "interruption" -> InterruptionAccepted(d)
    [] kind = "action_result" -> ActionResultAccepted(d)
    [] kind = "dialogue_delivery_result" -> DialogueDeliveryResultAccepted(d)
    [] kind = "session_end" -> SessionEnded(d)
    [] kind = "stt" -> SttAccepted(d)
    [] kind \in {"controls_query", "controls_select"} -> Controls(d)
    [] kind = "diary_book_query" -> DiaryBook(d)
    [] kind = "diary_book_result" -> DiaryBookResultAccepted(d)
    [] kind = "debug_command_query" -> DebugCommand(d)
    [] kind = "debug_command_result" -> DebugCommandResultAccepted(d)
    [] kind \in {"menu_dialogue_tts", "book_read_aloud"} -> MenuDialogueTtsReady(d)
    [] kind = "player_autochat" -> PlayerAutochatReady(d)
    [] kind = "gamedata" -> GameDataAccepted(d)

(* The fields compared with what was sent.                                 *)
TurnEchoes(kind) ==
  CASE kind = "init" -> {"message_id", "generation"}
    [] kind \in {"turn", "interruption", "stt"} -> Correlation
    [] kind = "event_poll" -> {"session_id", "generation"}
    [] kind = "action_result" -> Correlation \cup {"action_id", "status"}
    [] kind = "dialogue_delivery_result" -> Correlation \cup {"dialogue_message_id", "status"}
    [] kind = "session_end" -> {"request_id", "session_id", "generation"}
    [] OTHER -> {}

(* Bug: a diary receipt is matched without looking at the delivery.        *)
EchoesButDelivery(kind) ==
  CASE kind = "debug_command_result" -> Addressed \cup {"command_id", "status"}
    [] kind = "gamedata" -> {"request_id", "session_id", "generation", "type"}
    [] kind = "media" -> {}
    [] OTHER -> Addressed

ServiceEchoes(kind) ==
  CASE kind = "diary_book_result" -> Addressed \cup {"delivery_id", "status"}
    [] kind = "debug_command_result" -> Addressed \cup {"command_id", "status"}
    [] kind = "gamedata" -> {"request_id", "session_id", "generation", "type"}
    [] kind = "media" -> {}
    [] OTHER -> Addressed

InTurns == Envelopes \cup Reports \cup {"health", "event_poll", "session_end"}
Echoed(kind) == IF kind \in InTurns THEN TurnEchoes(kind) ELSE ServiceEchoes(kind)

Matches(r, d) ==
  /\ \A f \in Echoed(r.kind) : d[f] = FieldOf(r, f)
  /\ r.kind = "event_poll" => d.next_after >= r.payload.after
  /\ r.kind = "session_end" => d.ended
  /\ r.kind \in {"menu_dialogue_tts", "book_read_aloud"} =>
       d.media.dialogue_message_id = r.payload.message_id

ResultKind(kind) ==
  CASE kind = "health" -> "status"
    [] kind = "event_poll" -> "event"
    [] kind \in {"action_result", "dialogue_delivery_result", "session_end", "diary_book_result",
                 "debug_command_result"} -> "completed"
    [] kind \in {"controls_query", "controls_select"} -> "controls"
    [] kind = "diary_book_query" -> "diary_book"
    [] kind = "debug_command_query" -> "debug_command"
    [] kind \in {"menu_dialogue_tts", "book_read_aloud"} -> "menu_dialogue_ready"
    [] kind = "player_autochat" -> "player_autochat_ready"
    [] OTHER -> "accepted"

(* A new session is the one the server names.  The body of a clip is no    *)
(* document (its checks are those of BeastTransport), and every other      *)
(* status of a download is read as an error.                               *)
validateResponse(r, w, a) ==
  IF r.kind = "media"
  THEN IF a.status = w.expectedStatus THEN Delivered("media_ready", r.session, a.body)
       ELSE protocolFailure(r, a)
  ELSE IF a.status # w.expectedStatus
  THEN IF a.status \in 200..299 THEN Failed("transport_failure") ELSE protocolFailure(r, a)
  ELSE IF ~Parses(r.kind, a.body) THEN Failed("invalid_schema")
  ELSE IF ~Matches(r, a.body) THEN Failed("transport_failure")
  ELSE Delivered(ResultKind(r.kind),
                 IF r.kind = "init" THEN a.body.session_id ELSE r.session, a.body)

--------------------------------------------------------------------------------
Init ==
  phase = "idle" /\ request = None /\ wire = None /\ answer = None /\ result = None

(* enqueue: a refused request never reaches the queue.                     *)
Enqueue ==
  /\ phase = "idle"
  /\ \E r \in Requests :
       /\ request' = r
       /\ \/ validateRequest(r) = "ok" /\ phase' = "queued" /\ result' = None
          \/ /\ validateRequest(r) # "ok"
             /\ phase' = "done" /\ result' = Failed(validateRequest(r))
  /\ UNCHANGED <<wire, answer>>

(* execute, up to the end of the write.                                    *)
Send ==
  /\ phase = "queued"
  /\ \/ /\ Serializable(request)
        /\ wire' = serializeRequest(request) /\ phase' = "sent" /\ UNCHANGED result
     \/ /\ ~Serializable(request)
        /\ phase' = "done" /\ result' = Failed("invalid_argument") /\ UNCHANGED wire
  /\ UNCHANGED <<request, answer>>

(* The server (external) answers anything at all.                          *)
Answer ==
  /\ phase = "sent"
  /\ \E a \in Answers(request) : answer' = a
  /\ phase' = "answered"
  /\ UNCHANGED <<request, wire, result>>

Receive ==
  /\ phase = "answered"
  /\ result' = validateResponse(request, wire, answer)
  /\ phase' = "done"
  /\ UNCHANGED <<request, wire, answer>>

(* The engine takes the result.                                            *)
Take ==
  /\ phase = "done"
  /\ phase' = "idle" /\ request' = None /\ wire' = None /\ answer' = None /\ result' = None

Next == Enqueue \/ Send \/ Answer \/ Receive \/ Take
Spec == Init /\ [][Next]_vars

--------------------------------------------------------------------------------
Accepted == phase = "done" /\ wire # None /\ result.ok

(* An exchange is always in one of its phases, with what that phase has.   *)
TypeOK ==
  /\ phase \in {"idle", "queued", "sent", "answered", "done"}
  /\ phase = "idle" => <<request, wire, answer, result>> = <<None, None, None, None>>
  /\ phase \in {"sent", "answered"} => wire # None /\ result = None

(***************************************************************************)
(* What is on the wire speaks for the envelope that was checked: its       *)
(* generation, its session, and a key by which a repetition is recognised  *)
(* whenever the request changes something at the server.                   *)
(***************************************************************************)
SentAsItself ==
  wire # None =>
    /\ wire.header = request.id
    /\ "generation" \in DOMAIN wire.sent => wire.sent.generation = Generation
    /\ "session_id" \in DOMAIN wire.sent => wire.sent.session_id = request.session
    /\ (wire.method # "GET" /\ request.kind \notin Queries) =>
         wire.key \in {wire.sent[f] : f \in DOMAIN wire.sent \cap {"message_id", "request_id"}}

(***************************************************************************)
(* An answer reaches the game only as the answer to the request that was   *)
(* sent: wherever a document echoes an identifying field that went out,    *)
(* the two agree, whatever the server mixed up.                            *)
(***************************************************************************)
Identifying == Correlation \cup {"action_id", "dialogue_message_id", "delivery_id",
                                 "command_id", "status", "type"}
AnswersItsRequest ==
  Accepted /\ answer.body # Null =>
    \A f \in Identifying \cap DOMAIN wire.sent \cap DOMAIN answer.body :
      (request.kind = "init" /\ f = "session_id") \/ answer.body[f] = wire.sent[f]

(***************************************************************************)
(* A typed error of the server (rate limit, unknown session, turn over)    *)
(* changes what the client does next; it is believed only if it names the  *)
(* request it answers.                                                     *)
(***************************************************************************)
Typed == {protocolCode[c] : c \in DOMAIN protocolCode}
         \ {"transport_failure", "invalid_schema", "invalid_argument", "stale_generation"}
ErrorsAreMine ==
  (phase = "done" /\ result.ok = FALSE /\ result.code \in Typed) =>
    answer # None /\ answer.body.correlation_id = wire.header

(* Nothing another request caused is taken for the outcome of this one.    *)
OnlyItsOwnAnswer == AnswersItsRequest /\ ErrorsAreMine

Polled == {i \in DOMAIN answer.body.events : TRUE}
EventsOf(type) ==
  IF Accepted /\ request.kind = "event_poll"
  THEN {answer.body.events[i] : i \in {j \in Polled : answer.body.events[j].type = type}}
  ELSE {}

(***************************************************************************)
(* The lines of an accepted response can be played as they stand: no line, *)
(* utterance or clip twice, every command after all dialogue, exactly the  *)
(* last spoken line final (none if nothing is spoken), and every clip that *)
(* of its own line.                                                        *)
(***************************************************************************)
Spoken(lines) == {i \in DOMAIN lines : lines[i].action = "say"}
Clips(lines) == {i \in DOMAIN lines : "media" \in DOMAIN lines[i]}
LinesPlayInOrder ==
  \A e \in EventsOf("response.complete") :
    LET lines == e.payload.lines
    IN /\ \A i, j \in DOMAIN lines : i # j =>
            lines[i].line_id # lines[j].line_id /\ lines[i].utterance_id # lines[j].utterance_id
       /\ \A i, j \in Clips(lines) : i # j => lines[i].media.media_id # lines[j].media.media_id
       /\ \A i \in Spoken(lines), j \in DOMAIN lines \ Spoken(lines) : i < j
       /\ {i \in DOMAIN lines : lines[i].final_response_line}
            = {i \in Spoken(lines) : \A j \in Spoken(lines) : j <= i}

(***************************************************************************)
(* The kinds the bindings execute natively (advancedKind and transferKind, *)
(* services aside, which only open a window) reach them only with an       *)
(* explicit confirmation policy, and the advanced ones only as actions of  *)
(* the player.                                                             *)
(***************************************************************************)
NativeKinds == {"item.create", "gold.create", "actor.spawn", "actor.teleport_to_player",
                "player.teleport", "actor.restore", "actor.resurrect", "actor.kill",
                "spell.cast", "item.give", "item.take", "item.pickup", "gold.give", "gold.take"}
PowerNeedsConsent ==
  \A e \in EventsOf("action.intent") :
    e.payload.name \in NativeKinds =>
      /\ "confirmation_required" \in DOMAIN e.payload
      /\ e.payload.name \in Advanced => e.payload.actor.kind = "player"
      /\ e.payload.turn_id = e.turn_id

(***************************************************************************)
(* Events of one answer can be applied one after the other: they belong to *)
(* the polled session, no sequence number occurs twice, and the cursor     *)
(* that the answer leaves behind is not before the one that was sent.      *)
(***************************************************************************)
EventsMoveOn ==
  Accepted /\ request.kind = "event_poll" =>
    /\ answer.body.next_after >= wire.sent.after
    /\ \A i, j \in Polled : i < j =>
         answer.body.events[i].sequence < answer.body.events[j].sequence
    /\ \A i \in Polled : answer.body.events[i].session_id = request.session

(***************************************************************************)
(* Whatever the controls offer can be selected: the resolved slot is one   *)
(* whose connector is there, and the selected profile is on the list.      *)
(***************************************************************************)
ControlsAreUsable ==
  Accepted /\ result.kind = "controls" =>
    LET d == answer.body
        slots == {d.model_slots[i] : i \in DOMAIN d.model_slots}
    IN /\ d.resolved_model_slot_key # Null =>
            \E s \in slots : s.key = d.resolved_model_slot_key /\ s.configuration_id # Null
       /\ \A s \in slots : Selection([kind |-> "model_slot", setting |-> Null,
                                       selection_id |-> Null, selection_key |-> s.key])
       /\ d.selected_profile_id # Null =>
            \E i \in DOMAIN d.profiles : d.profiles[i].profile_id = d.selected_profile_id
================================================================================
