---------------------------- MODULE MCWireExchange ----------------------------
(***************************************************************************)
(* Requests and answers for TLC: a well-formed one of every kind and shape *)
(* and, around each, everything that one mistake can make of it: a field   *)
(* missing, refused, unknown, turned over or belonging to something else,  *)
(* at every level of the document.                                         *)
(***************************************************************************)
EXTENDS WireExchange

CONSTANTS a, b   \* the id of everything in the exchange, and a foreign one

All(fields) == [f \in fields |-> Ok]

Person(kind, n) ==
  [kind |-> kind, refnum |-> [index |-> n, content_file |-> Ok],
   cell |-> [kind |-> "interior", name |-> Ok]]
  @@ All({"record_id", "content_file", "display_name"})
Outside(kind) ==
  [Person(kind, 3) EXCEPT !.cell = [kind |-> "exterior", grid_x |-> 0, grid_y |-> 0]]

Clip(line, id) ==
  [media_id |-> id, dialogue_message_id |-> line]
  @@ All({"sha256", "bytes", "codec", "duration_ms", "expires_at"})

SettingValues == [s \in Sections |-> All(SectionFields(s) \cup OptionalFields(s))]

--------------------------------------------------------------------------------
(* Mistakes.                                                               *)

Objects == {"client_settings", "effective_settings", "settings", "refnum", "cell", "actor",
            "player", "target", "payload", "parameters", "media", "metadata",
            "speaker_identity", "listener_identity", "rechat_target_identity", "speaker",
            "addressee", "recipient", "book", "command", "settings_editor", "routing", "owner",
            "caster", "source", "calendar", "setting"} \cup Sections
Arrays == {"events", "lines", "model_slots", "profiles", "instructions", "sections", "fields",
           "choices", "autonomy", "audience", "items"}
Flags == {"final_response_line", "ended", "available", "ok", "loaded_save"}

Set(v, f, x) == [v EXCEPT ![f] = x]
Drop(v, f) == [g \in DOMAIN v \ {f} |-> v[g]]
Present(v, fields) == {f \in DOMAIN v \cap fields : v[f] \notin {Bad, Null, Ok, Text}}

(* A value replaced by another one of its type.                            *)
Swaps(v) ==
  {Set(v, f, b) : f \in {g \in DOMAIN v : v[g] = a}}
  \cup {Set(v, f, ~v[f]) : f \in Present(v, Flags)}
  \cup {Set(v, f, v[f] + 1) : f \in Present(v, {"generation"})}
  \cup {Set(v, f, 0) : f \in Present(v, {"next_after"})}
  \cup {Set(v, f, "failed") : f \in Present(v, {"status"})}
  \cup {Set(v, f, IF "sequence" \in DOMAIN v THEN "turn.complete" ELSE "rpg_event") :
          f \in Present(v, {"type"})}
  \cup {Set(v, f, k) : f \in Present(v, {"kind"}), k \in {"player", "npc", "object"}}

RECURSIVE Edits(_)
Edits(v) ==
  {Drop(v, f) : f \in DOMAIN v} \cup {Set(v, f, x) : f \in DOMAIN v, x \in {Bad, Null}}
  \cup {[unknown |-> Ok] @@ v} \cup Swaps(v)
  \cup UNION {{Set(v, f, e) : e \in Edits(v[f])} : f \in Present(v, Objects)}
  \cup UNION {{Set(v, f, Append(v[f], v[f][i])) : i \in DOMAIN v[f]} : f \in Present(v, Arrays)}
  \cup UNION {UNION {{Set(v, f, [v[f] EXCEPT ![i] = e]) : e \in Edits(v[f][i])} :
                i \in DOMAIN v[f]} : f \in Present(v, Arrays)}

--------------------------------------------------------------------------------
(* Requests.  A typed payload has all its fields; those that hold JSON     *)
(* text may hold any document.                                             *)

Kinds == {"health", "init", "turn", "event_poll", "interruption", "action_result",
          "dialogue_delivery_result", "session_end", "stt", "controls_query", "controls_select",
          "diary_book_query", "diary_book_result", "debug_command_query", "debug_command_result",
          "menu_dialogue_tts", "book_read_aloud", "player_autochat", "gamedata", "media"}
IdFields == Correlation \cup EnvelopeIds \cup {"action_id", "dialogue_message_id", "delivery_id",
                                              "command_id", "book_id"}
JsonFields == {"speaker", "target", "actor", "player"}
Scalars == {"generation", "runtime_generation", "after", "status", "loaded_save", "type", "kind"}

PayloadFields(kind) ==
  Checked(kind) \cup Route(kind).late \cup Route(kind).sent
  \cup CASE kind = "init" -> {"session_id", "character_id", "character_binding", "loaded_save",
                              "loaded_calendar"}
         [] kind = "session_end" -> {"generation"}
         [] kind = "media" -> {"generation"}
         [] kind = "dialogue_delivery_result" -> {"speaker"}
         [] kind = "controls_query" -> {"target"}
         [] kind = "controls_select" ->
              {"target", "kind", "selection_id", "selection_key", "setting"}
         [] kind = "diary_book_result" -> {"reason_code"}
         [] kind = "menu_dialogue_tts" -> {"actor"}
         [] kind = "player_autochat" -> {"player", "target"}
         [] kind = "gamedata" -> {"runtime_generation", "type"}
         [] OTHER -> {}

Value(kind, f) ==
  CASE f \in {"generation", "runtime_generation"} -> Generation
    [] f \in IdFields -> a
    [] f = "after" -> 1
    [] f = "player" -> Person("player", 1)
    [] f \in {"speaker", "target", "actor"} -> Person("npc", 2)
    [] f = "status" -> "succeeded"
    [] f = "loaded_save" -> FALSE
    [] f = "type" -> "captured_dialogue"
    [] f = "kind" -> "model_slot"
    [] f = "selection_key" -> "fast"
    [] f \in {"character_id", "character_binding", "loaded_calendar", "selection_id", "setting",
              "reason_code"} /\ kind \in {"init", "controls_select", "diary_book_result"} -> Null
    [] OTHER -> Ok

Payload(kind) == [f \in PayloadFields(kind) |-> Value(kind, f)]
Request(kind, p) ==
  [id |-> a, session |-> IF kind \in {"health", "init"} THEN Null ELSE a,
   generation |-> Generation, kind |-> kind, payloadKind |-> kind, payload |-> p]

Seen == <<Person("npc", 2), Person("creature", 4)>>
Observations ==
  [item_pickup |-> [player |-> Person("player", 1), audience |-> Seen,
                    source |-> All({"record_id", "display_name"}),
                    calendar |-> All({"year", "month", "day", "hour"})]
                   @@ All({"item_record_id", "item_name", "count", "unit_value", "game_time",
                           "source_kind"}),
   spell_cast |-> [caster |-> Person("npc", 2), target |-> Person("player", 1),
                   audience |-> Seen] @@ All({"spell_id", "spell_name", "game_time"}),
   actor_resurrected |-> [actor |-> Outside("npc"), audience |-> Seen, game_time |-> Ok],
   disposition |-> [actor |-> Person("npc", 2), player |-> Person("player", 1), status |-> Ok,
                    adjustment_id |-> a]
                   @@ All({"base_disposition", "disposition", "dialogue_open"}),
   inventory |-> [owner |-> Person("player", 1),
                  items |-> <<All({"record_id", "name", "count", "value", "equipped",
                                   "condition"})>>]]

With(kind, changes) == Request(kind, changes @@ Payload(kind))
Settled == [status |-> "failed", reason_code |-> Ok]

WellFormed ==
  {Request(k, Payload(k)) : k \in Kinds}
  \cup {With("init", [character_id |-> a, character_binding |-> Ok, loaded_save |-> TRUE,
                      loaded_calendar |-> Ok]),
        With("controls_select", [kind |-> "setting", selection_key |-> Null,
               setting |-> All({"scope", "key", "value", "change_token"})]),
        With("controls_select", [kind |-> "actor_profile", selection_key |-> Null,
               selection_id |-> a]),
        With("diary_book_result", Settled), With("action_result", [request_id |-> b])}
  \cup {With("gamedata", [type |-> t, payload |-> Observations[t]]) : t \in DOMAIN Observations}

Mistyped(r) ==
  LET p == r.payload
  IN {[r EXCEPT !.payload = q] :
        q \in {Set(p, f, Bad) : f \in DOMAIN p \ Scalars} \cup Swaps(p)
              \cup {Set(p, f, Text) : f \in Route(r.kind).late}
              \cup UNION {{Set(p, f, e) : e \in Edits(p[f])} :
                     f \in Present(p, JsonFields \cup {"payload", "setting"})}}
     \cup {[r EXCEPT !.id = x] : x \in {b, Bad}}
     \cup {[r EXCEPT !.session = x] : x \in {b, Bad, Null}}
     \cup {[r EXCEPT !.generation = @ + 1], [r EXCEPT !.payloadKind = "other"]}

MCRequests == WellFormed \cup UNION {Mistyped(r) : r \in WellFormed}

--------------------------------------------------------------------------------
(* Well-formed answers.                                                    *)

Echo(r, fields) ==
  [schema |-> Ok]
  @@ [f \in fields |-> CASE f \in DOMAIN r.payload -> FieldOf(r, f)
                         [] f = "session_id" -> a
                         [] f = "generation" -> Generation
                         [] OTHER -> Ok]

(* What a receipt repeats of the request.                                  *)
Returned(kind) == Identifying \cap Route(kind).sent

Session ==
  [message_id |-> a, session_id |-> a, generation |-> Generation, schema |-> Ok,
   client_settings |-> [schema |-> Ok] @@ SettingValues, capabilities |-> <<"text", "voice">>]
  @@ All({"config_revision", "event_cursor"})

Slot(i, available) ==
  [key |-> SlotKeys[i], label |-> Ok, available |-> available]
  @@ [f \in Connector |-> IF available THEN Ok ELSE Null]
Slots(available) == [i \in 1..4 |-> Slot(i, i \in available)]
Effective ==
  [schema |-> Ok, change_token |-> Ok, profile_id |-> a, profile_revision |-> Ok,
   core_profile_id |-> Null, core_profile_revision |-> Null, settings |-> SettingValues,
   routing |-> All({"llm_configuration_id", "tts_configuration_id"}),
   source_map |-> All({<<"routing", "llm_configuration_id">>, <<"memory", "knowledge_limit">>})]
Editor ==
  LET field == [label |-> Ok]
  IN [change_token |-> Ok,
      sections |-> <<[scope |-> "global", label |-> Ok, fields |->
                      <<field @@ [key |-> "k1", kind |-> "boolean", value |-> "true"],
                        field @@ [key |-> "k2", kind |-> "choice", value |-> Ok,
                                  choices |-> <<[value |-> "x", label |-> Ok]>>],
                        field @@ [key |-> "k3", kind |-> "integer", value |-> Ok,
                                  minimum |-> 1, maximum |-> 2]>>]>>]
ControlsReply(r, available, resolved, selected) ==
  Echo(r, Addressed)
  @@ [target |-> Person("npc", 2), selected_model_slot_key |-> Ok,
      resolved_model_slot_key |-> resolved, selected_profile_id |-> selected,
      narrator_profile_id |-> Null, effective_settings |-> Effective,
      model_slots |-> Slots(available),
      profiles |-> <<[profile_id |-> a, name |-> Ok, revision |-> Ok]>>]

Command(name) ==
  [command_id |-> Ok, name |-> name, expires_at |-> Ok,
   parameters |-> [f \in DebugParameters[name] |->
                     IF f = "actor" THEN Person("npc", 2) ELSE Ok]]
Book == [delivery_id |-> a, book_id |-> a, target |-> Person("npc", 2), title |-> Ok,
         content |-> a, content_hash |-> a]

(* Apart from polls, whose answers are below.                              *)
Plain(r) ==
  LET k == r.kind
  IN CASE k = "health" -> {[schema |-> Ok]}
       [] k = "init" ->
            {Session, Session @@ All({"character_id", "profile_id", "playthrough_id"})}
       [] k = "turn" -> {Echo(r, Correlation \cup {"event_cursor"})}
       [] k \in {"interruption", "stt"} ->
            {Echo(r, Correlation \cup {"event_cursor", "duplicate"})}
       [] k = "session_end" -> {[ended |-> TRUE] @@ Echo(r, Returned(k) \cup {"generation"})}
       [] k = "diary_book_query" ->
            {[book |-> x] @@ Echo(r, Addressed) : x \in {Null, Book}}
       [] k = "debug_command_query" ->
            {[command |-> x] @@ Echo(r, Addressed) :
               x \in {Null} \cup {Command(c) : c \in DOMAIN DebugParameters}}
       [] k \in {"menu_dialogue_tts", "book_read_aloud"} ->
            {[actor |-> Person("npc", 2), media |-> Clip(a, 1)] @@ Echo(r, Addressed)}
       [] k = "player_autochat" -> {Echo(r, Addressed \cup {"text"})}
       [] k \in {"controls_query", "controls_select"} ->
            {ControlsReply(r, v, key, p) :
               v \in {{1}, 1..4}, key \in {Null, "standard", "fast"}, p \in {Null, a}}
            \cup {[settings_editor |-> Editor] @@ ControlsReply(r, {1}, Null, a)}
       [] k = "gamedata" ->
            {Echo(r, Returned(k) \cup {"duplicate"}),
             Echo(r, Returned(k) \cup {"duplicate", "comment_requested"})}
       [] OTHER -> {Echo(r, Returned(k) \cup {"duplicate"})}

--------------------------------------------------------------------------------
(* Answers to a poll.                                                      *)

Happened(type, payload, n) ==
  [message_id |-> a, request_id |-> a, turn_id |-> a, session_id |-> a,
   generation |-> Generation, sequence |-> n, created_at |-> Ok, type |-> type,
   payload |-> payload]

MCIntent(name) ==
  [turn_id |-> a, name |-> name, tier |-> TierOf(name), confirmation_required |-> Ok,
   actor |-> Person(IF name \in Advanced THEN "player" ELSE "npc", 1),
   target |-> Person(IF name \in Advanced /\ "player" \notin AdvancedTargets(name)
                     THEN "npc" ELSE "player", 2),
   parameters |-> All(ParameterFields(name))]
  @@ All({"schema", "action_id", "expires_at"})

(* A line of a response as it stands at its place: nothing repeated, or    *)
(* the line, the utterance or the clip of the first one.                   *)
Shapes ==
  [action : {"say"}, final : BOOLEAN,
   repeats : {"nothing", "line", "utterance", "clip", "nothing, with a clip"}]
  \cup [action : {"rolecommand"}, final : {FALSE}, repeats : {"nothing", "line"}]
  \cup [action : {"rolecommand"}, final : {TRUE}, repeats : {"nothing"}]

Line(shape, i) ==
  LET id == IF shape.repeats = "line" THEN 1 ELSE i
      line == [line_id |-> id, line_index |-> i - 1, request_id |-> a, action |-> shape.action,
               utterance_id |-> IF shape.repeats = "utterance" THEN 1 ELSE i,
               speaker_identity |-> Person("npc", 2), listener_identity |-> Person("player", 1),
               rechat_target_identity |-> Outside("npc"), metadata |-> All({"mood"}),
               final_response_line |-> shape.final]
              @@ All({"schema", "speaker", "display_name", "text", "subtitle", "tts_text",
                      "listener", "rechat_target"})
  IN CASE shape.action = "rolecommand" ->
            line @@ [command_name |-> Ok, command_args |-> <<Ok>>]
       [] shape.repeats = "clip" -> line @@ [media |-> Clip(id, 1)]
       [] shape.repeats = "nothing, with a clip" -> line @@ [media |-> Clip(id, i)]
       [] OTHER -> line

Response(lines, ok) ==
  [response_id |-> a, session_id |-> a, turn_id |-> a, request_id |-> a,
   generation |-> Generation, ok |-> ok, error |-> IF ok THEN "" ELSE "provider",
   lines |-> lines]
  @@ All({"schema", "installation_id", "profile_id", "playthrough_id", "runtime_generation",
          "created_at", "close"})

ShapesOfResponses == UNION {[1..n -> Shapes] : n \in 0..3}
LinesOf(shapes) == [i \in DOMAIN shapes |-> Line(shapes[i], i)]
Talk == LinesOf(<<[action |-> "say", final |-> FALSE, repeats |-> "nothing"],
                  [action |-> "say", final |-> TRUE, repeats |-> "nothing, with a clip"],
                  [action |-> "rolecommand", final |-> FALSE, repeats |-> "nothing"]>>)

Instruction(n) ==
  [instruction_id |-> n, actor |-> Person("npc", 2), recipient |-> Person("player", 1)]
  @@ All({"instruction", "scene_note"})

Payloads ==
  [type : {"turn.accepted", "turn.complete"}, payload : {[status |-> Ok]}]
  \cup [type : {"dialogue.delta"}, payload : {[text |-> Ok]}]
  \cup [type : {"dialogue.complete"},
        payload : {[speaker |-> Person("npc", 2), addressee |-> Person("player", 1),
                    text |-> Ok]}]
  \cup [type : {"action.intent"}, payload : {MCIntent(n) : n \in IntentNames}]
  \cup [type : {"director.instructions"},
        payload : {[plan_id |-> Ok, origin_turn_id |-> a, expires_at |-> Ok,
                    instructions |-> <<Instruction(1), Instruction(2)>>]}]
  \cup [type : {"relationship.adjust"},
        payload : {[actor |-> Person("npc", 2), player |-> Person("player", 1)]
                   @@ All({"adjustment_id", "delta", "expires_at"})}]
  \cup [type : {"response.complete"}, payload : {Response(Talk, TRUE), Response(<<>>, FALSE)}]
  \cup [type : {"turn.cancelled"}, payload : {[reason |-> Ok]}]
  \cup [type : {"turn.failed", "stt.failed"}, payload : {[code |-> Ok, retriable |-> Ok]}]
  \cup [type : {"stt.transcript"}, payload : {[text |-> Ok, language |-> Ok]}]
  \cup [type : {"speech.ready"}, payload : {Clip(a, 1)}]

Poll(events, cues) ==
  [schema |-> Ok, session_id |-> a, generation |-> Generation, next_after |-> 2,
   events |-> events,
   autonomy |-> [i \in 1..cues |-> All({"schema", "schedule_id", "kind", "issued_at"})]]

Accepts(n) == Happened("turn.accepted", [status |-> Ok], n)
Polls ==
  {Poll(<<Happened(p.type, p.payload, 2)>>, 0) : p \in Payloads}
  \cup {Poll(<<>>, n) : n \in {0, 1, 3, 4}}
Variants ==
  {Poll(<<Happened("response.complete", Response(LinesOf(s), TRUE), 2)>>, 0) :
     s \in ShapesOfResponses}
  \cup {Poll(<<Accepts(m), Accepts(n)>>, 0) : m \in 1..3, n \in 1..3}

--------------------------------------------------------------------------------
(* Errors, and all answers to a request.                                   *)

Refusal(code, id) ==
  [schema |-> Ok, code |-> code, message |-> Ok, correlation_id |-> id, retriable |-> Ok]
Refusals ==
  {Refusal(c, id) : c \in {"rate_limited", "unknown_session", "not_found", "cursor_expired"},
                    id \in Ids}
  \cup Edits(Refusal("terminal_turn", a))

WrongPath(r, d) ==
  [d EXCEPT !.effective_settings.source_map = All({<<"memory", "unknown">>})]
Documents(r) ==
  CASE r.kind = "media" -> {Null}
    [] r.kind = "event_poll" -> Polls \cup Variants \cup UNION {Edits(d) : d \in Polls}
    [] r.kind = "controls_query" ->
         Plain(r) \cup UNION {Edits(d) : d \in {[settings_editor |-> Editor]
                                              @@ ControlsReply(r, {1}, "standard", a)}}
         \cup {WrongPath(r, d) : d \in Plain(r)}
    [] r.kind = "controls_select" -> Plain(r)
    [] OTHER -> Plain(r) \cup UNION {Edits(d) : d \in Plain(r)}

MCAnswers(r) ==
  LET expected == Route(r.kind).status
  IN [status : {expected}, body : (IF r \in WellFormed THEN Documents(r) ELSE Plain(r))]
     \cup [status : {expected}, body : (IF r.kind = "media" THEN {} ELSE {Bad})]
     \cup [status : {302, 299, 400}, body : Refusals]

(***************************************************************************)
(* Nothing of an accepted answer went unchecked: at no level of it is      *)
(* there a field the contract does not name or a value that its check      *)
(* refuses.                                                                *)
(***************************************************************************)
RECURSIVE Clean(_)
Clean(v) ==
  /\ \A f \in DOMAIN v : f # "unknown" /\ v[f] # Bad
  /\ \A f \in Present(v, Objects) : Clean(v[f])
  /\ \A f \in Present(v, Arrays) : \A i \in DOMAIN v[f] : Clean(v[f][i])
NothingUnchecked == Accepted /\ answer.body # Null => Clean(answer.body)

(***************************************************************************)
(* What an accepted answer leads to needs no further check: lines, events  *)
(* and controls fit together, and no field of them was overlooked.         *)
(***************************************************************************)
AnswersAreUsable ==
  TypeOK /\ LinesPlayInOrder /\ EventsMoveOn /\ ControlsAreUsable /\ NothingUnchecked
================================================================================
