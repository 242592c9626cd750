------------------------------ MODULE WireFormat ------------------------------
(***************************************************************************)
(* What the client accepts from the server: the closed documents of        *)
(* protocol_response.cpp.                                                  *)
(*                                                                         *)
(* A JSON object is a function from its field names to values, an array a  *)
(* sequence.  A value whose own check refuses it (wrong type, out of       *)
(* range, outside its enumeration, not a canonical UUID or time stamp) is  *)
(* Bad; a body that is refused before its fields are looked at (content    *)
(* type, size, syntax, schema name) is Bad too.  Values that a parser      *)
(* relates to one another keep their identity; the rest are Ok.            *)
(***************************************************************************)
EXTENDS Integers, Sequences, FiniteSets, SequencesExt

CONSTANTS
  Bad,    \* a value that its field's own check refuses
  Null,   \* JSON null
  Ok      \* an admissible value that nothing else depends on

(* hasExactly: every required field, and none outside the closed list.     *)
HasExactly(o, required, optional) ==
  required \subseteq DOMAIN o /\ DOMAIN o \subseteq required \cup optional

(* The require... family: each present field passes its own check; only    *)
(* the fields read through the nullable helpers may be null.               *)
FieldsPass(o, nullable) ==
  \A f \in DOMAIN o : o[f] # Bad /\ (o[f] = Null => f \in nullable)

(* A JSON object with exactly these fields, each one admissible.           *)
Closed(o, required, optional, nullable) ==
  /\ o \notin {Bad, Null}
  /\ HasExactly(o, required, optional)
  /\ FieldsPass(o, nullable)

Document(d, required, optional, nullable) ==
  Closed(d, required \cup {"schema"}, optional, nullable)

(* An array without repetition of what `key' reads from its elements.      *)
Unique(array, key(_)) ==
  \A i, j \in DOMAIN array : key(array[i]) = key(array[j]) => i = j

Addressed == {"message_id", "request_id", "session_id", "generation"}
Correlation == Addressed \cup {"turn_id"}

--------------------------------------------------------------------------------
(* Identities, media and the canonical response.                           *)

Cell(c) ==
  \/ Closed(c, {"kind", "name"}, {}, {}) /\ c.kind = "interior"
  \/ Closed(c, {"kind", "grid_x", "grid_y"}, {}, {}) /\ c.kind = "exterior"

Identity(v) ==
  /\ Closed(v, {"kind", "record_id", "refnum", "content_file", "cell", "display_name"}, {}, {})
  /\ Closed(v.refnum, {"index", "content_file"}, {}, {})
  /\ Cell(v.cell)

IdentityOf(v, kinds) == Identity(v) /\ v.kind \in kinds

NonPlayer == {"npc", "creature"}
Physical == NonPlayer \cup {"player"}

Media(v) ==
  Closed(v, {"media_id", "dialogue_message_id", "sha256", "bytes", "codec",
             "duration_ms", "expires_at"}, {}, {})

Metadata(v) ==
  Closed(v, {}, {"animation", "emotion", "mood", "rechat_depth", "speech_enabled", "source"}, {})

(* A command's arguments: an array of strings.                             *)
Strings(a) == a # Bad /\ \A i \in DOMAIN a : a[i] # Bad

(* parseCanonicalLine.  An empty text is the string "".                    *)
CanonicalLine(l, request, index) ==
  /\ Closed(l, {"schema", "line_id", "line_index", "speaker", "display_name", "speaker_identity",
                "action", "text", "subtitle", "tts_text", "request_id", "utterance_id", "listener",
                "listener_identity", "rechat_target", "rechat_target_identity",
                "final_response_line", "metadata"},
               {"media", "tts_cache_key", "command_name", "command_args"}, {})
  /\ l.line_index = index
  /\ l.request_id = request
  /\ Identity(l.speaker_identity) /\ Identity(l.listener_identity)
  /\ Identity(l.rechat_target_identity) /\ Metadata(l.metadata)
  /\ "media" \in DOMAIN l => Media(l.media) /\ l.media.dialogue_message_id = l.line_id
  /\ "command_args" \in DOMAIN l => Strings(l.command_args)
  /\ \/ /\ l.action = "say"
        /\ l.text # "" /\ l.subtitle # "" /\ l.tts_text # ""
        /\ DOMAIN l \cap {"command_name", "command_args"} = {}
     \/ /\ l.action = "rolecommand"
        /\ {"command_name", "command_args"} \subseteq DOMAIN l
        /\ "media" \notin DOMAIN l /\ ~l.final_response_line

(* Bug: the order of dialogue and commands is not looked at.               *)
AddLineAnyOrder(seen, l) ==
  LET index == seen.count
  IN [ok         |-> seen.ok /\ l.line_id \notin seen.lines
                     /\ l.utterance_id \notin seen.utterances,
      count      |-> index + 1,
      lines      |-> seen.lines \cup {l.line_id},
      utterances |-> seen.utterances \cup {l.utterance_id},
      media      |-> seen.media,
      sawAction  |-> seen.sawAction \/ l.action = "rolecommand",
      final      |-> IF l.action = "say" THEN index ELSE seen.final]

(* One round of parseCanonicalResponse's loop over the lines.  `seen'      *)
(* gathers the line, utterance and media ids; final is the 0-based index   *)
(* of the last `say' so far, -1 before there is one.                       *)
AddLine(seen, l) ==
  LET index == seen.count
      media == IF "media" \in DOMAIN l THEN {l.media.media_id} ELSE {}
  IN [ok         |-> /\ seen.ok
                     /\ l.line_id \notin seen.lines /\ l.utterance_id \notin seen.utterances
                     /\ media \cap seen.media = {}
                     /\ l.action = "say" => ~seen.sawAction,
      count      |-> index + 1,
      lines      |-> seen.lines \cup {l.line_id},
      utterances |-> seen.utterances \cup {l.utterance_id},
      media      |-> seen.media \cup media,
      sawAction  |-> seen.sawAction \/ l.action = "rolecommand",
      final      |-> IF l.action = "say" THEN index ELSE seen.final]

Lines(lines) ==
  LET seen == FoldLeft(AddLine,
                       [ok |-> TRUE, count |-> 0, lines |-> {}, utterances |-> {}, media |-> {},
                        sawAction |-> FALSE, final |-> -1], lines)
  IN /\ seen.ok
     /\ \A i \in DOMAIN lines : lines[i].final_response_line <=> (i - 1 = seen.final)

(* parseCanonicalResponse; e is the envelope of the event that carries it. *)
CanonicalResponse(r, e) ==
  /\ Closed(r, {"schema", "response_id", "installation_id", "profile_id", "playthrough_id",
                "session_id", "turn_id", "request_id", "generation", "runtime_generation",
                "created_at", "ok", "lines", "close", "error"}, {}, {})
  /\ r.response_id = e.message_id
  /\ \A f \in {"session_id", "turn_id", "request_id", "generation"} : r[f] = e[f]
  /\ r.ok <=> r.error = ""
  /\ \A i \in DOMAIN r.lines : CanonicalLine(r.lines[i], r.request_id, i - 1)
  /\ Lines(r.lines)

--------------------------------------------------------------------------------
(* Action intents.                                                         *)

Advanced == {"item.create", "gold.create", "actor.spawn", "actor.teleport_to_player",
             "player.teleport", "actor.restore", "actor.resurrect", "actor.kill"}

(* Bug: the rule about the confirmation policy forgets spells.             *)
TransfersWithoutSpells == {"item.give", "item.take", "item.pickup", "gold.give", "gold.take"}

(* The names whose parameters may move property or cast: tier 2, and an    *)
(* explicit confirmation policy.                                           *)
Transfers == {"item.give", "item.take", "item.pickup", "gold.give", "gold.take", "spell.cast"}

Inspections == {"inspect.report", "inventory.inspect"}
OwnItems == {"item.equip", "item.unequip", "item.use"}
Services == {"service.barter", "service.training", "service.spells", "service.travel",
             "service.spellmaking", "service.enchanting", "service.repair"}
Behaviours == {"ai.follow", "ai.stop", "conversation.end", "ai.approach", "ai.wait", "ai.travel",
               "ai.escort", "ai.face", "ai.wander", "combat.stop", "weapon.sheathe",
               "animation.play"}
IntentNames == Advanced \cup Inspections \cup OwnItems \cup Services \cup Behaviours
               \cup {"combat.start", "item.give", "item.take", "item.pickup", "gold.give",
                     "gold.take", "spell.cast"}

TierOf(name) ==
  CASE name \in Inspections -> 0
    [] name \in Services \cup Behaviours -> 1
    [] OTHER -> 2

(* The parameters of each intent, all of them required.                    *)
AdvancedParameters(name) ==
  CASE name \in {"item.create", "actor.spawn"} -> {"record_id", "count"}
    [] name = "gold.create" -> {"amount"}
    [] name = "player.teleport" -> {"destination_id"}
    [] OTHER -> {}

ParameterFields(name) ==
  CASE name \in Advanced -> AdvancedParameters(name)
    [] name = "ai.follow" -> {"distance"}
    [] name = "ai.wander" -> {"distance", "duration_seconds"}
    [] name = "ai.wait" -> {"duration_seconds"}
    [] name \in {"ai.travel", "ai.escort"} ->
         {"destination_x", "destination_y", "destination_z", "destination_cell"}
    [] name = "spell.cast" -> {"spell_id"}
    [] name = "animation.play" -> {"group"}
    [] name = "item.equip" -> {"record_id", "slot"}
    [] name = "item.unequip" -> {"slot"}
    [] name = "item.use" -> {"record_id"}
    [] name \in {"item.give", "item.take"} -> {"item_id", "count"}
    [] name = "item.pickup" -> {"item_id"}
    [] name \in {"gold.give", "gold.take"} -> {"amount"}
    [] OTHER -> {}

(* Who may be the target of an advanced action.                            *)
AdvancedTargets(name) ==
  CASE name \in {"actor.kill", "actor.resurrect", "actor.teleport_to_player"} -> NonPlayer
    [] name \in {"actor.spawn", "gold.create", "player.teleport"} -> {"player"}
    [] OTHER -> Physical

Intent(v, turn) ==
  /\ Closed(v, {"schema", "action_id", "turn_id", "name", "tier", "actor", "target",
                "parameters", "expires_at"},
               {"display_name", "confirmation_required", "followup_enabled",
                "followup_actions_allowed", "followup_depth"}, {})
  /\ v.turn_id = turn
  /\ v.name \in IntentNames /\ v.tier = TierOf(v.name)
  /\ Identity(v.actor) /\ Identity(v.target)
  /\ Closed(v.parameters, ParameterFields(v.name), {}, {})
  /\ v.name \in Advanced =>
       v.actor.kind = "player" /\ v.target.kind \in AdvancedTargets(v.name)
  /\ v.name \in Advanced \cup Transfers => "confirmation_required" \in DOMAIN v

--------------------------------------------------------------------------------
(* Settings, session controls and the documents the client asks for.       *)

SectionFields(section) ==
  CASE section = "behavior" ->
         {"auto_greeting", "rechat", "rechat_delay_seconds", "rechat_max_depth",
          "rechat_probability_percent", "rechat_mode", "rechat_strict_targeting", "open_rechat",
          "rechat_allow_actions", "end_conversation_cooldown_seconds", "boredom",
          "boredom_delay_seconds", "combat_barks", "combat_bark_period_seconds"}
    [] section = "memory" -> {"recent_turn_limit", "knowledge_limit"}
    [] section = "narrator" ->
         {"enabled", "name", "context_visibility", "inline_mode", "welcome_events",
          "welcome_cooldown_minutes", "random_events", "random_chance_percent",
          "random_cooldown_rounds", "bored_events", "bored_chance_percent", "quest_events",
          "quest_chance_percent", "quest_cooldown_minutes", "book_events"}
    [] section = "presentation" -> {"show_status_hud", "transcript_rows", "tts_volume_boost"}
    [] section = "safety" -> {"actions_enabled", "allow_hostile", "allow_creatures"}

Sections == {"behavior", "memory", "narrator", "presentation", "safety"}
OptionalFields(section) == IF section = "behavior" THEN {"ai_enabled"} ELSE {}

SectionsPass(v) ==
  \A s \in Sections : Closed(v[s], SectionFields(s), OptionalFields(s), {})

ClientSettings(v) == Closed(v, Sections \cup {"schema"}, {}, {}) /\ SectionsPass(v)

RoutingFields == {"prompt_configuration_id", "llm_configuration_id", "llm_fast_configuration_id",
                  "llm_powerful_configuration_id", "llm_experimental_configuration_id",
                  "llm_fallback_configuration_id", "tts_configuration_id",
                  "llm_randomizer_enabled", "llm_fallback_enabled"}

(* The source map explains settings and routes by their paths.             *)
SourcePaths ==
  {<<"routing", f>> : f \in RoutingFields}
  \cup UNION {{<<s, f>> : f \in SectionFields(s) \cup OptionalFields(s)} : s \in Sections}

EffectiveSettings(v) ==
  /\ Closed(v, {"schema", "change_token", "profile_id", "profile_revision", "core_profile_id",
                "core_profile_revision", "settings", "routing", "source_map"}, {},
               {"profile_id", "profile_revision", "core_profile_id", "core_profile_revision"})
  /\ (v.profile_id = Null) <=> (v.profile_revision = Null)
  /\ (v.core_profile_id = Null) <=> (v.core_profile_revision = Null)
  /\ Closed(v.settings, Sections, {}, {}) /\ SectionsPass(v.settings)
  /\ Closed(v.routing, {}, RoutingFields, {})
  /\ Closed(v.source_map, {}, SourcePaths, {})

SlotKeys == <<"standard", "fast", "powerful", "experimental">>
Connector == {"configuration_id", "configuration_name", "revision", "driver", "model"}

(* The four model slots, in their order; an unavailable one is empty.      *)
ModelSlots(slots) ==
  /\ Len(slots) = 4
  /\ \A i \in 1..4 :
       /\ Closed(slots[i], Connector \cup {"key", "label", "available"}, {}, Connector)
       /\ slots[i].key = SlotKeys[i]
       /\ \A f \in Connector : (slots[i][f] # Null) <=> slots[i].available

SettingField(f) ==
  /\ Closed(f, {"key", "label", "kind", "value"}, {"choices", "minimum", "maximum"}, {})
  /\ f.kind = "boolean" => f.value \in {"true", "false"}
  /\ {"minimum", "maximum"} \subseteq DOMAIN f => f.minimum <= f.maximum
  /\ "choices" \in DOMAIN f =>
       /\ \A i \in DOMAIN f.choices : Closed(f.choices[i], {"value", "label"}, {}, {})
       /\ Unique(f.choices, LAMBDA c : c.value)

SettingsEditor(e) ==
  /\ Closed(e, {"change_token", "sections"}, {}, {})
  /\ \A i \in DOMAIN e.sections :
       /\ Closed(e.sections[i], {"scope", "label", "fields"}, {}, {})
       /\ \A j \in DOMAIN e.sections[i].fields : SettingField(e.sections[i].fields[j])
       /\ Unique(e.sections[i].fields, LAMBDA f : f.key)
  /\ Unique(e.sections, LAMBDA s : s.scope)

ResolvedIsAvailable(d) == d.resolved_model_slot_key # Null =>
  \E i \in 1..4 : d.model_slots[i].key = d.resolved_model_slot_key /\ d.model_slots[i].available

Controls(d) ==
  /\ Document(d, Addressed \cup
       {"target", "selected_model_slot_key", "resolved_model_slot_key", "selected_profile_id",
        "narrator_profile_id", "effective_settings", "model_slots", "profiles"},
       {"settings_editor"},
       {"resolved_model_slot_key", "selected_profile_id", "narrator_profile_id"})
  /\ Identity(d.target) /\ EffectiveSettings(d.effective_settings) /\ ModelSlots(d.model_slots)
  /\ \A i \in DOMAIN d.profiles : Closed(d.profiles[i], {"profile_id", "name", "revision"}, {}, {})
  /\ Unique(d.profiles, LAMBDA p : p.profile_id)
  /\ ResolvedIsAvailable(d)
  /\ d.selected_profile_id # Null =>
       \E i \in DOMAIN d.profiles : d.profiles[i].profile_id = d.selected_profile_id
  /\ "settings_editor" \in DOMAIN d => SettingsEditor(d.settings_editor)

(* parseDiaryBookResponse: the content hash must be the content's; hashes  *)
(* are injective, so a content and its hash are the same value.            *)
DiaryBook(d) ==
  /\ Document(d, Addressed \cup {"book"}, {}, {"book"})
  /\ d.book # Null =>
       /\ Closed(d.book, {"delivery_id", "book_id", "target", "title", "content", "content_hash"},
                 {}, {})
       /\ IdentityOf(d.book.target, NonPlayer)
       /\ d.book.content_hash = d.book.content

(* The parameters of each debug command; what is not listed is unknown.    *)
DebugParameters ==
  [c \in {"npc.status", "npc.visit", "npc.teleport", "npc.return"} |-> {"actor"}]
  @@ [c \in {"player.dialogue.submit"} |-> {"text", "language"}]
  @@ [c \in {"status.snapshot", "shaders.reload", "player.vitals.restore", "target.actor.kill",
             "target.actor.restore", "target.teleport.to_player"} |-> {}]
  @@ [c \in {"god_mode.set", "collision.set", "ai.set", "mwscript.set",
             "shader_hot_reload.set"} |-> {"enabled"}]
  @@ [c \in {"render_mode.toggle"} |-> {"mode"}]
  @@ [c \in {"player.inventory.add", "player.inventory.remove"} |-> {"record_id", "count"}]
  @@ [c \in {"player.spell.add", "player.spell.remove"} |-> {"record_id"}]
  @@ [c \in {"player.stat.set"} |-> {"stat", "value"}]
  @@ [c \in {"player.attribute.set"} |-> {"attribute", "value"}]
  @@ [c \in {"player.skill.set"} |-> {"skill", "value"}]
  @@ [c \in {"player.level.set", "player.bounty.set", "player.scale.set", "target.scale.set",
             "world.timescale.set", "world.time.advance"} |-> {"value"}]
  @@ [c \in {"player.teleport"} |-> {"cell", "x", "y", "z"}]
  @@ [c \in {"world.weather.set"} |-> {"region_id", "weather"}]

DebugCommand(d) ==
  /\ Document(d, Addressed \cup {"command"}, {}, {"command"})
  /\ d.command # Null =>
       /\ Closed(d.command, {"command_id", "name", "parameters", "expires_at"}, {}, {})
       /\ d.command.name \in DOMAIN DebugParameters
       /\ Closed(d.command.parameters, DebugParameters[d.command.name], {}, {})
       /\ "actor" \in DOMAIN d.command.parameters =>
            IdentityOf(d.command.parameters.actor, NonPlayer)

--------------------------------------------------------------------------------
(* Acknowledgements.                                                       *)

SessionAccepted(d) ==
  /\ Document(d, {"message_id", "session_id", "generation", "capabilities", "config_revision",
                  "client_settings", "event_cursor"},
                 {"character_id", "profile_id", "playthrough_id"}, {})
  /\ ClientSettings(d.client_settings)
  /\ Strings(d.capabilities) /\ Unique(d.capabilities, LAMBDA c : c)

TurnAccepted(d) == Document(d, Correlation \cup {"event_cursor"}, {}, {})
InterruptionAccepted(d) == Document(d, Correlation \cup {"event_cursor", "duplicate"}, {}, {})
SttAccepted(d) == Document(d, Correlation \cup {"event_cursor", "duplicate"}, {}, {})
ActionResultAccepted(d) ==
  Document(d, Correlation \cup {"action_id", "status", "duplicate"}, {}, {})
DialogueDeliveryResultAccepted(d) ==
  Document(d, Correlation \cup {"dialogue_message_id", "status", "duplicate"}, {}, {})
DiaryBookResultAccepted(d) ==
  Document(d, Addressed \cup {"delivery_id", "status", "duplicate"}, {}, {})
DebugCommandResultAccepted(d) ==
  Document(d, Addressed \cup {"command_id", "status", "duplicate"}, {}, {})
MenuDialogueTtsReady(d) ==
  Document(d, Addressed \cup {"actor", "media"}, {}, {}) /\ Identity(d.actor) /\ Media(d.media)
PlayerAutochatReady(d) == Document(d, Addressed \cup {"text"}, {}, {})
SessionEnded(d) == Document(d, {"request_id", "session_id", "generation", "ended"}, {}, {})

Commented == {"rpg_event", "bored_event", "quest_event"}
GameDataAccepted(d) ==
  /\ Document(d, {"request_id", "session_id", "generation", "type", "duplicate"},
                 {"comment_requested"}, {})
  /\ "comment_requested" \in DOMAIN d => d.type \in Commented

Health(d) == Document(d, {}, {}, {})

ProtocolError(d) ==
  Document(d, {"code", "message", "correlation_id", "retriable"}, {"retry_after_ms"}, {})

(* protocolCode: the error that a code of the server stands for here.      *)
ServerCodes ==
  [action_disabled |-> {"ai_disabled", "playthrough_isolation_required", "action_disabled",
                        "provider_action_not_allowed"},
   invalid_argument |-> {"character_binding_required"},
   duplicate_conflict |-> {"character_binding_conflict", "duplicate_conflict",
                           "invalid_idempotency_key", "rechat_chain_conflict", "request_mismatch"},
   invalid_action |-> {"action_parameters_invalid", "action_result_expired",
                       "action_result_mismatch", "action_target_invalid", "action_tier_mismatch",
                       "unknown_action"},
   cursor_expired |-> {"cursor_expired"},
   forbidden |-> {"forbidden"},
   internal_error |-> {"internal_error"},
   media_rejected |-> {"invalid_audio", "media_unavailable"},
   invalid_schema |-> {"invalid_schema", "invalid_rechat_context"},
   transport_failure |-> {"not_found"},
   payload_too_large |-> {"payload_too_large"},
   provider_unavailable |-> {"provider_invalid_action", "provider_invalid_output",
                             "provider_unavailable", "service_unavailable"},
   timeout |-> {"provider_timeout"},
   rate_limited |-> {"rate_limited"},
   cancelled |-> {"rechat_complete", "rechat_cooldown", "conversation_cooldown",
                  "rechat_no_responder", "rechat_unavailable", "terminal_turn", "turn_terminal"},
   stale_generation |-> {"stale_generation"},
   unauthorized |-> {"unauthorized"},
   unknown_session |-> {"unknown_session", "unknown_turn"}]
protocolCode ==
  [c \in UNION {ServerCodes[e] : e \in DOMAIN ServerCodes} |->
     CHOOSE e \in DOMAIN ServerCodes : c \in ServerCodes[e]]

--------------------------------------------------------------------------------
(* Events.                                                                 *)

Instructions(p, turn) ==
  /\ Closed(p, {"plan_id", "origin_turn_id", "expires_at", "instructions"}, {}, {})
  /\ p.origin_turn_id = turn
  /\ p.instructions # <<>>
  /\ \A i \in DOMAIN p.instructions :
       /\ Closed(p.instructions[i],
                 {"instruction_id", "actor", "recipient", "instruction", "scene_note"}, {}, {})
       /\ IdentityOf(p.instructions[i].actor, NonPlayer) /\ Identity(p.instructions[i].recipient)
  /\ Unique(p.instructions, LAMBDA row : row.instruction_id)

RelationshipAdjust(p) ==
  /\ Closed(p, {"adjustment_id", "actor", "player", "delta", "expires_at"}, {}, {})
  /\ IdentityOf(p.actor, {"npc"}) /\ IdentityOf(p.player, {"player"})

DialogueComplete(p) ==
  /\ Closed(p, {"speaker", "addressee", "text"}, {}, {})
  /\ Identity(p.speaker) /\ Identity(p.addressee)

(* The payload of an event whose envelope is e.                            *)
EventPayload(p, e) ==
  CASE e.type \in {"turn.accepted", "turn.complete"} -> Closed(p, {"status"}, {}, {})
    [] e.type = "dialogue.delta" -> Closed(p, {"text"}, {}, {})
    [] e.type = "dialogue.complete" -> DialogueComplete(p)
    [] e.type = "action.intent" -> Intent(p, e.turn_id)
    [] e.type = "director.instructions" -> Instructions(p, e.turn_id)
    [] e.type = "relationship.adjust" -> RelationshipAdjust(p)
    [] e.type = "response.complete" -> CanonicalResponse(p, e)
    [] e.type = "turn.cancelled" -> Closed(p, {"reason"}, {}, {})
    [] e.type \in {"turn.failed", "stt.failed"} ->
         Closed(p, {"code", "retriable"}, {"retry_after_ms"}, {})
    [] e.type = "stt.transcript" -> Closed(p, {"text", "language"}, {}, {})
    [] e.type = "speech.ready" -> Media(p)

(* An event of a type that is not known is refused: its type is Bad.       *)
Event(e, session, generation) ==
  /\ Closed(e, Correlation \cup {"sequence", "created_at", "type", "payload"}, {}, {})
  /\ e.session_id = session /\ e.generation = generation
  /\ EventPayload(e.payload, e)

Increasing(events) ==
  \A i \in 2..Len(events) : events[i].sequence > events[i - 1].sequence

Events(d) ==
  /\ Document(d, {"session_id", "generation", "next_after", "events", "autonomy"}, {}, {})
  /\ Len(d.autonomy) <= 3
  /\ \A i \in DOMAIN d.events : Event(d.events[i], d.session_id, d.generation)
  /\ Increasing(d.events)
  /\ \A i \in DOMAIN d.autonomy :
       Closed(d.autonomy[i], {"schema", "schedule_id", "kind", "issued_at"}, {}, {})

--------------------------------------------------------------------------------
(* Observations the client sends: the payloads of POST /gamedata that are  *)
(* checked before they are queued.                                         *)

Audience(a, kinds) ==
  /\ a # Bad
  /\ \A i \in DOMAIN a : IdentityOf(a[i], kinds)
  /\ Unique(a, LAMBDA w : w.refnum)

Calendar(c) == Closed(c, {"year", "month", "day", "hour"}, {}, {})

(* The optional calendar and audience that three of the payloads share.    *)
Witnessed(p, kinds) ==
  /\ "calendar" \in DOMAIN p => Calendar(p.calendar)
  /\ "audience" \in DOMAIN p => Audience(p.audience, kinds)

ItemPickup(p) ==
  /\ Closed(p, {"player", "item_record_id", "item_name", "count", "unit_value", "game_time",
                "source_kind"}, {"source", "audience", "calendar"}, {})
  /\ IdentityOf(p.player, {"player"})
  /\ "source" \in DOMAIN p => Closed(p.source, {"record_id", "display_name"}, {}, {})
  /\ Witnessed(p, Physical)

SpellCast(p) ==
  /\ Closed(p, {"caster", "spell_id", "spell_name", "game_time"},
               {"target", "audience", "calendar"}, {})
  /\ IdentityOf(p.caster, Physical)
  /\ "target" \in DOMAIN p => IdentityOf(p.target, Physical)
  /\ Witnessed(p, Physical)

ActorResurrected(p) ==
  /\ Closed(p, {"actor", "audience", "game_time"}, {"calendar"}, {})
  /\ IdentityOf(p.actor, Physical)
  /\ Witnessed(p, NonPlayer)

Disposition(p) ==
  /\ Closed(p, {"actor", "player", "base_disposition", "disposition", "dialogue_open"},
               {"adjustment_id", "status"}, {})
  /\ IdentityOf(p.actor, {"npc"}) /\ IdentityOf(p.player, {"player"})
  /\ "adjustment_id" \in DOMAIN p <=> "status" \in DOMAIN p

Inventory(p) ==
  /\ Closed(p, {"owner", "items"}, {}, {})
  /\ IdentityOf(p.owner, Physical)
  /\ \A i \in DOMAIN p.items :
       Closed(p.items[i], {"record_id", "name", "count", "value", "equipped"},
                          {"condition", "content_file"}, {})
================================================================================
