--------------------------- MODULE WireExchangeProofs ---------------------------
(***************************************************************************)
(* Proofs about WireExchange for every set of requests and every server:    *)
(* no answer, however mixed up, is taken for that of another request.       *)
(***************************************************************************)
EXTENDS WireExchange, TLAPS

RequestKinds ==
  Envelopes \cup Reports \cup Queries
  \cup {"health", "event_poll", "session_end", "controls_select", "diary_book_result",
        "debug_command_result", "menu_dialogue_tts", "book_read_aloud", "player_autochat", "gamedata",
        "media"}

(* Requests are of the kinds of lorkhan::RequestKind, and the server's     *)
(* answer to one, when it comes, is something; null is no field's name.    *)
Setting ==
  /\ Null \notin {"message_id", "request_id"}
  /\ \A r \in Requests : r.kind \in RequestKinds /\ \A a \in Answers(r) : a # None

(* What each phase of the exchange has done.                               *)
Refused(res) == \E code \in {"refused", "stale_generation", "invalid_argument"} : res = Failed(code)
IInv ==
  /\ phase \in {"queued", "sent", "answered"} \/ wire # None =>
       request \in Requests /\ validateRequest(request) = "ok"
  /\ phase \in {"idle", "queued"} => wire = None
  /\ phase \in {"sent", "answered"} => wire # None
  /\ wire # None => wire = serializeRequest(request)
  /\ phase = "answered" => answer \in Answers(request)
  /\ phase = "done" => \/ wire = None /\ Refused(result)
                       \/ /\ wire # None /\ answer \in Answers(request)
                          /\ result = validateResponse(request, wire, answer)

-------------------------------------------------------------------------------
(* What goes out for each kind of request                                  *)

(* Only a document about a session carries one, and only it and the hello  *)
(* carry a generation.                                                     *)
LEMMA RouteNames ==
  ASSUME NEW kind \in RequestKinds
  PROVE  /\ "session_id" \in Route(kind).sent => kind \notin {"health", "init", "media"}
         /\ "generation" \in Route(kind).sent => kind \notin {"health", "media"}
BY DEF RequestKinds, Route, TurnRoute, SessionRoute, PlayerRoute, Get, Post, Envelopes, Reports, Queries,
       Correlation, Addressed, EnvelopeIds

(* Whatever changes something at the server has a key in its body.         *)
LEMMA RouteKey ==
  ASSUME NEW kind \in RequestKinds, Route(kind).method # "GET", kind \notin Queries
  PROVE  Route(kind).key \in Route(kind).sent \cap {"message_id", "request_id"}
BY DEF RequestKinds, Route, TurnRoute, SessionRoute, PlayerRoute, Get, Post, Envelopes, Reports, Queries,
       Correlation, Addressed, EnvelopeIds

(* Every identifying field that goes out is compared when it comes back,   *)
(* except the session that a hello asks for.                               *)
LEMMA RouteEchoed ==
  ASSUME NEW kind \in RequestKinds
  PROVE  \A f \in Identifying \cap Route(kind).sent : f \in Echoed(kind)
BY DEF RequestKinds, Route, TurnRoute, SessionRoute, PlayerRoute, Get, Post, Envelopes, Reports, Queries,
       Correlation, Addressed, EnvelopeIds, Identifying, Echoed, TurnEchoes, ServiceEchoes, InTurns

-------------------------------------------------------------------------------
(* The exchange                                                            *)

(* The state of the exchange is what its steps so far have made it.        *)
THEOREM Inductive ==
  ASSUME Setting
  PROVE  Spec => []IInv
<1>1. Init => IInv
  BY DEF Init, IInv
<1>2. IInv /\ [Next]_vars => IInv'
  <2> SUFFICES ASSUME IInv, [Next]_vars PROVE IInv'  OBVIOUS
  <2>1. CASE Enqueue
    <3>1. PICK r \in Requests : request' = r /\ UNCHANGED <<wire, answer>> /\ phase = "idle"
                 /\ \/ validateRequest(r) = "ok" /\ phase' = "queued"
                    \/ phase' = "done" /\ result' = Failed(validateRequest(r)) /\ validateRequest(r) # "ok"
      BY <2>1 DEF Enqueue
    <3>2. validateRequest(r) \in {"ok", "refused", "stale_generation"}  BY DEF validateRequest
    <3> QED  BY <3>1, <3>2 DEF IInv, Refused
  <2>2. CASE Send
    <3>1. serializeRequest(request).header = request.id /\ serializeRequest(request) # None
      BY DEF serializeRequest, None
    <3> QED  BY <2>2, <3>1 DEF Send, IInv, Refused
  <2>3. CASE Answer
    BY <2>3 DEF Answer, IInv
  <2>4. CASE Receive
    BY <2>4 DEF Receive, IInv
  <2>5. CASE Take
    BY <2>5 DEF Take, IInv
  <2>6. CASE UNCHANGED vars
    BY <2>6 DEF vars, IInv
  <2> QED  BY <2>1, <2>2, <2>3, <2>4, <2>5, <2>6 DEF Next
<1> QED  BY <1>1, <1>2, PTL DEF Spec

(* A request that was let through says the same in its payload and in its  *)
(* envelope (validateRequest).                                             *)
LEMMA EnvelopeSaid ==
  ASSUME NEW r, r.kind \in RequestKinds, validateRequest(r) = "ok"
  PROVE  /\ "generation" \in Route(r.kind).sent => FieldOf(r, "generation") = Generation
         /\ "session_id" \in Route(r.kind).sent => FieldOf(r, "session_id") = r.session
<1>1. /\ r.generation = Generation /\ SessionNamed(r) /\ Consistent(r)
  BY DEF validateRequest
<1> QED  BY <1>1, RouteNames DEF SessionNamed, Consistent, FieldOf

(* What is on the wire speaks for the envelope that was checked            *)
(* (validateRequest, serializeRequest).                                    *)
THEOREM SentAsItselfHolds ==
  ASSUME Setting
  PROVE  Spec => []SentAsItself
<1>1. ASSUME IInv PROVE SentAsItself
  <2> SUFFICES ASSUME wire # None PROVE SentAsItself  BY DEF SentAsItself
  <2> DEFINE route == Route(request.kind)
  <2>1. request \in Requests /\ validateRequest(request) = "ok" /\ wire = serializeRequest(request)
    BY <1>1 DEF IInv
  <2>2. request.kind \in RequestKinds  BY <2>1 DEF Setting
  <2>3. /\ wire.header = request.id /\ wire.method = route.method
        /\ wire.sent = [f \in route.sent |-> FieldOf(request, f)]
        /\ wire.key = IF route.key = Null THEN Null ELSE request.payload[route.key]
    BY <2>1 DEF serializeRequest
  <2>4. /\ "generation" \in DOMAIN wire.sent => wire.sent.generation = Generation
        /\ "session_id" \in DOMAIN wire.sent => wire.sent.session_id = request.session
    BY <2>1, <2>2, <2>3, EnvelopeSaid
  <2>5. ASSUME wire.method # "GET", request.kind \notin Queries
        PROVE  wire.key \in {wire.sent[f] : f \in DOMAIN wire.sent \cap {"message_id", "request_id"}}
    <3>1. route.key \in route.sent \cap {"message_id", "request_id"}  BY <2>2, <2>3, <2>5, RouteKey
    <3>2. FieldOf(request, route.key) = request.payload[route.key]  BY <3>1 DEF FieldOf
    <3>3. wire.key = request.payload[route.key]  BY <2>3, <3>1 DEF Setting
    <3> QED  BY <2>3, <3>1, <3>2, <3>3
  <2> QED  BY <2>3, <2>4, <2>5 DEF SentAsItself
<1> QED  BY <1>1, Inductive, PTL

(* An accepted answer went through every test of validateResponse.         *)
LEMMA AcceptedPassed ==
  ASSUME IInv, Setting, Accepted
  PROVE  /\ request \in Requests /\ validateRequest(request) = "ok"
         /\ request.kind \in RequestKinds
         /\ wire.sent = [f \in Route(request.kind).sent |-> FieldOf(request, f)]
         /\ request.kind # "media" =>
              /\ Parses(request.kind, answer.body) /\ Matches(request, answer.body)
              /\ result.kind = ResultKind(request.kind)
         /\ request.kind = "media" => result.kind = "media_ready"
<1>1. /\ request \in Requests /\ validateRequest(request) = "ok" /\ wire = serializeRequest(request)
      /\ result = validateResponse(request, wire, answer) /\ result.ok
  BY DEF IInv, Accepted
<1>2. \A code : Failed(code).ok = FALSE  BY DEF Failed
<1>3. ~protocolFailure(request, answer).ok  BY <1>2 DEF protocolFailure
<1>4. \A kind, session, body : Delivered(kind, session, body).kind = kind  BY DEF Delivered
<1>5. wire.sent = [f \in Route(request.kind).sent |-> FieldOf(request, f)]
  BY <1>1 DEF serializeRequest
<1>6. request.kind # "media" => Parses(request.kind, answer.body) /\ Matches(request, answer.body)
  BY <1>1, <1>2, <1>3 DEF validateResponse
<1>7. /\ request.kind # "media" => result.kind = ResultKind(request.kind)
      /\ request.kind = "media" => result.kind = "media_ready"
  BY <1>1, <1>2, <1>3, <1>4 DEF validateResponse
<1> QED  BY <1>1, <1>5, <1>6, <1>7 DEF Setting

(* The client's own codes stand for no code of the server.                 *)
OwnCodes == {"redirect_rejected", "refused"}
LEMMA OwnCodesApart ==
  \A c \in DOMAIN protocolCode : protocolCode[c] \notin OwnCodes
<1> TAKE c \in DOMAIN protocolCode
<1>1. \E e \in DOMAIN ServerCodes : c \in ServerCodes[e]
  <2>1. c \in UNION {ServerCodes[e] : e \in DOMAIN ServerCodes}  BY DEF protocolCode
  <2> QED  BY <2>1
<1>2. protocolCode[c] \in DOMAIN ServerCodes
  <2>1. protocolCode[c] = CHOOSE e \in DOMAIN ServerCodes : c \in ServerCodes[e]  BY DEF protocolCode
  <2> QED  BY <1>1, <2>1
<1> QED  BY <1>2 DEF ServerCodes, OwnCodes

(* The codes of protocolFailure that are believed stand in an answer that  *)
(* names this request.                                                     *)
LEMMA ErrorsOfServer ==
  ASSUME NEW r, NEW w, NEW a, NEW code \in Typed, validateResponse(r, w, a).ok = FALSE,
         validateResponse(r, w, a).code = code
  PROVE  a.body.correlation_id = r.id
<1>1. code \notin OwnCodes \cup {"transport_failure", "invalid_schema", "invalid_argument", "stale_generation"}
  BY OwnCodesApart DEF Typed
<1>2. \A c : Failed(c).code = c  BY DEF Failed
<1>3. \A kind, session, body : Delivered(kind, session, body).ok = TRUE  BY DEF Delivered
<1>4. validateResponse(r, w, a) = protocolFailure(r, a)
  BY <1>1, <1>2, <1>3 DEF validateResponse, OwnCodes
<1> QED  BY <1>1, <1>2, <1>4 DEF protocolFailure, OwnCodes

(* No answer, document or typed error, is taken for the outcome of another *)
(* request (validateResponse, protocolFailure).                            *)
THEOREM OnlyItsOwnAnswerHolds ==
  ASSUME Setting
  PROVE  Spec => []OnlyItsOwnAnswer
<1>1. ASSUME IInv PROVE AnswersItsRequest
  <2> SUFFICES ASSUME Accepted,
                      NEW f \in Identifying \cap DOMAIN wire.sent \cap DOMAIN answer.body
               PROVE  answer.body[f] = wire.sent[f]
    BY DEF AnswersItsRequest
  <2>1. /\ request.kind \in RequestKinds
        /\ wire.sent = [g \in Route(request.kind).sent |-> FieldOf(request, g)]
        /\ request.kind # "media" => Matches(request, answer.body)
    BY <1>1, AcceptedPassed
  <2>2. f \in Route(request.kind).sent /\ f \in Echoed(request.kind)
    BY <2>1, RouteEchoed
  <2>3. request.kind # "media"  BY <2>2 DEF Route, PlayerRoute, Get, Reports
  <2> QED  BY <2>1, <2>2, <2>3 DEF Matches
<1>2. ASSUME IInv PROVE ErrorsAreMine
  <2> SUFFICES ASSUME phase = "done", result.ok = FALSE, result.code \in Typed
               PROVE  answer # None /\ answer.body.correlation_id = wire.header
    BY DEF ErrorsAreMine
  <2>1. ~Refused(result)
    <3>1. \A c : Failed(c).code = c  BY DEF Failed
    <3>2. result.code \notin OwnCodes \cup {"invalid_argument", "stale_generation"}
      BY OwnCodesApart DEF Typed
    <3> QED  BY <3>1, <3>2 DEF Refused, OwnCodes
  <2>2. /\ wire # None /\ answer \in Answers(request) /\ request \in Requests
        /\ result = validateResponse(request, wire, answer) /\ wire = serializeRequest(request)
    BY <1>2, <2>1 DEF IInv
  <2>3. answer # None  BY <2>2 DEF Setting
  <2>4. answer.body.correlation_id = request.id  BY <2>2, ErrorsOfServer
  <2>5. wire.header = request.id  BY <2>2 DEF serializeRequest
  <2> QED  BY <2>3, <2>4, <2>5
<1> QED  BY <1>1, <1>2, Inductive, PTL DEF OnlyItsOwnAnswer

(* A change of the world reaches the native executor only with a policy on *)
(* confirmation, the advanced ones only as the player's, and for the turn  *)
(* of its event (parseActionIntent, parseEvent).                           *)
THEOREM PowerNeedsConsentHolds ==
  ASSUME Setting
  PROVE  Spec => []PowerNeedsConsent
<1>1. ASSUME IInv PROVE PowerNeedsConsent
  <2> SUFFICES ASSUME NEW e \in EventsOf("action.intent"), e.payload.name \in NativeKinds
               PROVE  /\ "confirmation_required" \in DOMAIN e.payload
                      /\ e.payload.name \in Advanced => e.payload.actor.kind = "player"
                      /\ e.payload.turn_id = e.turn_id
    BY DEF PowerNeedsConsent
  <2>1. Accepted /\ request.kind = "event_poll"  BY DEF EventsOf
  <2>2. PICK i \in DOMAIN answer.body.events :
          e = answer.body.events[i] /\ answer.body.events[i].type = "action.intent"
    BY <2>1 DEF EventsOf, Polled
  <2>3. Events(answer.body)  BY <1>1, <2>1, AcceptedPassed DEF Parses
  <2>4. EventPayload(e.payload, e) /\ e.type = "action.intent"  BY <2>2, <2>3 DEF Events, Event
  <2>5. Intent(e.payload, e.turn_id)  BY <2>4 DEF EventPayload
  <2>6. NativeKinds \subseteq Advanced \cup Transfers  BY DEF NativeKinds, Advanced, Transfers
  <2> QED  BY <2>5, <2>6 DEF Intent
<1> QED  BY <1>1, Inductive, PTL

================================================================================
