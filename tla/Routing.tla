-------------------------------- MODULE Routing --------------------------------
(***************************************************************************)
(* From a request on the wire to the arguments of a handler: the routing   *)
(* table of build_app!, the 405 of a path which is served by other         *)
(* methods, and the extractors, whose first refusal is the answer.         *)
(*                                                                         *)
(* A text is a sequence of pieces, with a colon between one piece and the  *)
(* next, because the Basic scheme splits at colons.  A path is the         *)
(* sequence of its segments, each a text with its percent-encoding         *)
(* decoded; an empty segment is <<"">>.                                    *)
(*                                                                         *)
(* A request on the wire is a record with a method, a path, the words of   *)
(* its Authorization header (none when it is missing or not ASCII), the    *)
(* values its query gives for "completed", and a body: a function from     *)
(* field names to values, or NotJson.                                      *)
(***************************************************************************)
EXTENDS Naturals, Sequences, HttpErrors
LOCAL INSTANCE TLC

Seqs == INSTANCE SequencesExt

CONSTANTS
  Absent,    \* Option::None: a field, or a header, which is not given
  NotJson,   \* a body which is no JSON, or whose content type does not say so
  Mistyped,  \* a JSON value which is not of the type its field has
  Numeral,   \* the natural number each text which spells one spells
  MaxI32     \* BOUND: i32::MAX

ASSUME NumberAssumption ==
  MaxI32 \in Nat /\ \A text \in DOMAIN Numeral : Numeral[text] \in Nat

------------------------------------------------------------------------------
(***************************************************************************)
(* The routing table.  A resource is a pattern and its routes, and the     *)
(* resources are tried in the order they are registered.                   *)
(***************************************************************************)
Id == <<"{id}">>
Name == <<"{username}">>

resource(pattern, routes) == [pattern |-> pattern, routes |-> routes]

route(method, handler) == [method |-> method, handler |-> handler]

resources ==
  << resource(<< <<"auth_keys">> >>,
       << route("POST", "create_auth_key"), route("DELETE", "delete_auth_key") >>),
     resource(<< <<"tasks">> >>,
       << route("GET", "get_tasks"), route("POST", "add_task") >>),
     resource(<< <<"tasks">>, Id >>,
       << route("GET", "get_task_by_id"), route("PATCH", "update_task_by_id") >>),
     resource(<< <<"tasks">>, Id, <<"shares">> >>,
       << route("GET", "get_task_shares") >>),
     resource(<< <<"tasks">>, Id, <<"shares">>, Name >>,
       << route("PUT", "put_share"), route("DELETE", "delete_share") >>),
     resource(<< <<"users">> >>, << route("POST", "create_user") >>),
     resource(<< <<"users">>, <<"me">> >>, << route("GET", "get_current_user") >>),
     resource(<< <<"users">>, Id >>, << route("GET", "get_user") >>),
     resource(<< <<"health">> >>, << route("GET", "health") >>) >>

Empty == <<"">>

\* A parameter matches any segment but an empty one.
Matches(pattern, path) ==
  /\ Len(pattern) = Len(path)
  /\ \A i \in DOMAIN path : \/ pattern[i] = path[i]
                            \/ pattern[i] \in {Id, Name} /\ path[i] # Empty

\* Mutant: the resource registered last wins, so /users/{id} claims /users/me.
Claims_LastRegistered(path) ==
  Seqs!SelectLastInSeq(resources, LAMBDA r : Matches(r.pattern, path))

\* The resource which claims a path, 0 when none does.
Claims(path) == Seqs!SelectInSeq(resources, LAMBDA r : Matches(r.pattern, path))

RoutesAt(path) ==
  IF Claims(path) = 0 THEN <<>> ELSE resources[Claims(path)].routes

\* What is registered for a method at a path, 0 when nothing is.
Route(method, path) == Seqs!SelectInSeq(RoutesAt(path), LAMBDA r : r.method = method)

Served(raw) == Route(raw.method, raw.path) # 0

Handler(raw) == RoutesAt(raw.path)[Route(raw.method, raw.path)].handler

------------------------------------------------------------------------------
(***************************************************************************)
(* What is sent: the answer of HttpErrors with the headers routing and     *)
(* creation add.  "json" bodies are objects with a request_id.             *)
(***************************************************************************)
Reply(response, media, allow, location) ==
  [status |-> response.status, challenge |-> response.challenge,
   body |-> response.body, media |-> media, allow |-> allow,
   location |-> location]

Plain(response, media) == Reply(response, media, <<>>, Absent)

method_not_allowed(path) ==
  Reply(Response(405, {}), "json",
        [i \in DOMAIN RoutesAt(path) |-> RoutesAt(path)[i].method], Absent)

unauthorized_error ==
  Plain(with_challenge(Response(401, {}), "invalid_request"), "json")

unauthorized_basic_error ==
  Plain(with_challenge(Response(401, {}), "Basic"), "json")

\* actix-web's own answers: an unknown path, and a path whose parameters
\* cannot be deserialized.
unknown_path == Plain(Response(404, {}), "none")
unusable_path == Plain(Response(404, {}), "text")

query_error_handler == Plain(Response(400, {}), "json")
json_error_handler == Plain(Response(400, {}), "json")

------------------------------------------------------------------------------
(***************************************************************************)
(* The extractors: what each accepts and the fields it gives the handler.  *)
(***************************************************************************)
\* Schemes are compared ignoring ASCII case.
Spellings(scheme) ==
  CASE scheme = "Bearer" -> {"Bearer", "bearer", "BEARER"}
    [] scheme = "Basic" -> {"Basic", "basic", "BASIC"}

\* The header is exactly a scheme and one more word.
Presents(words, scheme) == Len(words) = 2 /\ words[1] \in Spellings(scheme)

\* Mutant: a token without a colon is a username without a password.
Decodes_NoColon(token) == token.base64 /\ token.utf8

\* A Basic token decodes to UTF-8 text which holds a colon.
Decodes(token) == token.base64 /\ token.utf8 /\ Len(token.text) > 1

\* Mutant: the last colon separates the two halves.
into_parts_LastColon(text) ==
  [username |-> Seqs!Front(text), password |-> <<Seqs!Last(text)>>]

\* Only the first colon separates the two halves.
into_parts(text) == [username |-> <<Head(text)>>, password |-> Tail(text)]

\* Mutant: the number is taken modulo the width of an i32.
i32_Wrapping(text) ==
  IF text \in DOMAIN Numeral THEN Numeral[text] % (MaxI32 + 1) ELSE Absent

\* str::parse::<i32>, of the texts which spell no negative number.
i32(text) ==
  IF text \in DOMAIN Numeral /\ Numeral[text] <= MaxI32
  THEN Numeral[text] ELSE Absent

\* Each payload's required and optional fields.
Required(op) ==
  CASE op = "create_user" -> {"username", "password"}
    [] op = "add_task" -> {"title"}
    [] op = "put_share" -> {"permission"}
    [] OTHER -> {}

Optional(op) ==
  CASE op = "add_task" -> {"description"}
    [] op = "update_task_by_id" -> {"completed", "title", "description"}
    [] OTHER -> {}

\* Mutant: a required field may be left out.
Deserializes_Defaulting(body, op) ==
  /\ body # NotJson
  /\ \A f \in (Required(op) \cup Optional(op)) \cap DOMAIN body : body[f] # Mistyped

Deserializes(body, op) ==
  /\ body # NotJson
  /\ \A f \in Required(op) : f \in DOMAIN body /\ body[f] \notin {Absent, Mistyped}
  /\ \A f \in Optional(op) \cap DOMAIN body : body[f] # Mistyped

Accepts(extractor, op, raw) ==
  CASE extractor = "AuthKey" -> Presents(raw.authorization, "Bearer")
    [] extractor = "Credentials" ->
         Presents(raw.authorization, "Basic") /\ Decodes(raw.authorization[2])
    [] extractor = "Path" -> i32(raw.path[2]) # Absent
    [] extractor = "Query" ->
         Len(raw.query) = 0 \/ (Len(raw.query) = 1 /\ raw.query[1] \in {"true", "false"})
    [] extractor = "Json" -> Deserializes(raw.body, op)

Refusal(extractor) ==
  CASE extractor = "AuthKey" -> unauthorized_error
    [] extractor = "Credentials" -> unauthorized_basic_error
    [] extractor = "Path" -> unusable_path
    [] extractor = "Query" -> query_error_handler
    [] extractor = "Json" -> json_error_handler

PathFields(op, path) ==
  CASE op = "get_user" -> [user |-> i32(path[2])]
    [] op \in {"put_share", "delete_share"} ->
         [task |-> i32(path[2]), username |-> path[4]]
    [] OTHER -> [task |-> i32(path[2])]

Fields(extractor, op, raw) ==
  CASE extractor = "AuthKey" -> [key |-> raw.authorization[2]]
    [] extractor = "Credentials" -> into_parts(raw.authorization[2].text)
    [] extractor = "Path" -> PathFields(op, raw.path)
    [] extractor = "Query" ->
         [completed |-> IF raw.query = <<>> THEN Absent ELSE raw.query[1] = "true"]
    [] extractor = "Json" ->
         [f \in Required(op) \cup Optional(op) |->
            IF f \in DOMAIN raw.body THEN raw.body[f] ELSE Absent]

\* The arguments of each handler, in their order.
Extractors(op) ==
  CASE op = "create_user" -> <<"Json">>
    [] op = "create_auth_key" -> <<"Credentials">>
    [] op \in {"delete_auth_key", "get_current_user"} -> <<"AuthKey">>
    [] op = "get_tasks" -> <<"AuthKey", "Query">>
    [] op = "add_task" -> <<"AuthKey", "Json">>
    [] op \in {"get_task_by_id", "get_task_shares", "get_user", "delete_share"} ->
         <<"AuthKey", "Path">>
    [] op \in {"update_task_by_id", "put_share"} -> <<"AuthKey", "Path", "Json">>
    [] op = "health" -> <<>>

\* Mutant: the last refusal is the answer.
FirstRefusal_LastWins(op, raw) ==
  Seqs!SelectLastInSeq(Extractors(op), LAMBDA x : ~Accepts(x, op, raw))

\* The first extractor which refuses, 0 when all accept.
FirstRefusal(op, raw) ==
  Seqs!SelectInSeq(Extractors(op), LAMBDA x : ~Accepts(x, op, raw))

\* What a handler takes up; the health probe's is not one of module Api.
Passes(raw) ==
  Served(raw) /\ Handler(raw) # "health" /\ FirstRefusal(Handler(raw), raw) = 0

\* The handler's arguments, each with the fields its extractor gives it.
Extracted(op, raw) ==
  LET extractors == Seqs!Range(Extractors(op))
      given(f) == {x \in extractors : f \in DOMAIN Fields(x, op, raw)}
      names == UNION {DOMAIN Fields(x, op, raw) : x \in extractors}
  IN [f \in {"op"} \cup names |->
        IF f = "op" THEN op ELSE Fields(CHOOSE x \in given(f) : TRUE, op, raw)[f]]

------------------------------------------------------------------------------
(***************************************************************************)
(* The URIs a 201 names, and the paths a client which follows them asks    *)
(* for.                                                                    *)
(***************************************************************************)
Digits(id) == <<ToString(id)>>

\* What an i32 is formatted as is parsed as this i32 again; the one text with a
\* route of its own among the numbers' is none, nor is an empty segment.
ASSUME DigitsAssumption ==
  /\ \A id \in 0..MaxI32 : Digits(id) \in DOMAIN Numeral /\ Numeral[Digits(id)] = id
  /\ {<<"me">>, Empty} \cap DOMAIN Numeral = {}

auth_key_uri(id) == << <<"auth_keys">>, Digits(id) >>

task_uri(id) == << <<"tasks">>, Digits(id) >>

user_uri(id) == << <<"users">>, Digits(id) >>

\* The username goes into the URI as it is: segments are what it is read as.
share_uri(task, segments) == << <<"tasks">>, Digits(task), <<"shares">> >> \o segments

==============================================================================
