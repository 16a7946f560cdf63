-------------------------------- MODULE Gateway --------------------------------
(***************************************************************************)
(* The whole server as a client meets it: requests on the wire are routed  *)
(* and extracted (module Routing), the ones which get through are handled  *)
(* (module Api), and every answer goes out as a reply with its headers.    *)
(* What is refused before a handler runs never reaches Api.                *)
(***************************************************************************)
EXTENDS Api, Routing

CONSTANTS
  RawRequests,  \* the requests clients send, on the wire
  Unprintable,  \* usernames no header value can hold: control characters
  AsSegments    \* the path segments each username is read as when it is put
                \* into a URI as it is: "a/b" is two, "%62" is "b"

ASSUME OneNoneAssumption == Absent = None

\* Serial columns are i32.
ASSUME SerialAssumption == MaxId \in [Tables -> 0..MaxI32]

\* What a field of a body holds when it is neither left out nor mistyped.
FieldValues(field) ==
  CASE field = "username" -> Usernames \cup {Blank}
    [] field = "password" -> Passwords
    [] field = "title" -> Titles \cup {Blank}
    [] field = "description" -> Descriptions
    [] field = "completed" -> BOOLEAN
    [] field = "permission" -> SharePermission \cup {"unknown"}

\* The texts on the wire are among those the handlers are asked about: the one
\* after "Bearer", the two halves of a Basic token, the name in a path.
WellTyped(raw) ==
  /\ DOMAIN raw.path = 1..Len(raw.path)
  /\ Len(raw.path) = 4 => raw.path[4] \in Usernames \cup {Blank, Empty}
  /\ DOMAIN raw.authorization = 1..Len(raw.authorization)
  /\ Presents(raw.authorization, "Bearer") => raw.authorization[2] \in Keys
  /\ Presents(raw.authorization, "Basic") =>
       LET text == raw.authorization[2].text
       IN /\ text \in Seq(STRING)
          /\ Len(text) > 1 =>
               <<Head(text)>> \in Usernames \cup {Blank} /\ Tail(text) \in Passwords
  /\ raw.body # NotJson =>
       \A f \in DOMAIN raw.body \cap {"username", "password", "title",
                                      "description", "completed", "permission"} :
         raw.body[f] \in FieldValues(f) \cup {Absent, Mistyped}

\* The handlers' requests are those which come from the wire, at least.
ASSUME WireAssumption ==
  \A raw \in RawRequests :
    /\ WellTyped(raw)
    /\ Passes(raw) /\ Extracted(Handler(raw), raw) \in AllRequests =>
         Extracted(Handler(raw), raw) \in Requests

\* A text has a piece at least, and one more for every colon.
ASSUME TextAssumption == Usernames \cup Passwords \subseteq Seq(STRING) \ {<<>>}

ASSUME SegmentAssumption ==
  /\ Unprintable \subseteq Usernames
  /\ DOMAIN AsSegments = Usernames

VARIABLES
  wire,   \* the request a worker has read
  reply   \* the reply it sends

gatewayVars == <<vars, wire, reply>>

------------------------------------------------------------------------------
GatewayInit ==
  /\ Init
  /\ wire = [w \in Workers |-> None]
  /\ reply = [w \in Workers |-> None]

\* Only a key which was drawn, or made up, can be in a header.
OnTheWire(raw) ==
  \A i \in DOMAIN raw.authorization :
    raw.authorization[i] \in Keys \ OtherKeys => raw.authorization[i] \in minted

Arrive(w) ==
  /\ wire[w] = None
  /\ \E raw \in RawRequests : /\ OnTheWire(raw)
                              /\ wire' = [wire EXCEPT ![w] = raw]
  /\ UNCHANGED <<vars, reply>>

Undecided(w) == wire[w] # None /\ pc[w] = "idle" /\ reply[w] = None

SendReply(w, r) == reply' = [reply EXCEPT ![w] = r]

\* No handler is registered: an unknown path, or a method it does not support.
Unrouted(w) ==
  /\ Undecided(w)
  /\ ~Served(wire[w])
  /\ SendReply(w, IF Claims(wire[w].path) = 0
                  THEN unknown_path ELSE method_not_allowed(wire[w].path))
  /\ UNCHANGED <<vars, wire>>

\* An extractor refuses, and the handler never runs.
Unextracted(w) ==
  /\ Undecided(w)
  /\ Served(wire[w])
  /\ LET op == Handler(wire[w])
         i == FirstRefusal(op, wire[w])
     IN /\ i # 0
        /\ SendReply(w, Refusal(Extractors(op)[i]))
  /\ UNCHANGED <<vars, wire>>

health(w) ==
  /\ Undecided(w)
  /\ Served(wire[w])
  /\ Handler(wire[w]) = "health"
  /\ SendReply(w, Plain(Response(200, {}), "none"))
  /\ UNCHANGED <<vars, wire>>

Dispatch(w) ==
  /\ Undecided(w)
  /\ Passes(wire[w])
  /\ Begin(w, Extracted(Handler(wire[w]), wire[w]))
  /\ UNCHANGED <<wire, reply>>

\* What a handler put into the body of a 201.
Made(w) == CHOOSE made \in answer[w].body : TRUE

\* Mutant: the Location of a share is made of the share's id.
Location_ShareId(w) ==
  CASE request[w].op = "create_user" -> user_uri(Made(w).id)
    [] request[w].op = "create_auth_key" -> auth_key_uri(Made(w).id)
    [] request[w].op = "add_task" -> task_uri(Made(w).id)
    [] request[w].op = "put_share" ->
         share_uri(request[w].task, <<Digits(Made(w).id)>>)

Location(w) ==
  CASE request[w].op = "create_user" -> user_uri(Made(w).id)
    [] request[w].op = "create_auth_key" -> auth_key_uri(Made(w).id)
    [] request[w].op = "add_task" -> task_uri(Made(w).id)
    [] request[w].op = "put_share" ->
         share_uri(request[w].task, AsSegments[Made(w).username])

\* The reply a handler's answer goes out as.  A Location which is no header
\* value turns the 201 into actix-web's own 500, after the share was committed.
Outgoing(w) ==
  LET unusable == request[w].op = "put_share" /\ Made(w).username \in Unprintable
  IN CASE answer[w].status = 201 /\ ~unusable ->
            Reply(answer[w], "json", <<>>, Location(w))
       [] answer[w].status = 201 /\ unusable -> Plain(Response(500, {}), "text")
       [] answer[w].status = 204 -> Plain(answer[w], "none")
       [] OTHER -> Plain(answer[w], "json")

Respond(w) ==
  /\ pc[w] = "answered"
  /\ SendReply(w, Outgoing(w))
  /\ Reset(w)
  /\ UNCHANGED wire

\* The reply is sent, and the worker reads the next request.
Sent(w) ==
  /\ reply[w] # None
  /\ wire' = [wire EXCEPT ![w] = None]
  /\ reply' = [reply EXCEPT ![w] = None]
  /\ UNCHANGED vars

\* The process dies with the requests it has read.
Die ==
  /\ \E w \in Workers : wire[w] # None
  /\ Crash \/ ((\A w \in Workers : pc[w] = "idle") /\ UNCHANGED vars)
  /\ wire' = [w \in Workers |-> None]
  /\ reply' = [w \in Workers |-> None]

GatewayNext ==
  \/ \E w \in Workers :
       \/ Arrive(w) \/ Unrouted(w) \/ Unextracted(w) \/ health(w) \/ Dispatch(w)
       \/ (Statement(w) \/ Fail(w)) /\ UNCHANGED <<wire, reply>>
       \/ Respond(w) \/ Sent(w)
  \/ Die
  \/ PassTime /\ UNCHANGED <<wire, reply>>

GatewaySpec == GatewayInit /\ [][GatewayNext]_gatewayVars

------------------------------------------------------------------------------
Locations == {user_uri(i) : i \in 0..MaxI32}
  \cup {auth_key_uri(i) : i \in 0..MaxI32}
  \cup {task_uri(i) : i \in 0..MaxI32}
  \cup {share_uri(i, AsSegments[name]) : i \in 0..MaxI32, name \in Usernames}

Replies ==
  [status : {200, 201, 204, 400, 401, 403, 404, 405, 409, 500},
   challenge : Challenges, body : SUBSET Representations,
   media : {"json", "text", "none"}, allow : Seq({"GET", "POST", "PUT", "PATCH", "DELETE"}),
   location : Locations \cup {Absent}]

\* Every variable has its type, and a worker handles a request only while it
\* has one on the wire and no reply to it.
GatewayTypeOK ==
  /\ TypeOK
  /\ wire \in [Workers -> RawRequests \cup {None}]
  /\ reply \in [Workers -> Replies \cup {None}]
  /\ \A w \in Workers :
       /\ pc[w] # "idle" => wire[w] # None /\ reply[w] = None
       /\ reply[w] # None => wire[w] # None

Replied(w) == reply[w] # None

\* A request is one for these handlers.
Asks(raw, ops) == Served(raw) /\ Handler(raw) \in ops

\* What the README says a header with an auth key is.
BearsAKey(words) ==
  Len(words) = 2 /\ words[1] \in Spellings("Bearer")

TakesAKey ==
  {"delete_auth_key", "get_current_user", "get_user", "get_tasks", "add_task",
   "get_task_by_id", "update_task_by_id", "get_task_shares", "put_share",
   "delete_share"}

\* What a challenge says of the request it answers.
Advises(raw, r) ==
  LET bearing == BearsAKey(raw.authorization)
  IN /\ r.status \in {401, 403} <=> r.challenge # "none"
     /\ r.challenge = "Basic" <=> r.status = 401 /\ Asks(raw, {"create_auth_key"})
     /\ r.challenge = "invalid_request" <=> Asks(raw, TakesAKey) /\ ~bearing
     /\ r.challenge = "invalid_token" =>
          bearing /\ auth_key_to_user(raw.authorization[2]) = {}
     /\ r.status = 403 <=> r.challenge = "insufficient_scope"

\* README.md: the challenge tells the client what to do next.  A 401 or a 403
\* always carries one and nothing else does; only POST /auth_keys offers Basic;
\* invalid_request says exactly that the header holds no key, and is told before
\* the path, the query or the body is looked at; invalid_token says the key was
\* there and does not work; insufficient_scope is the 403's.
ChallengesAdvise == \A w \in Workers : Replied(w) => Advises(wire[w], reply[w])

\* The row an answer is about is the one whose number is in the path.
NamesItsRow(raw, r) ==
  /\ Asks(raw, {"get_task_by_id", "get_user"}) /\ r.status = 200 =>
       \A row \in r.body : row.id = Numeral[raw.path[2]]
  /\ Asks(raw, {"update_task_by_id", "put_share", "delete_share",
                "get_task_shares"}) /\ r.status \in {200, 201, 204} =>
       get_task_by_id(Numeral[raw.path[2]]) # {}

\* A path names at most one task or user, however large the number in it: an
\* answer is about the row with that very number, and a number which is no i32
\* is a path which names nothing, never another row's.
PathsNameTheirRow ==
  \A w \in Workers : Replied(w) => NamesItsRow(wire[w], reply[w])

AsksWhoTheyAre(raw) ==
  /\ raw.method = "GET" /\ raw.path = << <<"users">>, <<"me">> >>
  /\ BearsAKey(raw.authorization)

\* The one account a response is about is the one the key was made for, as far as
\* the key is still there; a key which was never drawn is nobody's.
TellsWho(key, r) ==
  /\ r.status = 200 /\ key \in minted
  /\ \E u \in users : /\ r.body = {UserRepresentation(u)}
                      /\ \A k \in auth_keys : k.key = key => k.user_id = u.id

\* GET /users/me is about the caller and never about a user whose id is "me":
\* whoever presents a key which works is told who they are, and nobody else is,
\* whatever happens to the key and to other accounts meanwhile.
MeIsTheCaller ==
  \A w \in Workers : Replied(w) /\ AsksWhoTheyAre(wire[w]) =>
    LET key == wire[w].authorization[2] IN
      \/ reply[w].status = 500
      \/ reply[w].status = 401 /\ auth_key_to_user(key) = {}
      \/ TellsWho(key, reply[w]) /\ reply[w].media = "json"

\* The header holds the username and the password of this account, joined by a
\* colon.
Holds(words, u) ==
  /\ Presents(words, "Basic") /\ words[2].base64 /\ words[2].utf8
  /\ \E p \in Passwords :
       words[2].text = u.username \o p /\ u.password = hash_password(p)

HasNoColon(name) == Len(name) = 1

\* It is settled what the worker will reply.
Decided(w) == pc[w] = "answered" \/ reply[w] # None

\* This step settles what the reply to a POST /auth_keys will be.
SettlesLogin(w) ==
  /\ wire[w] # None /\ Asks(wire[w], {"create_auth_key"})
  /\ ~Decided(w) /\ Decided(w)'

\* It logs into this account: the key it hands out is the account's.
LogsInto(w, u) ==
  /\ pc'[w] = "answered" /\ answer'[w].status = 201
  /\ \E k \in auth_keys' :
       k.user_id = u.id /\ answer'[w].body = {[id |-> k.id, auth_key |-> k.key]}

FailsToLogIn(w) == pc'[w] = "answered" /\ answer'[w].status = 500

\* POST /auth_keys logs into the account the credentials name, and it is the
\* name without a colon which counts: whoever presents such a name and its
\* password is logged into this very account, colons in the password included,
\* unless the database fails; and a key is handed out only to one who presented
\* such a name and its password, for this account, whichever step settles it.  An
\* account whose name has a colon, which Username::new allows, is therefore logged
\* into by nobody.
AccountsCanLogIn ==
  [][\A w \in Workers : SettlesLogin(w) =>
       LET named == {u \in users : /\ HasNoColon(u.username)
                                   /\ Holds(wire[w].authorization, u)}
       IN /\ \A u \in named : LogsInto(w, u) \/ FailsToLogIn(w)
          /\ pc'[w] = "answered" /\ answer'[w].status = 201 =>
               \E u \in named : LogsInto(w, u)]_gatewayVars

\* README.md: "Creates an auth key for the account the credentials name", where
\* "the username and password are the ones belonging to the account": whoever
\* presents those of an account is logged into one they belong to, unless the
\* database fails.
CredentialsLogIn ==
  [][\A w \in Workers : SettlesLogin(w) =>
       LET named == {u \in users : Holds(wire[w].authorization, u)}
       IN named # {} =>
            FailsToLogIn(w) \/ \E u \in named : LogsInto(w, u)]_gatewayVars

\* Where a request with this method to a URI ends up.
Reaches(method, uri, op, fields) ==
  LET raw == [method |-> method, path |-> uri]
  IN Served(raw) /\ Handler(raw) = op /\ PathFields(op, uri) = fields

\* Whatever a handler created goes out as a 201, and its Location names it:
\* following the one of a task or a user reads that row, the one of a share is
\* where the share is changed and removed, and the one of an auth key is served
\* by nothing, as the README says.
LocationNamesWhatWasMade ==
  \A w \in Workers :
    pc[w] = "answered" /\ answer[w].status = 201 =>
      LET uri == Outgoing(w).location IN
        /\ Outgoing(w).status = 201
        /\ CASE request[w].op = "create_user" ->
                  Reaches("GET", uri, "get_user", [user |-> Made(w).id])
             [] request[w].op = "add_task" ->
                  Reaches("GET", uri, "get_task_by_id", [task |-> Made(w).id])
             [] request[w].op = "put_share" ->
                  Reaches("DELETE", uri, "delete_share",
                          [task |-> request[w].task, username |-> request[w].username])
             [] request[w].op = "create_auth_key" -> Claims(uri) = 0

\* What gets through the gateway is what the handlers take: with the wire and
\* the replies hidden, the server behaves as Api, whose requests are well typed.
ImplementsApi == Spec

==============================================================================
