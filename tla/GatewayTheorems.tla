---------------------------- MODULE GatewayTheorems ----------------------------
(***************************************************************************)
(* The whole server as a client meets it, for any requests on the wire,    *)
(* keys, numbers and bounds.  GInv, the inductive invariant, says that a   *)
(* handler works on what was extracted from the request on the wire, that  *)
(* its answer fits this request, and that a reply which was made is right  *)
(* about the request it answers.  That each stays so while other workers   *)
(* write is due to what the database's rows do: a task stays, and a key    *)
(* which was seen not to work never works again.  ActingInv adds whom a    *)
(* handler's target and its answer are about.                              *)
(***************************************************************************)
EXTENDS Gateway, ApiTheorems, RoutingTheorems

------------------------------------------------------------------------------
\* When nothing is refused every extractor accepts.
LEMMA AllAccept ==
  ASSUME NEW op \in Handlers, NEW raw, FirstRefusal(op, raw) = 0
  PROVE  \A x \in Seqs!Range(Extractors(op)) : Accepts(x, op, raw)
BY Refused, ExtractorsAre DEF Seqs!Range

LEMMA AcceptsAre ==
  ASSUME NEW op, NEW raw
  PROVE  /\ Accepts("AuthKey", op, raw) = Presents(raw.authorization, "Bearer")
         /\ Accepts("Credentials", op, raw) =
              (Presents(raw.authorization, "Basic") /\ Decodes(raw.authorization[2]))
         /\ Accepts("Path", op, raw) = (i32(raw.path[2]) # Absent)
         /\ Accepts("Query", op, raw) =
              (Len(raw.query) = 0
                 \/ (Len(raw.query) = 1 /\ raw.query[1] \in {"true", "false"}))
         /\ Accepts("Json", op, raw) = Deserializes(raw.body, op)
BY Zenon DEF Accepts

LEMMA FieldValuesAre ==
  /\ FieldValues("username") = Usernames \cup {Blank}
  /\ FieldValues("password") = Passwords
  /\ FieldValues("title") = Titles \cup {Blank}
  /\ FieldValues("description") = Descriptions
  /\ FieldValues("completed") = BOOLEAN
  /\ FieldValues("permission") = SharePermission \cup {"unknown"}
BY DEF FieldValues

\* The number in a path which is accepted is its segment's, and an i32.
LEMMA NumberInPath ==
  ASSUME NEW op, NEW raw, Accepts("Path", op, raw)
  PROVE  /\ i32(raw.path[2]) = Numeral[raw.path[2]]
         /\ i32(raw.path[2]) \in 0..MaxI32
<1>1. i32(raw.path[2]) # Absent
  BY AcceptsAre
<1> QED
  BY <1>1, NumberAssumption DEF i32

\* The key which is accepted is the word after "Bearer".
LEMMA KeyPresented ==
  ASSUME NEW op, NEW raw, Accepts("AuthKey", op, raw), WellTyped(raw)
  PROVE  Presents(raw.authorization, "Bearer") /\ raw.authorization[2] \in Keys
BY AcceptsAre DEF WellTyped

LEMMA QueryGiven ==
  ASSUME NEW op, NEW raw
  PROVE  (IF raw.query = <<>> THEN Absent ELSE raw.query[1] = "true")
            \in BOOLEAN \cup {None}
BY OneNoneAssumption

LEMMA CredentialsGiven ==
  ASSUME NEW op, NEW raw, Accepts("Credentials", op, raw), WellTyped(raw)
  PROVE  /\ <<Head(raw.authorization[2].text)>> \in Usernames \cup {Blank}
         /\ Tail(raw.authorization[2].text) \in Passwords
<1>1. Presents(raw.authorization, "Basic") /\ Decodes(raw.authorization[2])
  BY AcceptsAre
<1> QED
  BY <1>1 DEF WellTyped, Decodes

\* What an accepted body gives a payload's field.
LEMMA BodyGiven ==
  ASSUME NEW op, NEW raw, Accepts("Json", op, raw), WellTyped(raw),
         NEW f \in {"username", "password", "title", "description", "completed",
                    "permission"}
  PROVE  /\ f \in Required(op) => Given(raw.body, f) \in FieldValues(f)
         /\ f \in Optional(op) => Given(raw.body, f) \in FieldValues(f) \cup {None}
<1>1. Deserializes(raw.body, op)
  BY AcceptsAre
<1>2. raw.body # NotJson
  BY <1>1 DEF Deserializes
<1>3. f \in DOMAIN raw.body => raw.body[f] \in FieldValues(f) \cup {Absent, Mistyped}
  BY <1>2 DEF WellTyped
<1>4. CASE f \in Required(op)
  BY <1>1, <1>3, <1>4, OneNoneAssumption DEF Deserializes, Given
<1>5. CASE f \in Optional(op)
  BY <1>1, <1>3, <1>5, OneNoneAssumption DEF Deserializes, Given
<1> QED
  BY <1>1, <1>3, <1>4, <1>5, OneNoneAssumption DEF Deserializes, Given

LEMMA RequiredAre ==
  /\ Required("create_user") = {"username", "password"}
  /\ Required("add_task") = {"title"}
  /\ Required("put_share") = {"permission"}
  /\ Optional("add_task") = {"description"}
  /\ Optional("update_task_by_id") = {"completed", "title", "description"}
BY DEF Required, Optional

\* What a handler is given: its kind of request, with the key from the header,
\* the number from the path and the name from the path.
Extracts(raw, r) ==
  /\ r \in AllRequests
  /\ r.op = Handler(raw)
  /\ r.op \in TakesAKey =>
       Presents(raw.authorization, "Bearer") /\ r.key = raw.authorization[2]
  /\ r.op \in {"get_task_by_id", "get_task_shares", "update_task_by_id",
               "put_share", "delete_share"} =>
       r.task = Numeral[raw.path[2]]
  /\ r.op = "get_user" => r.user = Numeral[raw.path[2]]
  /\ r.op \in {"put_share", "delete_share"} => r.username = raw.path[4]

\* What gets through is a request the handlers take, about what is on the wire.
LEMMA Passed ==
  ASSUME NEW raw, WellTyped(raw), Passes(raw), NEW op, op = Handler(raw),
         NEW r, r = Extracted(op, raw)
  PROVE  Extracts(raw, r)
<1>1. op \in Handlers /\ op # "health" /\ FirstRefusal(op, raw) = 0 /\ Served(raw)
  BY HandlersAreNamed DEF Passes
<1>2. \A x \in Seqs!Range(Extractors(op)) : Accepts(x, op, raw)
  BY <1>1, AllAccept
<1>3. op \in {"put_share", "delete_share"} => raw.path[4] \in Usernames \cup {Blank}
  BY <1>1, SharesPath DEF WellTyped
<1>4. CASE op = "create_user"
  <2>1. Accepts("Json", op, raw)
    BY <1>2, <1>4, ExtractorsInRange
  <2>2. r = Extracted("create_user", raw)
    BY <1>4
  <2>3. Given(raw.body, "username") \in FieldValues("username")
    BY <2>1, <1>4, BodyGiven, RequiredAre
  <2>4. Given(raw.body, "password") \in FieldValues("password")
    BY <2>1, <1>4, BodyGiven, RequiredAre
  <2>5. r \in UserRegistration
    BY <2>2, <2>3, <2>4, Arguments_create_user, FieldValuesAre
       DEF UserRegistration
  <2>6. r.op = "create_user"
    BY <2>2, <2>3, <2>4, Arguments_create_user
  <2> QED
    BY <1>4, <2>5, <2>6 DEF Extracts, AllRequests, TakesAKey
<1>5. CASE op = "create_auth_key"
  <2>1. Accepts("Credentials", op, raw)
    BY <1>2, <1>5, ExtractorsInRange
  <2>2. r = Extracted("create_auth_key", raw)
    BY <1>5
  <2> DEFINE username == <<Head(raw.authorization[2].text)>>
             password == Tail(raw.authorization[2].text)
  <2>3. username \in Usernames \cup {Blank} /\ password \in Passwords
    BY <2>1, CredentialsGiven
  <2>4. r = [op |-> "create_auth_key", username |-> username, password |-> password]
    BY <2>2, Arguments_create_auth_key
  <2> HIDE DEF username, password
  <2>5. r \in Credentials
    BY <2>3, <2>4
       DEF Credentials
  <2>6. r.op = "create_auth_key"
    BY <2>3, <2>4
  <2> QED
    BY <1>5, <2>5, <2>6 DEF Extracts, AllRequests, TakesAKey
<1>6. CASE op = "delete_auth_key"
  <2>1. Accepts("AuthKey", op, raw)
    BY <1>2, <1>6, ExtractorsInRange
  <2>2. r = Extracted("delete_auth_key", raw)
    BY <1>6
  <2>3. Presents(raw.authorization, "Bearer") /\ raw.authorization[2] \in Keys
    BY <2>1, KeyPresented
  <2>4. r \in KeyOnly
    BY <2>2, <2>3, Arguments_delete_auth_key
       DEF KeyOnly
  <2>5. /\ r.op = "delete_auth_key"
        /\ r.key = raw.authorization[2]
    BY <2>2, <2>3, Arguments_delete_auth_key
  <2> QED
    BY <1>6, <2>4, <2>5, <2>3 DEF Extracts, AllRequests, TakesAKey
<1>7. CASE op = "get_current_user"
  <2>1. Accepts("AuthKey", op, raw)
    BY <1>2, <1>7, ExtractorsInRange
  <2>2. r = Extracted("get_current_user", raw)
    BY <1>7
  <2>3. Presents(raw.authorization, "Bearer") /\ raw.authorization[2] \in Keys
    BY <2>1, KeyPresented
  <2>4. r \in KeyOnly
    BY <2>2, <2>3, Arguments_get_current_user
       DEF KeyOnly
  <2>5. /\ r.op = "get_current_user"
        /\ r.key = raw.authorization[2]
    BY <2>2, <2>3, Arguments_get_current_user
  <2> QED
    BY <1>7, <2>4, <2>5, <2>3 DEF Extracts, AllRequests, TakesAKey
<1>8. CASE op = "get_user"
  <2>1. Accepts("AuthKey", op, raw) /\ Accepts("Path", op, raw)
    BY <1>2, <1>8, ExtractorsInRange
  <2>2. r = Extracted("get_user", raw)
    BY <1>8
  <2>3. Presents(raw.authorization, "Bearer") /\ raw.authorization[2] \in Keys
    BY <2>1, KeyPresented
  <2>4. i32(raw.path[2]) = Numeral[raw.path[2]] /\ i32(raw.path[2]) \in Nat
    BY <2>1, NumberInPath, NumberAssumption
  <2>5. r \in UserPath
    BY <2>2, <2>3, <2>4, Arguments_get_user
       DEF UserPath
  <2>6. /\ r.op = "get_user"
        /\ r.key = raw.authorization[2]
        /\ r.user = Numeral[raw.path[2]]
    BY <2>2, <2>3, <2>4, Arguments_get_user
  <2> QED
    BY <1>8, <2>5, <2>6, <2>3 DEF Extracts, AllRequests, TakesAKey
<1>9. CASE op = "get_tasks"
  <2>1. Accepts("AuthKey", op, raw) /\ Accepts("Query", op, raw)
    BY <1>2, <1>9, ExtractorsInRange
  <2>2. r = Extracted("get_tasks", raw)
    BY <1>9
  <2>3. Presents(raw.authorization, "Bearer") /\ raw.authorization[2] \in Keys
    BY <2>1, KeyPresented
  <2> DEFINE completed == IF raw.query = <<>> THEN Absent ELSE raw.query[1] = "true"
  <2>4. completed \in BOOLEAN \cup {None}
    BY QueryGiven
  <2>5. r = [op |-> "get_tasks", key |-> raw.authorization[2], completed |-> completed]
    BY <2>2, Arguments_get_tasks
  <2> HIDE DEF completed
  <2>6. r \in TasksQuery
    BY <2>3, <2>4, <2>5
       DEF TasksQuery
  <2>7. /\ r.op = "get_tasks"
        /\ r.key = raw.authorization[2]
    BY <2>3, <2>4, <2>5
  <2> QED
    BY <1>9, <2>6, <2>7, <2>3 DEF Extracts, AllRequests, TakesAKey
<1>10. CASE op = "add_task"
  <2>1. Accepts("AuthKey", op, raw) /\ Accepts("Json", op, raw)
    BY <1>2, <1>10, ExtractorsInRange
  <2>2. r = Extracted("add_task", raw)
    BY <1>10
  <2>3. Presents(raw.authorization, "Bearer") /\ raw.authorization[2] \in Keys
    BY <2>1, KeyPresented
  <2>4. Given(raw.body, "title") \in FieldValues("title")
    BY <2>1, <1>10, BodyGiven, RequiredAre
  <2>5. Given(raw.body, "description") \in FieldValues("description") \cup {None}
    BY <2>1, <1>10, BodyGiven, RequiredAre
  <2>6. r \in AddTaskPayload
    BY <2>2, <2>3, <2>4, <2>5, Arguments_add_task, FieldValuesAre
       DEF AddTaskPayload
  <2>7. /\ r.op = "add_task"
        /\ r.key = raw.authorization[2]
    BY <2>2, <2>3, <2>4, <2>5, Arguments_add_task
  <2> QED
    BY <1>10, <2>6, <2>7, <2>3 DEF Extracts, AllRequests, TakesAKey
<1>11. CASE op = "get_task_by_id"
  <2>1. Accepts("AuthKey", op, raw) /\ Accepts("Path", op, raw)
    BY <1>2, <1>11, ExtractorsInRange
  <2>2. r = Extracted("get_task_by_id", raw)
    BY <1>11
  <2>3. Presents(raw.authorization, "Bearer") /\ raw.authorization[2] \in Keys
    BY <2>1, KeyPresented
  <2>4. i32(raw.path[2]) = Numeral[raw.path[2]] /\ i32(raw.path[2]) \in Nat
    BY <2>1, NumberInPath, NumberAssumption
  <2>5. r \in [op : {"get_task_by_id"}, key : Keys, task : Nat]
    BY <2>2, <2>3, <2>4, Arguments_get_task_by_id
  <2>6. r \in TaskPath
    BY <2>5
       DEF TaskPath
  <2>7. /\ r.op = "get_task_by_id"
        /\ r.key = raw.authorization[2]
        /\ r.task = Numeral[raw.path[2]]
    BY <2>2, <2>3, <2>4, Arguments_get_task_by_id
  <2> QED
    BY <1>11, <2>6, <2>7, <2>3 DEF Extracts, AllRequests, TakesAKey
<1>12. CASE op = "get_task_shares"
  <2>1. Accepts("AuthKey", op, raw) /\ Accepts("Path", op, raw)
    BY <1>2, <1>12, ExtractorsInRange
  <2>2. r = Extracted("get_task_shares", raw)
    BY <1>12
  <2>3. Presents(raw.authorization, "Bearer") /\ raw.authorization[2] \in Keys
    BY <2>1, KeyPresented
  <2>4. i32(raw.path[2]) = Numeral[raw.path[2]] /\ i32(raw.path[2]) \in Nat
    BY <2>1, NumberInPath, NumberAssumption
  <2>5. r \in [op : {"get_task_shares"}, key : Keys, task : Nat]
    BY <2>2, <2>3, <2>4, Arguments_get_task_shares
  <2>6. r \in TaskPath
    BY <2>5
       DEF TaskPath
  <2>7. /\ r.op = "get_task_shares"
        /\ r.key = raw.authorization[2]
        /\ r.task = Numeral[raw.path[2]]
    BY <2>2, <2>3, <2>4, Arguments_get_task_shares
  <2> QED
    BY <1>12, <2>6, <2>7, <2>3 DEF Extracts, AllRequests, TakesAKey
<1>13. CASE op = "update_task_by_id"
  <2>1. Accepts("AuthKey", op, raw) /\ Accepts("Path", op, raw) /\ Accepts("Json", op, raw)
    BY <1>2, <1>13, ExtractorsInRange
  <2>2. r = Extracted("update_task_by_id", raw)
    BY <1>13
  <2>3. Presents(raw.authorization, "Bearer") /\ raw.authorization[2] \in Keys
    BY <2>1, KeyPresented
  <2>4. i32(raw.path[2]) = Numeral[raw.path[2]] /\ i32(raw.path[2]) \in Nat
    BY <2>1, NumberInPath, NumberAssumption
  <2>5. Given(raw.body, "completed") \in FieldValues("completed") \cup {None}
    BY <2>1, <1>13, BodyGiven, RequiredAre
  <2>6. Given(raw.body, "title") \in FieldValues("title") \cup {None}
    BY <2>1, <1>13, BodyGiven, RequiredAre
  <2>7. Given(raw.body, "description") \in FieldValues("description") \cup {None}
    BY <2>1, <1>13, BodyGiven, RequiredAre
  <2>8. r \in UpdateTaskPayload
    BY <2>2, <2>3, <2>4, <2>5, <2>6, <2>7, Arguments_update_task_by_id, FieldValuesAre
       DEF UpdateTaskPayload
  <2>9. /\ r.op = "update_task_by_id"
        /\ r.key = raw.authorization[2]
        /\ r.task = Numeral[raw.path[2]]
    BY <2>2, <2>3, <2>4, <2>5, <2>6, <2>7, Arguments_update_task_by_id
  <2> QED
    BY <1>13, <2>8, <2>9, <2>3 DEF Extracts, AllRequests, TakesAKey
<1>14. CASE op = "put_share"
  <2>1. Accepts("AuthKey", op, raw) /\ Accepts("Path", op, raw) /\ Accepts("Json", op, raw)
    BY <1>2, <1>14, ExtractorsInRange
  <2>2. r = Extracted("put_share", raw)
    BY <1>14
  <2>3. Presents(raw.authorization, "Bearer") /\ raw.authorization[2] \in Keys
    BY <2>1, KeyPresented
  <2>4. i32(raw.path[2]) = Numeral[raw.path[2]] /\ i32(raw.path[2]) \in Nat
    BY <2>1, NumberInPath, NumberAssumption
  <2>5. raw.path[4] \in Usernames \cup {Blank}
    BY <1>3, <1>14
  <2>6. Given(raw.body, "permission") \in FieldValues("permission")
    BY <2>1, <1>14, BodyGiven, RequiredAre
  <2>7. r \in SharePayload
    BY <2>2, <2>3, <2>4, <2>5, <2>6, Arguments_put_share, FieldValuesAre
       DEF SharePayload
  <2>8. /\ r.op = "put_share"
        /\ r.key = raw.authorization[2]
        /\ r.task = Numeral[raw.path[2]]
        /\ r.username = raw.path[4]
    BY <2>2, <2>3, <2>4, <2>5, <2>6, Arguments_put_share
  <2> QED
    BY <1>14, <2>7, <2>8, <2>3 DEF Extracts, AllRequests, TakesAKey
<1>15. CASE op = "delete_share"
  <2>1. Accepts("AuthKey", op, raw) /\ Accepts("Path", op, raw)
    BY <1>2, <1>15, ExtractorsInRange
  <2>2. r = Extracted("delete_share", raw)
    BY <1>15
  <2>3. Presents(raw.authorization, "Bearer") /\ raw.authorization[2] \in Keys
    BY <2>1, KeyPresented
  <2>4. i32(raw.path[2]) = Numeral[raw.path[2]] /\ i32(raw.path[2]) \in Nat
    BY <2>1, NumberInPath, NumberAssumption
  <2>5. raw.path[4] \in Usernames \cup {Blank}
    BY <1>3, <1>15
  <2>6. r \in SharePath
    BY <2>2, <2>3, <2>4, <2>5, Arguments_delete_share
       DEF SharePath
  <2>7. /\ r.op = "delete_share"
        /\ r.key = raw.authorization[2]
        /\ r.task = Numeral[raw.path[2]]
        /\ r.username = raw.path[4]
    BY <2>2, <2>3, <2>4, <2>5, Arguments_delete_share
  <2> QED
    BY <1>15, <2>6, <2>7, <2>3 DEF Extracts, AllRequests, TakesAKey
<1> QED
  BY <1>1, <1>4, <1>5, <1>6, <1>7, <1>8, <1>9, <1>10, <1>11, <1>12, <1>13, <1>14, <1>15 DEF Handlers

------------------------------------------------------------------------------
(***************************************************************************)
(* What a handler's answer says of its request.                            *)
(***************************************************************************)
\* The challenge of an answer, where holders are the users its key works for.
Challenged(r, a, holders) ==
  /\ a.status \in {401, 403} <=> a.challenge # "none"
  /\ a.challenge = "Basic" <=> a.status = 401 /\ r.op = "create_auth_key"
  /\ a.challenge # "invalid_request"
  /\ a.challenge = "invalid_token" => r.op \in TakesAKey /\ holders = {}
  /\ a.status = 403 <=> a.challenge = "insufficient_scope"

\* The rows an answer is about, where found are the tasks its request names.
Named(r, a, found) ==
  /\ r.op = "get_task_by_id" /\ a.status = 200 => \A row \in a.body : row.id = r.task
  /\ r.op = "get_user" /\ a.status = 200 => \A row \in a.body : row.id = r.user
  /\ r.op \in {"update_task_by_id", "put_share", "delete_share", "get_task_shares"}
       /\ a.status \in {200, 201, 204} => found # {}

\* A row a 201 shows can be named by a Location.
MadeFor(r, made) ==
  /\ r.op \in {"create_user", "create_auth_key", "add_task", "put_share"}
  /\ made.id \in 0..MaxI32
  /\ r.op = "put_share" => made.username \in Usernames

MadeOne(r, a) ==
  a.status = 201 => \E made \in a.body : a.body = {made} /\ MadeFor(r, made)

Fits(r, a, holders, found) ==
  Challenged(r, a, holders) /\ Named(r, a, found) /\ MadeOne(r, a)

\* The answer fits the request of this worker, in this state.
FitsFor(w, a) ==
  Fits(request[w], a, auth_key_to_user(request[w].key), get_task_by_id(request[w].task))

\* What is known of a handler besides module ApiTheorems' invariant.
Handling(w) ==
  /\ pc[w] # "idle" => Sendable(request[w])
  /\ pc[w] \in {"load_share", "update_task"} => get_task_by_id(request[w].task) # {}
  /\ pc[w] = "answered" => FitsFor(w, answer[w])

HInv == IInv /\ \A w \in Workers : Handling(w)

\* A handler's step: an answer which fits, or the next statement.
FittingStep(w) ==
  \/ \E a : Answer(w, a) /\ FitsFor(w, a)
  \/ \E l : /\ Continue(w, l) /\ l # "answered"
            /\ l \in {"load_share", "update_task"} => get_task_by_id(request[w].task) # {}

------------------------------------------------------------------------------
\* The challenge of each error.
LEMMA ErrorChallenges ==
  /\ into_http_response("QueryFailed").challenge = "none"
  /\ into_http_response("InvalidData").challenge = "none"
  /\ into_http_response("InvalidAuthKey").challenge = "invalid_token"
  /\ into_http_response("Forbidden").challenge = "insufficient_scope"
  /\ into_http_response("NotFound").challenge = "none"
  /\ into_http_response("UserExists").challenge = "none"
  /\ into_basic_http_response("InvalidPassword").challenge = "Basic"
  /\ with_challenge(Response(401, {}), "Basic").challenge = "Basic"
<1>1. ASSUME NEW status, NEW challenge
      PROVE  /\ status \in {401, 403} =>
                  with_challenge(Response(status, {}), challenge).challenge = challenge
             /\ status \notin {401, 403} =>
                  with_challenge(Response(status, {}), challenge).challenge = "none"
  <2>1. Response(status, {}) =
          [status |-> status, challenge |-> "none", body |-> {}]
    BY DEF Response
  <2> QED
    BY <2>1 DEF with_challenge
<1>2. /\ into_status_response("QueryFailed") = Response(500, {})
      /\ into_status_response("InvalidData") = Response(400, {})
      /\ into_status_response("InvalidAuthKey") = Response(401, {})
      /\ into_status_response("InvalidPassword") = Response(401, {})
  BY DEF into_status_response
<1>3. /\ into_status_response("Forbidden") = Response(403, {})
      /\ into_status_response("NotFound") = Response(404, {})
      /\ into_status_response("UserExists") = Response(409, {})
  BY DEF into_status_response
<1>4. /\ bearer_challenge("InvalidAuthKey") = "invalid_token"
      /\ bearer_challenge("Forbidden") = "insufficient_scope"
  BY DEF bearer_challenge
<1>5. /\ 401 \in {401, 403} /\ 403 \in {401, 403} /\ 400 \notin {401, 403}
      /\ 404 \notin {401, 403} /\ 409 \notin {401, 403} /\ 500 \notin {401, 403}
  OBVIOUS
<1>6. /\ into_http_response("QueryFailed").challenge = "none"
      /\ into_http_response("InvalidData").challenge = "none"
  BY <1>1, <1>2, <1>5 DEF into_http_response
<1>7. /\ into_http_response("NotFound").challenge = "none"
      /\ into_http_response("UserExists").challenge = "none"
  BY <1>1, <1>3, <1>5 DEF into_http_response
<1>8. into_http_response("InvalidAuthKey").challenge = "invalid_token"
  <2>1. into_http_response("InvalidAuthKey") =
          with_challenge(Response(401, {}), "invalid_token")
    BY <1>2, <1>4 DEF into_http_response
  <2> QED
    BY <1>1, <1>5, <2>1
<1>10. into_http_response("Forbidden").challenge = "insufficient_scope"
  <2>1. into_http_response("Forbidden") =
          with_challenge(Response(403, {}), "insufficient_scope")
    BY <1>3, <1>4 DEF into_http_response
  <2> QED
    BY <1>1, <1>5, <2>1
<1>9. /\ into_basic_http_response("InvalidPassword").challenge = "Basic"
      /\ with_challenge(Response(401, {}), "Basic").challenge = "Basic"
  BY <1>1, <1>2, <1>5 DEF into_basic_http_response
<1> QED
  BY <1>6, <1>7, <1>8, <1>9, <1>10

LEMMA Statuses ==
  ASSUME NEW s
  PROVE  /\ s \in {401, 403} => s \notin {200, 201, 204}
         /\ s = 401 => s # 403 /\ s \in {401, 403}
         /\ s = 403 => s # 401 /\ s \in {401, 403}
         /\ s \in {400, 404, 409, 500} => s \notin {401, 403, 200, 201, 204}
OBVIOUS

LEMMA Unauthorized ==
  ASSUME NEW a, a.status = 401
  PROVE  a.status \notin {200, 201, 204} /\ a.status # 403 /\ a.status \in {401, 403}
BY Statuses

LEMMA Denied ==
  ASSUME NEW a, a.status = 403
  PROVE  a.status \notin {200, 201, 204} /\ a.status # 401 /\ a.status \in {401, 403}
BY Statuses

LEMMA FailureFits ==
  ASSUME NEW a, a.status \in {400, 404, 409, 500}, a.challenge = "none",
         NEW r, NEW holders, NEW found
  PROVE  Fits(r, a, holders, found)
<1>1. Challenged(r, a, holders)
  BY DEF Challenged
<1>2. Named(r, a, found) /\ MadeOne(r, a)
  BY DEF Named, MadeOne
<1> QED
  BY <1>1, <1>2 DEF Fits

LEMMA KeyRefusalFits ==
  ASSUME NEW a, a.status = 401, a.challenge = "invalid_token",
         NEW r, r.op \in TakesAKey, NEW found
  PROVE  Fits(r, a, {}, found)
<1>1. r.op # "create_auth_key"
  BY DEF TakesAKey
<1>2. a.status \notin {200, 201, 204} /\ a.status # 403 /\ a.status \in {401, 403}
  BY Unauthorized
<1>3. Challenged(r, a, {})
  BY <1>1, <1>2 DEF Challenged
<1>4. Named(r, a, found) /\ MadeOne(r, a)
  BY <1>2 DEF Named, MadeOne
<1> QED
  BY <1>3, <1>4 DEF Fits

LEMMA ForbiddenFits ==
  ASSUME NEW a, a.status = 403, a.challenge = "insufficient_scope",
         NEW r, NEW holders, NEW found
  PROVE  Fits(r, a, holders, found)
<1>1. a.status \notin {200, 201, 204} /\ a.status # 401 /\ a.status \in {401, 403}
  BY Denied
<1>2. Challenged(r, a, holders)
  BY <1>1 DEF Challenged
<1>3. Named(r, a, found) /\ MadeOne(r, a)
  BY <1>1 DEF Named, MadeOne
<1> QED
  BY <1>2, <1>3 DEF Fits

LEMMA LoginRefusalFits ==
  ASSUME NEW a, a.status = 401, a.challenge = "Basic",
         NEW r, r.op = "create_auth_key", NEW holders, NEW found
  PROVE  Fits(r, a, holders, found)
<1>1. a.status \notin {200, 201, 204} /\ a.status # 403 /\ a.status \in {401, 403}
  BY Unauthorized
<1>2. Challenged(r, a, holders)
  BY <1>1 DEF Challenged
<1>3. Named(r, a, found) /\ MadeOne(r, a)
  BY <1>1 DEF Named, MadeOne
<1> QED
  BY <1>2, <1>3 DEF Fits

LEMMA SuccessFits ==
  ASSUME NEW status \in {200, 201, 204}, NEW body, NEW r, NEW holders, NEW found,
         Named(r, Response(status, body), found),
         status = 201 => \E made : body = {made} /\ MadeFor(r, made)
  PROVE  Fits(r, Response(status, body), holders, found)
<1>1. /\ Response(status, body).status = status
      /\ Response(status, body).challenge = "none"
      /\ Response(status, body).body = body
  BY DEF Response
<1>2. Challenged(r, Response(status, body), holders)
  BY <1>1 DEF Challenged
<1>3. MadeOne(r, Response(status, body))
  BY <1>1 DEF MadeOne
<1> QED
  BY <1>2, <1>3 DEF Fits

LEMMA FailedFits ==
  ASSUME NEW w \in Workers
  PROVE  FitsFor(w, into_http_response("QueryFailed"))
<1> DEFINE a == into_http_response("QueryFailed")
<1>1. a.status \in {400, 404, 409, 500} /\ a.challenge = "none"
  BY ErrorAnswers, ErrorChallenges
<1> HIDE DEF a
<1>2. FitsFor(w, a)
  BY <1>1, FailureFits DEF FitsFor
<1> QED
  BY <1>2 DEF a

LEMMA WriteFits ==
  ASSUME NEW w \in Workers, NEW a, AnswerWrite(w, a), FitsFor(w, a)
  PROVE  FittingStep(w)
BY FailedFits DEF AnswerWrite, FittingStep

------------------------------------------------------------------------------
(***************************************************************************)
(* The statements, one by one.                                             *)
(***************************************************************************)
LEMMA KeyedRequests ==
  ASSUME NEW r \in Requests
  PROVE  /\ "authenticate" \in Statements(r.op) => r.op \in TakesAKey
         /\ r.op \in TakesAKey => "key" \in DOMAIN r
<1>1. r.op \in {"create_user", "create_auth_key", "delete_auth_key"}
        => "authenticate" \notin Statements(r.op)
  BY DEF Statements
<1>2. "authenticate" \in Statements(r.op) => r.op \in TakesAKey
  BY <1>1, RequestKinds DEF TakesAKey
<1>3. r.op \in TakesAKey => "key" \in DOMAIN r
  BY RequestKinds DEF TakesAKey, KeyOnly, TasksQuery, AddTaskPayload, TaskPath,
     UpdateTaskPayload, SharePayload, SharePath, UserPath
<1> QED
  BY <1>2, <1>3

\* What is known of a worker which is at a statement.
LEMMA AtStatement ==
  ASSUME HInv, NEW w \in Workers, Busy(w)
  PROVE  /\ IInv /\ request[w] \in Requests /\ ~Invalid(request[w])
         /\ pc[w] \in Statements(request[w].op)
         /\ Sendable(request[w]) /\ Handling(w)
BY Serving DEF HInv, Handling, Busy

LEMMA AuthenticateFits ==
  ASSUME HInv, NEW w \in Workers, Authenticate(w)
  PROVE  FittingStep(w)
<1> DEFINE r == request[w]
<1>1. /\ Busy(w) /\ IInv /\ r \in Requests
      /\ "authenticate" \in Statements(r.op)
  BY AtStatement DEF Authenticate, Busy
<1>2. r.op \in TakesAKey
  BY <1>1, KeyedRequests
<1>3. CASE auth_key_to_user(r.key) = {}
           /\ Answer(w, into_http_response("InvalidAuthKey"))
  <2> DEFINE a == into_http_response("InvalidAuthKey")
  <2>1. a.status = 401 /\ a.challenge = "invalid_token"
    BY ErrorAnswers, ErrorChallenges
  <2> HIDE DEF a
  <2>2. FitsFor(w, a)
    BY <1>2, <1>3, <2>1, KeyRefusalFits DEF FitsFor
  <2> QED
    BY <1>3, <2>2 DEF FittingStep, a
<1>4. ASSUME NEW user, r.op = "get_current_user",
             Answer(w, Response(200, {UserRepresentation(user)}))
      PROVE  FittingStep(w)
  <2> DEFINE body == {UserRepresentation(user)}
  <2> HIDE DEF body
  <2>1. FitsFor(w, Response(200, body))
    BY <1>4, SuccessFits DEF FitsFor, Named
  <2> QED
    BY <1>4, <2>1 DEF FittingStep, body
<1>5. ASSUME r.op # "get_current_user", Continue(w, AfterAuthentication(r.op))
      PROVE  FittingStep(w)
  <2> DEFINE l == AfterAuthentication(r.op)
  <2>1. l \notin {"answered", "update_task", "load_share"}
    <3> USE DEF AfterAuthentication, TakesAKey
    <3>1. CASE r.op \in {"get_tasks", "add_task", "get_user"}
      BY <3>1
    <3>2. CASE r.op \in {"get_task_by_id", "update_task_by_id"}
      BY <3>2
    <3>3. CASE r.op \in {"get_task_shares", "put_share", "delete_share"}
      BY <3>3
    <3>4. r.op # "delete_auth_key"
      BY <1>1 DEF Statements
    <3> QED
      BY <3>1, <3>2, <3>3, <3>4, <1>2, <1>5
  <2> HIDE DEF l
  <2> QED
    BY <1>5, <2>1 DEF FittingStep, l
<1> QED
  BY <1>3, <1>4, <1>5 DEF Authenticate

LEMMA FailureAnswers ==
  ASSUME NEW w \in Workers, NEW e \in {"InvalidData", "QueryFailed", "NotFound", "UserExists"},
         Answer(w, into_http_response(e))
  PROVE  FittingStep(w)
<1> DEFINE a == into_http_response(e)
<1>1. a.status \in {400, 404, 409, 500} /\ a.challenge = "none"
  BY ErrorAnswers, ErrorChallenges
<1> HIDE DEF a
<1>2. FitsFor(w, a)
  BY <1>1, FailureFits DEF FitsFor
<1> QED
  BY <1>2 DEF FittingStep, a

LEMMA ForbiddenAnswers ==
  ASSUME NEW w \in Workers, Answer(w, into_http_response("Forbidden"))
  PROVE  FittingStep(w)
<1> DEFINE a == into_http_response("Forbidden")
<1>1. a.status = 403 /\ a.challenge = "insufficient_scope"
  BY ErrorAnswers, ErrorChallenges
<1> HIDE DEF a
<1>2. FitsFor(w, a)
  BY <1>1, ForbiddenFits DEF FitsFor
<1> QED
  BY <1>2 DEF FittingStep, a

\* A 201 shows one row, with an id its table's serial column has drawn.
LEMMA MadeFits ==
  ASSUME NEW w \in Workers, NEW made, MadeFor(request[w], made),
         request[w].op = "put_share" => get_task_by_id(request[w].task) # {}
  PROVE  FitsFor(w, Response(201, {made}))
<1>1. Named(request[w], Response(201, {made}), get_task_by_id(request[w].task))
  <2>1. Response(201, {made}).status = 201 /\ 201 # 200
    BY DEF Response
  <2>2. request[w].op \in {"create_user", "create_auth_key", "add_task", "put_share"}
    BY DEF MadeFor
  <2> QED
    BY <2>1, <2>2 DEF Named
<1> QED
  BY <1>1, SuccessFits DEF FitsFor

LEMMA IdsAreSerial ==
  ASSUME IInv, NEW table \in Tables, HasIds(table)
  PROVE  next_id(table) \in 0..MaxI32
BY SerialAssumption, NumberAssumption DEF IInv, TypeOK, TypedDatabase, HasIds, next_id

LEMMA InsertUserFits ==
  ASSUME HInv, NEW w \in Workers, InsertUser(w)
  PROVE  FittingStep(w)
<1> DEFINE r == request[w]
           row == [id |-> next_id("users"), username |-> Varchar255[r.username],
                   password |-> hash_password(r.password)]
           made == UserRepresentation(row)
<1>1. /\ Busy(w) /\ IInv /\ r \in Requests /\ pc[w] \in Statements(r.op)
      /\ pc[w] = "insert_user" /\ HasIds("users")
  BY AtStatement DEF InsertUser, Busy
<1>2. r.op = "create_user"
  BY <1>1, ServedOperation
<1>3. made.id \in 0..MaxI32
  BY <1>1, IdsAreSerial DEF UserRepresentation, Tables
<1>4. \/ Answer(w, into_http_response("QueryFailed"))
      \/ Answer(w, into_http_response("UserExists"))
      \/ AnswerWrite(w, Response(201, {made}))
  BY DEF InsertUser
<1> HIDE DEF made
<1>5. MadeFor(r, made)
  BY <1>2, <1>3 DEF MadeFor
<1>6. FitsFor(w, Response(201, {made}))
  BY <1>2, <1>5, MadeFits
<1> QED
  BY <1>4, <1>6, WriteFits, FailureAnswers

LEMMA FindAccountFits ==
  ASSUME HInv, NEW w \in Workers, FindAccount(w)
  PROVE  FittingStep(w)
<1>1. /\ Busy(w) /\ request[w] \in Requests /\ pc[w] \in Statements(request[w].op)
      /\ pc[w] = "find_account"
  BY AtStatement DEF FindAccount, Busy
<1>2. request[w].op = "create_auth_key"
  BY <1>1, ServedOperation
<1>3. ASSUME NEW a, Answer(w, a),
             \/ a = with_challenge(Response(401, {}), "Basic")
             \/ a = into_basic_http_response("InvalidPassword")
      PROVE  FittingStep(w)
  <2>1. a.status = 401 /\ a.challenge = "Basic"
    BY <1>3, ErrorAnswers, ErrorChallenges
  <2>2. FitsFor(w, a)
    BY <1>2, <2>1, LoginRefusalFits DEF FitsFor
  <2> QED
    BY <1>3, <2>2 DEF FittingStep
<1>4. ASSUME Continue(w, "insert_key")
      PROVE  FittingStep(w)
  BY <1>4 DEF FittingStep
<1> QED
  BY <1>3, <1>4 DEF FindAccount

LEMMA InsertKeyFits ==
  ASSUME HInv, NEW w \in Workers, InsertKey(w)
  PROVE  FittingStep(w)
<1>1. /\ Busy(w) /\ IInv /\ request[w] \in Requests
      /\ pc[w] \in Statements(request[w].op)
      /\ pc[w] = "insert_key" /\ HasIds("auth_keys")
  BY AtStatement DEF InsertKey, Busy
<1>2. request[w].op = "create_auth_key"
  BY <1>1, ServedOperation
<1>3. PICK made : /\ made.id = next_id("auth_keys")
                  /\ AnswerWrite(w, Response(201, {made}))
  BY DEF InsertKey
<1>4. made.id \in 0..MaxI32
  BY <1>1, <1>3, IdsAreSerial DEF Tables
<1>5. MadeFor(request[w], made)
  BY <1>2, <1>4 DEF MadeFor
<1>6. FitsFor(w, Response(201, {made}))
  BY <1>2, <1>5, MadeFits
<1> QED
  BY <1>3, <1>6, WriteFits

\* An answer without a row of its own.
LEMMA PlainFits ==
  ASSUME NEW w \in Workers, NEW status \in {200, 204}, NEW body,
         Named(request[w], Response(status, body), get_task_by_id(request[w].task))
  PROVE  FitsFor(w, Response(status, body))
<1>1. status # 201 /\ status \in {200, 201, 204}
  OBVIOUS
<1> QED
  BY <1>1, SuccessFits DEF FitsFor

LEMMA DeleteKeyFits ==
  ASSUME HInv, NEW w \in Workers, DeleteKey(w)
  PROVE  FittingStep(w)
<1>1. /\ Busy(w) /\ request[w] \in Requests /\ pc[w] \in Statements(request[w].op)
      /\ pc[w] = "delete_key"
  BY AtStatement DEF DeleteKey, Busy
<1>2. request[w].op = "delete_auth_key"
  BY <1>1, ServedOperation
<1>3. FitsFor(w, Response(204, {}))
  BY <1>2, PlainFits DEF Named
<1> QED
  BY <1>3, WriteFits DEF DeleteKey

LEMMA FindUserFits ==
  ASSUME HInv, NEW w \in Workers, FindUser(w)
  PROVE  FittingStep(w)
<1>1. /\ Busy(w) /\ request[w] \in Requests /\ pc[w] \in Statements(request[w].op)
      /\ pc[w] = "find_user"
  BY AtStatement DEF FindUser, Busy
<1>2. request[w].op = "get_user"
  BY <1>1, ServedOperation
<1>3. ASSUME NEW user \in get_user_by_id(request[w].user),
             Answer(w, Response(200, {UserRepresentation(user)}))
      PROVE  FittingStep(w)
  <2> DEFINE made == UserRepresentation(user)
  <2>1. made.id = request[w].user
    BY <1>3 DEF get_user_by_id, UserRepresentation
  <2> HIDE DEF made
  <2>2. Response(200, {made}).body = {made}
    BY DEF Response
  <2>3. Named(request[w], Response(200, {made}), get_task_by_id(request[w].task))
    BY <1>2, <2>1, <2>2 DEF Named
  <2>4. FitsFor(w, Response(200, {made}))
    BY <2>3, PlainFits
  <2> QED
    BY <1>3, <2>4 DEF FittingStep, made
<1> QED
  BY <1>3, FailureAnswers DEF FindUser

LEMMA ListTasksFits ==
  ASSUME HInv, NEW w \in Workers, ListTasks(w)
  PROVE  FittingStep(w)
<1>1. /\ Busy(w) /\ request[w] \in Requests /\ pc[w] \in Statements(request[w].op)
      /\ pc[w] = "list_tasks"
  BY AtStatement DEF ListTasks, Busy
<1>2. request[w].op = "get_tasks"
  BY <1>1, ServedOperation
<1>3. PICK body : Answer(w, Response(200, body))
  BY DEF ListTasks
<1>4. FitsFor(w, Response(200, body))
  BY <1>2, PlainFits DEF Named
<1> QED
  BY <1>3, <1>4 DEF FittingStep

LEMMA InsertTaskFits ==
  ASSUME HInv, NEW w \in Workers, InsertTask(w)
  PROVE  FittingStep(w)
<1>1. /\ Busy(w) /\ IInv /\ request[w] \in Requests
      /\ pc[w] \in Statements(request[w].op)
      /\ pc[w] = "insert_task" /\ HasIds("tasks")
  BY AtStatement DEF InsertTask, Busy
<1>2. request[w].op = "add_task"
  BY <1>1, ServedOperation
<1>3. PICK made : /\ made.id = next_id("tasks")
                  /\ AnswerWrite(w, Response(201, {made}))
  BY DEF InsertTask
<1>4. made.id \in 0..MaxI32
  BY <1>1, <1>3, IdsAreSerial DEF Tables
<1>5. MadeFor(request[w], made)
  BY <1>2, <1>4 DEF MadeFor
<1>6. FitsFor(w, Response(201, {made}))
  BY <1>2, <1>5, MadeFits
<1> QED
  BY <1>3, <1>6, WriteFits

LEMMA LoadTaskFits ==
  ASSUME HInv, NEW w \in Workers, LoadTask(w)
  PROVE  FittingStep(w)
<1>1. into_http_response(HideMissing("NotFound")) = into_http_response("Forbidden")
  BY DEF HideMissing
<1>2. Permitted(request[w].op) # "answered"
  <2>1. /\ Busy(w) /\ request[w] \in Requests /\ pc[w] \in Statements(request[w].op)
        /\ pc[w] = "load_task"
    BY AtStatement DEF LoadTask, Busy
  <2>2. request[w].op \in {"get_task_by_id", "update_task_by_id"}
    BY <2>1, ServedOperation
  <2> QED
    BY <2>2 DEF Permitted
<1>3. ASSUME get_task_by_id(request[w].task) # {},
             NEW l \in {Permitted(request[w].op), "load_share"}, Continue(w, l)
      PROVE  FittingStep(w)
  BY <1>2, <1>3 DEF FittingStep
<1> QED
  BY <1>1, <1>3, ForbiddenAnswers DEF LoadTask

LEMMA LoadShareFits ==
  ASSUME HInv, NEW w \in Workers, LoadShare(w)
  PROVE  FittingStep(w)
<1>1. /\ Busy(w) /\ request[w] \in Requests /\ pc[w] \in Statements(request[w].op)
      /\ pc[w] = "load_share" /\ get_task_by_id(request[w].task) # {}
  BY AtStatement DEF LoadShare, Busy, Handling
<1>2. Permitted(request[w].op) # "answered"
  <2>1. request[w].op \in {"get_task_by_id", "update_task_by_id"}
    BY <1>1, ServedOperation
  <2> QED
    BY <2>1 DEF Permitted
<1>3. ASSUME Continue(w, Permitted(request[w].op))
      PROVE  FittingStep(w)
  BY <1>1, <1>2, <1>3 DEF FittingStep
<1> QED
  BY <1>3, ForbiddenAnswers DEF LoadShare

LEMMA ReadTaskFits ==
  ASSUME HInv, NEW w \in Workers, ReadTask(w)
  PROVE  FittingStep(w)
<1>1. /\ Busy(w) /\ request[w] \in Requests /\ pc[w] \in Statements(request[w].op)
      /\ pc[w] = "read_task"
  BY AtStatement DEF ReadTask, Busy
<1>2. request[w].op = "get_task_by_id"
  BY <1>1, ServedOperation
<1>3. PICK task \in get_task_by_id(request[w].task) : Answer(w, Response(200, {task}))
  BY DEF ReadTask
<1>4. Response(200, {task}).body = {task} /\ task.id = request[w].task
  BY DEF Response, get_task_by_id
<1>5. Named(request[w], Response(200, {task}), get_task_by_id(request[w].task))
  BY <1>2, <1>4 DEF Named
<1>6. FitsFor(w, Response(200, {task}))
  BY <1>5, PlainFits
<1> QED
  BY <1>3, <1>6 DEF FittingStep

LEMMA UpdateTaskFits ==
  ASSUME HInv, NEW w \in Workers, UpdateTask(w)
  PROVE  FittingStep(w)
<1>1. /\ Busy(w) /\ request[w] \in Requests /\ pc[w] \in Statements(request[w].op)
      /\ pc[w] = "update_task" /\ get_task_by_id(request[w].task) # {}
  BY AtStatement DEF UpdateTask, Busy, Handling
<1>2. request[w].op = "update_task_by_id"
  BY <1>1, ServedOperation
<1>3. FitsFor(w, Response(200, {}))
  BY <1>1, <1>2, PlainFits DEF Named
<1> QED
  BY <1>3, WriteFits DEF UpdateTask

\* A handler past require_task_owner knows that the task is there.
LEMMA OwnedTaskIsThere ==
  ASSUME IInv, NEW w \in Workers, pc[w] \in AfterOwner
  PROVE  get_task_by_id(request[w].task) # {}
BY DEF IInv, HandlersKnowledgeHolds, Knowledge, get_task_by_id

LEMMA CheckOwnerFits ==
  ASSUME HInv, NEW w \in Workers, CheckOwner(w)
  PROVE  FittingStep(w)
<1>1. ASSUME NEW l \in {"list_shares", "find_target"}, Continue(w, l)
      PROVE  FittingStep(w)
  BY <1>1 DEF FittingStep
<1> QED
  BY <1>1, ForbiddenAnswers DEF CheckOwner

LEMMA ListSharesFits ==
  ASSUME HInv, NEW w \in Workers, ListShares(w)
  PROVE  FittingStep(w)
<1>1. /\ Busy(w) /\ IInv /\ request[w] \in Requests
      /\ pc[w] \in Statements(request[w].op) /\ pc[w] = "list_shares"
  BY AtStatement DEF ListShares, Busy
<1>2. request[w].op = "get_task_shares" /\ get_task_by_id(request[w].task) # {}
  BY <1>1, ServedOperation, OwnedTaskIsThere DEF AfterOwner
<1>3. PICK body : Answer(w, Response(200, body))
  BY DEF ListShares
<1>4. FitsFor(w, Response(200, body))
  BY <1>2, PlainFits DEF Named
<1> QED
  BY <1>3, <1>4 DEF FittingStep

LEMMA FindTargetFits ==
  ASSUME HInv, NEW w \in Workers, FindTarget(w)
  PROVE  FittingStep(w)
<1>1. ASSUME NEW l \in {"upsert_share", "delete_share"}, Continue(w, l)
      PROVE  FittingStep(w)
  BY <1>1 DEF FittingStep
<1> QED
  BY <1>1, FailureAnswers DEF FindTarget

LEMMA UpsertShareFits ==
  ASSUME HInv, NEW w \in Workers, UpsertShare(w)
  PROVE  FittingStep(w)
<1>1. /\ Busy(w) /\ IInv /\ request[w] \in Requests
      /\ pc[w] \in Statements(request[w].op) /\ pc[w] = "upsert_share"
      /\ HasIds("task_shares")
  BY AtStatement DEF UpsertShare, Busy
<1>2. request[w].op = "put_share" /\ get_task_by_id(request[w].task) # {}
  BY <1>1, ServedOperation, OwnedTaskIsThere DEF AfterOwner
<1>3. target[w] \in User
  BY <1>1, TargetIsKnown DEF AfterTarget
<1>4. \/ \E made : /\ made.id = next_id("task_shares")
                   /\ made.username = target[w].username
                   /\ AnswerWrite(w, Response(201, {made}))
      \/ \E body : AnswerWrite(w, Response(200, body))
  <2> DEFINE present == conflict(request[w].task, target[w].id)
             row == [id |-> next_id("task_shares"), task_id |-> request[w].task,
                     user_id |-> target[w].id, permission |-> request[w].permission]
             shown(share) == Share([row EXCEPT !.id = share.id], target[w])
  <2>1. /\ Share(row, target[w]).id = next_id("task_shares")
        /\ Share(row, target[w]).username = target[w].username
    BY DEF Share
  <2>2. \/ AnswerWrite(w, Response(201, {Share(row, target[w])}))
        \/ \E share \in present : AnswerWrite(w, Response(200, {shown(share)}))
    BY DEF UpsertShare
  <2> HIDE DEF row, shown, present
  <2> QED
    BY <2>1, <2>2
<1>5. ASSUME NEW made, made.id = next_id("task_shares"),
             made.username = target[w].username,
             AnswerWrite(w, Response(201, {made}))
      PROVE  FittingStep(w)
  <2>1. made.id \in 0..MaxI32
    BY <1>1, <1>5, IdsAreSerial DEF Tables
  <2>2. made.username \in Usernames
    BY <1>3, <1>5 DEF User
  <2>3. MadeFor(request[w], made)
    BY <1>2, <2>1, <2>2 DEF MadeFor
  <2>4. FitsFor(w, Response(201, {made}))
    BY <1>2, <2>3, MadeFits
  <2> QED
    BY <1>5, <2>4, WriteFits
<1>6. ASSUME NEW body, AnswerWrite(w, Response(200, body))
      PROVE  FittingStep(w)
  <2>1. FitsFor(w, Response(200, body))
    BY <1>2, PlainFits DEF Named
  <2> QED
    BY <1>6, <2>1, WriteFits
<1> QED
  BY <1>4, <1>5, <1>6

LEMMA DeleteShareFits ==
  ASSUME HInv, NEW w \in Workers, DeleteShare(w)
  PROVE  FittingStep(w)
<1>1. /\ Busy(w) /\ IInv /\ request[w] \in Requests
      /\ pc[w] \in Statements(request[w].op) /\ pc[w] = "delete_share"
  BY AtStatement DEF DeleteShare, Busy
<1>2. request[w].op = "delete_share" /\ get_task_by_id(request[w].task) # {}
  BY <1>1, ServedOperation, OwnedTaskIsThere DEF AfterOwner
<1>3. FitsFor(w, Response(204, {}))
  BY <1>2, PlainFits DEF Named
<1> QED
  BY <1>3, WriteFits DEF DeleteShare

LEMMA StatementFits ==
  ASSUME HInv, NEW w \in Workers, Statement(w)
  PROVE  FittingStep(w)
BY AuthenticateFits, InsertUserFits, FindAccountFits, InsertKeyFits,
   DeleteKeyFits, FindUserFits, ListTasksFits, InsertTaskFits, LoadTaskFits,
   LoadShareFits, ReadTaskFits, UpdateTaskFits, CheckOwnerFits, ListSharesFits,
   FindTargetFits, UpsertShareFits, DeleteShareFits
   DEF Statement

------------------------------------------------------------------------------
(***************************************************************************)
(* What an answer says stays true while it waits to be sent: a key which   *)
(* does not work never works again, and a task never goes away.            *)
(***************************************************************************)
LEMMA ClockRuns ==
  ASSUME IInv, [Next]_vars
  PROVE  now' \in Nat /\ now <= now'
<1>1. now \in Nat /\ now + 1 \in Nat /\ now <= now /\ now <= now + 1
  BY DEF IInv, TypeOK
<1>2. ASSUME NEW w \in Workers, Writing(w)
      PROVE  now' = now
  BY <1>2 DEF Writing, InsertUser, insert_user, DrawUserId, InsertKey,
     insert_auth_key, DeleteKey, revoke_auth_key, InsertTask, insert_task,
     UpdateTask, update_task, UpsertShare, insert_share, replace_share,
     DeleteShare, delete_share, database
<1>3. ASSUME NEW w \in Workers, Statement(w), ~Writing(w)
      PROVE  now' = now
  BY <1>3 DEF Statement, Writing, Authenticate, FindAccount, FindUser, ListTasks,
     LoadTask, LoadShare, ReadTask, CheckOwner, ListShares, FindTarget, database
<1>4. ASSUME NEW w \in Workers, Receive(w) \/ Fail(w) \/ Deliver(w)
      PROVE  now' = now
  BY <1>4 DEF Receive, Begin, Fail, Deliver, Reset, database
<1>5. Crash \/ UNCHANGED vars => now' = now
  BY DEF Crash, vars, database
<1>6. PassTime => now' = now + 1
  BY DEF PassTime, Tick
<1> QED
  BY <1>1, <1>2, <1>3, <1>4, <1>5, <1>6 DEF Next

\* A key which was drawn, or which a client made up, stays without a user.
LEMMA DeadKeysStayDead ==
  ASSUME IInv, [Next]_vars, NEW key \in minted \cup OtherKeys,
         auth_key_to_user(key) = {}
  PROVE  {u \in users' : \E k \in auth_keys' : /\ k.key = key
                                               /\ k.user_id = u.id
                                               /\ k.expiration > now'} = {}
<1> SUFFICES ASSUME NEW k \in auth_keys', k.key = key, k.expiration > now'
             PROVE  FALSE
  OBVIOUS
<1>1. k \in auth_keys
  BY StepsAreDurable DEF Durable
<1>2. now \in Nat /\ now' \in Nat /\ now <= now' /\ k.expiration \in Nat
  BY <1>1, ClockRuns DEF IInv, TypeOK, TypedDatabase, AuthKey
<1>3. k.expiration > now
  BY <1>2
<1>4. PICK u \in users : k.user_id = u.id
  BY <1>1 DEF IInv, Integrity, ConsistentDatabase, KeysReferToUsers
<1>5. u \in auth_key_to_user(key)
  BY <1>1, <1>3, <1>4 DEF auth_key_to_user
<1> QED
  BY <1>5

LEMMA TasksStay ==
  ASSUME IInv, [Next]_vars, NEW id, get_task_by_id(id) # {}
  PROVE  {t \in tasks' : t.id = id} # {}
BY StepsAreDurable DEF Durable, Lasting, get_task_by_id

LEMMA FitsStill ==
  ASSUME NEW r, NEW a, NEW holders, NEW found, Fits(r, a, holders, found),
         NEW later, r.op \in TakesAKey /\ holders = {} => later = {},
         NEW there, found # {} => there # {}
  PROVE  Fits(r, a, later, there)
BY DEF Fits, Challenged, Named

\* A worker which waits, or which has just answered, still has an answer which
\* fits its request.
LEMMA AnswersStillFit ==
  ASSUME IInv, [Next]_vars, NEW w \in Workers, request[w] \in Requests,
         Sendable(request[w]), request'[w] = request[w],
         FitsFor(w, answer'[w])
  PROVE  FitsFor(w, answer[w])'
<1> DEFINE r == request[w]
           holders == auth_key_to_user(r.key)
           found == get_task_by_id(r.task)
           later == {u \in users' : \E k \in auth_keys' : /\ k.key = r.key
                                                          /\ k.user_id = u.id
                                                          /\ k.expiration > now'}
           there == {t \in tasks' : t.id = r.task}
<1>1. r.op \in TakesAKey => r.key \in minted \cup OtherKeys
  BY KeyedRequests DEF Sendable
<1>2. r.op \in TakesAKey /\ holders = {} => later = {}
  BY <1>1, DeadKeysStayDead
<1>3. found # {} => there # {}
  BY TasksStay
<1>4. Fits(r, answer'[w], holders, found)
  BY DEF FitsFor
<1>5. Fits(r, answer'[w], later, there)
  <2> HIDE DEF r, holders, found, later, there
  <2> QED
    BY <1>2, <1>3, <1>4, FitsStill
<1>6. auth_key_to_user(request[w].key)' = later /\ get_task_by_id(request[w].task)' = there
  BY DEF auth_key_to_user, get_task_by_id
<1>7. Fits(request'[w], answer'[w], auth_key_to_user(request[w].key)',
           get_task_by_id(request[w].task)')
  <2> HIDE DEF later, there
  <2> QED
    BY <1>5, <1>6
<1> QED
  BY <1>7 DEF FitsFor, Fits, Challenged, Named, MadeOne, MadeFor

LEMMA StatementsKeepRequests ==
  ASSUME NEW w \in Workers, Statement(w) \/ Fail(w)
  PROVE  UNCHANGED request /\ Busy(w)
BY DEF Statement, Fail, Busy, Authenticate, InsertUser, FindAccount, InsertKey,
   DeleteKey, FindUser, ListTasks, InsertTask, LoadTask, LoadShare, ReadTask,
   UpdateTask, CheckOwner, ListShares, FindTarget, UpsertShare, DeleteShare

LEMMA FailFits ==
  ASSUME NEW w \in Workers, Fail(w)
  PROVE  FittingStep(w)
BY FailureAnswers DEF Fail

\* A handler's own step.
LEMMA StepHandling ==
  ASSUME HInv, [Next]_vars, NEW w \in Workers, Busy(w), FittingStep(w),
         UNCHANGED request
  PROVE  Handling(w)'
<1>1. IInv /\ request[w] \in Requests /\ Sendable(request[w])
  BY AtStatement
<1>2. Sendable(request[w])'
  BY <1>1, StepsAreDurable DEF Sendable, Durable
<1>3. ASSUME NEW a, Answer(w, a), FitsFor(w, a)
      PROVE  Handling(w)'
  <2>1. pc'[w] = "answered" /\ answer'[w] = a
    BY <1>1, <1>3 DEF Answer, IInv, TypeOK
  <2>2. FitsFor(w, answer[w])'
    BY <1>1, <1>3, <2>1, AnswersStillFit
  <2> QED
    BY <1>2, <2>1, <2>2 DEF Handling
<1>4. ASSUME NEW l, Continue(w, l), l # "answered",
             l \in {"load_share", "update_task"} => get_task_by_id(request[w].task) # {}
      PROVE  Handling(w)'
  <2>1. pc'[w] = l
    BY <1>1, <1>4 DEF Continue, IInv, TypeOK
  <2>2. l \in {"load_share", "update_task"} => get_task_by_id(request[w].task)' # {}
    BY <1>1, <1>4, TasksStay DEF get_task_by_id
  <2> QED
    BY <1>2, <1>4, <2>1, <2>2 DEF Handling
<1> QED
  BY <1>3, <1>4 DEF FittingStep

\* A step of another worker, of the clock or of nobody.
LEMMA WaitHandling ==
  ASSUME HInv, [Next]_vars, NEW w \in Workers,
         pc'[w] = pc[w], request'[w] = request[w], answer'[w] = answer[w]
  PROVE  Handling(w)'
<1>1. IInv /\ Handling(w)
  BY DEF HInv
<1>2. CASE pc[w] = "idle"
  BY <1>2 DEF Handling
<1>3. CASE pc[w] # "idle"
  <2>1. request[w] \in Requests /\ Sendable(request[w])
    BY <1>1, <1>3 DEF IInv, TypeOK, ThreadOK, Handling
  <2>2. Sendable(request[w])'
    BY <1>1, <2>1, StepsAreDurable DEF Sendable, Durable
  <2>3. pc'[w] \in {"load_share", "update_task"} => get_task_by_id(request[w].task)' # {}
    BY <1>1, TasksStay DEF get_task_by_id, Handling
  <2>4. pc'[w] = "answered" => FitsFor(w, answer[w])'
    BY <1>1, <2>1, AnswersStillFit DEF Handling
  <2> QED
    BY <2>2, <2>3, <2>4 DEF Handling
<1> QED
  BY <1>2, <1>3

\* A request which arrives.
LEMMA ReceiveHandling ==
  ASSUME HInv, [Next]_vars, NEW w \in Workers, NEW r \in Requests, Sendable(r),
         Begin(w, r)
  PROVE  Handling(w)'
<1>1. IInv /\ request'[w] = r /\ UNCHANGED database
  BY DEF Begin, HInv, IInv, TypeOK
<1>2. Sendable(request[w])'
  BY <1>1 DEF Sendable, database
<1>3. CASE Answer(w, into_http_response("InvalidData"))
  <2> DEFINE a == into_http_response("InvalidData")
  <2>1. pc'[w] = "answered" /\ answer'[w] = a
    BY <1>1, <1>3 DEF Answer, IInv, TypeOK
  <2>2. a.status \in {400, 404, 409, 500} /\ a.challenge = "none"
    BY ErrorAnswers, ErrorChallenges
  <2> HIDE DEF a
  <2>3. Fits(request'[w], answer'[w], auth_key_to_user(request[w].key)',
             get_task_by_id(request[w].task)')
    BY <2>1, <2>2, FailureFits
  <2>4. FitsFor(w, answer[w])'
    BY <2>3 DEF FitsFor, Fits, Challenged, Named, MadeOne, MadeFor
  <2> QED
    BY <1>2, <2>1, <2>4 DEF Handling
<1>4. CASE Continue(w, FirstStatement(r.op))
  <2> DEFINE l == FirstStatement(r.op)
  <2>1. l \in {"insert_user", "find_account", "delete_key", "authenticate"}
    BY DEF FirstStatement
  <2> HIDE DEF l
  <2>2. pc'[w] = l
    BY <1>1, <1>4 DEF Continue, IInv, TypeOK, l
  <2> QED
    BY <1>2, <2>1, <2>2 DEF Handling
<1> QED
  BY <1>3, <1>4 DEF Begin

\* Every step of module Api keeps what is known of the handlers.
LEMMA HandlingStep ==
  ASSUME HInv, [Next]_vars
  PROVE  HInv'
<1>1. IInv /\ IInv'
  BY NextKeepsIInv DEF HInv
<1>2. ASSUME NEW w \in Workers, Receive(w) \/ Statement(w) \/ Fail(w) \/ Deliver(w)
      PROVE  \A v \in Workers : Handling(v)'
  <2>1. \A v \in Workers \ {w} : Handling(v)'
    BY <1>1, <1>2, OthersWaitForOne, WaitHandling DEF OthersWait
  <2>2. ASSUME Receive(w)
        PROVE  Handling(w)'
    BY <2>2, ReceiveHandling DEF Receive
  <2>3. ASSUME Statement(w) \/ Fail(w)
        PROVE  Handling(w)'
    BY <2>3, StatementsKeepRequests, StatementFits, FailFits, StepHandling
  <2>4. ASSUME Deliver(w)
        PROVE  Handling(w)'
    <3>1. pc'[w] = "idle"
      BY <2>4, <1>1 DEF Deliver, Reset, IInv, TypeOK
    <3> QED
      BY <3>1 DEF Handling
  <2> QED
    BY <1>2, <2>1, <2>2, <2>3, <2>4
<1>3. CASE Crash
  <2>1. \A w \in Workers : pc'[w] = "idle"
    BY <1>3 DEF Crash
  <2> QED
    BY <1>1, <2>1 DEF HInv, Handling
<1>4. CASE PassTime \/ UNCHANGED vars
  <2>1. UNCHANGED threads
    BY <1>4 DEF PassTime, vars, threads
  <2> QED
    BY <1>1, <2>1, WaitHandling DEF threads, HInv
<1> QED
  BY <1>1, <1>2, <1>3, <1>4 DEF Next, HInv

LEMMA HandlingStarts ==
  ASSUME Init
  PROVE  HInv
BY InitialIInv DEF Init, HInv, Handling

------------------------------------------------------------------------------
(***************************************************************************)
(* The gateway's invariant.                                                *)
(***************************************************************************)
\* A request which was read is one clients send, and its key is still known.
Arrived(w) == wire[w] # None => wire[w] \in RawRequests /\ OnTheWire(wire[w])

\* A handler works on what was extracted from the request on the wire.
TakesUp(w) ==
  pc[w] # "idle" =>
    /\ wire[w] # None /\ reply[w] = None
    /\ Passes(wire[w])
    /\ request[w] = Extracted(Handler(wire[w]), wire[w])

\* A reply is to the request on the wire, and right about it.
RepliesTo(w) ==
  reply[w] # None =>
    /\ wire[w] # None
    /\ Advises(wire[w], reply[w])
    /\ NamesItsRow(wire[w], reply[w])

GInv ==
  /\ HInv
  /\ wire \in [Workers -> RawRequests \cup {None}]
  /\ reply \in [Workers -> Replies \cup {None}]
  /\ \A w \in Workers : Arrived(w) /\ TakesUp(w) /\ RepliesTo(w)

------------------------------------------------------------------------------
(***************************************************************************)
(* Every step of the gateway is one of the handlers', or none of theirs.   *)
(***************************************************************************)
LEMMA SecondWord ==
  ASSUME NEW raw, WellTyped(raw), Presents(raw.authorization, "Bearer")
  PROVE  raw.authorization[2] \in Keys /\ 2 \in DOMAIN raw.authorization
<1>1. DOMAIN raw.authorization = 1..Len(raw.authorization)
      /\ raw.authorization[2] \in Keys
  BY DEF WellTyped
<1>2. Len(raw.authorization) = 2
  BY DEF Presents
<1> QED
  BY <1>1, <1>2

LEMMA KeyOfRequest ==
  ASSUME NEW r \in Requests, "key" \in DOMAIN r
  PROVE  r.op \in TakesAKey
<1>1. r \notin UserRegistration \cup Credentials
  BY DEF UserRegistration, Credentials
<1> QED
  BY <1>1, RequestKinds DEF TakesAKey

\* Where the wire meets the handlers: what gets through is one of their
\* requests, and a key in it was drawn or made up before.
LEMMA DispatchIsReceive ==
  ASSUME GInv, NEW w \in Workers, wire[w] # None, Passes(wire[w]),
         NEW r, r = Extracted(Handler(wire[w]), wire[w])
  PROVE  r \in Requests /\ Sendable(r) /\ Extracts(wire[w], r)
<1> DEFINE raw == wire[w]
<1>1. raw \in RawRequests /\ OnTheWire(raw)
  BY DEF GInv, Arrived
<1>2. WellTyped(raw)
  BY <1>1, WireAssumption
<1>3. Extracts(raw, r)
  BY <1>2, Passed
<1>4. r \in AllRequests
  BY <1>3 DEF Extracts
<1>5. r \in Requests
  BY <1>1, <1>4, WireAssumption
<1>6. ASSUME "key" \in DOMAIN r
      PROVE  r.key \in minted \cup OtherKeys
  <2>1. r.op \in TakesAKey
    BY <1>5, <1>6, KeyOfRequest
  <2>2. Presents(raw.authorization, "Bearer") /\ r.key = raw.authorization[2]
    BY <1>3, <2>1 DEF Extracts
  <2>3. raw.authorization[2] \in Keys /\ 2 \in DOMAIN raw.authorization
    BY <1>2, <2>2, SecondWord
  <2> QED
    BY <1>1, <2>2, <2>3 DEF OnTheWire
<1> QED
  BY <1>3, <1>5, <1>6 DEF Sendable

\* The step of the refinement: hiding the wire and the replies, a step of the
\* gateway is one of module Api or none.
LEMMA GatewayStepIsStep ==
  ASSUME GInv, [GatewayNext]_gatewayVars
  PROVE  [Next]_vars
<1>1. ASSUME NEW w \in Workers, Dispatch(w)
      PROVE  Next
  <2>1. wire[w] # None /\ Passes(wire[w]) /\ Begin(w, Extracted(Handler(wire[w]), wire[w]))
    BY <1>1 DEF Dispatch, Undecided
  <2>2. Receive(w)
    BY <2>1, DispatchIsReceive DEF Receive
  <2> QED
    BY <2>2 DEF Next
<1>2. ASSUME NEW w \in Workers, Respond(w)
      PROVE  Next
  BY <1>2 DEF Respond, Deliver, Next
<1>3. ASSUME NEW w \in Workers,
             Arrive(w) \/ Unrouted(w) \/ Unextracted(w) \/ health(w) \/ Sent(w)
      PROVE  UNCHANGED vars
  BY <1>3 DEF Arrive, Unrouted, Unextracted, health, Sent
<1>4. ASSUME NEW w \in Workers, Statement(w) \/ Fail(w)
      PROVE  Next
  BY <1>4 DEF Next
<1>5. Die => Next \/ UNCHANGED vars
  BY DEF Die, Next
<1>6. PassTime => Next
  BY DEF Next
<1>7. UNCHANGED gatewayVars => UNCHANGED vars
  BY DEF gatewayVars
<1> QED
  BY <1>1, <1>2, <1>3, <1>4, <1>5, <1>6, <1>7 DEF GatewayNext

------------------------------------------------------------------------------
(***************************************************************************)
(* What was read, and what is replied, stays right.                        *)
(***************************************************************************)
\* A key in the header of a request which was read is known.
LEMMA KeysOnTheWire ==
  ASSUME NEW raw \in RawRequests, OnTheWire(raw), BearsAKey(raw.authorization)
  PROVE  raw.authorization[2] \in minted \cup OtherKeys
<1>1. WellTyped(raw)
  BY WireAssumption
<1>2. Presents(raw.authorization, "Bearer")
  BY DEF Presents, BearsAKey
<1>3. raw.authorization[2] \in Keys /\ 2 \in DOMAIN raw.authorization
  BY <1>1, <1>2, SecondWord
<1> QED
  BY <1>3 DEF OnTheWire

LEMMA ArrivedStays ==
  ASSUME GInv, [Next]_vars, NEW w \in Workers, wire'[w] = wire[w]
  PROVE  Arrived(w)'
<1>1. minted \subseteq minted'
  BY StepsAreDurable DEF GInv, HInv, Durable
<1> QED
  BY <1>1 DEF GInv, Arrived, OnTheWire

\* A reply which is right stays right, whatever the others write meanwhile.
LEMMA RepliesStayRight ==
  ASSUME GInv, [Next]_vars, NEW w \in Workers, wire[w] # None, wire'[w] = wire[w],
         Advises(wire[w], reply'[w]), NamesItsRow(wire[w], reply'[w])
  PROVE  RepliesTo(w)'
<1> DEFINE raw == wire[w]
<1>1. IInv /\ raw \in RawRequests /\ OnTheWire(raw)
  BY DEF GInv, HInv, Arrived
<1>2. Advises(wire[w], reply[w])'
  <2>1. BearsAKey(raw.authorization) /\ auth_key_to_user(raw.authorization[2]) = {}
          => auth_key_to_user(wire[w].authorization[2])' = {}
    BY <1>1, KeysOnTheWire, DeadKeysStayDead DEF auth_key_to_user
  <2> QED
    BY <2>1 DEF Advises
<1>3. NamesItsRow(wire[w], reply[w])'
  <2>1. get_task_by_id(Numeral[raw.path[2]]) # {}
          => get_task_by_id(Numeral[wire[w].path[2]])' # {}
    BY <1>1, TasksStay DEF get_task_by_id
  <2> QED
    BY <2>1 DEF NamesItsRow
<1> QED
  BY <1>2, <1>3 DEF RepliesTo

LEMMA RepliesStand ==
  ASSUME GInv, [Next]_vars, NEW w \in Workers,
         wire'[w] = wire[w], reply'[w] = reply[w]
  PROVE  RepliesTo(w)'
<1>1. RepliesTo(w)
  BY DEF GInv
<1>2. CASE reply[w] = None
  BY <1>2 DEF RepliesTo
<1>3. CASE reply[w] # None
  <2>1. wire[w] # None /\ Advises(wire[w], reply'[w]) /\ NamesItsRow(wire[w], reply'[w])
    BY <1>1, <1>3 DEF RepliesTo
  <2> QED
    BY <2>1, RepliesStayRight
<1> QED
  BY <1>2, <1>3

LEMMA TakesUpStays ==
  ASSUME GInv, NEW w \in Workers,
         wire'[w] = wire[w], reply'[w] = reply[w], request'[w] = request[w],
         pc[w] = "idle" => pc'[w] = "idle"
  PROVE  TakesUp(w)'
<1>1. TakesUp(w)
  BY DEF GInv
<1> QED
  BY <1>1 DEF TakesUp

------------------------------------------------------------------------------
(***************************************************************************)
(* The replies, as they are made.                                          *)
(***************************************************************************)
\* A reply has its type and is right about the request.
Right(raw, r) == r \in Replies /\ Advises(raw, r) /\ NamesItsRow(raw, r)

MediaTypes == {"json", "text", "none"}

\* An answer a reply can be made of.
Sound(a) ==
  /\ a.status \in {200, 201, 204, 400, 401, 403, 404, 405, 409, 500}
  /\ a.challenge \in Challenges
  /\ a.body \in SUBSET Representations

LEMMA ReplyFields ==
  ASSUME NEW response, NEW media, NEW allow, NEW location
  PROVE  /\ Reply(response, media, allow, location).status = response.status
         /\ Reply(response, media, allow, location).challenge = response.challenge
         /\ Reply(response, media, allow, location).body = response.body
BY DEF Reply

LEMMA ReplyIsTyped ==
  ASSUME NEW a, Sound(a), NEW media \in MediaTypes, NEW allow \in Seq(Methods),
         NEW location \in Locations \cup {Absent}
  PROVE  Reply(a, media, allow, location) \in Replies
BY DEF Reply, Replies, Sound, MediaTypes, Methods

LEMMA PlainIsTyped ==
  ASSUME NEW a, Sound(a), NEW media \in MediaTypes
  PROVE  /\ Plain(a, media) \in Replies
         /\ Plain(a, media).status = a.status
         /\ Plain(a, media).challenge = a.challenge
         /\ Plain(a, media).body = a.body
<1>1. <<>> \in Seq(Methods) /\ Absent \in Locations \cup {Absent}
  OBVIOUS
<1>2. Reply(a, media, <<>>, Absent) \in Replies
  BY <1>1, ReplyIsTyped
<1> QED
  BY <1>2, ReplyFields DEF Plain

\* An answer without a challenge, to a request whose key, if its handler takes
\* one, is in the header.
LEMMA Unchallenged ==
  ASSUME NEW raw, NEW r, r.status \notin {401, 403}, r.challenge = "none",
         Asks(raw, TakesAKey) => BearsAKey(raw.authorization)
  PROVE  Advises(raw, r)
BY DEF Advises

LEMMA Unsuccessful ==
  ASSUME NEW raw, NEW r, r.status \notin {200, 201, 204}
  PROVE  NamesItsRow(raw, r)
BY DEF NamesItsRow

LEMMA FailuresAreRight ==
  ASSUME NEW raw, NEW r \in Replies, r.status \in {400, 404, 405, 500},
         r.challenge = "none",
         Asks(raw, TakesAKey) => BearsAKey(raw.authorization)
  PROVE  Right(raw, r)
<1>1. r.status \notin {401, 403} /\ r.status \notin {200, 201, 204}
  OBVIOUS
<1> QED
  BY <1>1, Unchallenged, Unsuccessful DEF Right

LEMMA EmptyResponses ==
  ASSUME NEW status
  PROVE  /\ Response(status, {}).status = status
         /\ Response(status, {}).challenge = "none"
         /\ Response(status, {}).body = {}
BY DEF Response

LEMMA PlainFailuresAreRight ==
  ASSUME NEW raw, NEW status \in {400, 404, 500}, NEW media \in MediaTypes,
         Asks(raw, TakesAKey) => BearsAKey(raw.authorization)
  PROVE  Right(raw, Plain(Response(status, {}), media))
<1> DEFINE a == Response(status, {})
           r == Plain(a, media)
<1>1. a.status = status /\ a.challenge = "none" /\ a.body = {}
  BY EmptyResponses
<1> HIDE DEF a
<1>2. Sound(a)
  BY <1>1 DEF Sound, Challenges
<1>3. r \in Replies /\ r.status = status /\ r.challenge = "none"
  BY <1>1, <1>2, PlainIsTyped
<1> HIDE DEF r
<1>4. r.status \in {400, 404, 405, 500}
  BY <1>3
<1>5. Right(raw, r)
  BY <1>3, <1>4, FailuresAreRight
<1> QED
  BY <1>5 DEF r, a

\* What routing refuses: 404 for an unknown path, 405 with the path's methods.
LEMMA UnroutedIsRight ==
  ASSUME NEW raw, ~Served(raw)
  PROVE  /\ Right(raw, unknown_path)
         /\ Claims(raw.path) # 0 => Right(raw, method_not_allowed(raw.path))
<1>1. ~Asks(raw, TakesAKey)
  BY DEF Asks
<1>2. Right(raw, unknown_path)
  <2>1. "none" \in MediaTypes /\ 404 \in {400, 404, 500}
    BY DEF MediaTypes
  <2> QED
    BY <1>1, <2>1, PlainFailuresAreRight DEF unknown_path
<1>3. ASSUME Claims(raw.path) # 0
      PROVE  Right(raw, method_not_allowed(raw.path))
  <2> DEFINE a == Response(405, {})
             r == method_not_allowed(raw.path)
  <2>1. RoutesAt(raw.path) = Routes(Claims(raw.path)) /\ Claims(raw.path) \in 1..9
    BY <1>3, Claimed DEF RoutesAt, Routes
  <2>2. MethodsIn(RoutesAt(raw.path)) \in Seq(Methods)
    BY <2>1, MethodsOfRoutes
  <2>3. a.status = 405 /\ a.challenge = "none" /\ a.body = {}
    BY EmptyResponses
  <2>4. r = Reply(a, "json", MethodsIn(RoutesAt(raw.path)), Absent)
    BY DEF method_not_allowed, MethodsIn
  <2> HIDE DEF a, r
  <2>5. Sound(a) /\ "json" \in MediaTypes /\ Absent \in Locations \cup {Absent}
    BY <2>3 DEF Sound, Challenges, MediaTypes
  <2>6. r \in Replies /\ r.status = 405 /\ r.challenge = "none"
    BY <2>2, <2>3, <2>4, <2>5, ReplyIsTyped, ReplyFields
  <2>7. r.status \in {400, 404, 405, 500}
    BY <2>6
  <2>8. Right(raw, r)
    BY <1>1, <2>6, <2>7, FailuresAreRight
  <2> QED
    BY <2>8 DEF r
<1> QED
  BY <1>2, <1>3

\* Who refuses first.  The key is looked at before anything else, and the
\* credentials are asked for by POST /auth_keys only.
LEMMA WhoRefuses ==
  ASSUME NEW op \in Handlers, NEW raw, NEW i, i = FirstRefusal(op, raw), i # 0,
         NEW x, x = Extractors(op)[i]
  PROVE  /\ ~Accepts(x, op, raw)
         /\ \/ x = "AuthKey" /\ op \in TakesAKey
            \/ x = "Credentials" /\ op = "create_auth_key"
            \/ /\ x \in {"Path", "Query", "Json"}
               /\ op \in TakesAKey => Accepts("AuthKey", op, raw)
<1> DEFINE s == Extractors(op)
<1>1. /\ i \in 1..Len(s) /\ ~Accepts(s[i], op, raw)
      /\ \A j \in 1..Len(s) : j < i => Accepts(s[j], op, raw)
  BY Refused
<1>2. ASSUME op \in TakesAKey, NEW b, NEW c, s = <<"AuthKey", b, c>> \/ s = <<"AuthKey", b>>,
             b \in {"Path", "Query", "Json"}, c \in {"Path", "Query", "Json"}
      PROVE  \/ x = "AuthKey" /\ op \in TakesAKey
             \/ x \in {"Path", "Query", "Json"} /\ Accepts("AuthKey", op, raw)
  <2>1. s[1] = "AuthKey" /\ 1 \in 1..Len(s)
    BY <1>2
  <2>2. CASE i = 1
    BY <1>2, <2>1, <2>2
  <2>3. CASE i # 1
    <3>1. s[i] = b \/ s[i] = c
      BY <1>1, <1>2, <2>3
    <3>2. 1 < i
      BY <1>1, <2>3
    <3> QED
      BY <1>1, <1>2, <2>1, <3>1, <3>2
  <2> QED
    BY <2>2, <2>3
<1>3. ASSUME NEW y, s = <<y>>
      PROVE  x = y
  BY <1>1, <1>3, Singles
<1>4. CASE op = "create_user"
  <2>1. x = "Json"
    BY <1>3, <1>4, ExtractorsOf
  <2> QED
    BY <1>1, <1>4, <2>1 DEF TakesAKey
<1>5. CASE op = "create_auth_key"
  <2>1. x = "Credentials"
    BY <1>3, <1>5, ExtractorsOf
  <2> QED
    BY <1>1, <1>5, <2>1
<1>6. CASE op \in {"delete_auth_key", "get_current_user"}
  <2>1. x = "AuthKey"
    BY <1>3, <1>6, ExtractorsOf
  <2> QED
    BY <1>1, <1>6, <2>1 DEF TakesAKey
<1>7. CASE op \in {"get_tasks", "add_task"}
  <2>1. s = <<"AuthKey", "Query">> \/ s = <<"AuthKey", "Json">>
    BY <1>7, ExtractorsOf
  <2>2. op \in TakesAKey
    BY <1>7 DEF TakesAKey
  <2> HIDE DEF s
  <2> QED
    BY <1>1, <1>2, <2>1, <2>2 DEF s
<1>8. CASE op \in {"get_task_by_id", "get_task_shares", "get_user", "delete_share"}
  <2>1. s = <<"AuthKey", "Path">>
    BY <1>8, ExtractorsOf
  <2>2. op \in TakesAKey
    BY <1>8 DEF TakesAKey
  <2> HIDE DEF s
  <2> QED
    BY <1>1, <1>2, <2>1, <2>2 DEF s
<1>9. CASE op \in {"update_task_by_id", "put_share"}
  <2>1. s = <<"AuthKey", "Path", "Json">>
    BY <1>9, ExtractorsOf
  <2>2. op \in TakesAKey
    BY <1>9 DEF TakesAKey
  <2> HIDE DEF s
  <2> QED
    BY <1>1, <1>2, <2>1, <2>2 DEF s
<1>10. CASE op = "health"
  <2>1. Len(s) = 0
    BY <1>10, ExtractorsOf
  <2> QED
    BY <1>1, <2>1
<1> QED
  BY <1>4, <1>5, <1>6, <1>7, <1>8, <1>9, <1>10 DEF Handlers

LEMMA RefusalsAre ==
  /\ Refusal("AuthKey") =
       Plain(with_challenge(Response(401, {}), "invalid_request"), "json")
  /\ Refusal("Credentials") =
       Plain(with_challenge(Response(401, {}), "Basic"), "json")
  /\ Refusal("Path") = Plain(Response(404, {}), "text")
  /\ Refusal("Query") = Plain(Response(400, {}), "json")
  /\ Refusal("Json") = Plain(Response(400, {}), "json")
BY DEF Refusal, unauthorized_error, unauthorized_basic_error, unusable_path,
   query_error_handler, json_error_handler

LEMMA ChallengedResponse ==
  ASSUME NEW challenge \in Challenges
  PROVE  /\ Plain(with_challenge(Response(401, {}), challenge), "json") \in Replies
         /\ Plain(with_challenge(Response(401, {}), challenge), "json").status = 401
         /\ Plain(with_challenge(Response(401, {}), challenge), "json").challenge
              = challenge
<1> DEFINE a == with_challenge(Response(401, {}), challenge)
<1>1. a = [status |-> 401, challenge |-> challenge, body |-> {}]
  BY DEF with_challenge, Response
<1> HIDE DEF a
<1>2. Sound(a) /\ a.status = 401 /\ a.challenge = challenge /\ "json" \in MediaTypes
  BY <1>1 DEF Sound, MediaTypes
<1>3. /\ Plain(a, "json") \in Replies /\ Plain(a, "json").status = 401
      /\ Plain(a, "json").challenge = challenge
  BY <1>2, PlainIsTyped
<1> QED
  BY <1>3 DEF a

\* What the extractors refuse.
LEMMA RefusalIsRight ==
  ASSUME NEW raw, Served(raw), NEW op, op = Handler(raw), NEW i,
         i = FirstRefusal(op, raw), i # 0
  PROVE  Right(raw, Refusal(Extractors(op)[i]))
<1> DEFINE x == Extractors(op)[i]
           r == Refusal(x)
<1>1. op \in Handlers
  BY HandlersAreNamed
<1>2. /\ ~Accepts(x, op, raw)
      /\ \/ x = "AuthKey" /\ op \in TakesAKey
         \/ x = "Credentials" /\ op = "create_auth_key"
         \/ /\ x \in {"Path", "Query", "Json"}
            /\ op \in TakesAKey => Accepts("AuthKey", op, raw)
  BY <1>1, WhoRefuses
<1>3. Accepts("AuthKey", op, raw) = BearsAKey(raw.authorization)
  BY AcceptsAre DEF BearsAKey, Presents
<1>4. \A ops : Asks(raw, ops) <=> op \in ops
  BY DEF Asks
<1> HIDE DEF x
<1>5. CASE x = "AuthKey" /\ op \in TakesAKey
  <2>1. "invalid_request" \in Challenges
    BY DEF Challenges
  <2>2. r \in Replies /\ r.status = 401 /\ r.challenge = "invalid_request"
    BY <1>5, <2>1, RefusalsAre, ChallengedResponse
  <2>3. Asks(raw, TakesAKey) /\ ~BearsAKey(raw.authorization)
    BY <1>2, <1>3, <1>4, <1>5
  <2>4. ~Asks(raw, {"create_auth_key"})
    BY <1>4, <1>5 DEF TakesAKey
  <2> HIDE DEF r
  <2>5. r.status \notin {200, 201, 204} /\ r.status # 403 /\ r.status \in {401, 403}
    BY <2>2, Unauthorized
  <2>6. Advises(raw, r)
    BY <2>2, <2>3, <2>4, <2>5 DEF Advises
  <2> QED
    BY <2>2, <2>5, <2>6, Unsuccessful DEF Right, r, x
<1>6. CASE x = "Credentials" /\ op = "create_auth_key"
  <2>1. "Basic" \in Challenges
    BY DEF Challenges
  <2>2. r \in Replies /\ r.status = 401 /\ r.challenge = "Basic"
    BY <1>6, <2>1, RefusalsAre, ChallengedResponse
  <2>3. ~Asks(raw, TakesAKey) /\ Asks(raw, {"create_auth_key"})
    BY <1>4, <1>6 DEF TakesAKey
  <2> HIDE DEF r
  <2>4. r.status \notin {200, 201, 204} /\ r.status # 403 /\ r.status \in {401, 403}
    BY <2>2, Unauthorized
  <2>5. Advises(raw, r)
    BY <2>2, <2>3, <2>4 DEF Advises
  <2> QED
    BY <2>2, <2>4, <2>5, Unsuccessful DEF Right, r, x
<1>7. CASE /\ x \in {"Path", "Query", "Json"}
           /\ op \in TakesAKey => Accepts("AuthKey", op, raw)
  <2>1. Asks(raw, TakesAKey) => BearsAKey(raw.authorization)
    BY <1>3, <1>4, <1>7
  <2>2. /\ "json" \in MediaTypes /\ "text" \in MediaTypes
        /\ 400 \in {400, 404, 500} /\ 404 \in {400, 404, 500}
    BY DEF MediaTypes
  <2>3. \/ r = Plain(Response(404, {}), "text")
        \/ r = Plain(Response(400, {}), "json")
    BY <1>7, RefusalsAre
  <2>4. Right(raw, r)
    BY <2>1, <2>2, <2>3, PlainFailuresAreRight
  <2> QED
    BY <2>4 DEF r, x
<1> QED
  BY <1>2, <1>5, <1>6, <1>7 DEF r, x

\* The health probe's answer is no row's and takes no key.
LEMMA HealthIsRight ==
  ASSUME NEW raw, Handler(raw) = "health"
  PROVE  Right(raw, Plain(Response(200, {}), "none"))
<1> DEFINE a == Response(200, {})
           r == Plain(a, "none")
<1>1. a.status = 200 /\ a.challenge = "none" /\ a.body = {}
  BY EmptyResponses
<1> HIDE DEF a
<1>2. Sound(a) /\ "none" \in MediaTypes
  BY <1>1 DEF Sound, Challenges, MediaTypes
<1>3. r \in Replies /\ r.status = 200 /\ r.challenge = "none"
  BY <1>1, <1>2, PlainIsTyped
<1> HIDE DEF r
<1>4. /\ ~Asks(raw, TakesAKey)
      /\ ~Asks(raw, {"get_task_by_id", "get_user"})
      /\ ~Asks(raw, {"update_task_by_id", "put_share", "delete_share",
                     "get_task_shares"})
  BY DEF Asks, TakesAKey
<1>5. r.status \notin {401, 403}
  BY <1>3
<1>6. Advises(raw, r)
  BY <1>3, <1>4, <1>5, Unchallenged
<1>7. NamesItsRow(raw, r)
  BY <1>4 DEF NamesItsRow
<1> QED
  BY <1>3, <1>6, <1>7 DEF Right, r, a

------------------------------------------------------------------------------
(***************************************************************************)
(* What a handler's answer goes out as.                                    *)
(***************************************************************************)
\* A reply with the status and the challenge of a fitting answer, and its body.
LEMMA FittingIsRight ==
  ASSUME NEW raw, NEW q, Extracts(raw, q), Served(raw),
         NEW a, Fits(q, a, auth_key_to_user(q.key), get_task_by_id(q.task)),
         NEW r \in Replies, r.status = a.status, r.challenge = a.challenge,
         r.body = a.body
  PROVE  Right(raw, r)
<1>1. \A ops : Asks(raw, ops) <=> q.op \in ops
  BY DEF Asks, Extracts
<1>2. q.op \in TakesAKey => BearsAKey(raw.authorization) /\ q.key = raw.authorization[2]
  BY DEF Extracts, BearsAKey, Presents
<1>3. Advises(raw, r)
  <2>1. r.status \in {401, 403} <=> r.challenge # "none"
    BY DEF Fits, Challenged
  <2>2. r.challenge = "Basic" <=> r.status = 401 /\ Asks(raw, {"create_auth_key"})
    BY <1>1 DEF Fits, Challenged
  <2>3. r.challenge = "invalid_request" <=>
          Asks(raw, TakesAKey) /\ ~BearsAKey(raw.authorization)
    BY <1>1, <1>2 DEF Fits, Challenged
  <2>4. r.challenge = "invalid_token" =>
          BearsAKey(raw.authorization) /\ auth_key_to_user(raw.authorization[2]) = {}
    BY <1>2 DEF Fits, Challenged
  <2>5. r.status = 403 <=> r.challenge = "insufficient_scope"
    BY DEF Fits, Challenged
  <2> QED
    BY <2>1, <2>2, <2>3, <2>4, <2>5 DEF Advises
<1>4. NamesItsRow(raw, r)
  <2>1. ASSUME q.op \in {"get_task_by_id", "get_user"}, r.status = 200,
               NEW row \in r.body
        PROVE  row.id = Numeral[raw.path[2]]
    BY <2>1 DEF Fits, Named, Extracts
  <2>2. ASSUME q.op \in {"update_task_by_id", "put_share", "delete_share",
                         "get_task_shares"},
               r.status \in {200, 201, 204}
        PROVE  get_task_by_id(Numeral[raw.path[2]]) # {}
    BY <2>2 DEF Fits, Named, Extracts
  <2> QED
    BY <1>1, <2>1, <2>2 DEF NamesItsRow
<1> QED
  BY <1>3, <1>4 DEF Right

\* The Location of what was made, and the row it is made of.
LEMMA LocationIsTyped ==
  ASSUME NEW w \in Workers, NEW q, q = request[w], NEW made, Made(w) = made,
         MadeFor(q, made), q.op = "put_share" => q.task \in 0..MaxI32
  PROVE  Location(w) \in Locations
<1>1. q.op \in {"create_user", "create_auth_key", "add_task", "put_share"}
      /\ made.id \in 0..MaxI32
  BY DEF MadeFor
<1>2. CASE q.op = "create_user"
  <2>1. Location(w) = user_uri(made.id)
    BY <1>2 DEF Location
  <2> QED
    BY <1>1, <2>1 DEF Locations
<1>3. CASE q.op = "create_auth_key"
  <2>1. Location(w) = auth_key_uri(made.id)
    BY <1>3 DEF Location
  <2> QED
    BY <1>1, <2>1 DEF Locations
<1>4. CASE q.op = "add_task"
  <2>1. Location(w) = task_uri(made.id)
    BY <1>4 DEF Location
  <2> QED
    BY <1>1, <2>1 DEF Locations
<1>5. CASE q.op = "put_share"
  <2>1. Location(w) = share_uri(q.task, AsSegments[made.username])
    BY <1>5 DEF Location
  <2>2. made.username \in Usernames
    BY <1>5 DEF MadeFor
  <2> QED
    BY <1>5, <2>1, <2>2 DEF Locations
<1> QED
  BY <1>1, <1>2, <1>3, <1>4, <1>5

LEMMA OutgoingIs ==
  ASSUME NEW w \in Workers, NEW a, a = answer[w]
  PROVE  \/ a.status = 201 /\ Outgoing(w) = Reply(a, "json", <<>>, Location(w))
         \/ a.status = 201 /\ Outgoing(w) = Plain(Response(500, {}), "text")
         \/ a.status # 201 /\ Outgoing(w) = Plain(a, "none")
         \/ a.status # 201 /\ Outgoing(w) = Plain(a, "json")
<1>1. CASE a.status = 201
  BY <1>1 DEF Outgoing
<1>2. CASE a.status = 204
  BY <1>2 DEF Outgoing
<1>3. CASE a.status \notin {201, 204}
  BY <1>3 DEF Outgoing
<1> QED
  BY <1>1, <1>2, <1>3

LEMMA PathOfShare ==
  ASSUME NEW raw, Passes(raw), Handler(raw) = "put_share"
  PROVE  Numeral[raw.path[2]] \in 0..MaxI32
<1> DEFINE op == Handler(raw)
<1>1. op \in Handlers /\ FirstRefusal(op, raw) = 0
  BY HandlersAreNamed DEF Passes
<1>2. "Path" \in Seqs!Range(Extractors(op))
  BY ExtractorsInRange
<1>3. Accepts("Path", op, raw)
  BY <1>1, <1>2, AllAccept
<1> QED
  BY <1>3, NumberInPath

\* What goes out is right about the request on the wire.
LEMMA OutgoingIsRight ==
  ASSUME GInv, NEW w \in Workers, pc[w] = "answered"
  PROVE  Right(wire[w], Outgoing(w))
<1> DEFINE raw == wire[w]
           q == request[w]
           a == answer[w]
           r == Outgoing(w)
<1>1. /\ raw # None /\ Passes(raw) /\ q = Extracted(Handler(raw), raw)
      /\ Served(raw)
  BY DEF GInv, TakesUp, Passes
<1>2. q \in Requests /\ Extracts(raw, q)
  BY <1>1, DispatchIsReceive
<1>3. Fits(q, a, auth_key_to_user(q.key), get_task_by_id(q.task))
  BY DEF GInv, HInv, Handling, FitsFor
<1>4. a \in Responses
  <2>1. "answered" \notin Statements(q.op)
    BY <1>2, OperationAt
  <2> QED
    BY <2>1 DEF GInv, HInv, IInv, TypeOK, ThreadOK
<1>5. Sound(a)
  BY <1>4 DEF Responses, Sound
<1>6. "json" \in MediaTypes /\ "text" \in MediaTypes /\ "none" \in MediaTypes
  BY DEF MediaTypes
<1>7. CASE a.status = 201 /\ r = Reply(a, "json", <<>>, Location(w))
  <2>1. PICK made \in a.body : a.body = {made} /\ MadeFor(q, made)
    BY <1>3, <1>7 DEF Fits, MadeOne
  <2>2. Made(w) = made
    BY <2>1 DEF Made
  <2>3. q.op = "put_share" => q.task \in 0..MaxI32
    BY <1>1, <1>2, PathOfShare DEF Extracts
  <2>4. Location(w) \in Locations \cup {Absent}
    BY <2>1, <2>2, <2>3, LocationIsTyped
  <2>5. <<>> \in Seq(Methods)
    OBVIOUS
  <2> DEFINE location == Location(w)
  <2> HIDE DEF a, location
  <2>6. Reply(a, "json", <<>>, location) \in Replies
    BY <1>5, <1>6, <2>4, <2>5, ReplyIsTyped DEF location
  <2>7. r \in Replies
    BY <1>7, <2>6 DEF location
  <2>8. r.status = a.status /\ r.challenge = a.challenge /\ r.body = a.body
    BY <1>7, ReplyFields
  <2> QED
    BY <1>1, <1>2, <1>3, <2>7, <2>8, FittingIsRight
<1>8. CASE r = Plain(Response(500, {}), "text")
  <2>1. Asks(raw, TakesAKey) => BearsAKey(raw.authorization)
    BY <1>2 DEF Asks, Extracts, BearsAKey, Presents
  <2>2. 500 \in {400, 404, 500}
    OBVIOUS
  <2> QED
    BY <1>6, <1>8, <2>1, <2>2, PlainFailuresAreRight
<1>9. CASE r = Plain(a, "none") \/ r = Plain(a, "json")
  <2>1. r \in Replies /\ r.status = a.status /\ r.challenge = a.challenge /\ r.body = a.body
    BY <1>5, <1>6, <1>9, PlainIsTyped
  <2> QED
    BY <1>1, <1>2, <1>3, <2>1, FittingIsRight
<1> QED
  BY <1>7, <1>8, <1>9, OutgoingIs

------------------------------------------------------------------------------
(***************************************************************************)
(* Every step keeps the gateway's invariant.                               *)
(***************************************************************************)
\* What a step leaves of one worker.
Stays(w) ==
  /\ wire'[w] = wire[w] /\ reply'[w] = reply[w] /\ request'[w] = request[w]
  /\ pc[w] = "idle" => pc'[w] = "idle"

ThreadInv(w) == Arrived(w) /\ TakesUp(w) /\ RepliesTo(w)

LEMMA StayingThread ==
  ASSUME GInv, [Next]_vars, NEW w \in Workers, Stays(w)
  PROVE  ThreadInv(w)'
BY ArrivedStays, TakesUpStays, RepliesStand DEF Stays, ThreadInv

\* The wire's and the replies' types, and every worker.
Typed(wires, replies) ==
  /\ wires \in [Workers -> RawRequests \cup {None}]
  /\ replies \in [Workers -> Replies \cup {None}]

LEMMA GatewayStep ==
  ASSUME GInv, [GatewayNext]_gatewayVars, Typed(wire', reply'),
         \A w \in Workers : ThreadInv(w)'
  PROVE  GInv'
<1>1. HInv'
  BY GatewayStepIsStep, HandlingStep DEF GInv
<1> QED
  BY <1>1 DEF GInv, Typed, ThreadInv

\* A worker's step which leaves the other workers as they are.
LEMMA OneThread ==
  ASSUME GInv, [GatewayNext]_gatewayVars, NEW w \in Workers, Typed(wire', reply'),
         \A v \in Workers \ {w} : Stays(v),
         ThreadInv(w)'
  PROVE  GInv'
<1>1. [Next]_vars
  BY GatewayStepIsStep
<1>2. \A v \in Workers \ {w} : ThreadInv(v)'
  BY <1>1, StayingThread
<1> QED
  BY <1>2, GatewayStep

LEMMA ArriveKeeps ==
  ASSUME GInv, [GatewayNext]_gatewayVars, NEW w \in Workers, Arrive(w)
  PROVE  GInv'
<1>1. PICK raw \in RawRequests : OnTheWire(raw) /\ wire' = [wire EXCEPT ![w] = raw]
  BY DEF Arrive
<1>2. UNCHANGED <<vars, reply>>
  BY DEF Arrive
<1>3. Typed(wire', reply') /\ wire'[w] = raw
  BY <1>1, <1>2 DEF GInv, Typed
<1>4. \A v \in Workers \ {w} : Stays(v)
  BY <1>1, <1>2 DEF Stays, GInv, vars
<1>5. pc[w] = "idle" /\ reply[w] = None
  BY DEF Arrive, GInv, TakesUp, RepliesTo
<1>6. ThreadInv(w)'
  BY <1>1, <1>2, <1>3, <1>5 DEF ThreadInv, Arrived, TakesUp, RepliesTo, OnTheWire,
     vars, database
<1> QED
  BY <1>3, <1>4, <1>6, OneThread

\* A reply to a request no handler has.
LEMMA ReplyKeeps ==
  ASSUME GInv, [GatewayNext]_gatewayVars, NEW w \in Workers, wire[w] # None,
         NEW r, Right(wire[w], r), SendReply(w, r), UNCHANGED wire,
         pc'[w] = "idle",
         \A v \in Workers \ {w} : pc'[v] = pc[v] /\ request'[v] = request[v]
  PROVE  GInv'
<1>1. [Next]_vars
  BY GatewayStepIsStep
<1>2. Typed(wire', reply') /\ reply'[w] = r
  BY DEF GInv, Typed, SendReply, Right
<1>3. \A v \in Workers \ {w} : Stays(v)
  BY DEF Stays, GInv, SendReply
<1>4. Arrived(w)'
  BY <1>1, ArrivedStays
<1>5. TakesUp(w)'
  BY DEF TakesUp
<1>6. RepliesTo(w)'
  BY <1>1, <1>2, RepliesStayRight DEF Right
<1> QED
  BY <1>2, <1>3, <1>4, <1>5, <1>6, OneThread DEF ThreadInv

LEMMA UnroutedKeeps ==
  ASSUME GInv, [GatewayNext]_gatewayVars, NEW w \in Workers, Unrouted(w)
  PROVE  GInv'
<1>1. /\ wire[w] # None /\ pc[w] = "idle" /\ ~Served(wire[w]) /\ UNCHANGED <<vars, wire>>
      /\ \/ SendReply(w, unknown_path)
         \/ Claims(wire[w].path) # 0 /\ SendReply(w, method_not_allowed(wire[w].path))
  BY DEF Unrouted, Undecided
<1> QED
  BY <1>1, UnroutedIsRight, ReplyKeeps DEF vars

LEMMA UnextractedKeeps ==
  ASSUME GInv, [GatewayNext]_gatewayVars, NEW w \in Workers, Unextracted(w)
  PROVE  GInv'
<1> DEFINE op == Handler(wire[w])
           i == FirstRefusal(op, wire[w])
           r == Refusal(Extractors(op)[i])
<1>1. /\ wire[w] # None /\ pc[w] = "idle" /\ Served(wire[w]) /\ UNCHANGED <<vars, wire>>
      /\ i # 0 /\ SendReply(w, r)
  BY DEF Unextracted, Undecided
<1>2. Right(wire[w], r)
  BY <1>1, RefusalIsRight
<1> HIDE DEF r
<1> QED
  BY <1>1, <1>2, ReplyKeeps DEF vars

LEMMA HealthKeeps ==
  ASSUME GInv, [GatewayNext]_gatewayVars, NEW w \in Workers, health(w)
  PROVE  GInv'
<1> DEFINE r == Plain(Response(200, {}), "none")
<1>1. /\ wire[w] # None /\ pc[w] = "idle" /\ Handler(wire[w]) = "health"
      /\ UNCHANGED <<vars, wire>> /\ SendReply(w, r)
  BY DEF health, Undecided
<1>2. Right(wire[w], r)
  BY <1>1, HealthIsRight
<1> HIDE DEF r
<1> QED
  BY <1>1, <1>2, ReplyKeeps DEF vars

LEMMA DispatchKeeps ==
  ASSUME GInv, [GatewayNext]_gatewayVars, NEW w \in Workers, Dispatch(w)
  PROVE  GInv'
<1> DEFINE r == Extracted(Handler(wire[w]), wire[w])
<1>1. /\ wire[w] # None /\ reply[w] = None /\ Passes(wire[w]) /\ Begin(w, r)
      /\ UNCHANGED <<wire, reply>>
  BY DEF Dispatch, Undecided
<1>2. [Next]_vars
  BY GatewayStepIsStep
<1>3. Typed(wire', reply')
  BY <1>1 DEF GInv, Typed
<1>4. \A v \in Workers \ {w} : Stays(v)
  BY <1>1 DEF Stays, Begin, Answer, Continue, GInv, HInv, IInv, TypeOK
<1>5. request'[w] = r
  BY <1>1 DEF Begin, GInv, HInv, IInv, TypeOK
<1>6. TakesUp(w)'
  <2>1. /\ wire'[w] # None /\ reply'[w] = None /\ Passes(wire'[w])
        /\ request'[w] = Extracted(Handler(wire'[w]), wire'[w])
    BY <1>1, <1>5
  <2> QED
    BY <2>1 DEF TakesUp
<1>7. Arrived(w)' /\ RepliesTo(w)'
  BY <1>1, <1>2, ArrivedStays, RepliesStand
<1> QED
  BY <1>3, <1>4, <1>6, <1>7, OneThread DEF ThreadInv

LEMMA HandlerKeeps ==
  ASSUME GInv, [GatewayNext]_gatewayVars, NEW w \in Workers, Statement(w) \/ Fail(w),
         UNCHANGED <<wire, reply>>
  PROVE  GInv'
<1>1. UNCHANGED request /\ pc[w] # "idle"
  BY StatementsKeepRequests DEF Busy
<1>2. Typed(wire', reply')
  BY DEF GInv, Typed
<1>3. \A v \in Workers \ {w} : pc'[v] = pc[v]
  BY OthersWaitForOne DEF OthersWait, GInv, HInv
<1>4. \A v \in Workers : Stays(v)
  BY <1>1, <1>3 DEF Stays
<1>5. \A v \in Workers : ThreadInv(v)'
  BY <1>4, GatewayStepIsStep, StayingThread
<1> QED
  BY <1>2, <1>5, GatewayStep

LEMMA RespondKeeps ==
  ASSUME GInv, [GatewayNext]_gatewayVars, NEW w \in Workers, Respond(w)
  PROVE  GInv'
<1> DEFINE r == Outgoing(w)
<1>1. pc[w] = "answered" /\ SendReply(w, r) /\ Reset(w) /\ UNCHANGED wire
  BY DEF Respond
<1>2. wire[w] # None
  BY <1>1 DEF GInv, TakesUp
<1>3. Right(wire[w], r)
  BY <1>1, OutgoingIsRight
<1>4. pc'[w] = "idle"
  BY <1>1 DEF Reset, GInv, HInv, IInv, TypeOK
<1>5. \A v \in Workers \ {w} : pc'[v] = pc[v] /\ request'[v] = request[v]
  BY <1>1 DEF Reset, GInv, HInv, IInv, TypeOK
<1> HIDE DEF r
<1> QED
  BY <1>1, <1>2, <1>3, <1>4, <1>5, ReplyKeeps

LEMMA SentKeeps ==
  ASSUME GInv, [GatewayNext]_gatewayVars, NEW w \in Workers, Sent(w)
  PROVE  GInv'
<1>1. /\ reply[w] # None /\ UNCHANGED vars
      /\ wire' = [wire EXCEPT ![w] = None] /\ reply' = [reply EXCEPT ![w] = None]
  BY DEF Sent
<1>2. Typed(wire', reply') /\ wire'[w] = None /\ reply'[w] = None
  BY <1>1 DEF GInv, Typed
<1>3. \A v \in Workers \ {w} : Stays(v)
  BY <1>1 DEF Stays, GInv, vars
<1>4. pc[w] = "idle"
  BY <1>1 DEF GInv, TakesUp
<1>5. ThreadInv(w)'
  BY <1>1, <1>2, <1>4 DEF ThreadInv, Arrived, TakesUp, RepliesTo, vars
<1> QED
  BY <1>2, <1>3, <1>5, OneThread

LEMMA DieKeeps ==
  ASSUME GInv, [GatewayNext]_gatewayVars, Die
  PROVE  GInv'
<1>1. Typed(wire', reply') /\ \A w \in Workers : wire'[w] = None /\ reply'[w] = None
  BY DEF Die, Typed
<1>2. \A w \in Workers : pc'[w] = "idle"
  BY DEF Die, Crash, vars
<1>3. \A w \in Workers : ThreadInv(w)'
  BY <1>1, <1>2 DEF ThreadInv, Arrived, TakesUp, RepliesTo
<1> QED
  BY <1>1, <1>3, GatewayStep

LEMMA WaitKeeps ==
  ASSUME GInv, [GatewayNext]_gatewayVars, UNCHANGED <<threads, wire, reply>>
  PROVE  GInv'
<1>1. Typed(wire', reply') /\ \A w \in Workers : Stays(w)
  BY DEF GInv, Typed, Stays, threads
<1>2. \A w \in Workers : ThreadInv(w)'
  BY <1>1, GatewayStepIsStep, StayingThread
<1> QED
  BY <1>1, <1>2, GatewayStep

\* Every step of the gateway keeps its invariant.
LEMMA GatewayKeepsGInv ==
  ASSUME GInv, [GatewayNext]_gatewayVars
  PROVE  GInv'
<1>1. ASSUME NEW w \in Workers,
             \/ Arrive(w) \/ Unrouted(w) \/ Unextracted(w) \/ health(w) \/ Dispatch(w)
             \/ (Statement(w) \/ Fail(w)) /\ UNCHANGED <<wire, reply>>
             \/ Respond(w) \/ Sent(w)
      PROVE  GInv'
  BY <1>1, ArriveKeeps, UnroutedKeeps, UnextractedKeeps, HealthKeeps, DispatchKeeps,
     HandlerKeeps, RespondKeeps, SentKeeps
<1>2. CASE Die
  BY <1>2, DieKeeps
<1>3. CASE PassTime /\ UNCHANGED <<wire, reply>>
  BY <1>3, WaitKeeps DEF PassTime
<1>4. CASE UNCHANGED gatewayVars
  BY <1>4, WaitKeeps DEF gatewayVars, vars, threads
<1> QED
  BY <1>1, <1>2, <1>3, <1>4 DEF GatewayNext

LEMMA GatewayStarts ==
  ASSUME GatewayInit
  PROVE  GInv
<1>1. HInv
  BY HandlingStarts DEF GatewayInit
<1>2. \A w \in Workers : wire[w] = None /\ reply[w] = None /\ pc[w] = "idle"
  BY DEF GatewayInit, Init
<1> QED
  BY <1>1, <1>2 DEF GatewayInit, GInv, Arrived, TakesUp, RepliesTo

------------------------------------------------------------------------------
\* The invariant of the whole server.
THEOREM GatewayInvariant == GatewaySpec => []GInv
<1>1. GatewayInit => GInv
  BY GatewayStarts
<1>2. GInv /\ [GatewayNext]_gatewayVars => GInv'
  BY GatewayKeepsGInv
<1> QED
  BY <1>1, <1>2, PTL DEF GatewaySpec

\* For any clients: the wire and the replies have their types, and a worker
\* handles a request only while it has one on the wire and no reply to it.
THEOREM RepliesAreTyped == GatewaySpec => []GatewayTypeOK
<1>1. GInv => GatewayTypeOK
  BY DEF GInv, HInv, IInv, GatewayTypeOK, TakesUp, RepliesTo
<1> QED
  BY <1>1, GatewayInvariant, PTL

\* For any clients, keys and bounds: the challenge of every reply, made by
\* routing, an extractor or a handler, tells the client what to do next.
THEOREM ChallengesAreRight == GatewaySpec => []ChallengesAdvise
<1>1. GInv => ChallengesAdvise
  BY DEF GInv, RepliesTo, ChallengesAdvise, Replied
<1> QED
  BY <1>1, GatewayInvariant, PTL

\* For any numbers in paths, those no i32 holds included: a reply is about the
\* row with that very number, or about none.
THEOREM RowsAreNamed == GatewaySpec => []PathsNameTheirRow
<1>1. GInv => PathsNameTheirRow
  BY DEF GInv, RepliesTo, PathsNameTheirRow, Replied
<1> QED
  BY <1>1, GatewayInvariant, PTL

\* The gateway lets nothing through but what the handlers take: with the wire
\* and the replies hidden, every behaviour is one of module Api, so that all
\* that is proved of the handlers holds behind it too.
THEOREM GatewayImplementsApi == GatewaySpec => ImplementsApi
<1>1. GatewayInit => Init
  BY DEF GatewayInit
<1>2. GInv /\ [GatewayNext]_gatewayVars => [Next]_vars
  BY GatewayStepIsStep
<1> QED
  BY <1>1, <1>2, GatewayInvariant, PTL DEF GatewaySpec, ImplementsApi, Spec

------------------------------------------------------------------------------
(***************************************************************************)
(* Whom an answer is about: what a handler has read of its target and of   *)
(* its caller, and what it says of them.                                   *)
(***************************************************************************)
\* What GET /users/me says when it is asked with this key.
Tells(key, r) ==
  \/ r.status = 500
  \/ r.status = 401 /\ auth_key_to_user(key) = {}
  \/ TellsWho(key, r)

\* A handler's target is the user its path names, its 201 shows this user, and
\* the caller is told who they are.
Acting(w) ==
  /\ pc[w] = "upsert_share" => target[w].username = request[w].username
  /\ pc[w] = "answered" /\ request[w].op = "put_share" /\ answer[w].status = 201 =>
       \E made : answer[w].body = {made} /\ made.username = request[w].username
  /\ pc[w] = "answered" /\ request[w].op = "get_current_user" =>
       Tells(request[w].key, answer[w])

ActingInv == \A w \in Workers : Acting(w)

\* What was said of a key stays true: its user keeps the account, and no other
\* row ever holds the key.
LEMMA TellsStill ==
  ASSUME IInv, [Next]_vars, NEW key \in minted \cup OtherKeys, NEW r, Tells(key, r)
  PROVE  Tells(key, r)'
<1>1. CASE r.status = 500
  BY <1>1 DEF Tells
<1>2. CASE r.status = 401 /\ auth_key_to_user(key) = {}
  <2>1. auth_key_to_user(key)' = {}
    BY <1>2, DeadKeysStayDead DEF auth_key_to_user
  <2> QED
    BY <1>2, <2>1 DEF Tells
<1>3. CASE TellsWho(key, r)
  <2>1. PICK u \in users : /\ r.body = {UserRepresentation(u)}
                           /\ \A k \in auth_keys : k.key = key => k.user_id = u.id
    BY <1>3 DEF TellsWho
  <2>2. u \in users' /\ key \in minted' /\ r.status = 200
    BY <1>3, StepsAreDurable DEF Durable, Lasting, TellsWho
  <2>3. \A k \in auth_keys' : k.key = key => k.user_id = u.id
    BY <2>1, StepsAreDurable DEF Durable
  <2>4. TellsWho(key, r)'
    BY <2>1, <2>2, <2>3 DEF TellsWho
  <2> QED
    BY <2>4 DEF Tells
<1> QED
  BY <1>1, <1>2, <1>3 DEF Tells

LEMMA ActingWaits ==
  ASSUME HInv, ActingInv, [Next]_vars, NEW w \in Workers,
         pc'[w] = pc[w], request'[w] = request[w], target'[w] = target[w],
         answer'[w] = answer[w]
  PROVE  Acting(w)'
<1>1. IInv /\ Handling(w) /\ Acting(w)
  BY DEF HInv, ActingInv
<1>2. ASSUME pc[w] = "answered", request[w].op = "get_current_user"
      PROVE  Tells(request[w].key, answer[w])'
  <2>1. request[w] \in Requests /\ Sendable(request[w])
    BY <1>1, <1>2 DEF IInv, TypeOK, ThreadOK, Handling, Statements
  <2>2. request[w].key \in minted \cup OtherKeys
    BY <1>2, <2>1, KeyedRequests DEF Sendable, TakesAKey
  <2>3. PICK key, a : key = request[w].key /\ a = answer[w]
    OBVIOUS
  <2>4. Tells(key, a)'
    BY <1>1, <1>2, <2>2, <2>3, TellsStill DEF Acting
  <2> QED
    BY <2>3, <2>4 DEF Tells, TellsWho, auth_key_to_user
<1> QED
  BY <1>1, <1>2 DEF Acting

------------------------------------------------------------------------------
\* Each answer there is to GET /users/me.
LEMMA CallerIsTold ==
  ASSUME HInv, NEW w \in Workers, Authenticate(w), request[w].op = "get_current_user"
  PROVE  \E a : Answer(w, a) /\ Tells(request[w].key, a)
<1> DEFINE key == request[w].key
<1>1. CASE auth_key_to_user(key) = {} /\ Answer(w, into_http_response("InvalidAuthKey"))
  <2>1. into_http_response("InvalidAuthKey").status = 401
    BY ErrorAnswers
  <2> QED
    BY <1>1, <2>1 DEF Tells
<1>2. ASSUME NEW u \in auth_key_to_user(key),
             Answer(w, Response(200, {UserRepresentation(u)}))
      PROVE  \E a : Answer(w, a) /\ Tells(key, a)
  <2> DEFINE a == Response(200, {UserRepresentation(u)})
  <2>1. PICK k \in auth_keys : u \in users /\ k.key = key /\ k.user_id = u.id
    BY DEF auth_key_to_user
  <2>2. UniqueKeys(auth_keys) /\ MintedKeys(auth_keys, minted)
    BY DEF HInv, IInv, Integrity, ConsistentDatabase
  <2>3. key \in minted
    BY <2>1, <2>2 DEF MintedKeys
  <2>4. \A l \in auth_keys : l.key = key => l.user_id = u.id
    BY <2>1, <2>2 DEF UniqueKeys
  <2>5. a.status = 200 /\ a.body = {UserRepresentation(u)}
    BY DEF Response
  <2> HIDE DEF a
  <2>6. TellsWho(key, a)
    BY <2>1, <2>3, <2>4, <2>5 DEF TellsWho
  <2> QED
    BY <1>2, <2>6 DEF Tells, a
<1> QED
  BY <1>1, <1>2 DEF Authenticate

LEMMA TellsFailure ==
  ASSUME NEW key
  PROVE  Tells(key, into_http_response("QueryFailed"))
BY ErrorAnswers DEF Tells

\* What a handler is about to do when it has said nothing yet.
LEMMA AboutToTell ==
  ASSUME HInv, NEW w \in Workers, Statement(w) \/ Fail(w),
         request[w].op = "get_current_user"
  PROVE  \E a : Answer(w, a) /\ Tells(request[w].key, a)
<1>1. CASE Fail(w)
  BY <1>1, TellsFailure DEF Fail
<1>2. CASE Statement(w)
  <2>1. Busy(w)
    BY StatementsKeepRequests
  <2>2. pc[w] \in Statements(request[w].op)
    BY <2>1, AtStatement
  <2>3. pc[w] = "authenticate"
    BY <2>2 DEF Statements
  <2>4. Authenticate(w)
    BY <1>2, <2>3 DEF Statement, InsertUser, FindAccount, InsertKey,
       DeleteKey, FindUser, ListTasks, InsertTask, LoadTask, LoadShare, ReadTask,
       UpdateTask, CheckOwner, ListShares, FindTarget, UpsertShare, DeleteShare
  <2> QED
    BY <2>4, CallerIsTold
<1> QED
  BY <1>1, <1>2

\* A share's handler: what it refuses is no 201, and it writes for its target.
LEMMA AboutToShare ==
  ASSUME HInv, NEW w \in Workers, Acting(w), Statement(w) \/ Fail(w),
         request[w].op = "put_share"
  PROVE  \/ \E a : /\ Answer(w, a)
                   /\ a.status = 201 =>
                        \E made : a.body = {made} /\ made.username = request[w].username
         \/ \E l : Continue(w, l) /\ l \notin {"upsert_share", "answered"}
         \/ /\ Continue(w, "upsert_share") /\ FindTarget(w)
            /\ \E user : /\ target' = [target EXCEPT ![w] = user]
                         /\ user.username = request[w].username
<1> DEFINE Shows(a) == a.status = 201 =>
             \E made : a.body = {made} /\ made.username = request[w].username
<1>1. ASSUME NEW e \in {"QueryFailed", "InvalidAuthKey", "Forbidden", "NotFound"}
      PROVE  Shows(into_http_response(e))
  BY ErrorAnswers
<1>2. CASE Fail(w)
  BY <1>1, <1>2 DEF Fail
<1>3. CASE Statement(w)
  <2>1. Busy(w)
    BY StatementsKeepRequests
  <2>2. pc[w] \in Statements(request[w].op)
    BY <2>1, AtStatement
  <2>3. pc[w] \in {"authenticate", "check_owner", "find_target", "upsert_share"}
    BY <2>2 DEF Statements
  <2>4. Authenticate(w) \/ CheckOwner(w) \/ FindTarget(w) \/ UpsertShare(w)
    BY <1>3, <2>3 DEF Statement, InsertUser, FindAccount, InsertKey,
       DeleteKey, FindUser, ListTasks, InsertTask, LoadTask, LoadShare, ReadTask,
       UpdateTask, ListShares, DeleteShare
  <2>5. CASE Authenticate(w)
    <3>1. AfterAuthentication("put_share") = "check_owner"
      BY DEF AfterAuthentication
    <3> QED
      BY <1>1, <2>5, <3>1 DEF Authenticate
  <2>6. CASE CheckOwner(w)
    BY <1>1, <2>6 DEF CheckOwner
  <2>7. CASE FindTarget(w)
    <3>1. CASE Answer(w, into_http_response("NotFound"))
      BY <1>1, <3>1
    <3>2. ASSUME NEW user \in get_user_by_name(request[w].username),
                 target' = [target EXCEPT ![w] = user], Continue(w, "upsert_share")
          PROVE  \E u : /\ target' = [target EXCEPT ![w] = u]
                        /\ u.username = request[w].username
      BY <3>2 DEF get_user_by_name
    <3> QED
      BY <2>7, <3>1, <3>2 DEF FindTarget
  <2>8. CASE UpsertShare(w)
    <3> DEFINE row == [id |-> next_id("task_shares"), task_id |-> request[w].task,
                       user_id |-> target[w].id, permission |-> request[w].permission]
               shown(share) == Share([row EXCEPT !.id = share.id], target[w])
    <3>1. target[w].username = request[w].username
      BY <2>8 DEF UpsertShare, Acting
    <3>2. Share(row, target[w]).username = target[w].username
      BY DEF Share
    <3>3. \/ AnswerWrite(w, Response(201, {Share(row, target[w])}))
          \/ \E share : AnswerWrite(w, Response(200, {shown(share)}))
      BY <2>8 DEF UpsertShare
    <3> DEFINE made == Share(row, target[w])
    <3> HIDE DEF row, shown, made
    <3>4. Shows(Response(201, {made}))
      BY <3>1, <3>2 DEF Response, made
    <3>5. \A body : Shows(Response(200, body))
      BY DEF Response
    <3>7. Shows(into_http_response("QueryFailed"))
      BY <1>1
    <3> HIDE DEF Shows
    <3>8. PICK b : Shows(b) /\ AnswerWrite(w, b)
      BY <3>3, <3>4, <3>5 DEF made
    <3>6. \E a : Answer(w, a) /\ Shows(a)
      BY <3>7, <3>8 DEF AnswerWrite
    <3> QED
      BY <3>6 DEF Shows
  <2> QED
    BY <2>4, <2>5, <2>6, <2>7, <2>8
<1> QED
  BY <1>2, <1>3

\* A handler's own step.
LEMMA ActingStep ==
  ASSUME HInv, ActingInv, [Next]_vars, NEW w \in Workers, Statement(w) \/ Fail(w)
  PROVE  Acting(w)'
<1>1. /\ IInv /\ Acting(w) /\ UNCHANGED request /\ request[w] \in Requests
      /\ pc[w] \in Statements(request[w].op) /\ Sendable(request[w])
  BY StatementsKeepRequests, AtStatement DEF ActingInv
<1>2. \A a : Answer(w, a) => pc'[w] = "answered" /\ answer'[w] = a
  BY <1>1 DEF Answer, IInv, TypeOK
<1>3. \A l : Continue(w, l) => pc'[w] = l
  BY <1>1 DEF Continue, IInv, TypeOK
<1>4. CASE request[w].op = "get_current_user"
  <2>1. PICK a : Answer(w, a) /\ Tells(request[w].key, a)
    BY <1>4, AboutToTell
  <2>2. request[w].key \in minted \cup OtherKeys
    BY <1>1, <1>4, KeyedRequests DEF Sendable, TakesAKey
  <2>3. PICK key : key = request[w].key
    OBVIOUS
  <2>4. Tells(key, a)'
    BY <1>1, <2>1, <2>2, <2>3, TellsStill
  <2>5. /\ pc'[w] = "answered" /\ answer'[w] = a /\ request'[w].key = key
        /\ request'[w].op = "get_current_user"
    BY <1>1, <1>2, <1>4, <2>1, <2>3
  <2>6. Tells(request[w].key, answer[w])'
    BY <2>4, <2>5 DEF Tells, TellsWho, auth_key_to_user
  <2> QED
    BY <2>5, <2>6 DEF Acting
<1>5. CASE request[w].op = "put_share"
  <2>1. CASE \E a : /\ Answer(w, a)
                    /\ a.status = 201 =>
                         \E made : a.body = {made} /\ made.username = request[w].username
    BY <1>1, <1>2, <1>5, <2>1 DEF Acting
  <2>2. CASE \E l : Continue(w, l) /\ l \notin {"upsert_share", "answered"}
    BY <1>3, <2>2 DEF Acting
  <2>3. CASE /\ Continue(w, "upsert_share") /\ FindTarget(w)
             /\ \E user : /\ target' = [target EXCEPT ![w] = user]
                          /\ user.username = request[w].username
    <3>1. pc'[w] = "upsert_share" /\ target'[w].username = request'[w].username
      BY <1>1, <1>3, <2>3 DEF IInv, TypeOK
    <3> QED
      BY <3>1 DEF Acting
  <2> QED
    BY <1>1, <1>5, <2>1, <2>2, <2>3, AboutToShare
<1>6. CASE request[w].op \notin {"get_current_user", "put_share"}
  <2>1. IInv'
    BY <1>1, NextKeepsIInv
  <2>2. pc'[w] = "upsert_share" => request'[w] \in Requests /\ pc'[w] \in Statements(request'[w].op)
    BY <2>1 DEF IInv, TypeOK, ThreadOK
  <2>3. pc'[w] # "upsert_share"
    BY <1>1, <1>6, <2>2, ServedOperation
  <2> QED
    BY <1>1, <1>6, <2>3 DEF Acting
<1> QED
  BY <1>4, <1>5, <1>6

LEMMA ActingReceived ==
  ASSUME HInv, NEW w \in Workers, NEW r \in Requests, Begin(w, r)
  PROVE  Acting(w)'
<1>1. IInv /\ request'[w] = r
  BY DEF Begin, HInv, IInv, TypeOK
<1>2. CASE Invalid(r) /\ Answer(w, into_http_response("InvalidData"))
  <2> DEFINE a == into_http_response("InvalidData")
  <2>1. pc'[w] = "answered" /\ answer'[w] = a
    BY <1>1, <1>2 DEF Answer, IInv, TypeOK
  <2>2. a.status = 400
    BY ErrorAnswers
  <2> HIDE DEF a
  <2>3. r.op # "get_current_user"
    BY <1>2 DEF Invalid
  <2> QED
    BY <1>1, <2>1, <2>2, <2>3 DEF Acting
<1>3. CASE Continue(w, FirstStatement(r.op))
  <2> DEFINE l == FirstStatement(r.op)
  <2>1. l \notin {"upsert_share", "answered"}
    BY DEF FirstStatement
  <2> HIDE DEF l
  <2>2. pc'[w] = l
    BY <1>1, <1>3 DEF Continue, IInv, TypeOK, l
  <2> QED
    BY <2>1, <2>2 DEF Acting
<1> QED
  BY <1>2, <1>3 DEF Begin

LEMMA ActingInvStep ==
  ASSUME HInv, ActingInv, [Next]_vars
  PROVE  ActingInv'
<1>1. IInv
  BY DEF HInv
<1>2. ASSUME NEW w \in Workers, Receive(w) \/ Statement(w) \/ Fail(w) \/ Deliver(w)
      PROVE  ActingInv'
  <2>1. \A v \in Workers \ {w} : Acting(v)'
    BY <1>1, <1>2, OthersWaitForOne, ActingWaits DEF OthersWait
  <2>2. ASSUME Receive(w)
        PROVE  Acting(w)'
    BY <2>2, ActingReceived DEF Receive
  <2>3. ASSUME Statement(w) \/ Fail(w)
        PROVE  Acting(w)'
    BY <2>3, ActingStep
  <2>4. ASSUME Deliver(w)
        PROVE  Acting(w)'
    <3>1. pc'[w] = "idle"
      BY <2>4, <1>1 DEF Deliver, Reset, IInv, TypeOK
    <3> QED
      BY <3>1 DEF Acting
  <2> QED
    BY <1>2, <2>1, <2>2, <2>3, <2>4 DEF ActingInv
<1>3. CASE Crash
  <2>1. \A w \in Workers : pc'[w] = "idle"
    BY <1>3 DEF Crash
  <2> QED
    BY <2>1 DEF ActingInv, Acting
<1>4. CASE PassTime \/ UNCHANGED vars
  <2>1. UNCHANGED threads
    BY <1>4 DEF PassTime, vars, threads
  <2> QED
    BY <2>1, ActingWaits DEF threads, ActingInv
<1> QED
  BY <1>2, <1>3, <1>4 DEF Next

------------------------------------------------------------------------------
\* Every username can be put into a URI and a header as it is.
PlainUsernames ==
  /\ Unprintable = {}
  /\ \A name \in Usernames : name # Empty /\ AsSegments[name] = <<name>>

LEMMA ReachesTask ==
  ASSUME NEW id \in 0..MaxI32
  PROVE  Reaches("GET", task_uri(id), "get_task_by_id", [task |-> id])
<1> DEFINE raw == [method |-> "GET", path |-> task_uri(id)]
<1>1. raw.method = "GET" /\ raw.path = task_uri(id)
  OBVIOUS
<1> HIDE DEF raw
<1>2. Served(raw) /\ Handler(raw) = "get_task_by_id" /\ raw.path[2] = Digits(id)
  BY <1>1, TaskLocation
<1>3. PathFields("get_task_by_id", raw.path) = [task |-> id]
  BY <1>2, PathFieldsAre, NumbersAreNoNames
<1> QED
  BY <1>1, <1>2, <1>3 DEF Reaches, raw

LEMMA ReachesUser ==
  ASSUME NEW id \in 0..MaxI32
  PROVE  Reaches("GET", user_uri(id), "get_user", [user |-> id])
<1> DEFINE raw == [method |-> "GET", path |-> user_uri(id)]
<1>1. raw.method = "GET" /\ raw.path = user_uri(id)
  OBVIOUS
<1> HIDE DEF raw
<1>2. Served(raw) /\ Handler(raw) = "get_user" /\ raw.path[2] = Digits(id)
  BY <1>1, UserLocation
<1>3. PathFields("get_user", raw.path) = [user |-> id]
  BY <1>2, PathFieldsAre, NumbersAreNoNames
<1> QED
  BY <1>1, <1>2, <1>3 DEF Reaches, raw

LEMMA ReachesShare ==
  ASSUME NEW id \in 0..MaxI32, NEW name, name # Empty
  PROVE  Reaches("DELETE", share_uri(id, <<name>>), "delete_share",
                 [task |-> id, username |-> name])
<1> DEFINE raw == [method |-> "DELETE", path |-> share_uri(id, <<name>>)]
<1>1. raw.method = "DELETE" /\ raw.path = share_uri(id, <<name>>)
  OBVIOUS
<1> HIDE DEF raw
<1>2. /\ Served(raw) /\ Handler(raw) = "delete_share"
      /\ raw.path[2] = Digits(id) /\ raw.path[4] = name
  BY <1>1, ShareLocation
<1>3. PathFields("delete_share", raw.path) = [task |-> id, username |-> name]
  BY <1>2, PathFieldsAre, NumbersAreNoNames
<1> QED
  BY <1>1, <1>2, <1>3 DEF Reaches, raw

LEMMA LocationOf ==
  ASSUME NEW w \in Workers, NEW q, q = request[w], NEW made, made = Made(w)
  PROVE  /\ q.op = "create_user" => Location(w) = user_uri(made.id)
         /\ q.op = "create_auth_key" => Location(w) = auth_key_uri(made.id)
         /\ q.op = "add_task" => Location(w) = task_uri(made.id)
         /\ q.op = "put_share" =>
              Location(w) = share_uri(q.task, AsSegments[made.username])
BY DEF Location

LEMMA LocationGoesOut ==
  ASSUME NEW w \in Workers, answer[w].status = 201, Unprintable = {}
  PROVE  Outgoing(w).status = 201 /\ Outgoing(w).location = Location(w)
<1>1. Outgoing(w) = Reply(answer[w], "json", <<>>, Location(w))
  BY DEF Outgoing
<1> QED
  BY <1>1 DEF Reply

\* The Location of what was made leads back to it.
LeadsBack(q, made, uri) ==
  CASE q.op = "create_user" -> Reaches("GET", uri, "get_user", [user |-> made.id])
    [] q.op = "add_task" -> Reaches("GET", uri, "get_task_by_id", [task |-> made.id])
    [] q.op = "put_share" ->
         Reaches("DELETE", uri, "delete_share",
                 [task |-> q.task, username |-> q.username])
    [] q.op = "create_auth_key" -> Claims(uri) = 0

LEMMA LocationLeadsBack ==
  ASSUME GInv, ActingInv, PlainUsernames, NEW w \in Workers,
         pc[w] = "answered", answer[w].status = 201,
         NEW q, q = request[w], NEW made, made = Made(w), NEW uri, uri = Location(w)
  PROVE  LeadsBack(q, made, uri)
<1> DEFINE raw == wire[w]
<1>1. raw # None /\ Passes(raw) /\ q = Extracted(Handler(raw), raw)
  BY DEF GInv, TakesUp
<1>2. Extracts(raw, q)
  BY <1>1, DispatchIsReceive
<1>3. PICK m \in answer[w].body : answer[w].body = {m} /\ MadeFor(q, m)
  BY DEF GInv, HInv, Handling, FitsFor, Fits, MadeOne
<1>4. made = m
  BY <1>3 DEF Made
<1>5. /\ q.op \in {"create_user", "create_auth_key", "add_task", "put_share"}
      /\ made.id \in 0..MaxI32
      /\ q.op = "put_share" => made.username \in Usernames
  BY <1>3, <1>4 DEF MadeFor
<1>6. CASE q.op = "create_user"
  <2>1. Reaches("GET", uri, "get_user", [user |-> made.id])
    BY <1>5, <1>6, LocationOf, ReachesUser
  <2> QED
    BY <1>6, <2>1 DEF LeadsBack
<1>7. CASE q.op = "add_task"
  <2>1. Reaches("GET", uri, "get_task_by_id", [task |-> made.id])
    BY <1>5, <1>7, LocationOf, ReachesTask
  <2> QED
    BY <1>7, <2>1 DEF LeadsBack
<1>8. CASE q.op = "create_auth_key"
  <2>1. Claims(uri) = 0
    BY <1>5, <1>8, LocationOf, AuthKeyLocation
  <2> QED
    BY <1>8, <2>1 DEF LeadsBack
<1>9. CASE q.op = "put_share"
  <2>1. q.task \in 0..MaxI32
    <3>1. Handler(raw) = "put_share" /\ q.task = Numeral[raw.path[2]]
      BY <1>2, <1>9 DEF Extracts
    <3> QED
      BY <1>1, <3>1, PathOfShare
  <2>2. made.username = q.username
    <3>1. PICK n : answer[w].body = {n} /\ n.username = q.username
      BY <1>9 DEF ActingInv, Acting
    <3> QED
      BY <1>3, <1>4, <3>1
  <2>3. q.username # Empty /\ AsSegments[made.username] = <<q.username>>
    BY <1>5, <1>9, <2>2 DEF PlainUsernames
  <2>4. uri = share_uri(q.task, <<q.username>>)
    BY <1>9, <2>3, LocationOf
  <2>5. Reaches("DELETE", uri, "delete_share", [task |-> q.task, username |-> q.username])
    BY <2>1, <2>3, <2>4, ReachesShare
  <2> QED
    BY <1>9, <2>5 DEF LeadsBack
<1> QED
  BY <1>5, <1>6, <1>7, <1>8, <1>9

\* What is known of the whole server, and of whom its handlers act for.
LEMMA ActingHolds == GatewaySpec => []ActingInv
<1>1. GatewayInit => ActingInv
  BY DEF GatewayInit, Init, ActingInv, Acting
<1>2. GInv /\ ActingInv /\ [GatewayNext]_gatewayVars => ActingInv'
  BY GatewayStepIsStep, ActingInvStep DEF GInv
<1> QED
  BY <1>1, <1>2, GatewayInvariant, PTL DEF GatewaySpec

\* Where usernames survive being put into a URI and a header as they are,
\* every 201 goes out, and its Location leads back to what was made: to the row
\* with this id, to the share of this task with this user, or nowhere.
THEOREM LocationsLeadBack ==
  ASSUME PlainUsernames
  PROVE  GatewaySpec => []LocationNamesWhatWasMade
<1>1. GInv /\ ActingInv => LocationNamesWhatWasMade
  <2> SUFFICES ASSUME GInv, ActingInv, NEW w \in Workers, pc[w] = "answered",
                      answer[w].status = 201
               PROVE  /\ Outgoing(w).status = 201
                      /\ LeadsBack(request[w], Made(w), Outgoing(w).location)
    BY DEF LocationNamesWhatWasMade, LeadsBack
  <2>1. Outgoing(w).status = 201 /\ Outgoing(w).location = Location(w)
    BY LocationGoesOut DEF PlainUsernames
  <2>2. LeadsBack(request[w], Made(w), Location(w))
    BY LocationLeadsBack
  <2> QED
    BY <2>1, <2>2
<1> QED
  BY <1>1, ActingHolds, GatewayInvariant, PTL

------------------------------------------------------------------------------
(***************************************************************************)
(* GET /users/me.                                                          *)
(***************************************************************************)
LEMMA MeIsRouted ==
  ASSUME NEW raw, AsksWhoTheyAre(raw)
  PROVE  /\ Served(raw) /\ Handler(raw) = "get_current_user"
         /\ FirstRefusal("get_current_user", raw) = 0
<1>1. raw.method = "GET" /\ raw.path = << <<"users">>, <<"me">> >>
  BY DEF AsksWhoTheyAre
<1>2. Matches(Pattern(7), raw.path)
  BY <1>1, TwoSegments, Segments, PartsSuit
<1>3. \A j \in {1, 2, 4, 5, 6} : ~Matches(Pattern(j), raw.path)
  BY <1>1, TwoSegments, Segments
<1>4. ~Matches(Pattern(3), raw.path)
  BY <1>1, TwoSegments, Segments, PartsSuit
<1>5. \A j \in 1..9 : j < 7 => j \in {1, 2, 4, 5, 6} \/ j = 3
  OBVIOUS
<1>6. Claims(raw.path) = 7
  BY <1>2, <1>3, <1>4, <1>5, ClaimedBy
<1>7. /\ Len(Routes(7)) = 1
      /\ Routes(7)[1].method = "GET" /\ Routes(7)[1].handler = "get_current_user"
  BY RoutesOfResources DEF route
<1>8. Served(raw) /\ Handler(raw) = "get_current_user"
  BY <1>1, <1>6, <1>7, RoutedTo
<1>9. Presents(raw.authorization, "Bearer")
  BY DEF AsksWhoTheyAre, BearsAKey, Presents
<1>10. FirstRefusal("get_current_user", raw) = 0
  <2>1. Accepts("AuthKey", "get_current_user", raw)
    BY <1>9, AcceptsAre
  <2>2. Extractors("get_current_user") = <<"AuthKey">>
    BY ExtractorsOf
  <2>3. \A i \in 1..Len(Extractors("get_current_user")) :
          Extractors("get_current_user")[i] = "AuthKey"
    BY <2>2
  <2>4. "get_current_user" \in Handlers
    BY DEF Handlers
  <2> QED
    BY <2>1, <2>3, <2>4, Refused
<1> QED
  BY <1>8, <1>10

\* What is replied to who asks who they are.
Told(key, r) ==
  \/ r.status = 500
  \/ r.status = 401 /\ auth_key_to_user(key) = {}
  \/ TellsWho(key, r) /\ r.media = "json"

TellsCaller(w) ==
  reply[w] # None /\ AsksWhoTheyAre(wire[w]) =>
    Told(wire[w].authorization[2], reply[w])

LEMMA ToldStill ==
  ASSUME IInv, [Next]_vars, NEW key \in minted \cup OtherKeys, NEW r, Told(key, r)
  PROVE  Told(key, r)'
<1>1. Tells(key, r) /\ Tells(key, r)'
  BY TellsStill DEF Told, Tells
<1>2. r.status = 200 /\ r.media = "json" => Told(key, r)'
  BY <1>1 DEF Tells, Told
<1>3. r.status \in {401, 500} => Told(key, r)'
  <2>1. r.status \in {401, 500} => r.status # 200
    OBVIOUS
  <2> QED
    BY <1>1, <2>1 DEF Tells, Told, TellsWho
<1> QED
  BY <1>2, <1>3 DEF Told, TellsWho

\* A reply which tells the caller right goes on doing so.
LEMMA TellsOn ==
  ASSUME GInv, [Next]_vars, NEW w \in Workers, wire[w] # None, wire'[w] = wire[w],
         AsksWhoTheyAre(wire[w]) => Told(wire[w].authorization[2], reply'[w])
  PROVE  TellsCaller(w)'
<1>1. CASE ~AsksWhoTheyAre(wire[w])
  BY <1>1 DEF TellsCaller, AsksWhoTheyAre
<1>2. CASE AsksWhoTheyAre(wire[w])
  <2>1. PICK key, r : key = wire[w].authorization[2] /\ r = reply'[w]
    OBVIOUS
  <2>2. key \in minted \cup OtherKeys
    BY <1>2, <2>1, KeysOnTheWire DEF GInv, Arrived, AsksWhoTheyAre
  <2>3. Told(key, r)'
    BY <1>2, <2>1, <2>2, ToldStill DEF GInv, HInv
  <2>4. Told(wire[w].authorization[2], reply[w])'
    BY <2>1, <2>3 DEF Told, TellsWho, auth_key_to_user
  <2> QED
    BY <2>4 DEF TellsCaller
<1> QED
  BY <1>1, <1>2

\* What goes out to who asks is what the handler said.
LEMMA OutgoingTells ==
  ASSUME GInv, ActingInv, NEW w \in Workers, pc[w] = "answered", AsksWhoTheyAre(wire[w])
  PROVE  Told(wire[w].authorization[2], Outgoing(w))
<1> DEFINE raw == wire[w]
           a == answer[w]
           key == raw.authorization[2]
<1>1. raw # None /\ Passes(raw) /\ request[w] = Extracted(Handler(raw), raw)
  BY DEF GInv, TakesUp
<1>2. request[w].op = "get_current_user" /\ request[w].key = key
  BY <1>1, MeIsRouted, Arguments_get_current_user
<1>3. Tells(key, a)
  BY <1>2 DEF ActingInv, Acting
<1>4. a.status \notin {201, 204}
  BY <1>3 DEF Tells, TellsWho
<1>5. Outgoing(w) = Plain(a, "json")
  BY <1>4 DEF Outgoing
<1>6. /\ Outgoing(w).status = a.status /\ Outgoing(w).body = a.body
      /\ Outgoing(w).media = "json"
  BY <1>5 DEF Plain, Reply
<1> QED
  BY <1>3, <1>6 DEF Tells, Told, TellsWho

LEMMA CallersAreToldStep ==
  ASSUME GInv, ActingInv, \A w \in Workers : TellsCaller(w),
         [GatewayNext]_gatewayVars
  PROVE  \A w \in Workers : TellsCaller(w)'
<1>1. [Next]_vars
  BY GatewayStepIsStep
<1>2. ASSUME NEW v \in Workers, wire'[v] = wire[v], reply'[v] = reply[v]
      PROVE  TellsCaller(v)'
  <2>1. CASE reply[v] = None
    BY <1>2, <2>1 DEF TellsCaller
  <2>2. CASE reply[v] # None
    BY <1>1, <1>2, <2>2, TellsOn DEF TellsCaller, GInv, RepliesTo
  <2> QED
    BY <2>1, <2>2
<1>3. ASSUME NEW v \in Workers, reply'[v] = None
      PROVE  TellsCaller(v)'
  BY <1>3 DEF TellsCaller
<1>4. ASSUME NEW w \in Workers, NEW r, SendReply(w, r), UNCHANGED wire, wire[w] # None,
             AsksWhoTheyAre(wire[w]) => Told(wire[w].authorization[2], r)
      PROVE  \A v \in Workers : TellsCaller(v)'
  <2>1. reply'[w] = r /\ \A v \in Workers \ {w} : reply'[v] = reply[v]
    BY <1>4 DEF SendReply, GInv
  <2>2. TellsCaller(w)'
    BY <1>1, <1>4, <2>1, TellsOn
  <2> QED
    BY <1>2, <1>4, <2>1, <2>2
<1>5. ASSUME NEW w \in Workers, Arrive(w) \/ Sent(w)
      PROVE  \A v \in Workers : TellsCaller(v)'
  <2>1. \A v \in Workers \ {w} : wire'[v] = wire[v] /\ reply'[v] = reply[v]
    BY <1>5 DEF Arrive, Sent, GInv
  <2>2. reply'[w] = None
    BY <1>5 DEF Arrive, Sent, GInv, RepliesTo
  <2> QED
    BY <1>2, <1>3, <2>1, <2>2
<1>6. ASSUME NEW w \in Workers, Unrouted(w) \/ Unextracted(w) \/ health(w)
      PROVE  \A v \in Workers : TellsCaller(v)'
  <2>1. PICK r : SendReply(w, r)
    BY <1>6 DEF Unrouted, Unextracted, health
  <2>2. ~AsksWhoTheyAre(wire[w])
    BY <1>6, MeIsRouted DEF Unrouted, Unextracted, health
  <2>3. UNCHANGED wire /\ wire[w] # None
    BY <1>6 DEF Unrouted, Unextracted, health, Undecided
  <2> QED
    BY <1>4, <2>1, <2>2, <2>3
<1>7. ASSUME NEW w \in Workers, Respond(w)
      PROVE  \A v \in Workers : TellsCaller(v)'
  <2> DEFINE r == Outgoing(w)
  <2>1. pc[w] = "answered" /\ SendReply(w, r) /\ UNCHANGED wire /\ wire[w] # None
    BY <1>7 DEF Respond, GInv, TakesUp
  <2>2. AsksWhoTheyAre(wire[w]) => Told(wire[w].authorization[2], r)
    BY <2>1, OutgoingTells
  <2> HIDE DEF r
  <2> QED
    BY <1>4, <2>1, <2>2
<1>8. ASSUME UNCHANGED <<wire, reply>>
      PROVE  \A v \in Workers : TellsCaller(v)'
  BY <1>2, <1>8
<1>9. ASSUME Die
      PROVE  \A v \in Workers : TellsCaller(v)'
  BY <1>3, <1>9 DEF Die
<1> QED
  BY <1>5, <1>6, <1>7, <1>8, <1>9 DEF GatewayNext, Dispatch, gatewayVars

\* For any workers, accounts and keys: whoever presents a key which works is
\* told who they are and nobody else is, whatever others register, revoke or let
\* expire before the reply is sent.
THEOREM CallersAreTold == GatewaySpec => []MeIsTheCaller
<1> DEFINE CallersTold == \A w \in Workers : TellsCaller(w)
<1>1. GatewayInit => CallersTold
  BY DEF GatewayInit, TellsCaller
<1>2. GInv /\ ActingInv /\ CallersTold /\ [GatewayNext]_gatewayVars => CallersTold'
  BY CallersAreToldStep
<1>3. CallersTold => MeIsTheCaller
  BY DEF TellsCaller, Told, MeIsTheCaller, Replied
<1> HIDE DEF CallersTold
<1> QED
  BY <1>1, <1>2, <1>3, ActingHolds, GatewayInvariant, PTL DEF GatewaySpec

------------------------------------------------------------------------------
(***************************************************************************)
(* POST /auth_keys with the username and the password of an account.       *)
(***************************************************************************)
\* The account whose key is about to be made is the one the request names.
AtKey(w) ==
  pc[w] = "insert_key" =>
    /\ target[w].username = request[w].username
    /\ target[w].password = hash_password(request[w].password)

AtKeyInv == \A w \in Workers : AtKey(w)

LEMMA AtKeyStep ==
  ASSUME HInv, NEW w \in Workers, Statement(w) \/ Fail(w), IInv'
  PROVE  AtKey(w)'
<1>1. /\ IInv /\ UNCHANGED request /\ request[w] \in Requests
      /\ pc[w] \in Statements(request[w].op)
  BY StatementsKeepRequests, AtStatement
<1>2. /\ \A a : Answer(w, a) => pc'[w] = "answered"
      /\ \A l : Continue(w, l) => pc'[w] = l
      /\ \A u : target' = [target EXCEPT ![w] = u] => target'[w] = u
  BY <1>1 DEF Answer, Continue, IInv, TypeOK
<1>3. CASE pc'[w] # "insert_key"
  BY <1>3 DEF AtKey
<1>4. CASE pc'[w] = "insert_key"
  <2>1. pc'[w] \in Statements(request'[w].op)
    BY <1>4 DEF IInv, TypeOK, ThreadOK
  <2>2. request[w].op = "create_auth_key"
    BY <1>1, <1>4, <2>1, ServedOperation
  <2>3. pc[w] \in {"find_account", "insert_key"}
    BY <1>1, <2>2 DEF Statements
  <2>4. ~Fail(w)
    BY <1>2, <1>4 DEF Fail
  <2>5. FindAccount(w) \/ InsertKey(w)
    BY <2>3, <2>4 DEF Statement, Authenticate, InsertUser, DeleteKey, FindUser,
       ListTasks, InsertTask, LoadTask, LoadShare, ReadTask, UpdateTask,
       CheckOwner, ListShares, FindTarget, UpsertShare, DeleteShare
  <2>6. ~InsertKey(w)
    BY <1>2, <1>4 DEF InsertKey, AnswerWrite
  <2>7. PICK u \in get_user_by_name(request[w].username) :
          /\ verify_password(request[w].password, u.password)
          /\ target' = [target EXCEPT ![w] = u]
    BY <1>2, <1>4, <2>5, <2>6 DEF FindAccount
  <2>8. u.username = request[w].username /\ u \in User
    BY <1>1, <2>7 DEF get_user_by_name, IInv, TypeOK, TypedDatabase
  <2>9. u.password = hash_password(request[w].password)
    BY <2>7, <2>8 DEF verify_password, hash_password, User, HashedPassword
  <2> QED
    BY <1>1, <1>2, <2>7, <2>8, <2>9 DEF AtKey, hash_password
<1> QED
  BY <1>3, <1>4

LEMMA AtKeyInvStep ==
  ASSUME HInv, AtKeyInv, [Next]_vars
  PROVE  AtKeyInv'
<1>1. IInv /\ IInv'
  BY NextKeepsIInv DEF HInv
<1>2. ASSUME NEW v \in Workers, pc'[v] = pc[v], request'[v] = request[v],
             target'[v] = target[v]
      PROVE  AtKey(v)'
  BY <1>2 DEF AtKeyInv, AtKey, hash_password
<1>3. ASSUME NEW v \in Workers, pc'[v] # "insert_key"
      PROVE  AtKey(v)'
  BY <1>3 DEF AtKey
<1>4. ASSUME NEW w \in Workers, Receive(w) \/ Statement(w) \/ Fail(w) \/ Deliver(w)
      PROVE  AtKeyInv'
  <2>1. \A v \in Workers \ {w} : AtKey(v)'
    BY <1>1, <1>2, <1>4, OthersWaitForOne DEF OthersWait
  <2>2. ASSUME Receive(w)
        PROVE  AtKey(w)'
    <3>1. PICK r \in Requests : Begin(w, r)
      BY <2>2 DEF Receive
    <3>2. FirstStatement(r.op) # "insert_key"
      BY DEF FirstStatement
    <3>3. pc'[w] # "insert_key"
      BY <1>1, <3>1, <3>2 DEF Begin, Answer, Continue, IInv, TypeOK
    <3> QED
      BY <1>3, <3>3
  <2>3. ASSUME Deliver(w)
        PROVE  AtKey(w)'
    <3>1. pc'[w] = "idle"
      BY <1>1, <2>3 DEF Deliver, Reset, IInv, TypeOK
    <3> QED
      BY <1>3, <3>1
  <2> QED
    BY <1>1, <1>4, <2>1, <2>2, <2>3, AtKeyStep DEF AtKeyInv
<1>5. CASE Crash
  <2>1. \A w \in Workers : pc'[w] # "insert_key"
    BY <1>5 DEF Crash
  <2> QED
    BY <1>3, <2>1 DEF AtKeyInv
<1>6. CASE PassTime \/ UNCHANGED vars
  <2>1. UNCHANGED threads
    BY <1>6 DEF PassTime, vars, threads
  <2> QED
    BY <1>2, <2>1 DEF threads, AtKeyInv
<1> QED
  BY <1>4, <1>5, <1>6 DEF Next

LEMMA AtKeyHolds == GatewaySpec => []AtKeyInv
<1>1. GatewayInit => AtKeyInv
  BY DEF GatewayInit, Init, AtKeyInv, AtKey
<1>2. GInv /\ AtKeyInv /\ [GatewayNext]_gatewayVars => AtKeyInv'
  BY GatewayStepIsStep, AtKeyInvStep DEF GInv
<1> QED
  BY <1>1, <1>2, GatewayInvariant, PTL DEF GatewaySpec

------------------------------------------------------------------------------
\* A text is taken apart at its first colon, and nothing is lost.
LEMMA Halves ==
  ASSUME NEW piece, NEW p \in Seq(STRING) \ {<<>>}, NEW text, text = <<piece>> \o p
  PROVE  Len(text) > 1 /\ <<Head(text)>> = <<piece>> /\ Tail(text) = p
<1> DEFINE S == {piece} \cup STRING
           s == <<piece>>
<1>1. s \in Seq(S) /\ Len(s) = 1 /\ s[1] = piece
  OBVIOUS
<1>2. p \in Seq(S) /\ Len(p) \in Nat /\ Len(p) # 0
  <2>1. p \in Seq(S)
    BY SeqMonotonic
  <2> QED
    BY <2>1, EmptySeq
<1> HIDE DEF S
<1>3. /\ text \in Seq(S) /\ Len(text) = 1 + Len(p)
      /\ \A i \in 1..1 + Len(p) : text[i] = IF i <= 1 THEN s[i] ELSE p[i - 1]
  BY <1>1, <1>2, ConcatProperties
<1>4. text # <<>> /\ Len(text) > 1
  BY <1>2, <1>3
<1>5. Head(text) = piece
  BY <1>1, <1>2, <1>3, <1>4
<1>6. /\ Tail(text) \in Seq(S) /\ Len(Tail(text)) = Len(p)
      /\ \A i \in 1..Len(p) : Tail(text)[i] = text[i + 1]
  BY <1>2, <1>3, <1>4, HeadTailProperties
<1>7. \A i \in 1..Len(p) : Tail(text)[i] = p[i]
  BY <1>2, <1>3, <1>6
<1>8. Tail(text) = p
  BY <1>2, <1>6, <1>7, SeqEqual
<1> QED
  BY <1>4, <1>5, <1>8

LEMMA HalvesOfText ==
  ASSUME NEW text \in Seq(STRING), Len(text) > 1
  PROVE  /\ text = <<Head(text)>> \o Tail(text)
         /\ HasNoColon(<<Head(text)>>)
<1> DEFINE s == <<Head(text)>>
           t == Tail(text)
           joined == s \o t
<1>1. /\ Len(text) \in Nat /\ text # <<>>
  OBVIOUS
<1>2. Head(text) = text[1] /\ Head(text) \in STRING
  BY <1>1
<1>3. s \in Seq(STRING) /\ Len(s) = 1 /\ s[1] = text[1]
  BY <1>2
<1>4. /\ t \in Seq(STRING) /\ Len(t) = Len(text) - 1
      /\ \A i \in 1..Len(t) : t[i] = text[i + 1]
  BY <1>1, HeadTailProperties
<1> HIDE DEF s, t
<1>5. /\ joined \in Seq(STRING) /\ Len(joined) = Len(s) + Len(t)
      /\ \A i \in 1..Len(s) + Len(t) : joined[i] = IF i <= Len(s) THEN s[i] ELSE t[i - Len(s)]
  <2>1. s \in Seq(STRING) /\ t \in Seq(STRING)
    BY <1>3, <1>4
  <2> QED
    BY <2>1, ConcatProperties
<1>6. \A i \in 1..Len(text) : joined[i] = text[i]
  BY <1>1, <1>3, <1>4, <1>5
<1>7. Len(joined) = Len(text)
  BY <1>1, <1>3, <1>4, <1>5
<1>8. joined = text
  BY <1>5, <1>6, <1>7, SeqEqual
<1> QED
  BY <1>3, <1>8 DEF HasNoColon, s, t

\* The header with the name and the password of an account is taken apart right,
\* unless the name has a colon.
LEMMA AccountPresented ==
  ASSUME NEW raw, NEW u \in users, HasNoColon(u.username),
         Holds(raw.authorization, u), IInv
  PROVE  /\ FirstRefusal("create_auth_key", raw) = 0
         /\ \E p \in Passwords :
              /\ u.password = hash_password(p)
              /\ <<Head(raw.authorization[2].text)>> = u.username
              /\ Tail(raw.authorization[2].text) = p
<1> DEFINE text == raw.authorization[2].text
<1>1. PICK p \in Passwords :
        text = u.username \o p /\ u.password = hash_password(p)
  BY DEF Holds
<1>2. PICK piece : u.username = <<piece>>
  <2>1. u.username \in Seq(STRING) /\ Len(u.username) = 1
    BY TextAssumption DEF HasNoColon, IInv, TypeOK, TypedDatabase, User
  <2>2. u.username = <<u.username[1]>>
    BY <2>1
  <2> QED
    BY <2>2
<1>3. Len(text) > 1 /\ <<Head(text)>> = u.username /\ Tail(text) = p
  BY <1>1, <1>2, Halves, TextAssumption
<1>4. Accepts("Credentials", "create_auth_key", raw)
  BY <1>3, AcceptsAre DEF Holds, Decodes
<1>5. \A i \in 1..Len(Extractors("create_auth_key")) :
        Extractors("create_auth_key")[i] = "Credentials"
  BY ExtractorsOf
<1>6. "create_auth_key" \in Handlers
  BY DEF Handlers
<1>7. FirstRefusal("create_auth_key", raw) = 0
  BY <1>4, <1>5, <1>6, Refused
<1> QED
  BY <1>1, <1>3, <1>7

\* An account with the name and the password the handler was given is one which
\* the header holds, and its name has no colon.
LEMMA AccountHeld ==
  ASSUME GInv, NEW w \in Workers, pc[w] # "idle",
         Handler(wire[w]) = "create_auth_key",
         NEW u \in users, u.username = request[w].username,
         u.password = hash_password(request[w].password)
  PROVE  HasNoColon(u.username) /\ Holds(wire[w].authorization, u)
<1> DEFINE raw == wire[w]
           token == raw.authorization[2]
           text == token.text
<1>1. /\ raw # None /\ Passes(raw) /\ request[w] = Extracted("create_auth_key", raw)
      /\ raw \in RawRequests
  BY DEF GInv, TakesUp, Arrived
<1>2. request[w].username = <<Head(text)>> /\ request[w].password = Tail(text)
  <2> DEFINE name == <<Head(text)>>
             password == Tail(text)
  <2>1. Extracted("create_auth_key", raw) =
          [op |-> "create_auth_key", username |-> name, password |-> password]
    BY Arguments_create_auth_key
  <2> HIDE DEF name, password
  <2>2. request[w].username = name /\ request[w].password = password
    BY <1>1, <2>1
  <2> QED
    BY <2>2 DEF name, password
<1>3. Presents(raw.authorization, "Basic") /\ Decodes(token)
  <2>1. FirstRefusal("create_auth_key", raw) = 0
    BY <1>1 DEF Passes
  <2>2. /\ Extractors("create_auth_key")[1] = "Credentials"
        /\ 1 \in 1..Len(Extractors("create_auth_key"))
    BY ExtractorsOf
  <2>3. "create_auth_key" \in Handlers
    BY DEF Handlers
  <2>4. Accepts("Credentials", "create_auth_key", raw)
    BY <2>1, <2>2, <2>3, Refused
  <2> QED
    BY <2>4, AcceptsAre
<1>4. token.base64 /\ token.utf8 /\ Len(text) > 1
  BY <1>3 DEF Decodes
<1>5. WellTyped(raw)
  BY <1>1, WireAssumption
<1>6. text \in Seq(STRING) /\ Tail(text) \in Passwords
  BY <1>3, <1>4, <1>5 DEF WellTyped
<1>7. text = u.username \o Tail(text) /\ HasNoColon(u.username)
  BY <1>2, <1>4, <1>6, HalvesOfText
<1> QED
  BY <1>2, <1>3, <1>4, <1>6, <1>7 DEF Holds

\* The handler finds the account, and the password is right.
LEMMA AccountFound ==
  ASSUME HInv, NEW w \in Workers, Statement(w) \/ Fail(w),
         request[w].op = "create_auth_key",
         NEW u \in users, request[w].username = u.username,
         u.password = hash_password(request[w].password)
  PROVE  \/ \E l : Continue(w, l) /\ l # "answered"
         \/ \E a : Answer(w, a) /\ a.status \in {201, 500}
<1>1. CASE Fail(w)
  BY <1>1, ErrorAnswers DEF Fail
<1>2. CASE Statement(w)
  <2>1. Busy(w)
    BY StatementsKeepRequests
  <2>2. pc[w] \in Statements(request[w].op)
    BY <2>1, AtStatement
  <2>3. pc[w] \in {"find_account", "insert_key"}
    BY <2>2 DEF Statements
  <2>4. FindAccount(w) \/ InsertKey(w)
    BY <1>2, <2>3 DEF Statement, Authenticate, InsertUser, DeleteKey, FindUser,
       ListTasks, InsertTask, LoadTask, LoadShare, ReadTask, UpdateTask,
       CheckOwner, ListShares, FindTarget, UpsertShare, DeleteShare
  <2>5. CASE FindAccount(w)
    <3>1. u \in get_user_by_name(request[w].username)
      BY DEF get_user_by_name
    <3>2. \A v \in get_user_by_name(request[w].username) : v = u
      BY DEF get_user_by_name, HInv, IInv, Integrity, ConsistentDatabase, UniqueUsernames
    <3>3. verify_password(request[w].password, u.password)
      BY DEF verify_password, hash_password
    <3>4. Continue(w, "insert_key")
      BY <2>5, <3>1, <3>2, <3>3 DEF FindAccount
    <3> QED
      BY <3>4
  <2>6. CASE InsertKey(w)
    <3>1. PICK made : AnswerWrite(w, Response(201, {made}))
      BY <2>6 DEF InsertKey
    <3>2. Response(201, {made}).status = 201
      BY DEF Response
    <3> QED
      BY <3>1, <3>2, ErrorAnswers DEF AnswerWrite
  <2> QED
    BY <2>4, <2>5, <2>6
<1> QED
  BY <1>1, <1>2

\* The steps which settle an answer: routing, an extractor, or the handler.
LEMMA SettledBy ==
  ASSUME GInv, [GatewayNext]_gatewayVars, NEW w \in Workers, ~Decided(w), Decided(w)'
  PROVE  \/ (Unrouted(w) \/ Unextracted(w) \/ health(w)) /\ pc'[w] = pc[w]
         \/ Dispatch(w)
         \/ (Statement(w) \/ Fail(w)) /\ UNCHANGED <<wire, reply>>
<1>1. /\ pc[w] # "answered" /\ reply[w] = None /\ IInv
      /\ pc'[w] = "answered" \/ reply'[w] # None
  BY DEF Decided, GInv, HInv
<1>2. ASSUME pc'[w] = pc[w], reply'[w] = reply[w]
      PROVE  FALSE
  BY <1>1, <1>2
<1>3. ASSUME NEW v \in Workers, Arrive(v) \/ Sent(v)
      PROVE  FALSE
  <2>1. pc'[w] = pc[w]
    BY <1>3 DEF Arrive, Sent, vars
  <2>2. reply'[w] = None
    BY <1>1, <1>3 DEF Arrive, Sent, GInv
  <2> QED
    BY <1>1, <1>2, <2>1, <2>2
<1>4. ASSUME NEW v \in Workers, Unrouted(v) \/ Unextracted(v) \/ health(v)
      PROVE  v = w /\ pc'[w] = pc[w]
  <2>1. PICK r : SendReply(v, r) /\ pc' = pc
    BY <1>4 DEF Unrouted, Unextracted, health, vars
  <2>2. CASE v # w
    <3>1. reply'[w] = reply[w] /\ pc'[w] = pc[w]
      BY <2>1, <2>2 DEF SendReply, GInv
    <3> QED
      BY <1>2, <3>1
  <2> QED
    BY <2>1, <2>2
<1>5. ASSUME NEW v \in Workers, Dispatch(v)
      PROVE  v = w
  <2>1. CASE v # w
    <3>1. pc'[w] = pc[w] /\ reply'[w] = reply[w]
      BY <1>1, <1>5, <2>1 DEF Dispatch, Begin, Answer, Continue, IInv, TypeOK
    <3> QED
      BY <1>2, <3>1
  <2> QED
    BY <2>1
<1>6. ASSUME NEW v \in Workers, Respond(v)
      PROVE  FALSE
  <2>1. v # w
    BY <1>1, <1>6 DEF Respond
  <2>2. reply'[w] = reply[w] /\ pc'[w] = pc[w]
    BY <1>6, <2>1 DEF Respond, SendReply, Reset, GInv, HInv, IInv, TypeOK
  <2> QED
    BY <1>2, <2>2
<1>7. ASSUME NEW v \in Workers, Statement(v) \/ Fail(v), UNCHANGED <<wire, reply>>
      PROVE  v = w
  <2>1. CASE v # w
    <3>1. pc'[w] = pc[w]
      BY <1>1, <1>7, <2>1, OthersWaitForOne DEF OthersWait
    <3> QED
      BY <1>2, <1>7, <3>1
  <2> QED
    BY <2>1
<1>8. ASSUME Die
      PROVE  FALSE
  <2>1. reply'[w] = None /\ pc'[w] = "idle"
    BY <1>8 DEF Die, Crash, vars
  <2> QED
    BY <1>1, <2>1
<1>9. ASSUME UNCHANGED <<threads, wire, reply>>
      PROVE  FALSE
  BY <1>2, <1>9 DEF threads
<1> QED
  BY <1>3, <1>4, <1>5, <1>6, <1>7, <1>8, <1>9
     DEF GatewayNext, PassTime, gatewayVars, vars, threads

\* Nothing but the handler's INSERT hands out a key, to the account it found.
LEMMA KeysGoToAccounts ==
  ASSUME GInv, AtKeyInv, [GatewayNext]_gatewayVars, NEW w \in Workers,
         SettlesLogin(w), pc'[w] = "answered", answer'[w].status = 201
  PROVE  \E u \in users : /\ HasNoColon(u.username)
                          /\ Holds(wire[w].authorization, u)
                          /\ LogsInto(w, u)
<1>1. /\ Handler(wire[w]) = "create_auth_key" /\ ~Decided(w) /\ Decided(w)'
      /\ IInv /\ pc[w] # "answered"
  BY DEF SettlesLogin, Asks, Decided, GInv, HInv
<1>2. \A a : Answer(w, a) => answer'[w] = a
  BY <1>1 DEF Answer, IInv, TypeOK
<1>3. \A l : Continue(w, l) => pc'[w] = l
  BY <1>1 DEF Continue, IInv, TypeOK
<1>4. ~Dispatch(w)
  <2>1. ASSUME Dispatch(w)
        PROVE  FALSE
    <3> DEFINE r == Extracted(Handler(wire[w]), wire[w])
    <3>1. Begin(w, r)
      BY <2>1 DEF Dispatch
    <3>2. FirstStatement(r.op) # "answered"
      BY DEF FirstStatement
    <3>3. Answer(w, into_http_response("InvalidData"))
      BY <1>3, <3>1, <3>2 DEF Begin
    <3> QED
      BY <1>2, <3>3, ErrorAnswers
  <2> QED
    BY <2>1
<1>5. Statement(w) \/ Fail(w)
  BY <1>1, <1>4, SettledBy
<1>6. ~Fail(w)
  BY <1>2, ErrorAnswers DEF Fail
<1>7. Busy(w)
  BY <1>5, StatementsKeepRequests
<1>8. pc[w] # "idle" /\ request[w] = Extracted(Handler(wire[w]), wire[w])
  BY <1>7 DEF Busy, GInv, TakesUp
<1>9. request[w].op = "create_auth_key"
  <2>1. Extracted("create_auth_key", wire[w]).op = "create_auth_key"
    BY Arguments_create_auth_key
  <2> QED
    BY <1>1, <1>8, <2>1
<1>10. pc[w] \in {"find_account", "insert_key"}
  BY <1>7, <1>9, AtStatement DEF GInv, Statements
<1>11. FindAccount(w) \/ InsertKey(w)
  BY <1>5, <1>6, <1>10 DEF Statement, Authenticate, InsertUser, DeleteKey, FindUser,
     ListTasks, InsertTask, LoadTask, LoadShare, ReadTask, UpdateTask,
     CheckOwner, ListShares, FindTarget, UpsertShare, DeleteShare
<1>12. ~FindAccount(w)
  BY <1>2, <1>3, ErrorAnswers DEF FindAccount
<1>13. InsertKey(w)
  BY <1>11, <1>12
<1> DEFINE u == target[w]
<1>14. pc[w] = "insert_key"
  BY <1>13 DEF InsertKey
<1>15. u \in users
  BY <1>1, <1>14 DEF IInv, HandlersKnowledgeHolds, Knowledge, AfterTarget
<1>16. u.username = request[w].username /\ u.password = hash_password(request[w].password)
  BY <1>14 DEF AtKeyInv, AtKey
<1>17. HasNoColon(u.username) /\ Holds(wire[w].authorization, u)
  BY <1>1, <1>8, <1>15, <1>16, AccountHeld
<1>18. PICK key : /\ insert_auth_key(target[w].id, key)
                  /\ AnswerWrite(w, Response(201, {[id |-> next_id("auth_keys"),
                                                    auth_key |-> key]}))
  BY <1>13 DEF InsertKey
<1> DEFINE made == [id |-> next_id("auth_keys"), auth_key |-> key]
           row == [id |-> next_id("auth_keys"), user_id |-> target[w].id,
                   key |-> key, expiration |-> now + Lifetime]
<1>19. answer'[w] = Response(201, {made})
  BY <1>2, <1>18, ErrorAnswers DEF AnswerWrite
<1>20. row \in auth_keys'
  BY <1>18 DEF insert_auth_key
<1>21. LogsInto(w, u)
  <2>1. answer'[w].body = {made}
    BY <1>19 DEF Response
  <2>2. row.user_id = u.id /\ made = [id |-> row.id, auth_key |-> row.key]
    OBVIOUS
  <2> QED
    BY <1>20, <2>1, <2>2 DEF LogsInto
<1> QED
  BY <1>15, <1>17, <1>21

\* Whoever presents the name, which has no colon, and the password of an account
\* is not refused.
LEMMA LoginDecided ==
  ASSUME GInv, [GatewayNext]_gatewayVars, NEW w \in Workers, SettlesLogin(w),
         NEW u \in users, HasNoColon(u.username), Holds(wire[w].authorization, u)
  PROVE  pc'[w] = "answered" /\ answer'[w].status \in {201, 500}
<1> DEFINE raw == wire[w]
<1>1. /\ Served(raw) /\ Handler(raw) = "create_auth_key"
      /\ ~Decided(w) /\ Decided(w)'
      /\ pc[w] # "answered" /\ reply[w] = None /\ IInv
      /\ pc'[w] = "answered" \/ reply'[w] # None
  BY DEF SettlesLogin, Asks, Decided, GInv, HInv
<1>2. FirstRefusal("create_auth_key", raw) = 0
  BY <1>1, AccountPresented
<1>3. PICK p \in Passwords :
        /\ u.password = hash_password(p)
        /\ <<Head(raw.authorization[2].text)>> = u.username
        /\ Tail(raw.authorization[2].text) = p
  BY <1>1, AccountPresented
<1>4. \A r : r = Extracted(Handler(raw), raw) =>
        r.op = "create_auth_key" /\ r.username = u.username /\ r.password = p
  <2>1. Extracted("create_auth_key", raw) =
          [op |-> "create_auth_key", username |-> u.username, password |-> p]
    BY <1>3, Arguments_create_auth_key
  <2> QED
    BY <1>1, <2>1
<1>5. ~(Unrouted(w) \/ Unextracted(w) \/ health(w))
  BY <1>1, <1>2 DEF Unrouted, Unextracted, health
<1>6. ~Dispatch(w)
  <2>1. ASSUME Dispatch(w)
        PROVE  FALSE
    <3> DEFINE r == Extracted(Handler(raw), raw)
    <3>1. Begin(w, r) /\ reply'[w] = reply[w]
      BY <2>1 DEF Dispatch
    <3>2. r.op = "create_auth_key" /\ r.username = u.username
      BY <1>4
    <3>3. u.username \in Usernames
      BY <1>1 DEF IInv, TypeOK, TypedDatabase, User
    <3> HIDE DEF r
    <3>4. ~Invalid(r)
      BY <3>2, <3>3, BlankAssumption DEF Invalid
    <3>5. Continue(w, "find_account")
      BY <3>1, <3>2, <3>4 DEF Begin, FirstStatement
    <3>6. pc'[w] = "find_account"
      BY <1>1, <3>5 DEF Continue, IInv, TypeOK
    <3> QED
      BY <1>1, <3>1, <3>6
  <2> QED
    BY <2>1
<1>7. (Statement(w) \/ Fail(w)) /\ UNCHANGED <<wire, reply>>
  BY <1>1, <1>5, <1>6, SettledBy
<1>8. pc[w] # "idle"
  BY <1>7, StatementsKeepRequests DEF Busy
<1>9. request[w] = Extracted(Handler(raw), raw)
  BY <1>8 DEF GInv, TakesUp
<1>10. /\ request[w].op = "create_auth_key" /\ request[w].username = u.username
       /\ request[w].password = p
  BY <1>4, <1>9
<1>11. \/ \E l : Continue(w, l) /\ l # "answered"
       \/ \E a : Answer(w, a) /\ a.status \in {201, 500}
  BY <1>3, <1>7, <1>10, AccountFound DEF GInv
<1>12. pc'[w] = "answered"
  BY <1>1, <1>7
<1>13. \A l : Continue(w, l) => pc'[w] = l
  BY <1>1 DEF Continue, IInv, TypeOK
<1>14. \A a : Answer(w, a) => answer'[w] = a
  BY <1>1 DEF Answer, IInv, TypeOK
<1> QED
  BY <1>11, <1>12, <1>13, <1>14

\* A header holds one account's name and password at most, colons aside.
LEMMA OneAccountHeld ==
  ASSUME IInv, NEW raw, NEW u \in users, NEW v \in users,
         HasNoColon(u.username), Holds(raw.authorization, u),
         HasNoColon(v.username), Holds(raw.authorization, v)
  PROVE  u = v
<1>1. <<Head(raw.authorization[2].text)>> = u.username
  BY AccountPresented
<1>2. <<Head(raw.authorization[2].text)>> = v.username
  BY AccountPresented
<1> QED
  BY <1>1, <1>2 DEF IInv, Integrity, ConsistentDatabase, UniqueUsernames

\* For any accounts, colons in their names and passwords included: presenting the
\* name and the password of an account logs into it unless its name has a colon or
\* the database fails, and nothing else logs into it.
THEOREM AccountsLogIn == GatewaySpec => AccountsCanLogIn
<1>1. ASSUME GInv, AtKeyInv, [GatewayNext]_gatewayVars, NEW w \in Workers,
             SettlesLogin(w), NEW u \in users, HasNoColon(u.username),
             Holds(wire[w].authorization, u)
      PROVE  LogsInto(w, u) \/ FailsToLogIn(w)
  <2>1. pc'[w] = "answered" /\ answer'[w].status \in {201, 500}
    BY <1>1, LoginDecided
  <2>2. CASE answer'[w].status = 201
    <3>1. PICK v \in users : /\ HasNoColon(v.username)
                             /\ Holds(wire[w].authorization, v)
                             /\ LogsInto(w, v)
      BY <1>1, <2>1, <2>2, KeysGoToAccounts
    <3>2. u = v
      BY <1>1, <3>1, OneAccountHeld DEF GInv, HInv
    <3> QED
      BY <3>1, <3>2
  <2> QED
    BY <2>1, <2>2 DEF FailsToLogIn
<1> DEFINE Settled(w) ==
      SettlesLogin(w) =>
        LET named == {u \in users : /\ HasNoColon(u.username)
                                    /\ Holds(wire[w].authorization, u)}
        IN /\ \A u \in named : LogsInto(w, u) \/ FailsToLogIn(w)
           /\ pc'[w] = "answered" /\ answer'[w].status = 201 =>
                \E u \in named : LogsInto(w, u)
<1>2. ASSUME GInv, AtKeyInv, [GatewayNext]_gatewayVars, NEW w \in Workers
      PROVE  Settled(w)
  <2> SUFFICES ASSUME SettlesLogin(w)
               PROVE  Settled(w)
    OBVIOUS
  <2>1. \A u \in users : HasNoColon(u.username) /\ Holds(wire[w].authorization, u) =>
          LogsInto(w, u) \/ FailsToLogIn(w)
    BY <1>1, <1>2
  <2>2. pc'[w] = "answered" /\ answer'[w].status = 201 =>
          \E u \in users : /\ HasNoColon(u.username)
                           /\ Holds(wire[w].authorization, u)
                           /\ LogsInto(w, u)
    BY <1>2, KeysGoToAccounts
  <2> QED
    BY <2>1, <2>2
<1>3. GInv /\ AtKeyInv /\ [GatewayNext]_gatewayVars =>
        [\A w \in Workers : Settled(w)]_gatewayVars
  BY <1>2
<1> QED
  BY <1>3, GatewayInvariant, AtKeyHolds, PTL DEF GatewaySpec, AccountsCanLogIn

================================================================================
