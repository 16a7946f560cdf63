---------------------------- MODULE RoutingTheorems ----------------------------
(***************************************************************************)
(* What the routing table and the extractors give, for any texts.          *)
(***************************************************************************)
EXTENDS Routing, SequenceTheorems, TLAPS

\* A set of numbers up to nine has a least one.
LEMMA LeastExists ==
  ASSUME NEW S \in SUBSET (1..9), S # {}
  PROVE  \E m \in S : \A j \in S : m <= j
<1> DEFINE Before(n) == S \cap (1..n) = {}
<1> SUFFICES ASSUME \A m \in S : \E j \in S : j < m
             PROVE  FALSE
  OBVIOUS
<1>1. Before(0)
  OBVIOUS
<1>2. ASSUME NEW n \in 0..8, Before(n)
      PROVE  Before(n + 1)
  BY <1>2
<1> HIDE DEF Before
<1>3. Before(0 + 1) /\ Before(1 + 1) /\ Before(2 + 1) /\ Before(3 + 1) /\ Before(4 + 1)
  BY <1>1, <1>2
<1>4. Before(5 + 1) /\ Before(6 + 1) /\ Before(7 + 1) /\ Before(8 + 1)
  BY <1>2, <1>3
<1>5. S \cap (1..9) = {}
  BY <1>4 DEF Before
<1>6. PICK m \in S : TRUE
  OBVIOUS
<1>7. m \in S \cap (1..9)
  OBVIOUS
<1> QED
  BY <1>5, <1>7

LEMMA Least ==
  ASSUME NEW S \in SUBSET (1..9), S # {}
  PROVE  Seqs!Min(S) \in S /\ \A j \in S : Seqs!Min(S) <= j
BY LeastExists DEF Seqs!Min

------------------------------------------------------------------------------
LEMMA NineResources == Len(resources) = 9 /\ DOMAIN resources = 1..9
BY DEF resources

\* The resource which claims a path is the first whose pattern matches.
LEMMA Claimed ==
  ASSUME NEW path
  PROVE  /\ Claims(path) \in 0..9
         /\ Claims(path) # 0 =>
              /\ Matches(resources[Claims(path)].pattern, path)
              /\ \A j \in 1..9 :
                   j < Claims(path) => ~Matches(resources[j].pattern, path)
         /\ Claims(path) = 0 => \A j \in 1..9 : ~Matches(resources[j].pattern, path)
<1> DEFINE I == {i \in 1..9 : Matches(resources[i].pattern, path)}
<1>1. Claims(path) = IF I # {} THEN Seqs!Min(I) ELSE 0
  BY NineResources DEF Claims, Seqs!SelectInSeq
<1>2. I \in SUBSET (1..9)
  OBVIOUS
<1> QED
  BY <1>1, <1>2, Least

\* The routes of each resource.
Routes(i) == resources[i].routes

LEMMA RoutesOfResources ==
  /\ Routes(1) = << route("POST", "create_auth_key"), route("DELETE", "delete_auth_key") >>
  /\ Routes(2) = << route("GET", "get_tasks"), route("POST", "add_task") >>
  /\ Routes(3) = << route("GET", "get_task_by_id"), route("PATCH", "update_task_by_id") >>
  /\ Routes(4) = << route("GET", "get_task_shares") >>
  /\ Routes(5) = << route("PUT", "put_share"), route("DELETE", "delete_share") >>
  /\ Routes(6) = << route("POST", "create_user") >>
  /\ Routes(7) = << route("GET", "get_current_user") >>
  /\ Routes(8) = << route("GET", "get_user") >>
  /\ Routes(9) = << route("GET", "health") >>
BY DEF resources, resource, Routes

\* The route taken is one of the claiming resource's, with the request's method.
LEMMA Routed ==
  ASSUME NEW raw, Served(raw)
  PROVE  /\ Claims(raw.path) \in 1..9
         /\ Matches(resources[Claims(raw.path)].pattern, raw.path)
         /\ \E i \in DOMAIN Routes(Claims(raw.path)) :
              /\ Handler(raw) = Routes(Claims(raw.path))[i].handler
              /\ raw.method = Routes(Claims(raw.path))[i].method
<1> DEFINE routes == RoutesAt(raw.path)
           I == {i \in 1..Len(routes) : routes[i].method = raw.method}
<1>1. Route(raw.method, raw.path) = IF I # {} THEN Seqs!Min(I) ELSE 0
  BY DEF Route, Seqs!SelectInSeq
<1>2. I # {}
  BY <1>1 DEF Served
<1>3. Claims(raw.path) # 0
  BY <1>2 DEF RoutesAt
<1>4. Claims(raw.path) \in 1..9 /\ Matches(resources[Claims(raw.path)].pattern, raw.path)
  BY <1>3, Claimed
<1>5. routes = Routes(Claims(raw.path))
  BY <1>3 DEF RoutesAt, Routes
<1>6. Len(routes) \in 1..2 /\ DOMAIN routes = 1..Len(routes)
  BY <1>4, <1>5, RoutesOfResources
<1>7. I \in SUBSET (1..9)
  BY <1>6
<1>8. Seqs!Min(I) \in I
  BY <1>2, <1>7, Least
<1> HIDE DEF routes
<1>9. Handler(raw) = routes[Route(raw.method, raw.path)].handler
  BY DEF Handler, routes
<1> QED
  BY <1>1, <1>2, <1>4, <1>5, <1>6, <1>8, <1>9

Handlers ==
  {"create_auth_key", "delete_auth_key", "get_tasks", "add_task", "get_task_by_id",
   "update_task_by_id", "get_task_shares", "put_share", "delete_share",
   "create_user", "get_current_user", "get_user", "health"}

\* Which handlers the resources have.
HandlersAt(i) ==
  CASE i = 1 -> {"create_auth_key", "delete_auth_key"}
    [] i = 2 -> {"get_tasks", "add_task"}
    [] i = 3 -> {"get_task_by_id", "update_task_by_id"}
    [] i = 4 -> {"get_task_shares"}
    [] i = 5 -> {"put_share", "delete_share"}
    [] i = 6 -> {"create_user"}
    [] i = 7 -> {"get_current_user"}
    [] i = 8 -> {"get_user"}
    [] i = 9 -> {"health"}

LEMMA Pairs ==
  ASSUME NEW s, NEW a, NEW b, s = <<a, b>>
  PROVE  Len(s) = 2 /\ DOMAIN s = 1..2 /\ s[1] = a /\ s[2] = b
OBVIOUS

LEMMA Singles ==
  ASSUME NEW s, NEW a, s = <<a>>
  PROVE  Len(s) = 1 /\ DOMAIN s = 1..1 /\ s[1] = a
OBVIOUS

LEMMA HandlersOfRoutes ==
  ASSUME NEW i \in 1..9, NEW j \in DOMAIN Routes(i)
  PROVE  Routes(i)[j].handler \in HandlersAt(i)
<1> DEFINE s == Routes(i)
<1>1. \A method, handler : route(method, handler).handler = handler
  BY DEF route
<1>2. ASSUME NEW m, NEW n, NEW h, NEW k, s = << route(m, h), route(n, k) >>
      PROVE  s[j].handler \in {h, k}
  BY <1>1, <1>2, Pairs
<1>3. ASSUME NEW m, NEW h, s = << route(m, h) >>
      PROVE  s[j].handler = h
  BY <1>1, <1>3, Singles
<1> HIDE DEF s
<1>4. CASE i = 1
  <2>1. s = << route("POST", "create_auth_key"), route("DELETE", "delete_auth_key") >>
    BY <1>4, RoutesOfResources DEF s
  <2>2. s[j].handler \in {"create_auth_key", "delete_auth_key"}
    BY <1>2, <2>1
  <2> QED
    BY <1>4, <2>2 DEF HandlersAt, s
<1>5. CASE i = 2
  <2>1. s = << route("GET", "get_tasks"), route("POST", "add_task") >>
    BY <1>5, RoutesOfResources DEF s
  <2>2. s[j].handler \in {"get_tasks", "add_task"}
    BY <1>2, <2>1
  <2> QED
    BY <1>5, <2>2 DEF HandlersAt, s
<1>6. CASE i = 3
  <2>1. s = << route("GET", "get_task_by_id"), route("PATCH", "update_task_by_id") >>
    BY <1>6, RoutesOfResources DEF s
  <2>2. s[j].handler \in {"get_task_by_id", "update_task_by_id"}
    BY <1>2, <2>1
  <2> QED
    BY <1>6, <2>2 DEF HandlersAt, s
<1>7. CASE i = 4
  <2>1. s = << route("GET", "get_task_shares") >>
    BY <1>7, RoutesOfResources DEF s
  <2>2. s[j].handler \in {"get_task_shares"}
    BY <1>3, <2>1
  <2> QED
    BY <1>7, <2>2 DEF HandlersAt, s
<1>8. CASE i = 5
  <2>1. s = << route("PUT", "put_share"), route("DELETE", "delete_share") >>
    BY <1>8, RoutesOfResources DEF s
  <2>2. s[j].handler \in {"put_share", "delete_share"}
    BY <1>2, <2>1
  <2> QED
    BY <1>8, <2>2 DEF HandlersAt, s
<1>9. CASE i = 6
  <2>1. s = << route("POST", "create_user") >>
    BY <1>9, RoutesOfResources DEF s
  <2>2. s[j].handler \in {"create_user"}
    BY <1>3, <2>1
  <2> QED
    BY <1>9, <2>2 DEF HandlersAt, s
<1>10. CASE i = 7
  <2>1. s = << route("GET", "get_current_user") >>
    BY <1>10, RoutesOfResources DEF s
  <2>2. s[j].handler \in {"get_current_user"}
    BY <1>3, <2>1
  <2> QED
    BY <1>10, <2>2 DEF HandlersAt, s
<1>11. CASE i = 8
  <2>1. s = << route("GET", "get_user") >>
    BY <1>11, RoutesOfResources DEF s
  <2>2. s[j].handler \in {"get_user"}
    BY <1>3, <2>1
  <2> QED
    BY <1>11, <2>2 DEF HandlersAt, s
<1>12. CASE i = 9
  <2>1. s = << route("GET", "health") >>
    BY <1>12, RoutesOfResources DEF s
  <2>2. s[j].handler \in {"health"}
    BY <1>3, <2>1
  <2> QED
    BY <1>12, <2>2 DEF HandlersAt, s
<1> QED
  BY <1>4, <1>5, <1>6, <1>7, <1>8, <1>9, <1>10, <1>11, <1>12 DEF s

LEMMA Handled ==
  ASSUME NEW raw, Served(raw)
  PROVE  Handler(raw) \in HandlersAt(Claims(raw.path))
BY Routed, HandlersOfRoutes

LEMMA HandlersAreNamed ==
  ASSUME NEW raw, Served(raw)
  PROVE  /\ Handler(raw) \in Handlers
         /\ Handler(raw) \in {"put_share", "delete_share"} => Claims(raw.path) = 5
<1>1. Claims(raw.path) \in 1..9
  BY Routed
<1>2. Handler(raw) \in HandlersAt(Claims(raw.path))
  BY Handled
<1> QED
  BY <1>1, <1>2 DEF HandlersAt, Handlers

\* Only a path with four segments, the last not empty, is a share's.
LEMMA SharesPath ==
  ASSUME NEW raw, Served(raw), Handler(raw) \in {"put_share", "delete_share"},
         DOMAIN raw.path = 1..Len(raw.path)
  PROVE  Len(raw.path) = 4 /\ raw.path[4] # Empty
<1>1. Matches(resources[5].pattern, raw.path)
  BY Routed, HandlersAreNamed
<1>2. Len(resources[5].pattern) = 4 /\ resources[5].pattern[4] = Name
  BY DEF resources, resource
<1>3. Len(raw.path) = 4
  BY <1>1, <1>2 DEF Matches
<1>4. 4 \in DOMAIN raw.path
  BY <1>3
<1>5. Name # Empty
  BY DEF Name, Empty
<1> QED
  BY <1>1, <1>2, <1>3, <1>4, <1>5 DEF Matches

------------------------------------------------------------------------------
Methods == {"GET", "POST", "PUT", "PATCH", "DELETE"}

MethodsIn(routes) == [i \in DOMAIN routes |-> routes[i].method]

LEMMA PairOfMethods ==
  ASSUME NEW s, NEW m \in Methods, NEW n \in Methods, NEW h, NEW k,
         s = << route(m, h), route(n, k) >>
  PROVE  MethodsIn(s) \in Seq(Methods)
<1>1. route(m, h).method = m /\ route(n, k).method = n
  BY DEF route
<1>2. Len(s) = 2 /\ DOMAIN s = 1..2 /\ s[1].method = m /\ s[2].method = n
  BY <1>1, Pairs
<1>3. MethodsIn(s) \in [1..2 -> Methods]
  BY <1>2 DEF MethodsIn
<1> QED
  BY <1>3 DEF MethodsIn

LEMMA OneMethod ==
  ASSUME NEW s, NEW m \in Methods, NEW h, s = << route(m, h) >>
  PROVE  MethodsIn(s) \in Seq(Methods)
<1>1. route(m, h).method = m
  BY DEF route
<1>2. Len(s) = 1 /\ DOMAIN s = 1..1 /\ s[1].method = m
  BY <1>1, Singles
<1>3. MethodsIn(s) \in [1..1 -> Methods]
  BY <1>2 DEF MethodsIn
<1> QED
  BY <1>3 DEF MethodsIn

LEMMA TheMethods ==
  /\ "GET" \in Methods /\ "POST" \in Methods /\ "PUT" \in Methods
  /\ "PATCH" \in Methods /\ "DELETE" \in Methods
BY DEF Methods

\* What a 405 allows is a sequence of methods.
LEMMA MethodsOfRoutes ==
  ASSUME NEW i \in 1..9
  PROVE  MethodsIn(Routes(i)) \in Seq(Methods)
<1>1. CASE i = 1
  <2>1. Routes(i) = << route("POST", "create_auth_key"), route("DELETE", "delete_auth_key") >>
    BY <1>1, RoutesOfResources
  <2> QED
    BY <2>1, PairOfMethods, TheMethods
<1>2. CASE i = 2
  <2>1. Routes(i) = << route("GET", "get_tasks"), route("POST", "add_task") >>
    BY <1>2, RoutesOfResources
  <2> QED
    BY <2>1, PairOfMethods, TheMethods
<1>3. CASE i = 3
  <2>1. Routes(i) = << route("GET", "get_task_by_id"), route("PATCH", "update_task_by_id") >>
    BY <1>3, RoutesOfResources
  <2> QED
    BY <2>1, PairOfMethods, TheMethods
<1>4. CASE i = 4
  <2>1. Routes(i) = << route("GET", "get_task_shares") >>
    BY <1>4, RoutesOfResources
  <2> QED
    BY <2>1, OneMethod, TheMethods
<1>5. CASE i = 5
  <2>1. Routes(i) = << route("PUT", "put_share"), route("DELETE", "delete_share") >>
    BY <1>5, RoutesOfResources
  <2> QED
    BY <2>1, PairOfMethods, TheMethods
<1>6. CASE i = 6
  <2>1. Routes(i) = << route("POST", "create_user") >>
    BY <1>6, RoutesOfResources
  <2> QED
    BY <2>1, OneMethod, TheMethods
<1>7. CASE i = 7
  <2>1. Routes(i) = << route("GET", "get_current_user") >>
    BY <1>7, RoutesOfResources
  <2> QED
    BY <2>1, OneMethod, TheMethods
<1>8. CASE i = 8
  <2>1. Routes(i) = << route("GET", "get_user") >>
    BY <1>8, RoutesOfResources
  <2> QED
    BY <2>1, OneMethod, TheMethods
<1>9. CASE i = 9
  <2>1. Routes(i) = << route("GET", "health") >>
    BY <1>9, RoutesOfResources
  <2> QED
    BY <2>1, OneMethod, TheMethods
<1> QED
  BY <1>1, <1>2, <1>3, <1>4, <1>5, <1>6, <1>7, <1>8, <1>9

------------------------------------------------------------------------------
\* The extractors of each handler.
LEMMA ExtractorsOf ==
  /\ Extractors("create_user") = <<"Json">>
  /\ Extractors("create_auth_key") = <<"Credentials">>
  /\ Extractors("health") = <<>>
  /\ \A op \in {"delete_auth_key", "get_current_user"} : Extractors(op) = <<"AuthKey">>
  /\ Extractors("get_tasks") = <<"AuthKey", "Query">>
  /\ Extractors("add_task") = <<"AuthKey", "Json">>
  /\ \A op \in {"get_task_by_id", "get_task_shares", "get_user", "delete_share"} :
       Extractors(op) = <<"AuthKey", "Path">>
  /\ \A op \in {"update_task_by_id", "put_share"} :
       Extractors(op) = <<"AuthKey", "Path", "Json">>
BY DEF Extractors

LEMMA ExtractorsAre ==
  ASSUME NEW op \in Handlers
  PROVE  /\ Len(Extractors(op)) \in 0..3
         /\ DOMAIN Extractors(op) = 1..Len(Extractors(op))
<1> DEFINE s == Extractors(op)
<1>1. \/ s = <<>> \/ s = <<"Json">> \/ s = <<"Credentials">> \/ s = <<"AuthKey">>
      \/ s = <<"AuthKey", "Query">> \/ s = <<"AuthKey", "Json">>
      \/ s = <<"AuthKey", "Path">> \/ s = <<"AuthKey", "Path", "Json">>
  BY ExtractorsOf DEF Handlers
<1> HIDE DEF s
<1>2. ASSUME NEW a, NEW b, NEW c,
             \/ s = <<>> \/ s = <<a>> \/ s = <<a, b>> \/ s = <<a, b, c>>
      PROVE  Len(s) \in 0..3 /\ DOMAIN s = 1..Len(s)
  BY <1>2
<1> QED
  BY <1>1, <1>2 DEF s

\* A refusal is the first there is, and when there is none all accept.
LEMMA Refused ==
  ASSUME NEW op \in Handlers, NEW raw
  PROVE  /\ FirstRefusal(op, raw) \in 0..3
         /\ FirstRefusal(op, raw) = 0 =>
              \A i \in 1..Len(Extractors(op)) : Accepts(Extractors(op)[i], op, raw)
         /\ FirstRefusal(op, raw) # 0 =>
              /\ FirstRefusal(op, raw) \in 1..Len(Extractors(op))
              /\ ~Accepts(Extractors(op)[FirstRefusal(op, raw)], op, raw)
              /\ \A i \in 1..Len(Extractors(op)) :
                   i < FirstRefusal(op, raw) => Accepts(Extractors(op)[i], op, raw)
<1> DEFINE s == Extractors(op)
           I == {i \in 1..Len(s) : ~Accepts(s[i], op, raw)}
<1>1. Len(s) \in 0..3
  BY ExtractorsAre
<1>2. FirstRefusal(op, raw) = IF I # {} THEN Seqs!Min(I) ELSE 0
  BY DEF FirstRefusal, Seqs!SelectInSeq
<1> HIDE DEF s
<1>3. I \in SUBSET (1..9)
  BY <1>1
<1>4. I # {} => Seqs!Min(I) \in I /\ \A j \in I : Seqs!Min(I) <= j
  BY <1>3, Least
<1>5. CASE I = {}
  <2>1. FirstRefusal(op, raw) = 0
    BY <1>2, <1>5
  <2>2. \A i \in 1..Len(s) : Accepts(s[i], op, raw)
    BY <1>5
  <2> QED
    BY <2>1, <2>2 DEF s
<1>6. CASE I # {}
  <2> DEFINE m == Seqs!Min(I)
  <2>1. FirstRefusal(op, raw) = m
    BY <1>2, <1>6
  <2>2. m \in 1..3 /\ m \in 1..Len(s) /\ ~Accepts(s[m], op, raw)
    BY <1>1, <1>4, <1>6
  <2>3. \A i \in 1..Len(s) : i < m => Accepts(s[i], op, raw)
    BY <1>1, <1>4, <1>6
  <2> HIDE DEF m
  <2> QED
    BY <2>1, <2>2, <2>3 DEF s
<1> QED
  BY <1>5, <1>6

------------------------------------------------------------------------------
\* The value a body gives a field.
Given(body, field) == IF field \in DOMAIN body THEN body[field] ELSE Absent

LEMMA ExtractorsInRange ==
  /\ Seqs!Range(Extractors("create_user")) = {"Json"}
  /\ Seqs!Range(Extractors("create_auth_key")) = {"Credentials"}
  /\ Seqs!Range(Extractors("delete_auth_key")) = {"AuthKey"}
  /\ Seqs!Range(Extractors("get_current_user")) = {"AuthKey"}
  /\ Seqs!Range(Extractors("get_tasks")) = {"AuthKey", "Query"}
  /\ Seqs!Range(Extractors("add_task")) = {"AuthKey", "Json"}
  /\ Seqs!Range(Extractors("get_task_by_id")) = {"AuthKey", "Path"}
  /\ Seqs!Range(Extractors("get_task_shares")) = {"AuthKey", "Path"}
  /\ Seqs!Range(Extractors("get_user")) = {"AuthKey", "Path"}
  /\ Seqs!Range(Extractors("delete_share")) = {"AuthKey", "Path"}
  /\ Seqs!Range(Extractors("update_task_by_id")) = {"AuthKey", "Path", "Json"}
  /\ Seqs!Range(Extractors("put_share")) = {"AuthKey", "Path", "Json"}
BY DEF Extractors, Seqs!Range

LEMMA FieldsGiven ==
  ASSUME NEW op, NEW raw, NEW x \in Seqs!Range(Extractors(op)),
         NEW f \in DOMAIN Fields(x, op, raw), f # "op",
         \A y \in Seqs!Range(Extractors(op)) :
           f \in DOMAIN Fields(y, op, raw) => y = x
  PROVE  Extracted(op, raw)[f] = Fields(x, op, raw)[f]
BY DEF Extracted

LEMMA ExtractedNames ==
  ASSUME NEW op, NEW raw, NEW names,
         names = {"op"} \cup UNION {DOMAIN Fields(x, op, raw) :
                                      x \in Seqs!Range(Extractors(op))}
  PROVE  Extracted(op, raw) = [f \in names |-> Extracted(op, raw)[f]]
BY DEF Extracted

LEMMA ExtractedOp ==
  ASSUME NEW op, NEW raw
  PROVE  Extracted(op, raw)["op"] = op
BY DEF Extracted

LEMMA PathFieldsAre ==
  ASSUME NEW path
  PROVE  /\ PathFields("get_user", path) = [user |-> i32(path[2])]
         /\ \A op \in {"put_share", "delete_share"} :
              PathFields(op, path) = [task |-> i32(path[2]), username |-> path[4]]
         /\ \A op \in {"get_task_by_id", "update_task_by_id", "get_task_shares"} :
              PathFields(op, path) = [task |-> i32(path[2])]
BY DEF PathFields

LEMMA BodyFieldsAre ==
  ASSUME NEW raw
  PROVE  /\ Fields("Json", "create_user", raw) =
              [username |-> Given(raw.body, "username"),
               password |-> Given(raw.body, "password")]
         /\ Fields("Json", "add_task", raw) =
              [title |-> Given(raw.body, "title"),
               description |-> Given(raw.body, "description")]
         /\ Fields("Json", "put_share", raw) =
              [permission |-> Given(raw.body, "permission")]
         /\ Fields("Json", "update_task_by_id", raw) =
              [completed |-> Given(raw.body, "completed"),
               title |-> Given(raw.body, "title"),
               description |-> Given(raw.body, "description")]
BY DEF Fields, Required, Optional, Given

LEMMA Arguments_create_user ==
  ASSUME NEW raw
  PROVE  Extracted("create_user", raw) =
           [op |-> "create_user",
            username |-> Given(raw.body, "username"),
            password |-> Given(raw.body, "password")]
<1> DEFINE r == Extracted("create_user", raw)
           a == Given(raw.body, "username")
           b == Given(raw.body, "password")
<1>1. Fields("Json", "create_user", raw) = [username |-> a, password |-> b]
  BY BodyFieldsAre DEF Given
<1> HIDE DEF a, b
<1>2. Seqs!Range(Extractors("create_user")) = {"Json"}
  BY ExtractorsInRange
<1>3. r = [f \in {"op", "username", "password"} |-> r[f]]
  <2>1. DOMAIN Fields("Json", "create_user", raw) = {"username", "password"}
    BY <1>1
  <2>2. {"op", "username", "password"} =
          {"op"} \cup UNION {DOMAIN Fields(x, "create_user", raw) :
                               x \in Seqs!Range(Extractors("create_user"))}
    BY <1>2, <2>1
  <2> QED
    BY <2>2, ExtractedNames
<1>4. r["op"] = "create_user"
  BY ExtractedOp
<1>5. r["username"] = a
  BY <1>1, <1>2, FieldsGiven
<1>6. r["password"] = b
  BY <1>1, <1>2, FieldsGiven
<1> HIDE DEF r
<1>7. r = [op |-> "create_user", username |-> a, password |-> b]
  BY <1>3, <1>4, <1>5, <1>6
<1> QED
  BY <1>7 DEF r, a, b

LEMMA Arguments_create_auth_key ==
  ASSUME NEW raw
  PROVE  Extracted("create_auth_key", raw) =
           [op |-> "create_auth_key",
            username |-> <<Head(raw.authorization[2].text)>>,
            password |-> Tail(raw.authorization[2].text)]
<1> DEFINE r == Extracted("create_auth_key", raw)
           a == <<Head(raw.authorization[2].text)>>
           b == Tail(raw.authorization[2].text)
<1>1. Fields("Credentials", "create_auth_key", raw) = [username |-> a, password |-> b]
  BY DEF Fields, into_parts
<1> HIDE DEF a, b
<1>2. Seqs!Range(Extractors("create_auth_key")) = {"Credentials"}
  BY ExtractorsInRange
<1>3. r = [f \in {"op", "username", "password"} |-> r[f]]
  <2>1. DOMAIN Fields("Credentials", "create_auth_key", raw) = {"username", "password"}
    BY <1>1
  <2>2. {"op", "username", "password"} =
          {"op"} \cup UNION {DOMAIN Fields(x, "create_auth_key", raw) :
                               x \in Seqs!Range(Extractors("create_auth_key"))}
    BY <1>2, <2>1
  <2> QED
    BY <2>2, ExtractedNames
<1>4. r["op"] = "create_auth_key"
  BY ExtractedOp
<1>5. r["username"] = a
  BY <1>1, <1>2, FieldsGiven
<1>6. r["password"] = b
  BY <1>1, <1>2, FieldsGiven
<1> HIDE DEF r
<1>7. r = [op |-> "create_auth_key", username |-> a, password |-> b]
  BY <1>3, <1>4, <1>5, <1>6
<1> QED
  BY <1>7 DEF r, a, b

LEMMA Arguments_delete_auth_key ==
  ASSUME NEW raw
  PROVE  Extracted("delete_auth_key", raw) =
           [op |-> "delete_auth_key",
            key |-> raw.authorization[2]]
<1> DEFINE r == Extracted("delete_auth_key", raw)
           a == raw.authorization[2]
<1>1. Fields("AuthKey", "delete_auth_key", raw) = [key |-> a]
  BY DEF Fields
<1> HIDE DEF a
<1>2. Seqs!Range(Extractors("delete_auth_key")) = {"AuthKey"}
  BY ExtractorsInRange
<1>3. r = [f \in {"op", "key"} |-> r[f]]
  <2>1. DOMAIN Fields("AuthKey", "delete_auth_key", raw) = {"key"}
    BY <1>1
  <2>2. {"op", "key"} =
          {"op"} \cup UNION {DOMAIN Fields(x, "delete_auth_key", raw) :
                               x \in Seqs!Range(Extractors("delete_auth_key"))}
    BY <1>2, <2>1
  <2> QED
    BY <2>2, ExtractedNames
<1>4. r["op"] = "delete_auth_key"
  BY ExtractedOp
<1>5. r["key"] = a
  BY <1>1, <1>2, FieldsGiven
<1> HIDE DEF r
<1>6. r = [op |-> "delete_auth_key", key |-> a]
  BY <1>3, <1>4, <1>5
<1> QED
  BY <1>6 DEF r, a

LEMMA Arguments_get_current_user ==
  ASSUME NEW raw
  PROVE  Extracted("get_current_user", raw) =
           [op |-> "get_current_user",
            key |-> raw.authorization[2]]
<1> DEFINE r == Extracted("get_current_user", raw)
           a == raw.authorization[2]
<1>1. Fields("AuthKey", "get_current_user", raw) = [key |-> a]
  BY DEF Fields
<1> HIDE DEF a
<1>2. Seqs!Range(Extractors("get_current_user")) = {"AuthKey"}
  BY ExtractorsInRange
<1>3. r = [f \in {"op", "key"} |-> r[f]]
  <2>1. DOMAIN Fields("AuthKey", "get_current_user", raw) = {"key"}
    BY <1>1
  <2>2. {"op", "key"} =
          {"op"} \cup UNION {DOMAIN Fields(x, "get_current_user", raw) :
                               x \in Seqs!Range(Extractors("get_current_user"))}
    BY <1>2, <2>1
  <2> QED
    BY <2>2, ExtractedNames
<1>4. r["op"] = "get_current_user"
  BY ExtractedOp
<1>5. r["key"] = a
  BY <1>1, <1>2, FieldsGiven
<1> HIDE DEF r
<1>6. r = [op |-> "get_current_user", key |-> a]
  BY <1>3, <1>4, <1>5
<1> QED
  BY <1>6 DEF r, a

LEMMA Arguments_get_user ==
  ASSUME NEW raw
  PROVE  Extracted("get_user", raw) =
           [op |-> "get_user",
            key |-> raw.authorization[2],
            user |-> i32(raw.path[2])]
<1> DEFINE r == Extracted("get_user", raw)
           a == raw.authorization[2]
           b == i32(raw.path[2])
<1>1. Fields("AuthKey", "get_user", raw) = [key |-> a]
  BY DEF Fields
<1>2. Fields("Path", "get_user", raw) = [user |-> b]
  BY PathFieldsAre DEF Fields
<1> HIDE DEF a, b
<1>3. Seqs!Range(Extractors("get_user")) = {"AuthKey", "Path"}
  BY ExtractorsInRange
<1>4. r = [f \in {"op", "key", "user"} |-> r[f]]
  <2>1. DOMAIN Fields("AuthKey", "get_user", raw) = {"key"}
    BY <1>1
  <2>2. DOMAIN Fields("Path", "get_user", raw) = {"user"}
    BY <1>2
  <2>3. {"op", "key", "user"} =
          {"op"} \cup UNION {DOMAIN Fields(x, "get_user", raw) :
                               x \in Seqs!Range(Extractors("get_user"))}
    BY <1>3, <2>1, <2>2
  <2> QED
    BY <2>3, ExtractedNames
<1>5. r["op"] = "get_user"
  BY ExtractedOp
<1>6. r["key"] = a
  BY <1>1, <1>2, <1>3, FieldsGiven
<1>7. r["user"] = b
  BY <1>1, <1>2, <1>3, FieldsGiven
<1> HIDE DEF r
<1>8. r = [op |-> "get_user", key |-> a, user |-> b]
  BY <1>4, <1>5, <1>6, <1>7
<1> QED
  BY <1>8 DEF r, a, b

LEMMA Arguments_get_tasks ==
  ASSUME NEW raw
  PROVE  Extracted("get_tasks", raw) =
           [op |-> "get_tasks",
            key |-> raw.authorization[2],
            completed |-> IF raw.query = <<>> THEN Absent ELSE raw.query[1] = "true"]
<1> DEFINE r == Extracted("get_tasks", raw)
           a == raw.authorization[2]
           b == IF raw.query = <<>> THEN Absent ELSE raw.query[1] = "true"
<1>1. Fields("AuthKey", "get_tasks", raw) = [key |-> a]
  BY DEF Fields
<1>2. Fields("Query", "get_tasks", raw) = [completed |-> b]
  BY DEF Fields
<1> HIDE DEF a, b
<1>3. Seqs!Range(Extractors("get_tasks")) = {"AuthKey", "Query"}
  BY ExtractorsInRange
<1>4. r = [f \in {"op", "key", "completed"} |-> r[f]]
  <2>1. DOMAIN Fields("AuthKey", "get_tasks", raw) = {"key"}
    BY <1>1
  <2>2. DOMAIN Fields("Query", "get_tasks", raw) = {"completed"}
    BY <1>2
  <2>3. {"op", "key", "completed"} =
          {"op"} \cup UNION {DOMAIN Fields(x, "get_tasks", raw) :
                               x \in Seqs!Range(Extractors("get_tasks"))}
    BY <1>3, <2>1, <2>2
  <2> QED
    BY <2>3, ExtractedNames
<1>5. r["op"] = "get_tasks"
  BY ExtractedOp
<1>6. r["key"] = a
  BY <1>1, <1>2, <1>3, FieldsGiven
<1>7. r["completed"] = b
  BY <1>1, <1>2, <1>3, FieldsGiven
<1> HIDE DEF r
<1>8. r = [op |-> "get_tasks", key |-> a, completed |-> b]
  BY <1>4, <1>5, <1>6, <1>7
<1> QED
  BY <1>8 DEF r, a, b

LEMMA Arguments_add_task ==
  ASSUME NEW raw
  PROVE  Extracted("add_task", raw) =
           [op |-> "add_task",
            key |-> raw.authorization[2],
            title |-> Given(raw.body, "title"),
            description |-> Given(raw.body, "description")]
<1> DEFINE r == Extracted("add_task", raw)
           a == raw.authorization[2]
           b == Given(raw.body, "title")
           c == Given(raw.body, "description")
<1>1. Fields("AuthKey", "add_task", raw) = [key |-> a]
  BY DEF Fields
<1>2. Fields("Json", "add_task", raw) = [title |-> b, description |-> c]
  BY BodyFieldsAre DEF Given
<1> HIDE DEF a, b, c
<1>3. Seqs!Range(Extractors("add_task")) = {"AuthKey", "Json"}
  BY ExtractorsInRange
<1>4. r = [f \in {"op", "key", "title", "description"} |-> r[f]]
  <2>1. DOMAIN Fields("AuthKey", "add_task", raw) = {"key"}
    BY <1>1
  <2>2. DOMAIN Fields("Json", "add_task", raw) = {"title", "description"}
    BY <1>2
  <2>3. {"op", "key", "title", "description"} =
          {"op"} \cup UNION {DOMAIN Fields(x, "add_task", raw) :
                               x \in Seqs!Range(Extractors("add_task"))}
    BY <1>3, <2>1, <2>2
  <2> QED
    BY <2>3, ExtractedNames
<1>5. r["op"] = "add_task"
  BY ExtractedOp
<1>6. r["key"] = a
  BY <1>1, <1>2, <1>3, FieldsGiven
<1>7. r["title"] = b
  BY <1>1, <1>2, <1>3, FieldsGiven
<1>8. r["description"] = c
  BY <1>1, <1>2, <1>3, FieldsGiven
<1> HIDE DEF r
<1>9. r = [op |-> "add_task", key |-> a, title |-> b, description |-> c]
  BY <1>4, <1>5, <1>6, <1>7, <1>8
<1> QED
  BY <1>9 DEF r, a, b, c

LEMMA Arguments_get_task_by_id ==
  ASSUME NEW raw
  PROVE  Extracted("get_task_by_id", raw) =
           [op |-> "get_task_by_id",
            key |-> raw.authorization[2],
            task |-> i32(raw.path[2])]
<1> DEFINE r == Extracted("get_task_by_id", raw)
           a == raw.authorization[2]
           b == i32(raw.path[2])
<1>1. Fields("AuthKey", "get_task_by_id", raw) = [key |-> a]
  BY DEF Fields
<1>2. Fields("Path", "get_task_by_id", raw) = [task |-> b]
  BY PathFieldsAre DEF Fields
<1> HIDE DEF a, b
<1>3. Seqs!Range(Extractors("get_task_by_id")) = {"AuthKey", "Path"}
  BY ExtractorsInRange
<1>4. r = [f \in {"op", "key", "task"} |-> r[f]]
  <2>1. DOMAIN Fields("AuthKey", "get_task_by_id", raw) = {"key"}
    BY <1>1
  <2>2. DOMAIN Fields("Path", "get_task_by_id", raw) = {"task"}
    BY <1>2
  <2>3. {"op", "key", "task"} =
          {"op"} \cup UNION {DOMAIN Fields(x, "get_task_by_id", raw) :
                               x \in Seqs!Range(Extractors("get_task_by_id"))}
    BY <1>3, <2>1, <2>2
  <2> QED
    BY <2>3, ExtractedNames
<1>5. r["op"] = "get_task_by_id"
  BY ExtractedOp
<1>6. r["key"] = a
  BY <1>1, <1>2, <1>3, FieldsGiven
<1>7. r["task"] = b
  BY <1>1, <1>2, <1>3, FieldsGiven
<1> HIDE DEF r
<1>8. r = [op |-> "get_task_by_id", key |-> a, task |-> b]
  BY <1>4, <1>5, <1>6, <1>7
<1> QED
  BY <1>8 DEF r, a, b

LEMMA Arguments_get_task_shares ==
  ASSUME NEW raw
  PROVE  Extracted("get_task_shares", raw) =
           [op |-> "get_task_shares",
            key |-> raw.authorization[2],
            task |-> i32(raw.path[2])]
<1> DEFINE r == Extracted("get_task_shares", raw)
           a == raw.authorization[2]
           b == i32(raw.path[2])
<1>1. Fields("AuthKey", "get_task_shares", raw) = [key |-> a]
  BY DEF Fields
<1>2. Fields("Path", "get_task_shares", raw) = [task |-> b]
  BY PathFieldsAre DEF Fields
<1> HIDE DEF a, b
<1>3. Seqs!Range(Extractors("get_task_shares")) = {"AuthKey", "Path"}
  BY ExtractorsInRange
<1>4. r = [f \in {"op", "key", "task"} |-> r[f]]
  <2>1. DOMAIN Fields("AuthKey", "get_task_shares", raw) = {"key"}
    BY <1>1
  <2>2. DOMAIN Fields("Path", "get_task_shares", raw) = {"task"}
    BY <1>2
  <2>3. {"op", "key", "task"} =
          {"op"} \cup UNION {DOMAIN Fields(x, "get_task_shares", raw) :
                               x \in Seqs!Range(Extractors("get_task_shares"))}
    BY <1>3, <2>1, <2>2
  <2> QED
    BY <2>3, ExtractedNames
<1>5. r["op"] = "get_task_shares"
  BY ExtractedOp
<1>6. r["key"] = a
  BY <1>1, <1>2, <1>3, FieldsGiven
<1>7. r["task"] = b
  BY <1>1, <1>2, <1>3, FieldsGiven
<1> HIDE DEF r
<1>8. r = [op |-> "get_task_shares", key |-> a, task |-> b]
  BY <1>4, <1>5, <1>6, <1>7
<1> QED
  BY <1>8 DEF r, a, b

LEMMA Arguments_update_task_by_id ==
  ASSUME NEW raw
  PROVE  Extracted("update_task_by_id", raw) =
           [op |-> "update_task_by_id",
            key |-> raw.authorization[2],
            task |-> i32(raw.path[2]),
            completed |-> Given(raw.body, "completed"),
            title |-> Given(raw.body, "title"),
            description |-> Given(raw.body, "description")]
<1> DEFINE r == Extracted("update_task_by_id", raw)
           a == raw.authorization[2]
           b == i32(raw.path[2])
           c == Given(raw.body, "completed")
           d == Given(raw.body, "title")
           e == Given(raw.body, "description")
<1>1. Fields("AuthKey", "update_task_by_id", raw) = [key |-> a]
  BY DEF Fields
<1>2. Fields("Path", "update_task_by_id", raw) = [task |-> b]
  BY PathFieldsAre DEF Fields
<1>3. Fields("Json", "update_task_by_id", raw) = [completed |-> c, title |-> d, description |-> e]
  BY BodyFieldsAre DEF Given
<1> HIDE DEF a, b, c, d, e
<1>4. Seqs!Range(Extractors("update_task_by_id")) = {"AuthKey", "Path", "Json"}
  BY ExtractorsInRange
<1>5. r = [f \in {"op", "key", "task", "completed", "title", "description"} |-> r[f]]
  <2>1. DOMAIN Fields("AuthKey", "update_task_by_id", raw) = {"key"}
    BY <1>1
  <2>2. DOMAIN Fields("Path", "update_task_by_id", raw) = {"task"}
    BY <1>2
  <2>3. DOMAIN Fields("Json", "update_task_by_id", raw) = {"completed", "title", "description"}
    BY <1>3
  <2>4. {"op", "key", "task", "completed", "title", "description"} =
          {"op"} \cup UNION {DOMAIN Fields(x, "update_task_by_id", raw) :
                               x \in Seqs!Range(Extractors("update_task_by_id"))}
    BY <1>4, <2>1, <2>2, <2>3
  <2> QED
    BY <2>4, ExtractedNames
<1>6. r["op"] = "update_task_by_id"
  BY ExtractedOp
<1>7. r["key"] = a
  BY <1>1, <1>2, <1>3, <1>4, FieldsGiven
<1>8. r["task"] = b
  BY <1>1, <1>2, <1>3, <1>4, FieldsGiven
<1>9. r["completed"] = c
  BY <1>1, <1>2, <1>3, <1>4, FieldsGiven
<1>10. r["title"] = d
  BY <1>1, <1>2, <1>3, <1>4, FieldsGiven
<1>11. r["description"] = e
  BY <1>1, <1>2, <1>3, <1>4, FieldsGiven
<1> HIDE DEF r
<1>12. r = [op |-> "update_task_by_id", key |-> a, task |-> b, completed |-> c, title |-> d, description |-> e]
  BY <1>5, <1>6, <1>7, <1>8, <1>9, <1>10, <1>11
<1> QED
  BY <1>12 DEF r, a, b, c, d, e

LEMMA Arguments_put_share ==
  ASSUME NEW raw
  PROVE  Extracted("put_share", raw) =
           [op |-> "put_share",
            key |-> raw.authorization[2],
            task |-> i32(raw.path[2]),
            username |-> raw.path[4],
            permission |-> Given(raw.body, "permission")]
<1> DEFINE r == Extracted("put_share", raw)
           a == raw.authorization[2]
           b == i32(raw.path[2])
           c == raw.path[4]
           d == Given(raw.body, "permission")
<1>1. Fields("AuthKey", "put_share", raw) = [key |-> a]
  BY DEF Fields
<1>2. Fields("Path", "put_share", raw) = [task |-> b, username |-> c]
  BY PathFieldsAre DEF Fields
<1>3. Fields("Json", "put_share", raw) = [permission |-> d]
  BY BodyFieldsAre DEF Given
<1> HIDE DEF a, b, c, d
<1>4. Seqs!Range(Extractors("put_share")) = {"AuthKey", "Path", "Json"}
  BY ExtractorsInRange
<1>5. r = [f \in {"op", "key", "task", "username", "permission"} |-> r[f]]
  <2>1. DOMAIN Fields("AuthKey", "put_share", raw) = {"key"}
    BY <1>1
  <2>2. DOMAIN Fields("Path", "put_share", raw) = {"task", "username"}
    BY <1>2
  <2>3. DOMAIN Fields("Json", "put_share", raw) = {"permission"}
    BY <1>3
  <2>4. {"op", "key", "task", "username", "permission"} =
          {"op"} \cup UNION {DOMAIN Fields(x, "put_share", raw) :
                               x \in Seqs!Range(Extractors("put_share"))}
    BY <1>4, <2>1, <2>2, <2>3
  <2> QED
    BY <2>4, ExtractedNames
<1>6. r["op"] = "put_share"
  BY ExtractedOp
<1>7. r["key"] = a
  BY <1>1, <1>2, <1>3, <1>4, FieldsGiven
<1>8. r["task"] = b
  BY <1>1, <1>2, <1>3, <1>4, FieldsGiven
<1>9. r["username"] = c
  BY <1>1, <1>2, <1>3, <1>4, FieldsGiven
<1>10. r["permission"] = d
  BY <1>1, <1>2, <1>3, <1>4, FieldsGiven
<1> HIDE DEF r
<1>11. r = [op |-> "put_share", key |-> a, task |-> b, username |-> c, permission |-> d]
  BY <1>5, <1>6, <1>7, <1>8, <1>9, <1>10
<1> QED
  BY <1>11 DEF r, a, b, c, d

LEMMA Arguments_delete_share ==
  ASSUME NEW raw
  PROVE  Extracted("delete_share", raw) =
           [op |-> "delete_share",
            key |-> raw.authorization[2],
            task |-> i32(raw.path[2]),
            username |-> raw.path[4]]
<1> DEFINE r == Extracted("delete_share", raw)
           a == raw.authorization[2]
           b == i32(raw.path[2])
           c == raw.path[4]
<1>1. Fields("AuthKey", "delete_share", raw) = [key |-> a]
  BY DEF Fields
<1>2. Fields("Path", "delete_share", raw) = [task |-> b, username |-> c]
  BY PathFieldsAre DEF Fields
<1> HIDE DEF a, b, c
<1>3. Seqs!Range(Extractors("delete_share")) = {"AuthKey", "Path"}
  BY ExtractorsInRange
<1>4. r = [f \in {"op", "key", "task", "username"} |-> r[f]]
  <2>1. DOMAIN Fields("AuthKey", "delete_share", raw) = {"key"}
    BY <1>1
  <2>2. DOMAIN Fields("Path", "delete_share", raw) = {"task", "username"}
    BY <1>2
  <2>3. {"op", "key", "task", "username"} =
          {"op"} \cup UNION {DOMAIN Fields(x, "delete_share", raw) :
                               x \in Seqs!Range(Extractors("delete_share"))}
    BY <1>3, <2>1, <2>2
  <2> QED
    BY <2>3, ExtractedNames
<1>5. r["op"] = "delete_share"
  BY ExtractedOp
<1>6. r["key"] = a
  BY <1>1, <1>2, <1>3, FieldsGiven
<1>7. r["task"] = b
  BY <1>1, <1>2, <1>3, FieldsGiven
<1>8. r["username"] = c
  BY <1>1, <1>2, <1>3, FieldsGiven
<1> HIDE DEF r
<1>9. r = [op |-> "delete_share", key |-> a, task |-> b, username |-> c]
  BY <1>4, <1>5, <1>6, <1>7, <1>8
<1> QED
  BY <1>9 DEF r, a, b, c

------------------------------------------------------------------------------
(***************************************************************************)
(* Where a path ends up.                                                   *)
(***************************************************************************)
Pattern(i) == resources[i].pattern

LEMMA Patterns ==
  /\ Pattern(1) = << <<"auth_keys">> >>
  /\ Pattern(2) = << <<"tasks">> >>
  /\ Pattern(3) = << <<"tasks">>, Id >>
  /\ Pattern(4) = << <<"tasks">>, Id, <<"shares">> >>
  /\ Pattern(5) = << <<"tasks">>, Id, <<"shares">>, Name >>
  /\ Pattern(6) = << <<"users">> >>
  /\ Pattern(7) = << <<"users">>, <<"me">> >>
  /\ Pattern(8) = << <<"users">>, Id >>
  /\ Pattern(9) = << <<"health">> >>
BY DEF resources, resource, Pattern

\* The first segment of a path, and how many there are, rule patterns out.
LEMMA Segments ==
  /\ Len(Pattern(1)) = 1 /\ Pattern(1)[1] = <<"auth_keys">>
  /\ Len(Pattern(2)) = 1 /\ Pattern(2)[1] = <<"tasks">>
  /\ Len(Pattern(3)) = 2 /\ Pattern(3)[1] = <<"tasks">> /\ Pattern(3)[2] = Id
  /\ Len(Pattern(4)) = 3 /\ Pattern(4)[1] = <<"tasks">>
  /\ /\ Len(Pattern(5)) = 4
     /\ Pattern(5)[1] = <<"tasks">> /\ Pattern(5)[2] = Id
     /\ Pattern(5)[3] = <<"shares">> /\ Pattern(5)[4] = Name
  /\ Len(Pattern(6)) = 1 /\ Pattern(6)[1] = <<"users">>
  /\ Len(Pattern(7)) = 2 /\ Pattern(7)[1] = <<"users">> /\ Pattern(7)[2] = <<"me">>
  /\ Len(Pattern(8)) = 2 /\ Pattern(8)[1] = <<"users">> /\ Pattern(8)[2] = Id
  /\ Len(Pattern(9)) = 1 /\ Pattern(9)[1] = <<"health">>
BY Patterns

LEMMA ClaimedBy ==
  ASSUME NEW path, NEW i \in 1..9, Matches(Pattern(i), path),
         \A j \in 1..9 : j < i => ~Matches(Pattern(j), path)
  PROVE  Claims(path) = i
BY Claimed DEF Pattern

LEMMA RoutedTo ==
  ASSUME NEW raw, NEW i \in 1..9, Claims(raw.path) = i,
         NEW j \in 1..Len(Routes(i)), Len(Routes(i)) \in 1..2,
         Routes(i)[j].method = raw.method,
         \A k \in 1..Len(Routes(i)) : k # j => Routes(i)[k].method # raw.method
  PROVE  Served(raw) /\ Handler(raw) = Routes(i)[j].handler
<1> DEFINE routes == RoutesAt(raw.path)
           I == {k \in 1..Len(routes) : routes[k].method = raw.method}
<1>1. routes = Routes(i)
  BY DEF RoutesAt, Routes
<1>2. Route(raw.method, raw.path) = IF I # {} THEN Seqs!Min(I) ELSE 0
  BY DEF Route, Seqs!SelectInSeq
<1> HIDE DEF routes
<1>3. I = {j}
  BY <1>1
<1>4. Seqs!Min(I) = j
  <2>1. I \in SUBSET (1..9)
    BY <1>1
  <2> QED
    BY <1>3, <2>1, Least
<1>5. Handler(raw) = routes[Route(raw.method, raw.path)].handler
  BY DEF Handler, routes
<1> QED
  BY <1>1, <1>2, <1>3, <1>4, <1>5 DEF Served

\* A segment which spells a number is a parameter's, and no other's.
LEMMA NumbersAreNoNames ==
  ASSUME NEW id \in 0..MaxI32
  PROVE  Digits(id) # <<"me">> /\ Digits(id) # Empty /\ i32(Digits(id)) = id
BY DigitsAssumption, NumberAssumption DEF i32

\* A segment of a path suits a pattern's.
Suits(part, segment) == part = segment \/ (part \in {Id, Name} /\ segment # Empty)

LEMMA TwoSegments ==
  ASSUME NEW path, NEW a, NEW b, path = <<a, b>>
  PROVE  /\ Len(path) = 2 /\ DOMAIN path = 1..2 /\ path[1] = a /\ path[2] = b
         /\ \A p : Matches(p, path) <=> (Len(p) = 2 /\ Suits(p[1], a) /\ Suits(p[2], b))
<1>1. Len(path) = 2 /\ DOMAIN path = 1..2 /\ path[1] = a /\ path[2] = b
  BY Pairs
<1>2. ASSUME NEW p
      PROVE  Matches(p, path) <=> (Len(p) = 2 /\ Suits(p[1], a) /\ Suits(p[2], b))
  <2>1. Matches(p, path) <=> (Len(p) = 2 /\ \A i \in 1..2 : Suits(p[i], path[i]))
    BY <1>1 DEF Matches, Suits
  <2>2. (\A i \in 1..2 : Suits(p[i], path[i])) <=> (Suits(p[1], a) /\ Suits(p[2], b))
    BY <1>1
  <2> QED
    BY <2>1, <2>2
<1> QED
  BY <1>1, <1>2

LEMMA FourSegments ==
  ASSUME NEW path, NEW a, NEW b, NEW c, NEW d, path = <<a, b, c, d>>
  PROVE  /\ Len(path) = 4 /\ DOMAIN path = 1..4
         /\ path[1] = a /\ path[2] = b /\ path[3] = c /\ path[4] = d
         /\ \A p : Matches(p, path) <=>
              (/\ Len(p) = 4
               /\ Suits(p[1], a) /\ Suits(p[2], b) /\ Suits(p[3], c) /\ Suits(p[4], d))
<1>1. /\ Len(path) = 4 /\ DOMAIN path = 1..4
      /\ path[1] = a /\ path[2] = b /\ path[3] = c /\ path[4] = d
  OBVIOUS
<1>2. ASSUME NEW p
      PROVE  Matches(p, path) <=>
               (/\ Len(p) = 4
                /\ Suits(p[1], a) /\ Suits(p[2], b) /\ Suits(p[3], c) /\ Suits(p[4], d))
  <2>1. Matches(p, path) <=> (Len(p) = 4 /\ \A i \in 1..4 : Suits(p[i], path[i]))
    BY <1>1 DEF Matches, Suits
  <2>2. (\A i \in 1..4 : Suits(p[i], path[i])) <=>
          (Suits(p[1], a) /\ Suits(p[2], b) /\ Suits(p[3], c) /\ Suits(p[4], d))
    BY <1>1
  <2> QED
    BY <2>1, <2>2
<1> QED
  BY <1>1, <1>2

LEMMA PartsSuit ==
  /\ \A id \in 0..MaxI32 : Suits(Id, Digits(id)) /\ ~Suits(<<"me">>, Digits(id))
  /\ \A name : name # Empty => Suits(Name, name)
  /\ \A text : Suits(text, text)
  /\ ~Suits(<<"tasks">>, <<"users">>) /\ ~Suits(<<"tasks">>, <<"auth_keys">>)
  /\ ~Suits(<<"users">>, <<"auth_keys">>)
<1>1. /\ <<"tasks">> # <<"users">> /\ <<"tasks">> # <<"auth_keys">>
      /\ <<"users">> # <<"auth_keys">>
      /\ {<<"tasks">>, <<"users">>, <<"me">>} \cap {Id, Name} = {}
  BY DEF Id, Name
<1>2. ~Suits(<<"tasks">>, <<"users">>) /\ ~Suits(<<"tasks">>, <<"auth_keys">>)
  BY <1>1 DEF Suits
<1>3. ~Suits(<<"users">>, <<"auth_keys">>)
  BY <1>1 DEF Suits
<1> QED
  BY <1>1, <1>2, <1>3, NumbersAreNoNames DEF Suits

\* Following the Location of a task reads a task, the one with this id.
LEMMA TaskLocation ==
  ASSUME NEW id \in 0..MaxI32, NEW raw, raw.method = "GET", raw.path = task_uri(id)
  PROVE  Served(raw) /\ Handler(raw) = "get_task_by_id" /\ raw.path[2] = Digits(id)
<1>1. raw.path = << <<"tasks">>, Digits(id) >>
  BY DEF task_uri
<1>2. Matches(Pattern(3), raw.path)
  BY <1>1, TwoSegments, Segments, PartsSuit
<1>3. ~Matches(Pattern(1), raw.path) /\ ~Matches(Pattern(2), raw.path)
  BY <1>1, TwoSegments, Segments
<1>4. \A j \in 1..9 : j < 3 => j \in {1, 2}
  OBVIOUS
<1>5. Claims(raw.path) = 3
  BY <1>2, <1>3, <1>4, ClaimedBy
<1>6. /\ Len(Routes(3)) = 2
      /\ Routes(3)[1].method = "GET" /\ Routes(3)[1].handler = "get_task_by_id"
      /\ Routes(3)[2].method = "PATCH"
  BY RoutesOfResources DEF route
<1>7. \A k \in 1..Len(Routes(3)) : k # 1 => Routes(3)[k].method # "GET"
  BY <1>6
<1>8. 1 \in 1..Len(Routes(3)) /\ Len(Routes(3)) \in 1..2 /\ 3 \in 1..9
  BY <1>6
<1>9. Served(raw) /\ Handler(raw) = Routes(3)[1].handler
  BY <1>5, <1>6, <1>7, <1>8, RoutedTo
<1> QED
  BY <1>1, <1>6, <1>9, TwoSegments

\* Following the Location of a user reads a user, and never the caller.
LEMMA UserLocation ==
  ASSUME NEW id \in 0..MaxI32, NEW raw, raw.method = "GET", raw.path = user_uri(id)
  PROVE  Served(raw) /\ Handler(raw) = "get_user" /\ raw.path[2] = Digits(id)
<1>1. raw.path = << <<"users">>, Digits(id) >>
  BY DEF user_uri
<1>2. Matches(Pattern(8), raw.path)
  BY <1>1, TwoSegments, Segments, PartsSuit
<1>3. \A j \in {1, 2, 4, 5, 6} : ~Matches(Pattern(j), raw.path)
  BY <1>1, TwoSegments, Segments
<1>4. ~Matches(Pattern(3), raw.path)
  BY <1>1, TwoSegments, Segments, PartsSuit
<1>5. ~Matches(Pattern(7), raw.path)
  BY <1>1, TwoSegments, Segments, PartsSuit
<1>6. \A j \in 1..9 : j < 8 => j \in {1, 2, 4, 5, 6} \/ j = 3 \/ j = 7
  OBVIOUS
<1>7. Claims(raw.path) = 8
  BY <1>2, <1>3, <1>4, <1>5, <1>6, ClaimedBy
<1>8. /\ Len(Routes(8)) = 1
      /\ Routes(8)[1].method = "GET" /\ Routes(8)[1].handler = "get_user"
  BY RoutesOfResources DEF route
<1> QED
  BY <1>1, <1>7, <1>8, RoutedTo, TwoSegments

\* The Location of an auth key is served by nothing.
LEMMA AuthKeyLocation ==
  ASSUME NEW id \in 0..MaxI32
  PROVE  Claims(auth_key_uri(id)) = 0
<1> DEFINE path == auth_key_uri(id)
<1>1. path = << <<"auth_keys">>, Digits(id) >>
  BY DEF auth_key_uri
<1> HIDE DEF path
<1>2. \A j \in {1, 2, 4, 5, 6, 9} : ~Matches(Pattern(j), path)
  BY <1>1, TwoSegments, Segments
<1>3. \A j \in {3, 7, 8} : ~Matches(Pattern(j), path)
  BY <1>1, TwoSegments, Segments, PartsSuit
<1>4. \A j \in 1..9 : j \in {1, 2, 4, 5, 6, 9} \cup {3, 7, 8}
  OBVIOUS
<1>5. \A j \in 1..9 : ~Matches(Pattern(j), path)
  BY <1>2, <1>3, <1>4
<1> QED
  BY <1>5, Claimed DEF Pattern, path

LEMMA Joined ==
  ASSUME NEW a, NEW b, NEW c, NEW d
  PROVE  <<a, b, c>> \o <<d>> = <<a, b, c, d>>
<1> DEFINE S == {a, b, c, d}
           s == <<a, b, c>>
           t == <<d>>
           u == <<a, b, c, d>>
<1>1. /\ s \in Seq(S) /\ Len(s) = 3 /\ t \in Seq(S) /\ Len(t) = 1
      /\ u \in Seq(S) /\ Len(u) = 4
  OBVIOUS
<1>2. /\ s[1] = a /\ s[2] = b /\ s[3] = c /\ t[1] = d
      /\ u[1] = a /\ u[2] = b /\ u[3] = c /\ u[4] = d
  OBVIOUS
<1> HIDE DEF S, s, t, u
<1>3. /\ s \o t \in Seq(S) /\ Len(s \o t) = Len(s) + Len(t)
      /\ \A i \in 1..Len(s) + Len(t) :
           (s \o t)[i] = IF i <= Len(s) THEN s[i] ELSE t[i - Len(s)]
  BY <1>1, ConcatProperties
<1>4. /\ Len(s \o t) = 4 /\ (s \o t)[4] = t[1]
      /\ \A i \in 1..3 : (s \o t)[i] = s[i]
  BY <1>1, <1>3
<1>5. \A i \in 1..4 : (s \o t)[i] = u[i]
  BY <1>2, <1>4
<1>6. s \o t = u
  BY <1>1, <1>3, <1>4, <1>5, SeqEqual
<1> QED
  BY <1>6 DEF s, t, u

\* The Location of a share is where it is changed and removed.
LEMMA ShareLocation ==
  ASSUME NEW id \in 0..MaxI32, NEW name, name # Empty,
         NEW raw, raw.method = "DELETE", raw.path = share_uri(id, <<name>>)
  PROVE  /\ Served(raw) /\ Handler(raw) = "delete_share"
         /\ raw.path[2] = Digits(id) /\ raw.path[4] = name
<1>1. raw.path = << <<"tasks">>, Digits(id), <<"shares">>, name >>
  <2>1. <<name>> = <<name>> /\ raw.path = << <<"tasks">>, Digits(id), <<"shares">> >> \o <<name>>
    BY DEF share_uri
  <2> QED
    BY <2>1, Joined
<1>2. Matches(Pattern(5), raw.path)
  BY <1>1, FourSegments, Segments, PartsSuit
<1>3. \A j \in {1, 2, 3, 4} : ~Matches(Pattern(j), raw.path)
  BY <1>1, FourSegments, Segments
<1>4. \A j \in 1..9 : j < 5 => j \in {1, 2, 3, 4}
  OBVIOUS
<1>5. Claims(raw.path) = 5
  BY <1>2, <1>3, <1>4, ClaimedBy
<1>6. /\ Len(Routes(5)) = 2
      /\ Routes(5)[2].method = "DELETE" /\ Routes(5)[2].handler = "delete_share"
      /\ Routes(5)[1].method = "PUT"
  BY RoutesOfResources DEF route
<1>7. \A k \in 1..Len(Routes(5)) : k # 2 => Routes(5)[k].method # "DELETE"
  BY <1>6
<1>8. 2 \in 1..Len(Routes(5)) /\ Len(Routes(5)) \in 1..2 /\ 5 \in 1..9
  BY <1>6
<1>9. Served(raw) /\ Handler(raw) = Routes(5)[2].handler
  BY <1>5, <1>6, <1>7, <1>8, RoutedTo
<1> QED
  BY <1>1, <1>6, <1>9, FourSegments

================================================================================
