------------------------------- MODULE MCGateway -------------------------------
(***************************************************************************)
(* One worker, alice with a task, and requests which get something wrong:  *)
(* every method at every path, every header at every endpoint, numbers     *)
(* around the end of an i32, bodies which lack a field or mistype it, and  *)
(* usernames which hold a colon: alice:p has an account with password q,   *)
(* which in a header reads as alice's own p:q, and al:ice can get one.     *)
(***************************************************************************)
EXTENDS Gateway, FiniteSets

CONSTANTS ka, ke, kn, other

MCNumeral ==
  << <<"0">>, <<"1">>, <<"01">>, <<"2">>, <<"3">>, <<"4">>, <<"5">>, <<"6">> >>

MCNumbers == <<0, 1, 1, 2, 3, 4, 5, 6>>

NumeralOf ==
  [text \in {MCNumeral[i] : i \in DOMAIN MCNumeral} |->
     MCNumbers[CHOOSE i \in DOMAIN MCNumeral : MCNumeral[i] = text]]

alice == <<"alice">>
bob == <<"bob">>
zed == <<"zed">>
al == <<"al">>
alice_p == <<"alice", "p">>
al_ice == <<"al", "ice">>
percent == <<"%62ob">>
control == <<"b\nb">>

PlainNames == {alice, bob, zed, al, alice_p, al_ice}
OddNames == PlainNames \cup {percent, control}
MCUnprintable == {control}

MCVarchar255 == [name \in Usernames |-> name]
MCBlank == <<" ">>
MCPasswords == {<<"p">>, <<"q">>, <<"p", "q">>, <<"ice", "p">>}
MCTitles == {<<"t">>}
MCMaxId == [users |-> 4, auth_keys |-> 3, tasks |-> 2, task_shares |-> 1]

Database(others) ==
  [users |-> {[id |-> 1, username |-> alice, password |-> [hash_of |-> <<"p", "q">>]]}
               \cup others,
   auth_keys |->
     {[id |-> 1, user_id |-> 1, key |-> ka, expiration |-> 9],
      [id |-> 2, user_id |-> 1, key |-> ke, expiration |-> 0]},
   tasks |->
     {[id |-> 1, owner |-> 1, title |-> <<"t">>, description |-> None,
       completed |-> TRUE]},
   task_shares |-> {},
   sequence |-> [users |-> 2 + Cardinality(others), auth_keys |-> 3, tasks |-> 2, task_shares |-> 1],
   minted |-> {ka, ke}]

Account(id, name, password) ==
  [id |-> id, username |-> name, password |-> [hash_of |-> password]]

MCInitialDatabase ==
  Database({Account(2, bob, <<"p">>), Account(3, alice_p, <<"q">>)})

\* Two accounts whose names are not what a URI makes of them.
OddDatabase ==
  Database({Account(2, percent, <<"p">>), Account(3, control, <<"p">>)})

InPlace == [name \in Usernames |-> IF name = percent THEN <<bob>> ELSE <<name>>]

------------------------------------------------------------------------------
P(a) == << <<a>> >>
P2(a, b) == << <<a>>, b >>
Shares(id) == << <<"tasks">>, id, <<"shares">> >>
ShareAt(id, name) == << <<"tasks">>, id, <<"shares">>, name >>

Methods == {"GET", "HEAD", "POST", "PUT", "PATCH", "DELETE", "OPTIONS"}

Paths ==
  {P("auth_keys"), P("tasks"), P("users"), P("health"), P("nope"),
   P2("users", <<"me">>), P2("users", <<"1">>), P2("users", <<"6">>),
   P2("users", <<"">>), P2("auth_keys", <<"1">>),
   P2("tasks", <<"01">>), P2("tasks", <<"4">>),
   P2("tasks", <<"5">>), P2("tasks", <<"6">>), P2("tasks", <<"x">>),
   P2("tasks", <<"">>), Shares(<<"1">>), Shares(<<"6">>), Shares(<<"">>),
   ShareAt(<<"1">>, bob), ShareAt(<<"6">>, bob), ShareAt(<<"1">>, <<"">>),
   Append(ShareAt(<<"1">>, bob), <<"x">>)}
  \cup {ShareAt(<<"1">>, name) : name \in {zed, percent, control} \cap Usernames}

Token(text) == [base64 |-> TRUE, utf8 |-> TRUE, text |-> text]

Headers ==
  {<<>>, <<"Bearer">>, <<"Bearer", ka>>, <<"bearer", ka>>, <<"Bearer", ka, "x">>,
   <<"Bearer", ke>>, <<"Bearer", other>>, <<"Token", ka>>,
   <<"Basic">>, <<"Basic", Token(<<"alice", "p", "q">>)>>,
   <<"basic", Token(<<"alice", "p", "q">>)>>, <<"Basic", Token(<<"alice", "p">>)>>,
   <<"Basic", Token(<<"al", "ice", "p">>)>>,
   <<"Basic", Token(<<" ", "p">>)>>, <<"Basic", Token(<<"alice">>)>>,
   <<"Basic", [Token(<<"alice", "p">>) EXCEPT !.base64 = FALSE]>>,
   <<"Basic", [Token(<<"alice", "p">>) EXCEPT !.utf8 = FALSE]>>,
   <<"Basic", Token(<<"alice", "p">>), "x">>}

Raw(method, path, authorization, query, body) ==
  [method |-> method, path |-> path, authorization |-> authorization,
   query |-> query, body |-> body]

ka_ == <<"Bearer", ka>>

\* Every method at every path, with a key and a body which suits any payload.
Anything == [title |-> <<"t">>, completed |-> TRUE, permission |-> "read"]
Everywhere == {Raw(m, p, ka_, <<>>, Anything) : m \in Methods, p \in Paths}

Endpoints ==
  {<<"DELETE", P("auth_keys")>>, <<"POST", P("auth_keys")>>, <<"GET", P("tasks")>>,
   <<"POST", P("tasks")>>, <<"GET", P2("tasks", <<"x">>)>>,
   <<"PATCH", P2("tasks", <<"1">>)>>, <<"PATCH", P2("tasks", <<"5">>)>>,
   <<"GET", Shares(<<"2">>)>>, <<"PUT", ShareAt(<<"1">>, bob)>>,
   <<"DELETE", ShareAt(<<"x">>, bob)>>, <<"GET", P2("users", <<"me">>)>>,
   <<"GET", P2("users", <<"x">>)>>, <<"GET", P("health")>>}

\* Every header, with nothing else right.
Headed == {Raw(e[1], e[2], h, <<"maybe">>, NotJson) : e \in Endpoints, h \in Headers}

Queried ==
  {Raw("GET", P("tasks"), ka_, q, NotJson) :
     q \in {<<"true">>, <<"false">>, <<"maybe">>, <<"true", "true">>}}

Registrations ==
  {Raw("POST", P("users"), <<>>, <<>>, b) :
     b \in {NotJson, [username |-> bob], [username |-> bob, password |-> Mistyped],
            [username |-> al_ice, password |-> <<"p">>],
            [username |-> MCBlank, password |-> <<"p">>]}}

Bodies ==
  {Raw("POST", P("tasks"), ka_, <<>>, b) :
     b \in {[description |-> Absent], [title |-> MCBlank],
            [title |-> <<"t">>, description |-> Mistyped]}}
  \cup {Raw("PATCH", P2("tasks", <<"1">>), ka_, <<>>, b) :
     b \in {[unknown |-> TRUE], [completed |-> TRUE], [completed |-> Mistyped],
            [title |-> Absent, completed |-> TRUE]}}
  \cup {Raw("PUT", ShareAt(<<"1">>, n), ka_, <<>>, b) :
     n \in {bob, MCBlank}, b \in {[permission |-> "read"], [permission |-> "unknown"],
                                  [permission |-> Mistyped], [unknown |-> TRUE]}}

MCRawRequests ==
  Everywhere \cup Headed \cup Queried \cup Registrations \cup Bodies

------------------------------------------------------------------------------
\* The requests the handlers are written for, apart from what is on the wire.
Ids == {0, 1, 2, 4}
Presented == {ka, ke, other}
Sharees == {bob, zed, MCBlank} \cup ({percent, control} \cap Usernames)

MCRequests ==
  [op : {"create_user"}, username : {al_ice, MCBlank}, password : {<<"p">>}]
  \cup [op : {"create_auth_key"}, password : Passwords,
        username : {alice, bob, al, alice_p, al_ice, MCBlank}]
  \cup [op : {"delete_auth_key", "get_current_user"}, key : Presented]
  \cup [op : {"get_tasks"}, key : Presented, completed : BOOLEAN \cup {None}]
  \cup [op : {"add_task"}, key : Presented, title : {<<"t">>, MCBlank},
        description : {None}]
  \cup [op : {"get_task_by_id", "get_task_shares"}, key : Presented, task : Ids]
  \cup [op : {"update_task_by_id"}, key : {ka}, task : Ids,
        completed : BOOLEAN \cup {None}, title : {<<"t">>, None}, description : {None}]
  \cup [op : {"put_share"}, key : {ka}, task : {1}, username : Sharees,
        permission : {"read", "unknown"}]
  \cup [op : {"delete_share"}, key : {ka}, task : {1}, username : Sharees]
  \cup [op : {"get_user"}, key : Presented, user : Ids]

==============================================================================
