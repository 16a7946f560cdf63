------------------------------- MODULE Migrations -------------------------------
(***************************************************************************)
(* How a container gets its database ready: `diesel migration run`, and    *)
(* the server only if that succeeded (set -e).  A migration runs in one    *)
(* transaction with the record that it was applied; the list of pending    *)
(* ones is read once, at the beginning, and nothing keeps two containers   *)
(* from migrating at the same time.                                        *)
(*                                                                         *)
(* The schema is a set of columns and constraints.  Of the rows only what  *)
(* makes a statement fail is kept.                                         *)
(***************************************************************************)
EXTENDS Naturals, Sequences

CONSTANTS
  Containers,
  Carried       \* the versions of the migrations the image carries

VARIABLES
  schema,    \* the columns and constraints there are
  applied,   \* __diesel_schema_migrations: the versions
  rows,      \* what the rows are like: see Troubles
  phase,     \* where each container is
  pending    \* the versions each container has still to run

vars == <<schema, applied, rows, phase, pending>>

------------------------------------------------------------------------------
(***************************************************************************)
(* SQL.                                                                    *)
(***************************************************************************)
Column(table, column, type, null) ==
  [kind |-> "column", table |-> table,
   column |-> column, type |-> type, null |-> null]

Unique(table, columns) ==
  [kind |-> "unique", table |-> table, columns |-> columns]

References(table, to) == [kind |-> "references", table |-> table, to |-> to]

IsColumn(object) == object.kind = "column"

Has(s, table) == \E object \in s : object.table = table

\* Two rows with one username, a text of more than 80 characters in users, a
\* task without an owner or a title.
Troubles == {"duplicates", "long_texts", "missing_values"}

create_table(table, objects) ==
  [do |-> "create", table |-> table, adds |-> objects]
drop_table(table) == [do |-> "drop", table |-> table]
add(table, object) == [do |-> "add", table |-> table, adds |-> {object}]
drop(table, object) == [do |-> "remove", table |-> table, removes |-> object]
alter_type(table, column, type) ==
  [do |-> "type", table |-> table, column |-> column, type |-> type]
set_null(table, column, null) ==
  [do |-> "null", table |-> table, column |-> column, null |-> null]

Missing(s, object) == object.kind = "references" /\ ~Has(s, object.to)

\* Why a statement fails: the schema does not have what it names, or the rows
\* there are do not fit what it wants.
Fails(s, data, st) ==
  \/ st.do = "create" /\ \/ Has(s, st.table)
                         \/ \E object \in st.adds : Missing(s, object)
  \/ st.do # "create" /\ ~Has(s, st.table)
  \/ st.do = "drop" /\ \E object \in s :
                         object.kind = "references" /\ object.to = st.table
  \/ st.do = "remove" /\ st.removes \notin s
  \/ st.do = "add" /\ \/ st.adds \subseteq s
                      \/ "duplicates" \in data /\ Unique("users", {"username"}) \in st.adds
  \/ st.do = "type" /\ st.type = "varchar(80)" /\ "long_texts" \in data
  \/ st.do = "null" /\ st.null = "NOT_NULL" /\ "missing_values" \in data

Altered(s, st) ==
  {IF IsColumn(object) /\ object.table = st.table /\ object.column = st.column
   THEN IF st.do = "type"
        THEN Column(object.table, object.column, st.type, object.null)
        ELSE Column(object.table, object.column, object.type, st.null)
   ELSE object : object \in s}

Execute(s, st) ==
  CASE st.do \in {"create", "add"} -> s \cup st.adds
    [] st.do = "drop" -> {object \in s : object.table # st.table}
    [] st.do = "remove" -> s \ {st.removes}
    [] st.do \in {"type", "null"} -> Altered(s, st)

\* What the first n statements of a migration make of the schema; no migration
\* has more than two.
After(s, statements, n) ==
  CASE n = 0 -> s
    [] n = 1 -> Execute(s, statements[1])
    [] n = 2 -> Execute(Execute(s, statements[1]), statements[2])

\* The statements of a migration, all of them or none.
Completes(s, data, statements) ==
  \A i \in DOMAIN statements :
    ~Fails(After(s, statements, i - 1), data, statements[i])

Transaction(s, statements) == After(s, statements, Len(statements))

------------------------------------------------------------------------------
(***************************************************************************)
(* The migrations.                                                         *)
(***************************************************************************)
Migration(name, up, down) == [name |-> name, up |-> up, down |-> down]

Id(table) == Column(table, "id", "int4", "NOT_NULL")

\* Two functions, which no table uses.
diesel_initial_setup == Migration("diesel_initial_setup", <<>>, <<>>)

users_table(username, password) ==
  {Id("users"), Column("users", "username", username, "NOT_NULL"),
   Column("users", "password", password, "NOT_NULL")}

create_users ==
  Migration("create_users",
    << create_table("users", users_table("varchar(80)", "varchar(80)")) >>,
    << drop_table("users") >>)

usernames_are_unique == Unique("users", {"username"})

make_usernames_unique ==
  Migration("make_usernames_unique",
    << add("users", usernames_are_unique) >>, << drop("users", usernames_are_unique) >>)

auth_keys_table ==
  {Id("auth_keys"), Column("auth_keys", "user_id", "int4", "NOT_NULL"),
   References("auth_keys", "users"), Column("auth_keys", "key", "text", "NOT_NULL"),
   Column("auth_keys", "expiration", "timestamp", "NOT_NULL")}

create_auth_keys ==
  Migration("create_auth_keys",
    << create_table("auth_keys", auth_keys_table) >>, << drop_table("auth_keys") >>)

users_varchars(type) ==
  << alter_type("users", "username", type), alter_type("users", "password", type) >>

\* Mutant: the second column is not taken back.
enlarge_users_varchars_HalfDown ==
  Migration("enlarge_users_varchars", users_varchars("varchar(255)"),
            << alter_type("users", "username", "varchar(80)") >>)

enlarge_users_varchars ==
  Migration("enlarge_users_varchars",
            users_varchars("varchar(255)"), users_varchars("varchar(80)"))

tasks_table(owner, title) ==
  {Id("tasks"), Column("tasks", "owner", "int4", owner),
   References("tasks", "users"), Column("tasks", "title", "text", title),
   Column("tasks", "description", "text", "NULL")}

create_tasks_table ==
  Migration("create_tasks_table",
    << create_table("tasks", tasks_table("NULL", "NULL")) >>, << drop_table("tasks") >>)

tasks_nulls(null) ==
  << set_null("tasks", "owner", null), set_null("tasks", "title", null) >>

tasks_always_have_owners_and_titles ==
  Migration("tasks_always_have_owners_and_titles",
            tasks_nulls("NOT_NULL"), tasks_nulls("NULL"))

\* Mutant: the new column has a default and no NOT NULL.
completed_column_Nullable == Column("tasks", "completed", "bool", "NULL")

completed_column == Column("tasks", "completed", "bool", "NOT_NULL")

add_completed_column_to_tasks ==
  Migration("add_completed_column_to_tasks",
    << add("tasks", completed_column) >>, << drop("tasks", completed_column) >>)

one_share_for_each_user == Unique("task_shares", {"task_id", "user_id"})

task_shares_table ==
  {Id("task_shares"), Column("task_shares", "task_id", "int4", "NOT_NULL"),
   References("task_shares", "tasks"),
   Column("task_shares", "user_id", "int4", "NOT_NULL"),
   References("task_shares", "users"),
   Column("task_shares", "permission", "text", "NOT_NULL"), one_share_for_each_user}

create_task_shares == << create_table("task_shares", task_shares_table) >>

\* Mutant: down.sql is empty.
create_task_shares_table_NotDropped ==
  Migration("create_task_shares_table", create_task_shares, <<>>)

create_task_shares_table ==
  Migration("create_task_shares_table",
            create_task_shares, << drop_table("task_shares") >>)

\* Mutant: the shares are dated before the tasks they refer to.
migrations_SharesFirst ==
  << diesel_initial_setup, create_users, make_usernames_unique, create_auth_keys,
     enlarge_users_varchars, create_task_shares_table, create_tasks_table,
     tasks_always_have_owners_and_titles, add_completed_column_to_tasks >>

\* In the order of their dates, which is the order of their directories: the
\* version of a migration, a date in the code, is its place in this order.
migrations ==
  << diesel_initial_setup, create_users, make_usernames_unique, create_auth_keys,
     enlarge_users_varchars, create_tasks_table,
     tasks_always_have_owners_and_titles, add_completed_column_to_tasks,
     create_task_shares_table >>

\* The ones the Dockerfile copies.
CopiedByDockerfile ==
  {i \in DOMAIN migrations :
     migrations[i].name \in {"diesel_initial_setup", "create_users",
                             "make_usernames_unique", "create_auth_keys",
                             "enlarge_users_varchars"}}

Everything == DOMAIN migrations

\* The Dockerfile is extended as migrations are written: an image carries the
\* earliest ones, without a gap.
ASSUME CarriedAssumption == \E n \in DOMAIN migrations : Carried = 1..n

------------------------------------------------------------------------------
Init ==
  /\ schema = {} /\ applied = {} /\ rows = {}
  /\ phase = [k \in Containers |-> "down"]
  /\ pending = [k \in Containers |-> {}]

\* A container is started, or started again, and reads what is pending.
Start(k) ==
  /\ phase[k] = "down"
  /\ phase' = [phase EXCEPT ![k] = "migrating"]
  /\ pending' = [pending EXCEPT ![k] = Carried \ applied]
  /\ UNCHANGED <<schema, applied, rows>>

\* The pending migrations are run in the order of their versions.
IsNext(k, i) == i \in pending[k] /\ \A j \in pending[k] : i <= j

\* The version is the key of __diesel_schema_migrations: what another container
\* applied in the meantime cannot be applied again.
CanApply(i) ==
  i \notin applied /\ Completes(schema, rows, migrations[i].up)

Migrate(k) ==
  /\ phase[k] = "migrating"
  /\ \E i \in pending[k] :
       /\ IsNext(k, i) /\ CanApply(i)
       /\ schema' = Transaction(schema, migrations[i].up)
       /\ applied' = applied \cup {i}
       /\ pending' = [pending EXCEPT ![k] = @ \ {i}]
  /\ UNCHANGED <<rows, phase>>

\* The migration fails and is rolled back, and the script exits.
Exit(k) ==
  /\ phase[k] = "migrating"
  /\ \E i \in pending[k] : IsNext(k, i) /\ ~CanApply(i)
  /\ phase' = [phase EXCEPT ![k] = "down"]
  /\ pending' = [pending EXCEPT ![k] = {}]
  /\ UNCHANGED <<schema, applied, rows>>

\* exec /app/rust-todo
Serve(k) ==
  /\ phase[k] = "migrating" /\ pending[k] = {}
  /\ phase' = [phase EXCEPT ![k] = "serving"]
  /\ UNCHANGED <<schema, applied, rows, pending>>

\* The container is stopped, between two migrations or in the middle of one.
Stop(k) ==
  /\ phase[k] # "down"
  /\ phase' = [phase EXCEPT ![k] = "down"]
  /\ pending' = [pending EXCEPT ![k] = {}]
  /\ UNCHANGED <<schema, applied, rows>>

\* create_user: the row's password is an Argon2 hash, 97 characters long.
Register(k) ==
  /\ phase[k] = "serving"
  /\ Column("users", "password", "varchar(255)", "NOT_NULL") \in schema
  /\ rows' = rows \cup {"long_texts"}
  /\ UNCHANGED <<schema, applied, phase, pending>>

\* A release of the time when the schema still allowed it.
EarlierRelease ==
  /\ \/ /\ Has(schema, "users") /\ usernames_are_unique \notin schema
        /\ rows' = rows \cup {"duplicates"}
     \/ /\ Column("tasks", "title", "text", "NULL") \in schema
        /\ rows' = rows \cup {"missing_values"}
  /\ UNCHANGED <<schema, applied, phase, pending>>

\* The migration applied last, with nothing after it.
Latest(i) == i \in applied /\ \A j \in applied : j <= i

CanRevert(i) == Completes(schema, rows, migrations[i].down)

RowsLeft(s) ==
  {r \in rows : Has(s, IF r = "missing_values" THEN "tasks" ELSE "users")}

\* diesel migration revert, while no container is up.
Revert ==
  /\ \A k \in Containers : phase[k] = "down"
  /\ \E i \in applied :
       /\ Latest(i) /\ CanRevert(i)
       /\ schema' = Transaction(schema, migrations[i].down)
       /\ applied' = applied \ {i}
  /\ rows' = RowsLeft(schema')
  /\ UNCHANGED <<phase, pending>>

Next ==
  \/ \E k \in Containers :
       Start(k) \/ Migrate(k) \/ Exit(k) \/ Serve(k) \/ Stop(k) \/ Register(k)
  \/ EarlierRelease \/ Revert

Spec == Init /\ [][Next]_vars

------------------------------------------------------------------------------
\* schema.rs, and the constraints core.rs relies on: the one which add_user
\* turns into UserExists, and the one ON CONFLICT names.
Columns(table, types, nullable) ==
  {Column(table, c, types[c], IF c \in nullable THEN "NULL" ELSE "NOT_NULL") :
     c \in DOMAIN types}

Declared ==
  Columns("auth_keys", [id |-> "int4", user_id |-> "int4", key |-> "text",
                        expiration |-> "timestamp"], {})
  \cup Columns("task_shares", [id |-> "int4", task_id |-> "int4",
                               user_id |-> "int4", permission |-> "text"], {})
  \cup Columns("tasks", [id |-> "int4", owner |-> "int4", title |-> "text",
                         description |-> "text", completed |-> "bool"], {"description"})
  \cup Columns("users", [id |-> "int4", username |-> "varchar(255)",
                         password |-> "varchar(255)"], {})

Constraints == {Unique("users", {"username"}), Unique("task_shares", {"task_id", "user_id"})}

During(i, versions, objects) == IF i \in versions THEN objects ELSE {}

\* What the first i migrations make of an empty database: which versions of the
\* schema have which table, column and constraint.
Built(i) ==
  During(i, 2..4, users_table("varchar(80)", "varchar(80)"))
  \cup During(i, 5..9, users_table("varchar(255)", "varchar(255)"))
  \cup During(i, 3..9, {usernames_are_unique})
  \cup During(i, 4..9, auth_keys_table)
  \cup During(i, 6..6, tasks_table("NULL", "NULL"))
  \cup During(i, 7..9, tasks_table("NOT_NULL", "NOT_NULL"))
  \cup During(i, 8..9, {completed_column})
  \cup During(i, 9..9, task_shares_table)

Served == {object \in schema : IsColumn(object)}

\* However containers race, are stopped or roll back, the migrations on record
\* are the first ones without a gap, and the schema is the one these make of an
\* empty database: each down.sql undoes its up.sql.
SchemaIsOnRecord ==
  /\ rows \subseteq Troubles
  /\ phase \in [Containers -> {"down", "migrating", "serving"}]
  /\ \E i \in 0..Len(migrations) : applied = 1..i /\ schema = Built(i)

\* A server only runs on the tables which schema.rs declares and with the
\* constraints core.rs relies on, whichever container migrated them.
ServedSchemaIsDeclared ==
  (\E k \in Containers : phase[k] = "serving")
    => Served = Declared /\ Constraints \subseteq schema

\* A container fails to come up only because another one migrates at the same
\* time or because of rows which an earlier release could write.
ExitsForAReason ==
  [][\A k \in Containers : Exit(k) =>
       \/ \E i \in applied : IsNext(k, i)
       \/ rows \cap {"duplicates", "missing_values"} # {}]_vars

\* tickets/013-etag-and-conditional-requests.md: the migrations are reversible.
\* Whatever was applied, the latest migration can be taken back, unless
\* somebody has registered since the users' columns were enlarged and it is
\* these which would have to shrink.
OnlyLongTextsKeepFromReverting ==
  \A i \in DOMAIN migrations :
    Latest(i) =>
      \/ CanRevert(i)
      \/ migrations[i] = enlarge_users_varchars /\ "long_texts" \in rows

==============================================================================
