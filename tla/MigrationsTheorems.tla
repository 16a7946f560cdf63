--------------------------- MODULE MigrationsTheorems ---------------------------
(***************************************************************************)
(* Whatever containers do to it, the schema is the one which the           *)
(* migrations on record make of an empty database.                         *)
(*                                                                         *)
(* One lemma for each kind of statement says when it succeeds and what it  *)
(* makes of the schema; from these, one lemma for each up.sql and for each *)
(* down.sql, and from these the inductive invariant.                       *)
(***************************************************************************)
EXTENDS Migrations, TLAPS

(***************************************************************************)
(* Statements.                                                             *)
(***************************************************************************)

LEMMA Creates ==
  ASSUME NEW s, NEW data, NEW table, NEW objects,
         ~Has(s, table), \A x \in objects : ~Missing(s, x)
  PROVE  /\ ~Fails(s, data, create_table(table, objects))
         /\ Execute(s, create_table(table, objects)) = s \cup objects
BY DEF Fails, Execute, create_table

LEMMA Drops ==
  ASSUME NEW s, NEW data, NEW table, Has(s, table),
         \A x \in s : x.kind = "references" => x.to # table
  PROVE  /\ ~Fails(s, data, drop_table(table))
         /\ Execute(s, drop_table(table)) = {x \in s : x.table # table}
BY DEF Fails, Execute, drop_table

LEMMA Adds ==
  ASSUME NEW s, NEW data, NEW table, NEW object, Has(s, table), object \notin s
  PROVE  /\ Fails(s, data, add(table, object)) =>
              "duplicates" \in data /\ object = Unique("users", {"username"})
         /\ Execute(s, add(table, object)) = s \cup {object}
BY DEF Fails, Execute, add

LEMMA Removes ==
  ASSUME NEW s, NEW data, NEW table, NEW object, Has(s, table), object \in s
  PROVE  /\ ~Fails(s, data, drop(table, object))
         /\ Execute(s, drop(table, object)) = s \ {object}
BY DEF Fails, Execute, drop

LEMMA Retypes ==
  ASSUME NEW s, NEW data, NEW table, NEW column, NEW type, Has(s, table)
  PROVE  /\ Fails(s, data, alter_type(table, column, type)) =>
              type = "varchar(80)" /\ "long_texts" \in data
         /\ Execute(s, alter_type(table, column, type))
              = Altered(s, alter_type(table, column, type))
BY DEF Fails, Execute, alter_type

LEMMA Requires ==
  ASSUME NEW s, NEW data, NEW table, NEW column, NEW null, Has(s, table)
  PROVE  /\ Fails(s, data, set_null(table, column, null)) =>
              null = "NOT_NULL" /\ "missing_values" \in data
         /\ Execute(s, set_null(table, column, null))
              = Altered(s, set_null(table, column, null))
BY DEF Fails, Execute, set_null

\* A migration of one statement or of two.
LEMMA One ==
  ASSUME NEW s, NEW data, NEW st
  PROVE  /\ Completes(s, data, <<st>>) <=> ~Fails(s, data, st)
         /\ Transaction(s, <<st>>) = Execute(s, st)
BY DEF Completes, Transaction, After

LEMMA Two ==
  ASSUME NEW s, NEW data, NEW st, NEW su
  PROVE  /\ Completes(s, data, <<st, su>>) <=>
              ~Fails(s, data, st) /\ ~Fails(Execute(s, st), data, su)
         /\ Transaction(s, <<st, su>>) = Execute(Execute(s, st), su)
BY DEF Completes, Transaction, After

LEMMA None ==
  ASSUME NEW s, NEW data
  PROVE  Completes(s, data, <<>>) /\ Transaction(s, <<>>) = s
BY DEF Completes, Transaction, After

(***************************************************************************)
(* Tables.                                                                 *)
(***************************************************************************)

LEMMA Fields ==
  ASSUME NEW table, NEW column, NEW type, NEW null, NEW other
  PROVE  /\ Column(table, column, type, null).kind = "column"
         /\ Column(table, column, type, null).table = table
         /\ Column(table, column, type, null).column = column
         /\ Column(table, column, type, null).type = type
         /\ Column(table, column, type, null).null = null
         /\ Unique(table, column).kind = "unique"
         /\ Unique(table, column).table = table
         /\ References(table, other).kind = "references"
         /\ References(table, other).table = table
         /\ References(table, other).to = other
BY DEF Column, Unique, References

\* What a table's objects have in common.
Of(objects, table, others) ==
  /\ objects # {}
  /\ \A x \in objects : x.table = table /\ (x.kind = "references" => x.to \in others)

LEMMA OfUsers ==
  ASSUME NEW username, NEW password
  PROVE  Of(users_table(username, password), "users", {})
BY Fields DEF Of, users_table, Id

LEMMA OfUnique == Of({usernames_are_unique}, "users", {})
BY Fields DEF Of, usernames_are_unique

LEMMA OfAuthKeys == Of(auth_keys_table, "auth_keys", {"users"})
BY Fields DEF Of, auth_keys_table, Id

LEMMA OfTasks ==
  ASSUME NEW owner, NEW title
  PROVE  Of(tasks_table(owner, title), "tasks", {"users"})
BY Fields DEF Of, tasks_table, Id

LEMMA OfCompleted == Of({completed_column}, "tasks", {})
BY Fields DEF Of, completed_column

LEMMA OfShares == Of(task_shares_table, "task_shares", {"tasks", "users"})
BY Fields DEF Of, task_shares_table, one_share_for_each_user, Id

LEMMA HasOf ==
  ASSUME NEW s, NEW objects, NEW table, NEW others, NEW other,
         Of(objects, table, others)
  PROVE  Has(s \cup objects, other) <=> Has(s, other) \/ table = other
BY DEF Has, Of

LEMMA HasNone == ASSUME NEW table PROVE ~Has({}, table)
BY DEF Has

\* Columns are altered in the table they belong to.
LEMMA AlteredUnion ==
  ASSUME NEW s, NEW t, NEW st
  PROVE  Altered(s \cup t, st) = Altered(s, st) \cup Altered(t, st)
BY DEF Altered

LEMMA AlteredElsewhere ==
  ASSUME NEW s, NEW st, \A x \in s : IsColumn(x) => x.table # st.table
  PROVE  Altered(s, st) = s
BY DEF Altered

LEMMA AlteredUsers ==
  ASSUME NEW username, NEW password, NEW type
  PROVE  /\ Altered(users_table(username, password), alter_type("users", "username", type))
              = users_table(type, password)
         /\ Altered(users_table(username, password), alter_type("users", "password", type))
              = users_table(username, type)
BY Fields DEF Altered, alter_type, users_table, Id, IsColumn

LEMMA AlteredTasks ==
  ASSUME NEW owner, NEW title, NEW null
  PROVE  /\ Altered(tasks_table(owner, title), set_null("tasks", "owner", null))
              = tasks_table(null, title)
         /\ Altered(tasks_table(owner, title), set_null("tasks", "title", null))
              = tasks_table(owner, null)
BY Fields DEF Altered, set_null, tasks_table, Id, IsColumn

LEMMA CompletedIsNew ==
  ASSUME NEW owner, NEW title PROVE completed_column \notin tasks_table(owner, title)
BY Fields DEF completed_column, tasks_table, Id

LEMMA UniqueIsNew ==
  ASSUME NEW username, NEW password
  PROVE  usernames_are_unique \notin users_table(username, password)
BY Fields DEF usernames_are_unique, users_table, Id

(***************************************************************************)
(* Versions of the schema.                                                 *)
(***************************************************************************)

LEMMA TheMigrations ==
  /\ DOMAIN migrations = 1..9 /\ Len(migrations) = 9
  /\ migrations[1] = diesel_initial_setup
  /\ migrations[2] = create_users
  /\ migrations[3] = make_usernames_unique
  /\ migrations[4] = create_auth_keys
  /\ migrations[5] = enlarge_users_varchars
  /\ migrations[6] = create_tasks_table
  /\ migrations[7] = tasks_always_have_owners_and_titles
  /\ migrations[8] = add_completed_column_to_tasks
  /\ migrations[9] = create_task_shares_table
BY DEF migrations

LEMMA TheVersions ==
  /\ Built(0) = {}
  /\ Built(1) = {}
  /\ Built(2) = users_table("varchar(80)", "varchar(80)")
  /\ Built(3) = Built(2) \cup {usernames_are_unique}
  /\ Built(4) = Built(3) \cup auth_keys_table
  /\ Built(5) = (users_table("varchar(255)", "varchar(255)")
                  \cup {usernames_are_unique}) \cup auth_keys_table
  /\ Built(6) = Built(5) \cup tasks_table("NULL", "NULL")
  /\ Built(7) = Built(5) \cup tasks_table("NOT_NULL", "NOT_NULL")
  /\ Built(8) = Built(7) \cup {completed_column}
  /\ Built(9) = Built(8) \cup task_shares_table
BY DEF Built, During

\* The tables of a version, and the tables its tables refer to.
Tables(s, tables, others) ==
  /\ \A table : Has(s, table) <=> table \in tables
  /\ \A x \in s : x.table \in tables /\ (x.kind = "references" => x.to \in others)

LEMMA MoreTables ==
  ASSUME NEW s, NEW tables, NEW others, Tables(s, tables, others),
         NEW objects, NEW table, NEW to, Of(objects, table, to),
         NEW all, all = tables \cup {table}, NEW refs, refs = others \cup to
  PROVE  Tables(s \cup objects, all, refs)
<1>1. \A other : Has(s \cup objects, other) <=> Has(s, other) \/ table = other
  BY HasOf
<1> QED
  BY <1>1 DEF Tables, Of

LEMMA FirstTable ==
  ASSUME NEW objects, NEW table, Of(objects, table, {})
  PROVE  Tables(objects, {table}, {})
BY DEF Tables, Of, Has

LEMMA TheTables ==
  /\ Tables(Built(1), {}, {})
  /\ Tables(Built(2), {"users"}, {})
  /\ Tables(Built(3), {"users"}, {})
  /\ Tables(Built(4), {"users", "auth_keys"}, {"users"})
  /\ Tables(Built(5), {"users", "auth_keys"}, {"users"})
  /\ Tables(Built(6), {"users", "auth_keys", "tasks"}, {"users"})
  /\ Tables(Built(7), {"users", "auth_keys", "tasks"}, {"users"})
  /\ Tables(Built(8), {"users", "auth_keys", "tasks"}, {"users"})
  /\ Tables(Built(9), {"users", "auth_keys", "tasks", "task_shares"}, {"users", "tasks"})
<1> DEFINE old == users_table("varchar(80)", "varchar(80)")
           new == users_table("varchar(255)", "varchar(255)")
<1>1. Tables(Built(1), {}, {})
  BY TheVersions, HasNone DEF Tables
<1>2. Tables(old, {"users"}, {}) /\ Tables(new, {"users"}, {})
  BY OfUsers, FirstTable
<1>3. Tables(Built(2), {"users"}, {})
  BY <1>2, TheVersions
<1>4. /\ Tables(Built(3), {"users"}, {})
      /\ Tables(new \cup {usernames_are_unique}, {"users"}, {})
  <2> HIDE DEF new
  <2> QED BY <1>2, <1>3, TheVersions, OfUnique, MoreTables
<1>5. /\ Tables(Built(4), {"users", "auth_keys"}, {"users"})
      /\ Tables(Built(5), {"users", "auth_keys"}, {"users"})
  BY <1>4, TheVersions, OfAuthKeys, MoreTables
<1>6. /\ Tables(Built(6), {"users", "auth_keys", "tasks"}, {"users"})
      /\ Tables(Built(7), {"users", "auth_keys", "tasks"}, {"users"})
  BY <1>5, TheVersions, OfTasks, MoreTables
<1>7. Tables(Built(8), {"users", "auth_keys", "tasks"}, {"users"})
  BY <1>6, TheVersions, OfCompleted, MoreTables
<1>8. Tables(Built(9), {"users", "auth_keys", "tasks", "task_shares"}, {"users", "tasks"})
  BY <1>7, TheVersions, OfShares, MoreTables
<1> QED
  BY <1>1, <1>3, <1>4, <1>5, <1>6, <1>7, <1>8
(***************************************************************************)
(* What every up.sql and every down.sql does to the version it is for.     *)
(***************************************************************************)

LEMMA TableIsCreated ==
  ASSUME NEW s, NEW tables, NEW others, Tables(s, tables, others),
         NEW objects, NEW table, NEW to, Of(objects, table, to),
         table \notin tables, to \subseteq tables, NEW data
  PROVE  /\ Completes(s, data, <<create_table(table, objects)>>)
         /\ Transaction(s, <<create_table(table, objects)>>) = s \cup objects
<1>1. ~Has(s, table) /\ \A x \in objects : ~Missing(s, x)
  BY DEF Tables, Of, Missing
<1> QED
  BY <1>1, Creates, One

LEMMA TableIsDropped ==
  ASSUME NEW s, NEW tables, NEW others, Tables(s, tables, others),
         NEW objects, NEW table, NEW to, Of(objects, table, to),
         table \notin tables, table \notin others, table \notin to, NEW data
  PROVE  /\ Completes(s \cup objects, data, <<drop_table(table)>>)
         /\ Transaction(s \cup objects, <<drop_table(table)>>) = s
<1> DEFINE all == s \cup objects
<1>1. Has(all, table) /\ \A x \in all : x.kind = "references" => x.to # table
  <2>1. Has(all, table)
    BY DEF Has, Of
  <2> QED
    BY <2>1 DEF Tables, Of
<1>2. {x \in all : x.table # table} = s
  BY DEF Tables, Of
<1> HIDE DEF all
<1>3. /\ ~Fails(all, data, drop_table(table))
      /\ Execute(all, drop_table(table)) = s
  BY <1>1, <1>2, Drops
<1> QED
  BY <1>3, One DEF all

LEMMA NothingIsDone ==
  ASSUME NEW data
  PROVE  /\ Completes(Built(0), data, diesel_initial_setup.up)
         /\ Transaction(Built(0), diesel_initial_setup.up) = Built(1)
         /\ Completes(Built(1), data, diesel_initial_setup.down)
         /\ Transaction(Built(1), diesel_initial_setup.down) = Built(0)
BY TheVersions, None DEF diesel_initial_setup, Migration

LEMMA UsersAreCreated ==
  ASSUME NEW data
  PROVE  /\ Completes(Built(1), data, create_users.up)
         /\ Transaction(Built(1), create_users.up) = Built(2)
         /\ Completes(Built(2), data, create_users.down)
         /\ Transaction(Built(2), create_users.down) = Built(1)
<1> DEFINE objects == users_table("varchar(80)", "varchar(80)")
<1>1. Of(objects, "users", {})
  BY OfUsers
<1>2. Built(2) = Built(1) \cup objects
  BY TheVersions
<1>3. /\ create_users.up = <<create_table("users", objects)>>
      /\ create_users.down = <<drop_table("users")>>
  BY DEF create_users, Migration
<1> HIDE DEF objects
<1>4. Tables(Built(1), {}, {})
  BY TheTables
<1>5. /\ Completes(Built(1), data, <<create_table("users", objects)>>)
      /\ Transaction(Built(1), <<create_table("users", objects)>>) = Built(1) \cup objects
  BY <1>1, <1>4, TableIsCreated
<1>6. /\ Completes(Built(1) \cup objects, data, <<drop_table("users")>>)
      /\ Transaction(Built(1) \cup objects, <<drop_table("users")>>) = Built(1)
  BY <1>1, <1>4, TableIsDropped
<1> QED
  BY <1>2, <1>3, <1>5, <1>6

LEMMA UsernamesBecomeUnique ==
  ASSUME NEW data
  PROVE  /\ Completes(Built(2), data, make_usernames_unique.up) \/ "duplicates" \in data
         /\ Transaction(Built(2), make_usernames_unique.up) = Built(3)
         /\ Completes(Built(3), data, make_usernames_unique.down)
         /\ Transaction(Built(3), make_usernames_unique.down) = Built(2)
<1>1. /\ make_usernames_unique.up = <<add("users", usernames_are_unique)>>
      /\ make_usernames_unique.down = <<drop("users", usernames_are_unique)>>
  BY DEF make_usernames_unique, Migration
<1>2. /\ Built(3) = Built(2) \cup {usernames_are_unique}
      /\ usernames_are_unique \notin Built(2)
  BY TheVersions, UniqueIsNew
<1>3. Built(3) \ {usernames_are_unique} = Built(2)
  BY <1>2
<1>4. Has(Built(2), "users") /\ Has(Built(3), "users")
  BY TheTables DEF Tables
<1>5. /\ ~Fails(Built(2), data, add("users", usernames_are_unique)) \/ "duplicates" \in data
      /\ Execute(Built(2), add("users", usernames_are_unique)) = Built(3)
  BY <1>2, <1>4, Adds
<1>6. /\ ~Fails(Built(3), data, drop("users", usernames_are_unique))
      /\ Execute(Built(3), drop("users", usernames_are_unique)) = Built(2)
  BY <1>2, <1>3, <1>4, Removes
<1> QED
  BY <1>1, <1>5, <1>6, One

LEMMA AuthKeysAreCreated ==
  ASSUME NEW data
  PROVE  /\ Completes(Built(3), data, create_auth_keys.up)
         /\ Transaction(Built(3), create_auth_keys.up) = Built(4)
         /\ Completes(Built(4), data, create_auth_keys.down)
         /\ Transaction(Built(4), create_auth_keys.down) = Built(3)
<1>1. /\ create_auth_keys.up = <<create_table("auth_keys", auth_keys_table)>>
      /\ create_auth_keys.down = <<drop_table("auth_keys")>>
  BY DEF create_auth_keys, Migration
<1>2. Built(4) = Built(3) \cup auth_keys_table
  BY TheVersions
<1>3. Tables(Built(3), {"users"}, {})
  BY TheTables
<1>4. /\ Completes(Built(3), data, <<create_table("auth_keys", auth_keys_table)>>)
      /\ Transaction(Built(3), <<create_table("auth_keys", auth_keys_table)>>)
           = Built(3) \cup auth_keys_table
  BY <1>3, OfAuthKeys, TableIsCreated
<1>5. /\ Completes(Built(3) \cup auth_keys_table, data, <<drop_table("auth_keys")>>)
      /\ Transaction(Built(3) \cup auth_keys_table, <<drop_table("auth_keys")>>) = Built(3)
  BY <1>3, OfAuthKeys, TableIsDropped
<1> QED
  BY <1>1, <1>2, <1>4, <1>5
\* The users' columns in versions 4 and 5, and half way between them.
WithUsers(username, password) ==
  (users_table(username, password) \cup {usernames_are_unique}) \cup auth_keys_table

LEMMA UsersAreThere ==
  ASSUME NEW username, NEW password PROVE Has(WithUsers(username, password), "users")
BY OfUsers DEF WithUsers, Has, Of

LEMMA UsersAreAltered ==
  ASSUME NEW username, NEW password, NEW type
  PROVE  /\ Altered(WithUsers(username, password), alter_type("users", "username", type))
              = WithUsers(type, password)
         /\ Altered(WithUsers(username, password), alter_type("users", "password", type))
              = WithUsers(username, type)
<1> SUFFICES ASSUME NEW column
             PROVE  LET st == alter_type("users", column, type)
                    IN  Altered(WithUsers(username, password), st)
                          = (Altered(users_table(username, password), st)
                             \cup {usernames_are_unique}) \cup auth_keys_table
  BY AlteredUsers DEF WithUsers
<1> DEFINE st == alter_type("users", column, type)
           users == users_table(username, password)
           unique == {usernames_are_unique}
<1>1. st.table = "users"
  BY DEF alter_type
<1>2. (\A x \in unique : ~IsColumn(x)) /\ (\A x \in auth_keys_table : x.table # st.table)
  BY <1>1, Fields, OfAuthKeys DEF IsColumn, usernames_are_unique, Of
<1> HIDE DEF st, users, unique
<1>3. Altered(unique, st) = unique /\ Altered(auth_keys_table, st) = auth_keys_table
  BY <1>2, AlteredElsewhere
<1>4. Altered(users \cup unique, st) = Altered(users, st) \cup unique
  BY <1>3, AlteredUnion
<1>5. Altered((users \cup unique) \cup auth_keys_table, st)
        = (Altered(users, st) \cup unique) \cup auth_keys_table
  BY <1>3, <1>4, AlteredUnion
<1> QED
  BY <1>5 DEF WithUsers, st, users, unique

LEMMA BothAreRetyped ==
  ASSUME NEW old, NEW new, NEW data
  PROVE  /\ \/ Completes(WithUsers(old, old), data, users_varchars(new))
            \/ new = "varchar(80)" /\ "long_texts" \in data
         /\ Transaction(WithUsers(old, old), users_varchars(new)) = WithUsers(new, new)
<1> DEFINE s == WithUsers(old, old)
           t == WithUsers(new, old)
           st == alter_type("users", "username", new)
           su == alter_type("users", "password", new)
<1>1. users_varchars(new) = <<st, su>>
  BY DEF users_varchars
<1>2. Has(s, "users") /\ Has(t, "users")
  BY UsersAreThere
<1>3. Altered(s, st) = t /\ Altered(t, su) = WithUsers(new, new)
  BY UsersAreAltered
<1>4. /\ Fails(s, data, st) => new = "varchar(80)" /\ "long_texts" \in data
      /\ Execute(s, st) = Altered(s, st)
  BY <1>2, Retypes
<1>5. /\ Fails(t, data, su) => new = "varchar(80)" /\ "long_texts" \in data
      /\ Execute(t, su) = Altered(t, su)
  BY <1>2, Retypes
<1> HIDE DEF s, t, st, su
<1>6. /\ Completes(s, data, <<st, su>>) \/ (new = "varchar(80)" /\ "long_texts" \in data)
      /\ Transaction(s, <<st, su>>) = WithUsers(new, new)
  BY <1>3, <1>4, <1>5, Two
<1> QED
  BY <1>1, <1>6 DEF s

LEMMA UsersAreEnlarged ==
  ASSUME NEW data
  PROVE  /\ Completes(Built(4), data, enlarge_users_varchars.up)
         /\ Transaction(Built(4), enlarge_users_varchars.up) = Built(5)
         /\ Completes(Built(5), data, enlarge_users_varchars.down) \/ "long_texts" \in data
         /\ Transaction(Built(5), enlarge_users_varchars.down) = Built(4)
<1>1. /\ enlarge_users_varchars.up = users_varchars("varchar(255)")
      /\ enlarge_users_varchars.down = users_varchars("varchar(80)")
  BY DEF enlarge_users_varchars, Migration
<1>2. /\ Built(4) = WithUsers("varchar(80)", "varchar(80)")
      /\ Built(5) = WithUsers("varchar(255)", "varchar(255)")
  BY TheVersions DEF WithUsers
<1> QED
  BY <1>1, <1>2, BothAreRetyped

LEMMA TasksAreCreated ==
  ASSUME NEW data
  PROVE  /\ Completes(Built(5), data, create_tasks_table.up)
         /\ Transaction(Built(5), create_tasks_table.up) = Built(6)
         /\ Completes(Built(6), data, create_tasks_table.down)
         /\ Transaction(Built(6), create_tasks_table.down) = Built(5)
<1> DEFINE objects == tasks_table("NULL", "NULL")
<1>1. Of(objects, "tasks", {"users"})
  BY OfTasks
<1>2. Built(6) = Built(5) \cup objects
  BY TheVersions
<1>3. /\ create_tasks_table.up = <<create_table("tasks", objects)>>
      /\ create_tasks_table.down = <<drop_table("tasks")>>
  BY DEF create_tasks_table, Migration
<1> HIDE DEF objects
<1>4. Tables(Built(5), {"users", "auth_keys"}, {"users"})
  BY TheTables
<1>5. /\ Completes(Built(5), data, <<create_table("tasks", objects)>>)
      /\ Transaction(Built(5), <<create_table("tasks", objects)>>) = Built(5) \cup objects
  BY <1>1, <1>4, TableIsCreated
<1>6. /\ Completes(Built(5) \cup objects, data, <<drop_table("tasks")>>)
      /\ Transaction(Built(5) \cup objects, <<drop_table("tasks")>>) = Built(5)
  BY <1>1, <1>4, TableIsDropped
<1> QED
  BY <1>2, <1>3, <1>5, <1>6

LEMMA TasksAreAltered ==
  ASSUME NEW s, NEW others, Tables(s, {"users", "auth_keys"}, others),
         NEW owner, NEW title, NEW null
  PROVE  /\ Altered(s \cup tasks_table(owner, title), set_null("tasks", "owner", null))
              = s \cup tasks_table(null, title)
         /\ Altered(s \cup tasks_table(owner, title), set_null("tasks", "title", null))
              = s \cup tasks_table(owner, null)
<1>1. ASSUME NEW column PROVE Altered(s, set_null("tasks", column, null)) = s
  <2>1. set_null("tasks", column, null).table = "tasks"
    BY DEF set_null
  <2>2. \A x \in s : x.table # set_null("tasks", column, null).table
    BY <2>1 DEF Tables
  <2> QED
    BY <2>2, AlteredElsewhere
<1> QED
  BY <1>1, AlteredUnion, AlteredTasks

LEMMA BothAreRequired ==
  ASSUME NEW old, NEW new, NEW data
  PROVE  /\ \/ Completes(Built(5) \cup tasks_table(old, old), data, tasks_nulls(new))
            \/ new = "NOT_NULL" /\ "missing_values" \in data
         /\ Transaction(Built(5) \cup tasks_table(old, old), tasks_nulls(new))
              = Built(5) \cup tasks_table(new, new)
<1> DEFINE s == Built(5) \cup tasks_table(old, old)
           t == Built(5) \cup tasks_table(new, old)
           st == set_null("tasks", "owner", new)
           su == set_null("tasks", "title", new)
<1>1. tasks_nulls(new) = <<st, su>>
  BY DEF tasks_nulls
<1>2. Has(s, "tasks") /\ Has(t, "tasks")
  BY OfTasks, HasOf
<1>3. Altered(s, st) = t /\ Altered(t, su) = Built(5) \cup tasks_table(new, new)
  <2>1. Tables(Built(5), {"users", "auth_keys"}, {"users"})
    BY TheTables
  <2> QED
    BY <2>1, TasksAreAltered
<1> HIDE DEF s, t
<1>4. /\ Fails(s, data, st) => new = "NOT_NULL" /\ "missing_values" \in data
      /\ Execute(s, st) = Altered(s, st)
  BY <1>2, Requires
<1>5. /\ Fails(t, data, su) => new = "NOT_NULL" /\ "missing_values" \in data
      /\ Execute(t, su) = Altered(t, su)
  BY <1>2, Requires
<1> HIDE DEF st, su
<1>6. /\ Completes(s, data, <<st, su>>) \/ (new = "NOT_NULL" /\ "missing_values" \in data)
      /\ Transaction(s, <<st, su>>) = Built(5) \cup tasks_table(new, new)
  BY <1>3, <1>4, <1>5, Two
<1> QED
  BY <1>1, <1>6 DEF s

LEMMA TasksAlwaysHaveOwnersAndTitles ==
  ASSUME NEW data
  PROVE  /\ \/ Completes(Built(6), data, tasks_always_have_owners_and_titles.up)
            \/ "missing_values" \in data
         /\ Transaction(Built(6), tasks_always_have_owners_and_titles.up) = Built(7)
         /\ Completes(Built(7), data, tasks_always_have_owners_and_titles.down)
         /\ Transaction(Built(7), tasks_always_have_owners_and_titles.down) = Built(6)
<1>1. /\ tasks_always_have_owners_and_titles.up = tasks_nulls("NOT_NULL")
      /\ tasks_always_have_owners_and_titles.down = tasks_nulls("NULL")
  BY DEF tasks_always_have_owners_and_titles, Migration
<1>2. /\ Built(6) = Built(5) \cup tasks_table("NULL", "NULL")
      /\ Built(7) = Built(5) \cup tasks_table("NOT_NULL", "NOT_NULL")
  BY TheVersions
<1>3. /\ \/ Completes(Built(6), data, tasks_nulls("NOT_NULL"))
         \/ "missing_values" \in data
      /\ Transaction(Built(6), tasks_nulls("NOT_NULL")) = Built(7)
  BY <1>2, BothAreRequired
<1>4. /\ Completes(Built(7), data, tasks_nulls("NULL"))
      /\ Transaction(Built(7), tasks_nulls("NULL")) = Built(6)
  <2> DEFINE s == Built(5) \cup tasks_table("NOT_NULL", "NOT_NULL")
             t == Built(5) \cup tasks_table("NULL", "NULL")
  <2>1. /\ Completes(s, data, tasks_nulls("NULL"))
        /\ Transaction(s, tasks_nulls("NULL")) = t
    BY BothAreRequired
  <2> QED
    BY <1>2, <2>1
<1> QED
  BY <1>1, <1>3, <1>4

LEMMA CompletedIsAdded ==
  ASSUME NEW data
  PROVE  /\ Completes(Built(7), data, add_completed_column_to_tasks.up)
         /\ Transaction(Built(7), add_completed_column_to_tasks.up) = Built(8)
         /\ Completes(Built(8), data, add_completed_column_to_tasks.down)
         /\ Transaction(Built(8), add_completed_column_to_tasks.down) = Built(7)
<1>1. /\ add_completed_column_to_tasks.up = <<add("tasks", completed_column)>>
      /\ add_completed_column_to_tasks.down = <<drop("tasks", completed_column)>>
  BY DEF add_completed_column_to_tasks, Migration
<1>2. Built(8) = Built(7) \cup {completed_column}
  BY TheVersions
<1>3. completed_column \notin Built(7)
  <2>1. completed_column.table = "tasks"
    BY OfCompleted DEF Of
  <2>2. completed_column \notin Built(5)
    BY <2>1, TheTables DEF Tables
  <2> QED
    BY <2>2, TheVersions, CompletedIsNew
<1>4. Built(8) \ {completed_column} = Built(7)
  BY <1>2, <1>3
<1>5. Has(Built(7), "tasks") /\ Has(Built(8), "tasks")
  BY TheTables DEF Tables
<1>6. completed_column # Unique("users", {"username"})
  BY Fields DEF completed_column
<1>7. /\ ~Fails(Built(7), data, add("tasks", completed_column))
      /\ Execute(Built(7), add("tasks", completed_column)) = Built(8)
  <2>1. /\ Fails(Built(7), data, add("tasks", completed_column)) =>
             completed_column = Unique("users", {"username"})
        /\ Execute(Built(7), add("tasks", completed_column))
             = Built(7) \cup {completed_column}
    BY <1>3, <1>5, Adds
  <2> QED
    BY <1>2, <1>6, <2>1
<1>8. /\ ~Fails(Built(8), data, drop("tasks", completed_column))
      /\ Execute(Built(8), drop("tasks", completed_column)) = Built(7)
  BY <1>2, <1>4, <1>5, Removes
<1> QED
  BY <1>1, <1>7, <1>8, One

LEMMA SharesAreCreated ==
  ASSUME NEW data
  PROVE  /\ Completes(Built(8), data, create_task_shares_table.up)
         /\ Transaction(Built(8), create_task_shares_table.up) = Built(9)
         /\ Completes(Built(9), data, create_task_shares_table.down)
         /\ Transaction(Built(9), create_task_shares_table.down) = Built(8)
<1>1. /\ create_task_shares_table.up = <<create_table("task_shares", task_shares_table)>>
      /\ create_task_shares_table.down = <<drop_table("task_shares")>>
  BY DEF create_task_shares_table, create_task_shares, Migration
<1>2. Built(9) = Built(8) \cup task_shares_table
  BY TheVersions
<1>3. Tables(Built(8), {"users", "auth_keys", "tasks"}, {"users"})
  BY TheTables
<1>4. /\ Completes(Built(8), data, <<create_table("task_shares", task_shares_table)>>)
      /\ Transaction(Built(8), <<create_table("task_shares", task_shares_table)>>)
           = Built(8) \cup task_shares_table
  BY <1>3, OfShares, TableIsCreated
<1>5. /\ Completes(Built(8) \cup task_shares_table, data, <<drop_table("task_shares")>>)
      /\ Transaction(Built(8) \cup task_shares_table, <<drop_table("task_shares")>>)
           = Built(8)
  BY <1>3, OfShares, TableIsDropped
<1> QED
  BY <1>1, <1>2, <1>4, <1>5
(***************************************************************************)
(* Each up.sql makes one version out of the one before it, and fails only  *)
(* where names would have to become unique which are not, or values be     *)
(* there which are missing; each down.sql takes this back, and fails only  *)
(* where texts are too long for the columns they are in.                   *)
(***************************************************************************)
THEOREM DownUndoesUp ==
  ASSUME NEW data, NEW i \in 1..9
  PROVE  /\ Transaction(Built(i - 1), migrations[i].up) = Built(i)
         /\ Transaction(Built(i), migrations[i].down) = Built(i - 1)
         /\ \/ Completes(Built(i - 1), data, migrations[i].up)
            \/ i = 3 /\ "duplicates" \in data
            \/ i = 7 /\ "missing_values" \in data
         /\ \/ Completes(Built(i), data, migrations[i].down)
            \/ i = 5 /\ "long_texts" \in data
<1>1. CASE i = 1
  BY <1>1, TheMigrations, NothingIsDone
<1>2. CASE i = 2
  BY <1>2, TheMigrations, UsersAreCreated
<1>3. CASE i = 3
  BY <1>3, TheMigrations, UsernamesBecomeUnique
<1>4. CASE i = 4
  BY <1>4, TheMigrations, AuthKeysAreCreated
<1>5. CASE i = 5
  BY <1>5, TheMigrations, UsersAreEnlarged
<1>6. CASE i = 6
  BY <1>6, TheMigrations, TasksAreCreated
<1>7. CASE i = 7
  BY <1>7, TheMigrations, TasksAlwaysHaveOwnersAndTitles
<1>8. CASE i = 8
  BY <1>8, TheMigrations, CompletedIsAdded
<1>9. CASE i = 9
  BY <1>9, TheMigrations, SharesAreCreated
<1> QED
  BY <1>1, <1>2, <1>3, <1>4, <1>5, <1>6, <1>7, <1>8, <1>9

(***************************************************************************)
(* The inductive invariant: a container which is up knows of everything    *)
(* that is still to be applied, and nothing is once it serves.             *)
(***************************************************************************)
Pending ==
  /\ pending \in [Containers -> SUBSET (1..9)]
  /\ \A k \in Containers :
       /\ phase[k] # "down" =>
            Carried \ applied \subseteq pending[k] /\ pending[k] \subseteq Carried
       /\ phase[k] = "serving" => pending[k] = {}

MigrationsInv == SchemaIsOnRecord /\ Pending

LEMMA CarriedFirst == \E n \in 1..9 : Carried = 1..n
BY CarriedAssumption, TheMigrations

\* A container which has something to apply applies what comes next.
LEMMA NextInLine ==
  ASSUME Pending, NEW k \in Containers, phase[k] = "migrating",
         NEW n \in 0..9, applied = 1..n,
         NEW i \in pending[k], IsNext(k, i), i \notin applied
  PROVE  i = n + 1 /\ n \in 0..8
<1>1. PICK m \in 1..9 : Carried = 1..m
  BY CarriedFirst
<1>2. i \in 1..m /\ Carried \ applied \subseteq pending[k]
  BY <1>1 DEF Pending
<1>3. i > n
  BY <1>2
<1>4. n + 1 \in Carried \ applied
  BY <1>1, <1>2, <1>3
<1>5. i <= n + 1
  BY <1>2, <1>4 DEF IsNext
<1> QED
  BY <1>2, <1>3, <1>5

LEMMA InvInit == Init => MigrationsInv
<1> SUFFICES ASSUME Init PROVE MigrationsInv
  OBVIOUS
<1>1. SchemaIsOnRecord
  <2>1. applied = 1..0 /\ schema = Built(0) /\ 0 \in 0..Len(migrations)
    BY TheVersions, TheMigrations DEF Init
  <2> QED
    BY <2>1 DEF Init, SchemaIsOnRecord
<1>2. Pending
  BY DEF Init, Pending
<1> QED
  BY <1>1, <1>2 DEF MigrationsInv

LEMMA InvMigrate ==
  ASSUME MigrationsInv, NEW k \in Containers, Migrate(k)
  PROVE  MigrationsInv'
<1>1. PICK i \in pending[k] :
        /\ IsNext(k, i) /\ CanApply(i)
        /\ schema' = Transaction(schema, migrations[i].up)
        /\ applied' = applied \cup {i}
        /\ pending' = [pending EXCEPT ![k] = @ \ {i}]
  BY DEF Migrate
<1>2. PICK n \in 0..9 : applied = 1..n /\ schema = Built(n)
  BY TheMigrations DEF MigrationsInv, SchemaIsOnRecord
<1>3. i = n + 1 /\ n \in 0..8
  BY <1>1, <1>2, NextInLine DEF MigrationsInv, Migrate, CanApply
<1>4. applied' = 1..(n + 1)
  BY <1>1, <1>2, <1>3
<1>5. schema' = Built(n + 1)
  <2>1. i \in 1..9 /\ i - 1 = n
    BY <1>3
  <2>2. Transaction(Built(i - 1), migrations[i].up) = Built(i)
    BY <2>1, DownUndoesUp
  <2> QED
    BY <1>1, <1>2, <1>3, <2>1, <2>2
<1>6. SchemaIsOnRecord'
  <2>1. (n + 1) \in 0..Len(migrations)
    BY <1>3, TheMigrations
  <2>2. (\E m \in 0..Len(migrations) : applied = 1..m /\ schema = Built(m))'
    BY <1>4, <1>5, <2>1
  <2> QED
    BY <2>2 DEF MigrationsInv, SchemaIsOnRecord, Migrate
<1>7. Pending'
  BY <1>1 DEF MigrationsInv, Pending, Migrate
<1> QED
  BY <1>6, <1>7 DEF MigrationsInv

LEMMA InvRevert ==
  ASSUME MigrationsInv, Revert
  PROVE  MigrationsInv'
<1>1. PICK i \in applied :
        /\ Latest(i)
        /\ schema' = Transaction(schema, migrations[i].down)
        /\ applied' = applied \ {i}
  BY DEF Revert
<1>2. PICK n \in 0..9 : applied = 1..n /\ schema = Built(n)
  BY TheMigrations DEF MigrationsInv, SchemaIsOnRecord
<1>3. i = n /\ n \in 1..9
  BY <1>1, <1>2 DEF Latest
<1>4. applied' = 1..(n - 1)
  BY <1>1, <1>2, <1>3
<1>5. schema' = Built(n - 1)
  BY <1>1, <1>2, <1>3, DownUndoesUp
<1>6. rows' \subseteq Troubles
  BY DEF Revert, RowsLeft, MigrationsInv, SchemaIsOnRecord
<1>7. SchemaIsOnRecord'
  <2>1. (n - 1) \in 0..Len(migrations)
    BY <1>3, TheMigrations
  <2>2. (\E m \in 0..Len(migrations) : applied = 1..m /\ schema = Built(m))'
    BY <1>4, <1>5, <2>1
  <2> QED
    BY <1>6, <2>2 DEF MigrationsInv, SchemaIsOnRecord, Revert
<1>8. Pending'
  BY DEF MigrationsInv, Pending, Revert
<1> QED
  BY <1>7, <1>8 DEF MigrationsInv

LEMMA InvContainer ==
  ASSUME MigrationsInv, NEW k \in Containers,
         Start(k) \/ Exit(k) \/ Serve(k) \/ Stop(k)
  PROVE  MigrationsInv'
<1>1. UNCHANGED <<schema, applied, rows>>
  BY DEF Start, Exit, Serve, Stop
<1>2. phase' \in [Containers -> {"down", "migrating", "serving"}]
  BY DEF Start, Exit, Serve, Stop, MigrationsInv, SchemaIsOnRecord
<1>3. SchemaIsOnRecord'
  <2>1. PICK n \in 0..Len(migrations) : applied = 1..n /\ schema = Built(n)
    BY DEF MigrationsInv, SchemaIsOnRecord
  <2>2. Len(migrations)' = Len(migrations) /\ Built(n)' = Built(n)
    OBVIOUS
  <2> QED
    BY <1>1, <1>2, <2>1 DEF MigrationsInv, SchemaIsOnRecord
<1>4. Carried \in SUBSET (1..9)
  BY CarriedFirst
<1>5. CASE Start(k)
  <2>1. Carried \ applied \in SUBSET (1..9)
    BY <1>4
  <2> QED
    BY <1>3, <1>5, <2>1 DEF Start, MigrationsInv, SchemaIsOnRecord, Pending
<1>6. CASE Exit(k)
  BY <1>3, <1>6 DEF Exit, MigrationsInv, SchemaIsOnRecord, Pending
<1>7. CASE Serve(k)
  BY <1>3, <1>7 DEF Serve, MigrationsInv, SchemaIsOnRecord, Pending
<1>8. CASE Stop(k)
  BY <1>3, <1>8 DEF Stop, MigrationsInv, SchemaIsOnRecord, Pending
<1> QED
  BY <1>5, <1>6, <1>7, <1>8

LEMMA InvRows ==
  ASSUME MigrationsInv, (\E k \in Containers : Register(k)) \/ EarlierRelease
  PROVE  MigrationsInv'
<1>1. UNCHANGED <<schema, applied, phase, pending>> /\ rows' \subseteq Troubles
  BY DEF Register, EarlierRelease, Troubles, MigrationsInv, SchemaIsOnRecord
<1> QED
  BY <1>1 DEF MigrationsInv, SchemaIsOnRecord, Pending

LEMMA InvStep == MigrationsInv /\ [Next]_vars => MigrationsInv'
<1> SUFFICES ASSUME MigrationsInv, [Next]_vars PROVE MigrationsInv'
  OBVIOUS
<1>1. ASSUME NEW k \in Containers, Migrate(k) PROVE MigrationsInv'
  BY <1>1, InvMigrate
<1>2. CASE Revert
  BY <1>2, InvRevert
<1>3. ASSUME NEW k \in Containers, Start(k) \/ Exit(k) \/ Serve(k) \/ Stop(k)
      PROVE  MigrationsInv'
  BY <1>3, InvContainer
<1>4. CASE (\E k \in Containers : Register(k)) \/ EarlierRelease
  BY <1>4, InvRows
<1>5. CASE UNCHANGED vars
  BY <1>5 DEF vars, MigrationsInv, SchemaIsOnRecord, Pending
<1> QED
  BY <1>1, <1>2, <1>3, <1>4, <1>5 DEF Next

LEMMA InvHolds == Spec => []MigrationsInv
BY InvInit, InvStep, PTL DEF Spec

(***************************************************************************)
(* However many containers race, stop and roll back: the migrations on     *)
(* record are the first ones, and the schema is what they make.            *)
(***************************************************************************)
THEOREM SchemaStaysOnRecord == Spec => []SchemaIsOnRecord
<1>1. MigrationsInv => SchemaIsOnRecord
  BY DEF MigrationsInv
<1> QED
  BY <1>1, InvHolds, PTL
LEMMA TheColumns ==
  /\ Columns("auth_keys", [id |-> "int4", user_id |-> "int4", key |-> "text",
                            expiration |-> "timestamp"], {})
       = {x \in auth_keys_table : IsColumn(x)}
  /\ Columns("task_shares", [id |-> "int4", task_id |-> "int4",
                             user_id |-> "int4", permission |-> "text"], {})
       = {x \in task_shares_table : IsColumn(x)}
  /\ Columns("tasks", [id |-> "int4", owner |-> "int4", title |-> "text",
                       description |-> "text", completed |-> "bool"], {"description"})
       = {x \in tasks_table("NOT_NULL", "NOT_NULL") \cup {completed_column} : IsColumn(x)}
  /\ Columns("users", [id |-> "int4", username |-> "varchar(255)",
                       password |-> "varchar(255)"], {})
       = {x \in users_table("varchar(255)", "varchar(255)") : IsColumn(x)}
<1>1. Columns("auth_keys", [id |-> "int4", user_id |-> "int4", key |-> "text",
                            expiration |-> "timestamp"], {})
       = {x \in auth_keys_table : IsColumn(x)}
  BY Fields DEF Columns, IsColumn, auth_keys_table, Id
<1>2. Columns("task_shares", [id |-> "int4", task_id |-> "int4",
                             user_id |-> "int4", permission |-> "text"], {})
       = {x \in task_shares_table : IsColumn(x)}
  BY Fields DEF Columns, IsColumn, task_shares_table, one_share_for_each_user, Id
<1>3. Columns("tasks", [id |-> "int4", owner |-> "int4", title |-> "text",
                       description |-> "text", completed |-> "bool"], {"description"})
       = {x \in tasks_table("NOT_NULL", "NOT_NULL") \cup {completed_column} : IsColumn(x)}
  BY Fields DEF Columns, IsColumn, tasks_table, completed_column, Id
<1>4. Columns("users", [id |-> "int4", username |-> "varchar(255)",
                       password |-> "varchar(255)"], {})
       = {x \in users_table("varchar(255)", "varchar(255)") : IsColumn(x)}
  BY Fields DEF Columns, IsColumn, users_table, Id
<1> QED
  BY <1>1, <1>2, <1>3, <1>4

LEMMA LastVersion ==
  ASSUME schema = Built(9)
  PROVE  Served = Declared /\ Constraints \subseteq schema
<1> DEFINE users == users_table("varchar(255)", "varchar(255)")
           tasks == tasks_table("NOT_NULL", "NOT_NULL")
<1>1. schema = (((((users \cup {usernames_are_unique}) \cup auth_keys_table) \cup tasks)
                 \cup {completed_column}) \cup task_shares_table)
  BY TheVersions
<1>2. /\ ~IsColumn(usernames_are_unique)
      /\ usernames_are_unique = Unique("users", {"username"})
  BY Fields DEF IsColumn, usernames_are_unique
<1>3. Unique("task_shares", {"task_id", "user_id"}) \in task_shares_table
  BY DEF task_shares_table, one_share_for_each_user
<1>4. Declared = (({x \in auth_keys_table : IsColumn(x)}
                   \cup {x \in task_shares_table : IsColumn(x)})
                  \cup {x \in tasks \cup {completed_column} : IsColumn(x)})
                 \cup {x \in users : IsColumn(x)}
  BY TheColumns DEF Declared
<1> HIDE DEF users, tasks
<1>5. Served = Declared
  BY <1>1, <1>2, <1>4 DEF Served
<1> QED
  BY <1>1, <1>2, <1>3, <1>5 DEF Constraints

(***************************************************************************)
(* An image with all the migrations only serves on the tables which        *)
(* schema.rs declares, whichever container made them.                      *)
(***************************************************************************)
THEOREM ServersFindTheirSchema ==
  ASSUME Carried = Everything
  PROVE  Spec => []ServedSchemaIsDeclared
<1>1. MigrationsInv => ServedSchemaIsDeclared
  <2> SUFFICES ASSUME MigrationsInv, NEW k \in Containers, phase[k] = "serving"
               PROVE  Served = Declared /\ Constraints \subseteq schema
    BY DEF ServedSchemaIsDeclared
  <2>1. PICK n \in 0..9 : applied = 1..n /\ schema = Built(n)
    BY TheMigrations DEF MigrationsInv, SchemaIsOnRecord
  <2>2. 1..9 \subseteq applied
    BY TheMigrations DEF MigrationsInv, Pending, Everything
  <2>3. n = 9
    BY <2>1, <2>2
  <2> QED
    BY <2>1, <2>3, LastVersion
<1> QED
  BY <1>1, InvHolds, PTL

(***************************************************************************)
(* Whatever was applied and whatever was written since, the latest         *)
(* migration can be taken back, but for the enlarged columns of users.     *)
(***************************************************************************)
THEOREM LatestCanBeReverted == Spec => []OnlyLongTextsKeepFromReverting
<1>1. MigrationsInv => OnlyLongTextsKeepFromReverting
  <2> SUFFICES ASSUME MigrationsInv, NEW i \in 1..9, Latest(i)
               PROVE  \/ CanRevert(i)
                      \/ migrations[i] = enlarge_users_varchars /\ "long_texts" \in rows
    BY TheMigrations DEF OnlyLongTextsKeepFromReverting
  <2>1. PICK n \in 0..9 : applied = 1..n /\ schema = Built(n)
    BY TheMigrations DEF MigrationsInv, SchemaIsOnRecord
  <2>2. i = n
    BY <2>1 DEF Latest
  <2>3. Completes(schema, rows, migrations[i].down) \/ (i = 5 /\ "long_texts" \in rows)
    BY <2>1, <2>2, DownUndoesUp
  <2> QED
    BY <2>3, TheMigrations DEF CanRevert
<1> QED
  BY <1>1, InvHolds, PTL

(***************************************************************************)
(* A container only fails to come up because another one was quicker, or   *)
(* because of rows of an earlier release.                                  *)
(***************************************************************************)
THEOREM ExitsAreExplained == Spec => ExitsForAReason
<1> DEFINE Reasons == \A k \in Containers : Exit(k) =>
                        \/ \E i \in applied : IsNext(k, i)
                        \/ rows \cap {"duplicates", "missing_values"} # {}
<1>1. MigrationsInv /\ [Next]_vars => [Reasons]_vars
  <2> SUFFICES ASSUME MigrationsInv, NEW k \in Containers, Exit(k)
               PROVE  \/ \E i \in applied : IsNext(k, i)
                      \/ rows \cap {"duplicates", "missing_values"} # {}
    OBVIOUS
  <2>1. PICK i \in pending[k] : IsNext(k, i) /\ ~CanApply(i)
    BY DEF Exit
  <2>2. PICK n \in 0..9 : applied = 1..n /\ schema = Built(n)
    BY TheMigrations DEF MigrationsInv, SchemaIsOnRecord
  <2>3. CASE i \in applied
    BY <2>1, <2>3
  <2>4. CASE i \notin applied
    <3>1. i \in 1..9 /\ n = i - 1
      <4>1. i = n + 1 /\ n \in 0..8
        BY <2>1, <2>2, <2>4, NextInLine DEF MigrationsInv, Exit
      <4> QED
        BY <4>1
    <3>2. ~Completes(Built(i - 1), rows, migrations[i].up)
      BY <2>1, <2>2, <2>4, <3>1 DEF CanApply
    <3>3. "duplicates" \in rows \/ "missing_values" \in rows
      BY <3>1, <3>2, DownUndoesUp
    <3> QED
      BY <3>3
  <2> QED
    BY <2>3, <2>4
<1> QED
  BY <1>1, InvHolds, PTL DEF Spec, ExitsForAReason
==============================================================================
