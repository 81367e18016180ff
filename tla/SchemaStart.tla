---------------------------- MODULE SchemaStart ----------------------------
(***************************************************************************)
(* What a store does to its database when a process starts: refuse one     *)
(* that newer code has written, add the columns that are missing, record   *)
(* the version.  SQLite does it statement by statement, PostgreSQL in one  *)
(* transaction under an advisory lock.  Old and new code start, at the     *)
(* same time too, and may die at any point.                                *)
(***************************************************************************)
EXTENDS Integers

CONSTANTS Starters,  \* processes that start, each with a code version
          Latest     \* _SCHEMA_VERSION of the newest code; column v comes with version v

VARIABLES
  store,     \* "sqlite" or "postgres"
  code,      \* per process: its _SCHEMA_VERSION
  columns,   \* the columns of the database
  version,   \* __schema_version__, 0 when empty
  ddlLock,   \* the process that holds SCHEMA_INIT_LOCK_KEY, or 0
  start,     \* per process: "down", "read", "add", "alter", "record", "up"
  column,    \* per process: the column it is at
  draft      \* PostgreSQL: the columns as the open transaction sees them

schemaVars == <<store, code, columns, version, ddlLock, start, column, draft>>

\* A database has all tables, those of an earlier start or its own CREATE TABLE IF NOT EXISTS,
\* and the columns of its version; one of version 0 is old or new.
Init ==
  /\ store \in {"sqlite", "postgres"} /\ code \in [Starters -> {Latest - 1, Latest}]
  /\ version \in 0 .. Latest /\ columns = 2 .. version
  /\ ddlLock = 0 /\ draft = {}
  /\ start = [p \in Starters |-> "down"] /\ column = [p \in Starters |-> 2]

At(p, s) == start[p] = s
To(p, s) == start' = [start EXCEPT ![p] = s]

Start(p) ==
  /\ At(p, "down") /\ column' = [column EXCEPT ![p] = 2]
  /\ IF store = "postgres"
       THEN ddlLock = 0 /\ ddlLock' = p /\ draft' = columns /\ To(p, "ddl")
       ELSE To(p, "read") /\ UNCHANGED <<ddlLock, draft>>
  /\ UNCHANGED <<store, code, columns, version>>

-----------------------------------------------------------------------------
\* SqliteStore._init_migrations

ReadVersion(p) ==
  /\ At(p, "read") /\ To(p, IF version > code[p] THEN "down" ELSE "add")   \* SchemaTooNewError
  /\ UNCHANGED <<store, code, columns, version, ddlLock, column, draft>>

\* Fault variant: the loop ends one column early.
HasColumnShort(p) ==
  /\ At(p, "add")
  /\ IF column[p] >= code[p] THEN To(p, "record") /\ UNCHANGED column
     ELSE IF column[p] \in columns THEN column' = [column EXCEPT ![p] = @ + 1] /\ UNCHANGED start
     ELSE To(p, "alter") /\ UNCHANGED column
  /\ UNCHANGED <<store, code, columns, version, ddlLock, draft>>

HasColumn(p) ==
  /\ At(p, "add")
  /\ IF column[p] > code[p] THEN To(p, "record") /\ UNCHANGED column
     ELSE IF column[p] \in columns THEN column' = [column EXCEPT ![p] = @ + 1] /\ UNCHANGED start
     ELSE To(p, "alter") /\ UNCHANGED column
  /\ UNCHANGED <<store, code, columns, version, ddlLock, draft>>

\* ALTER TABLE: the column may have come since; then the start fails.
AddColumn(p) ==
  /\ At(p, "alter")
  /\ IF column[p] \in columns THEN To(p, "down") /\ UNCHANGED <<columns, column>>
     ELSE /\ columns' = columns \union {column[p]}
          /\ column' = [column EXCEPT ![p] = @ + 1] /\ To(p, "add")
  /\ UNCHANGED <<store, code, version, ddlLock, draft>>

\* DELETE and INSERT in one implicit transaction.
RecordVersion(p) ==
  /\ At(p, "record") /\ To(p, "up") /\ version' = code[p]
  /\ UNCHANGED <<store, code, columns, ddlLock, column, draft>>

-----------------------------------------------------------------------------
\* PostgresStore._init_schema inside serialized_schema_init.

Ddl(p) ==
  /\ At(p, "ddl") /\ To(p, "check") /\ draft' = draft \union (2 .. code[p])
  /\ UNCHANGED <<store, code, columns, version, ddlLock, column>>

\* Fault variant: no guard against a newer database.
CommitBlindly(p) ==
  /\ At(p, "check") /\ ddlLock' = 0 /\ draft' = {}
  /\ To(p, "up") /\ columns' = draft /\ version' = code[p]
  /\ UNCHANGED <<store, code, column>>

\* The guard comes after the columns: its exception undoes them.
CommitSchema(p) ==
  /\ At(p, "check") /\ ddlLock' = 0 /\ draft' = {}
  /\ IF version > code[p]
       THEN To(p, "down") /\ UNCHANGED <<columns, version>>
       ELSE To(p, "up") /\ columns' = draft /\ version' = code[p]
  /\ UNCHANGED <<store, code, column>>

-----------------------------------------------------------------------------
\* A crash, or the end of the process; a transaction under way is undone.
Stop(p) ==
  /\ ~At(p, "down") /\ To(p, "down")
  /\ IF ddlLock = p THEN ddlLock' = 0 /\ draft' = {} ELSE UNCHANGED <<ddlLock, draft>>
  /\ UNCHANGED <<store, code, columns, version, column>>

Next ==
  \E p \in Starters :
    \/ Start(p) \/ ReadVersion(p) \/ HasColumn(p) \/ AddColumn(p) \/ RecordVersion(p)
    \/ Ddl(p) \/ CommitSchema(p) \/ Stop(p)

Spec == Init /\ [][Next]_schemaVars

-----------------------------------------------------------------------------
\* sqlite.py:220-280, postgres.py:204-390: the recorded version and every
\* process that came up find all their columns, in whatever order processes of
\* either version start and wherever one dies.
ColumnsPresent ==
  /\ 2 .. version \subseteq columns
  /\ \A p \in Starters : At(p, "up") => 2 .. code[p] \subseteq columns

\* postgres.py:377-386: old code never writes its version over a newer one.
\* (In SQLite it does, when new code starts between its reading and writing.)
NeverDowngraded == [][store = "postgres" => version' >= version]_schemaVars
=============================================================================
