--------------------------- MODULE Records_proof ---------------------------
(***************************************************************************)
(* What is written down is read again as it was meant: for any number of   *)
(* requests, servers, starters, runs, memories, sources and threads, and   *)
(* any retention, page and clock.  Each part of MCRecords has an inductive *)
(* invariant of its own, since the parts share no state; the last section  *)
(* puts them together.                                                     *)
(***************************************************************************)
EXTENDS MCRecords, Sequences, FiniteSetTheorems, TLAPS

-----------------------------------------------------------------------------
(***************************************************************************)
(* The rotation of keys.  A run that began when nobody wrote with the old  *)
(* key alone has nothing to fear from imports, so that a scope it has      *)
(* passed stays passed; what it has still to visit is in todo, what it     *)
(* could not read in failed.                                               *)
(***************************************************************************)
Field == {"old", "new", "lost"}
Renewed(s) == vault[s] = Nobody \/ \A f \in Keys!FieldNames : vault[s][f] = "new"

VaultTypes ==
  /\ keyring \in [Servers -> {"old", "both", "new"}]
  /\ vault \in [Keys!ScopesUsed -> [Keys!FieldNames -> Field] \union {Nobody}]
  /\ todo \subseteq Keys!ScopesUsed /\ cur \in Keys!ScopesUsed

\* What the run has passed is renewed; a report of success says so of all.
Passed ==
  sound /\ asked = "all" =>
    /\ rotor \in {"scan", "write"} =>
         \A s \in Keys!ScopesUsed \ (todo \union failed) : Renewed(s) \/ (rotor = "write" /\ s = cur)
    /\ verdict = "ok" => \A s \in Keys!ScopesUsed : Renewed(s)

VaultInv ==
  /\ VaultTypes /\ Passed
  /\ sound => \A p \in Servers : keyring[p] # "old"
  /\ rotor \in {"off", "scan", "write"}
  /\ rotor # "off" => verdict = "none"

\* The initial states of key rotation satisfy its invariant.
LEMMA VaultInit == Keys!Init => VaultInv
BY DEF Keys!Init, VaultInv, VaultTypes, Passed, Keys!ScopesUsed

\* Every step of key rotation keeps its invariant.
LEMMA VaultStep == VaultInv /\ [Keys!Next]_vaultVars => VaultInv'
<1> SUFFICES ASSUME VaultInv, [Keys!Next]_vaultVars PROVE VaultInv'
  OBVIOUS
<1>w. \A ring \in {"old", "both", "new"} :
        /\ Keys!Encrypted(ring) \in [Keys!FieldNames -> Field]
        /\ ring # "old" => \A f \in Keys!FieldNames : Keys!Encrypted(ring)[f] = "new"
  BY DEF Keys!Encrypted, Field
<1> USE DEF VaultInv, VaultTypes, Passed, Renewed
<1>1. ASSUME NEW p \in Servers, Keys!TakeNewKey(p) PROVE VaultInv'
  BY <1>1 DEF Keys!TakeNewKey
<1>2. ASSUME NEW p \in Servers, Keys!DropOldKey(p) PROVE VaultInv'
  BY <1>2 DEF Keys!DropOldKey
<1>3. ASSUME NEW p \in Servers, NEW s \in Keys!ScopesUsed, Keys!Register(p, s) PROVE VaultInv'
  <2>1. keyring[p] \in {"old", "both", "new"}
    OBVIOUS
  <2>2. vault' \in [Keys!ScopesUsed -> [Keys!FieldNames -> Field] \union {Nobody}]
    BY <1>3, <1>w, <2>1 DEF Keys!Register
  <2>3. \A q \in Keys!ScopesUsed : sound /\ Renewed(q) => Renewed(q)'
    BY <1>3, <1>w, <2>1 DEF Keys!Register
  <2> QED
    BY <1>3, <2>2, <2>3 DEF Keys!Register
<1>4. ASSUME NEW s \in Keys!ScopesUsed, Keys!Delete(s) PROVE VaultInv'
  BY <1>4 DEF Keys!Delete
<1>5. ASSUME NEW s \in Keys!ScopesUsed, Keys!Visit(s) PROVE VaultInv'
  <2>1. CASE vault[s] = Nobody
    BY <1>5, <2>1 DEF Keys!Visit
  <2>2. CASE vault[s] # Nobody
    <3>1. Keys!Judged(vault[s]) \in {"failed", "stale", "current"}
      BY DEF Keys!Judged
    <3>2. Keys!Judged(vault[s]) = "current" => Renewed(s)
      BY <2>2 DEF Keys!Judged, Keys!Opens, Field
    <3> QED
      BY <1>5, <2>2, <3>1, <3>2 DEF Keys!Visit
  <2> QED
    BY <2>1, <2>2
<1>6. ASSUME NEW s \in Keys!ScopesUsed, NEW f \in Keys!FieldNames, Keys!Damage(s, f) PROVE VaultInv'
  BY <1>6 DEF Keys!Damage, Field
<1>7. ASSUME NEW which \in {"default", "all"}, Keys!Begin(which) PROVE VaultInv'
  BY <1>7 DEF Keys!Begin
<1>8. CASE Keys!Rewrite
  BY <1>8, <1>w DEF Keys!Rewrite
<1>9. CASE Keys!Report
  BY <1>9 DEF Keys!Report
<1>10. CASE Keys!Killed
  BY <1>10 DEF Keys!Killed
<1>11. CASE UNCHANGED vaultVars
  BY <1>11 DEF vaultVars
<1> QED
  BY <1>1, <1>2, <1>3, <1>4, <1>5, <1>6, <1>7, <1>8, <1>9, <1>10, <1>11 DEF Keys!Next

\* The invariant of key rotation implies the properties stated of it.
LEMMA VaultTold == VaultInv => Keys!RotationComplete
BY DEF VaultInv, Passed, Renewed, Keys!RotationComplete, Keys!Opens

-----------------------------------------------------------------------------
(***************************************************************************)
(* The schema.  Columns are only ever added; a process that is under way   *)
(* has found or added those below the one it is at.  In PostgreSQL the     *)
(* draft of the one that holds the lock is the columns and its own.        *)
(***************************************************************************)
Reached(p) ==
  CASE start[p] \in {"add", "alter"} -> column[p] - 1
    [] start[p] \in {"record", "up"} -> code[p]
    [] OTHER -> 1

SchemaTypes ==
  /\ store \in {"sqlite", "postgres"}
  /\ code \in [Starters -> Nat] /\ column \in [Starters -> Nat] /\ version \in Int
  /\ start \in [Starters -> IF store = "sqlite"
                              THEN {"down", "read", "add", "alter", "record", "up"}
                              ELSE {"down", "ddl", "check", "up"}]

SchemaInv ==
  /\ SchemaTypes
  /\ 2 .. version \subseteq columns
  /\ \A p \in Starters :
       /\ 2 .. Reached(p) \subseteq columns
       /\ start[p] = "read" => column[p] = 2
       /\ start[p] = "alter" => column[p] =< code[p]
       /\ start[p] \in {"ddl", "check"} => ddlLock = p /\ columns \subseteq draft
       /\ start[p] = "check" => 2 .. code[p] \subseteq draft

\* The initial states of the schema satisfy its invariant.
LEMMA SchemaInit == Schema!Init => SchemaInv
BY StartersAssumption DEF Schema!Init, SchemaInv, SchemaTypes, Reached

\* Every step of the schema keeps its invariant.
LEMMA SchemaStep == SchemaInv /\ [Schema!Next]_schemaVars => SchemaInv'
<1> SUFFICES ASSUME SchemaInv, [Schema!Next]_schemaVars PROVE SchemaInv'
  OBVIOUS
<1> USE StartersAssumption DEF SchemaInv, SchemaTypes, Reached, Schema!At, Schema!To
<1>1. ASSUME NEW p \in Starters, Schema!Start(p) PROVE SchemaInv'
  BY <1>1 DEF Schema!Start
<1>2. ASSUME NEW p \in Starters, Schema!ReadVersion(p) PROVE SchemaInv'
  BY <1>2 DEF Schema!ReadVersion
<1>3. ASSUME NEW p \in Starters, Schema!HasColumn(p) PROVE SchemaInv'
  BY <1>3 DEF Schema!HasColumn
<1>4. ASSUME NEW p \in Starters, Schema!AddColumn(p) PROVE SchemaInv'
  BY <1>4 DEF Schema!AddColumn
<1>5. ASSUME NEW p \in Starters, Schema!RecordVersion(p) PROVE SchemaInv'
  BY <1>5 DEF Schema!RecordVersion
<1>6. ASSUME NEW p \in Starters, Schema!Ddl(p) PROVE SchemaInv'
  BY <1>6 DEF Schema!Ddl
<1>7. ASSUME NEW p \in Starters, Schema!CommitSchema(p) PROVE SchemaInv'
  BY <1>7 DEF Schema!CommitSchema
<1>8. ASSUME NEW p \in Starters, Schema!Stop(p) PROVE SchemaInv'
  BY <1>8 DEF Schema!Stop
<1>9. CASE UNCHANGED schemaVars
  BY <1>9 DEF schemaVars
<1> QED
  BY <1>1, <1>2, <1>3, <1>4, <1>5, <1>6, <1>7, <1>8, <1>9 DEF Schema!Next

\* The invariant of the schema implies the properties stated of it.
LEMMA SchemaTold == SchemaInv => Schema!ColumnsPresent
BY DEF SchemaInv, Reached, Schema!ColumnsPresent, Schema!At

\* Only CommitSchema writes the version in PostgreSQL, and it compares first.
LEMMA VersionStep ==
  SchemaInv /\ [Schema!Next]_schemaVars => [store = "postgres" => version' >= version]_schemaVars
<1> SUFFICES ASSUME SchemaInv, Schema!Next, store = "postgres" PROVE version' >= version
  OBVIOUS
<1> USE DEF SchemaInv, SchemaTypes, Schema!At
<1>1. PICK p \in Starters :
        \/ Schema!Start(p) \/ Schema!ReadVersion(p) \/ Schema!HasColumn(p) \/ Schema!AddColumn(p)
        \/ Schema!RecordVersion(p) \/ Schema!Ddl(p) \/ Schema!CommitSchema(p) \/ Schema!Stop(p)
  BY DEF Schema!Next
<1>2. CASE Schema!CommitSchema(p)
  BY <1>2 DEF Schema!CommitSchema
<1>3. CASE Schema!RecordVersion(p)
  BY <1>3 DEF Schema!RecordVersion
<1> QED
  BY <1>1, <1>2, <1>3 DEF Schema!Start, Schema!ReadVersion, Schema!HasColumn, Schema!AddColumn,
    Schema!Ddl, Schema!Stop

-----------------------------------------------------------------------------
(***************************************************************************)
(* Backups.  Behind the last success come only those that failed since and *)
(* the one under way, which is the newest: as long as these are fewer than *)
(* keep, plan_prune has no reason to take it.                              *)
(***************************************************************************)
Tries == spoilt + (IF job # 0 THEN 1 ELSE 0)
After(t) == {u \in Copies!Made \union {job} : u > t}

BackupTypes ==
  /\ files \in [Copies!Times -> [state : {"none", "partial", "bad", "whole"}, version : Int]]
  /\ db.version \in Int /\ now \in Copies!Times /\ job \in Copies!Times \union {0} /\ spoilt \in Nat

BackupInv ==
  /\ BackupTypes
  /\ job =< now /\ \A t \in Copies!Made : t =< now
  /\ job # 0 => files[job].state # "whole" /\ \A t \in Copies!Made : t =< job
  /\ good /\ Tries < Keep => \E t \in Copies!Usable : Cardinality(After(t)) =< Tries

\* Backup's Cardinality is that of the theorems on finite sets.
LEMMA SameCount == \A S : Copies!Cardinality(S) = Cardinality(S)
BY DEF Copies!Cardinality, Cardinality

\* What comes after a time is finite, and of a smaller set there is no more.
LEMMA Fewer ==
  ASSUME NEW S \in SUBSET Copies!Times, NEW T \in SUBSET S
  PROVE  /\ IsFiniteSet(S) /\ Cardinality(S) \in Nat /\ Cardinality(T) \in Nat
         /\ Cardinality(T) =< Cardinality(S)
<1>1. IsFiniteSet(Copies!Times)
  BY BackupAssumption, FS_Interval DEF Copies!Times
<1> QED
  BY <1>1, FS_Subset, FS_CardinalityType

\* What is made after a time is a set of times.
LEMMA AfterTimes == BackupInv => \A t \in Copies!Times : After(t) \in SUBSET Copies!Times
BY DEF BackupInv, BackupTypes, After, Copies!Made, Copies!Times

\* The initial states of the backups satisfy its invariant.
LEMMA BackupInit == Copies!Init => BackupInv
<1> SUFFICES ASSUME Copies!Init PROVE BackupInv
  OBVIOUS
<1> USE BackupAssumption DEF Copies!Init, Copies!None
<1>1. BackupTypes
  BY DEF BackupTypes, Copies!Times
<1>2. Copies!Made = {}
  BY DEF Copies!Made
<1> QED
  BY <1>1, <1>2 DEF BackupInv

\* While no file and no counter changes, nothing is lost.
LEMMA BackupSame ==
  BackupInv /\ UNCHANGED <<files, job, spoilt, good>> /\ BackupTypes' /\ now' >= now => BackupInv'
<1> SUFFICES ASSUME BackupInv, UNCHANGED <<files, job, spoilt, good>>, BackupTypes', now' >= now
    PROVE BackupInv'
  OBVIOUS
<1>1. Copies!Made' = Copies!Made /\ Copies!Usable' = Copies!Usable /\ Tries' = Tries
  BY DEF Copies!Made, Copies!Usable, Tries
<1>2. \A t \in Copies!Usable : After(t)' = After(t)
  BY <1>1 DEF After
<1>3. \A t \in Copies!Made : t \in Int
  BY BackupAssumption DEF Copies!Made, Copies!Times
<1> QED
  BY <1>1, <1>2, <1>3, BackupAssumption DEF BackupInv, BackupTypes, Copies!Times

\* Beginning a backup keeps the invariant.
LEMMA BackupBegins == BackupInv /\ Copies!BeginBackup => BackupInv'
<1> SUFFICES ASSUME BackupInv, Copies!BeginBackup PROVE BackupInv'
  OBVIOUS
<1> USE BackupAssumption DEF Copies!BeginBackup, Copies!File, Copies!None
<1>1. BackupTypes'
  BY DEF BackupInv, BackupTypes, Copies!Times
<1>2. Copies!Made' = Copies!Made \union {now} /\ Copies!Usable' = Copies!Usable /\ now \notin Copies!Usable
  BY DEF BackupInv, BackupTypes, Copies!Made, Copies!Usable, Copies!Times
<1>3. now # 0 /\ spoilt \in Nat /\ job = 0 /\ job' = now /\ spoilt' = spoilt /\ now' = now /\ good' = good
  BY DEF BackupInv, BackupTypes, Copies!Times
<1>4. ASSUME NEW t \in Copies!Usable, Cardinality(After(t)) =< Tries
      PROVE Cardinality(After(t)') =< Tries'
  <2>1. After(t)' \subseteq After(t) \union {now}
    BY <1>2, <1>3 DEF After
  <2>2. t \in Copies!Times
    BY DEF Copies!Usable
  <2>3. After(t) \in SUBSET Copies!Times /\ now \in Copies!Times
    BY <2>2, AfterTimes DEF BackupInv, BackupTypes
  <2>4. IsFiniteSet(After(t)) /\ Cardinality(After(t)) \in Nat
    BY <2>3, Fewer
  <2>5. Cardinality(After(t) \union {now}) =< Cardinality(After(t)) + 1
    <3>1. Cardinality(After(t) \union {now})
            = IF now \in After(t) THEN Cardinality(After(t)) ELSE Cardinality(After(t)) + 1
      BY <2>4, FS_AddElement
    <3> QED
      BY <2>4, <3>1
  <2>6. Cardinality(After(t)') =< Cardinality(After(t) \union {now})
        /\ Cardinality(After(t)') \in Nat /\ Cardinality(After(t) \union {now}) \in Nat
    BY <2>1, <2>3, Fewer
  <2> QED
    BY <1>3, <1>4, <2>4, <2>5, <2>6 DEF Tries
<1>5. good' /\ Tries' < Keep => good /\ Tries < Keep
  BY <1>3 DEF Tries
<1>6. \A t \in Copies!Made' : t =< now' /\ t =< job'
  BY <1>2, <1>3 DEF BackupInv, BackupTypes, Copies!Times
<1>7. files'[job'].state # "whole"
  BY DEF BackupInv, BackupTypes
<1> QED
  BY <1>1, <1>2, <1>4, <1>5, <1>6, <1>7 DEF BackupInv

\* So does ending one, which checks and prunes.
LEMMA BackupEnds == BackupInv /\ Copies!EndBackup => BackupInv'
<1> SUFFICES ASSUME BackupInv, Copies!EndBackup PROVE BackupInv'
  OBVIOUS
<1> USE BackupAssumption DEF Copies!EndBackup, Copies!File, Copies!None
<1>1. BackupTypes'
  BY DEF BackupInv, BackupTypes, Copies!Times
<1>2. Copies!Made' = Copies!Made \union {job} /\ job \in Copies!Usable'
  BY DEF BackupInv, BackupTypes, Copies!Made, Copies!Usable, Copies!Times
<1>3. \A t \in Copies!Made' : t =< job
  BY <1>2 DEF BackupInv, BackupTypes, Copies!Times
<1>4. \A t \in Copies!Made' : t =< now'
  BY <1>2, <1>3 DEF BackupInv, BackupTypes, Copies!Times
<1>5. job' = 0 /\ Tries' = 0
  BY DEF Tries
<1>6. PICK t \in Copies!Usable' : t = job
  BY <1>2
<1>7. After(t)' = {}
  BY <1>3, <1>5, <1>6 DEF After, Copies!Made, Copies!Times, BackupInv, BackupTypes
<1>8. Cardinality(After(t)') =< Tries'
  BY <1>5, <1>7, FS_EmptySet
<1> QED
  BY <1>1, <1>4, <1>5, <1>6, <1>8 DEF BackupInv, BackupTypes, Copies!Times

\* So does one that fails, in the copying or in the check.
LEMMA BackupLost == BackupInv /\ (Copies!BackupFails \/ Copies!CheckFails) => BackupInv'
<1> SUFFICES ASSUME BackupInv, Copies!BackupFails \/ Copies!CheckFails PROVE BackupInv'
  OBVIOUS
<1> USE BackupAssumption DEF Copies!BackupFails, Copies!CheckFails, Copies!File, Copies!None
<1>1. BackupTypes' /\ job # 0 /\ job' = 0 /\ spoilt' = spoilt + 1 /\ now' = now /\ good' = good
  BY DEF BackupInv, BackupTypes, Copies!Times
<1>2. Copies!Made' \subseteq Copies!Made \union {job} /\ Copies!Usable' = Copies!Usable
  <2>1. /\ job \in Copies!Times /\ files[job].state # "whole"
        /\ files \in [Copies!Times -> [state : {"none", "partial", "bad", "whole"}, version : Int]]
    BY <1>1 DEF BackupInv, BackupTypes
  <2>2. PICK f : files' = [files EXCEPT ![job] = f] /\ f.state # "whole"
    BY <2>1
  <2>3. \A t \in Copies!Times \ {job} : files'[t] = files[t]
    BY <2>1, <2>2
  <2>4. files'[job].state # "whole"
    BY <2>1, <2>2
  <2> QED
    BY <2>1, <2>3, <2>4 DEF Copies!Made, Copies!Usable
<1>3. Tries' = Tries
  BY <1>1 DEF Tries, BackupInv, BackupTypes
<1>4. ASSUME NEW t \in Copies!Usable, Cardinality(After(t)) =< Tries
      PROVE Cardinality(After(t)') =< Tries'
  <2>1. t \in Copies!Times
    BY DEF Copies!Usable
  <2>2. After(t)' \in SUBSET After(t)
    BY <1>1, <1>2, <2>1 DEF After, Copies!Times
  <2>3. After(t) \in SUBSET Copies!Times
    BY <2>1, AfterTimes
  <2>4. Cardinality(After(t)') =< Cardinality(After(t)) /\ Cardinality(After(t)') \in Nat
        /\ Cardinality(After(t)) \in Nat
    BY <2>2, <2>3, Fewer
  <2> QED
    BY <1>1, <1>3, <1>4, <2>4 DEF Tries, BackupInv, BackupTypes
<1>5. \A t \in Copies!Made' : t =< now'
  BY <1>1, <1>2 DEF BackupInv, BackupTypes, Copies!Times, Copies!Made
<1> QED
  BY <1>1, <1>2, <1>3, <1>4, <1>5 DEF BackupInv, BackupTypes, Copies!Times

\* So does pruning.
LEMMA BackupPruned == BackupInv /\ Copies!Prune => BackupInv'
<1> SUFFICES ASSUME BackupInv, Copies!Prune PROVE BackupInv'
  OBVIOUS
<1> USE BackupAssumption DEF Copies!None
<1>1. PICK gone \in SUBSET Copies!Doomed(Copies!Made) : Copies!Remove(gone)
  BY DEF Copies!Prune
<1>2. UNCHANGED <<db, now, job, spoilt, good>>
  BY DEF Copies!Prune
<1>3. BackupTypes'
  BY <1>1, <1>2 DEF BackupInv, BackupTypes, Copies!Remove
<1>4. Copies!Made' = Copies!Made \ gone /\ Copies!Usable' = Copies!Usable \ gone
  BY <1>1 DEF BackupInv, BackupTypes, Copies!Made, Copies!Usable, Copies!Remove
<1>5. Tries' = Tries /\ Tries \in Nat
  BY <1>2 DEF Tries, BackupInv, BackupTypes
<1>6. ASSUME NEW t \in Copies!Usable, Cardinality(After(t)) =< Tries, Tries < Keep
      PROVE t \in Copies!Usable' /\ Cardinality(After(t)') =< Tries'
  <2>1. t \in Copies!Times
    BY DEF Copies!Usable
  <2>2. After(t) \in SUBSET Copies!Times
    BY <2>1, AfterTimes
  <2>3. After(t)' \in SUBSET After(t) /\ {u \in Copies!Made : u > t} \in SUBSET After(t)
    BY <1>2, <1>4 DEF After
  <2>4. /\ Cardinality(After(t)') =< Cardinality(After(t)) /\ Cardinality(After(t)') \in Nat
        /\ Cardinality({u \in Copies!Made : u > t}) =< Cardinality(After(t))
        /\ Cardinality({u \in Copies!Made : u > t}) \in Nat /\ Cardinality(After(t)) \in Nat
    BY <2>2, <2>3, Fewer
  <2>5. t \notin gone
    <3>1. t \in gone => Cardinality({u \in Copies!Made : u > t}) >= Keep
      BY <1>1, SameCount DEF Copies!Doomed
    <3> QED
      BY <1>5, <1>6, <2>4, <3>1
  <2> QED
    BY <1>4, <1>5, <1>6, <2>4, <2>5
<1>7. job' # 0 => files'[job'].state # "whole"
  BY <1>1, <1>2 DEF BackupInv, BackupTypes, Copies!Remove
<1> QED
  BY <1>2, <1>3, <1>4, <1>5, <1>6, <1>7 DEF BackupInv

\* Every step of the backups keeps its invariant.
LEMMA BackupStep == BackupInv /\ [Copies!Next]_backupVars => BackupInv'
<1> SUFFICES ASSUME BackupInv, [Copies!Next]_backupVars PROVE BackupInv'
  OBVIOUS
<1>1. CASE Copies!Prune
  BY <1>1, BackupPruned
<1>2. CASE Copies!BeginBackup \/ Copies!EndBackup
  BY <1>2, BackupBegins, BackupEnds
<1>3. CASE Copies!BackupFails \/ Copies!CheckFails
  BY <1>3, BackupLost
<1>4. ASSUME NEW t \in Copies!Times, Copies!Restore(t) PROVE BackupInv'
  BY <1>4, BackupSame, BackupAssumption DEF Copies!Restore, BackupInv, BackupTypes, Copies!Times
<1>5. CASE Copies!Write
  BY <1>5, BackupSame, BackupAssumption DEF Copies!Write, BackupInv, BackupTypes, Copies!Times
<1>6. CASE Copies!Damage
  BY <1>6, BackupSame, BackupAssumption DEF Copies!Damage, BackupInv, BackupTypes, Copies!Times
<1>7. CASE Copies!Clock
  BY <1>7, BackupSame, BackupAssumption DEF Copies!Clock, BackupInv, BackupTypes, Copies!Times
<1>8. CASE UNCHANGED backupVars
  BY <1>8, BackupSame, BackupAssumption DEF backupVars, BackupInv, BackupTypes, Copies!Times
<1> QED
  BY <1>1, <1>2, <1>3, <1>4, <1>5, <1>6, <1>7, <1>8 DEF Copies!Next

\* The invariant of the backups implies the properties stated of it.
LEMMA BackupTold == BackupInv => Copies!UsableKept
BY DEF BackupInv, Tries, Copies!UsableKept

-----------------------------------------------------------------------------
(***************************************************************************)
(* Events.  The id of an open insert is behind no cursor: whatever has     *)
(* been read of its run is older.  A row that is to be trimmed after is    *)
(* the newest of its run.                                                  *)
(***************************************************************************)
Event == [id : Nat, run : Channels, n : Nat]

EventTypes ==
  /\ events \subseteq Event /\ Bus!IsFiniteSet(events) /\ lastId \in Nat
  /\ writing \in [Channels -> {"idle", "open", "trim"}] /\ entry \in [Channels -> Event]
  /\ newest \in [Channels -> Nat] /\ cursor \in [Channels -> Nat]
  /\ received \in [Channels -> SUBSET Nat]

EventInv ==
  /\ EventTypes
  /\ \A e \in events : e.id =< lastId
  /\ \A r \in Channels :
       /\ entry[r].run = r /\ entry[r].id =< lastId /\ cursor[r] =< lastId
       /\ writing[r] = "open" => /\ cursor[r] < entry[r].id
                                 /\ \A e \in events : e.run = r => e.id < entry[r].id
       /\ writing[r] = "trim" /\ newest[r] > 0 => entry[r] \in events /\ newest[r] = entry[r].n
  /\ Bus!NothingSkipped /\ Bus!NewestKept

\* The operators on finite sets seen through the instance are those of the library.
LEMMA SameEvents == \A S : Bus!Cardinality(S) = Cardinality(S) /\ (Bus!IsFiniteSet(S) <=> IsFiniteSet(S))
BY DEF Bus!Cardinality, Cardinality, Bus!IsFiniteSet, IsFiniteSet

\* The initial states of the event log satisfy its invariant.
LEMMA EventInit == Bus!Init => EventInv
BY SameEvents, FS_EmptySet DEF Bus!Init, EventInv, EventTypes, Event, Bus!NothingSkipped, Bus!NewestKept

\* The rows after an insert and its trimming.
LEMMA Rows ==
  ASSUME NEW shown \in SUBSET Event, NEW e \in Event, Bus!IsFiniteSet(shown)
  PROVE  LET left == Bus!Trimmed(e, shown \union {e})
         IN /\ left \subseteq shown \union {e} /\ e \in left /\ Bus!IsFiniteSet(left)
            /\ \A f \in shown : f.run # e.run => f \in left
<1>1. IsFiniteSet(shown \union {e})
  BY SameEvents, FS_AddElement
<1>2. Bus!Trimmed(e, shown \union {e}) \in SUBSET (shown \union {e})
  BY DEF Bus!Trimmed
<1>3. IsFiniteSet(Bus!Trimmed(e, shown \union {e}))
  BY <1>1, <1>2, FS_Subset
<1> QED
  BY <1>2, <1>3, SameEvents, EventAssumption DEF Bus!Trimmed, Event

\* An open insert becomes visible: it is the newest of its run, and behind no cursor.
LEMMA Shown ==
  ASSUME EventInv, NEW r \in Channels, writing[r] = "open", UNCHANGED <<cursor, received>>,
         Bus!Show(entry[r], Bus!Trimmed(entry[r], events \union {entry[r]}))
  PROVE  /\ events' \subseteq Event /\ Bus!IsFiniteSet(events')
         /\ newest' = [newest EXCEPT ![r] = entry[r].n]
         /\ events' \subseteq events \union {entry[r]} /\ entry[r] \in events'
         /\ \A f \in events : f.run # r => f \in events'
         /\ Bus!NothingSkipped' /\ Bus!NewestKept'
<1> USE DEF EventInv, EventTypes
<1>1. /\ events' \subseteq events \union {entry[r]} /\ entry[r] \in events'
      /\ Bus!IsFiniteSet(events') /\ \A f \in events : f.run # r => f \in events'
  BY Rows DEF Bus!Show
<1>2. newest' = [newest EXCEPT ![r] = entry[r].n] /\ entry[r].run = r /\ entry[r] \in Event
  BY DEF Bus!Show
<1>3. Bus!NothingSkipped'
  BY <1>1, <1>2 DEF Bus!NothingSkipped, Event
<1>4. Bus!NewestKept'
  <2> SUFFICES ASSUME NEW q \in Channels, newest'[q] > 0
      PROVE \E e \in events' : e.run = q /\ e.n = newest'[q]
    BY DEF Bus!NewestKept, Bus!Of
  <2>1. CASE q = r
    BY <1>1, <1>2, <2>1
  <2>2. CASE q # r
    <3>1. PICK e \in events : e.run = q /\ e.n = newest[q]
      BY <1>2, <2>2 DEF Bus!NewestKept, Bus!Of
    <3> QED
      BY <1>1, <1>2, <2>2, <3>1
  <2> QED
    BY <2>1, <2>2
<1> QED
  BY <1>1, <1>2, <1>3, <1>4

\* The page that a subscriber reads has all rows up to its last.
LEMMA WholePage ==
  ASSUME EventInv, NEW r \in Channels, NEW e \in Bus!Of(r), NEW last \in Bus!Of(r),
         cursor[r] < e.id, e.id =< last.id,
         Bus!Cardinality({x \in Bus!Of(r) : x.id > cursor[r] /\ x.id < last.id}) < PageSize
  PROVE  Bus!Cardinality({x \in Bus!Of(r) : x.id > cursor[r] /\ x.id < e.id}) < PageSize
<1> DEFINE S == {x \in Bus!Of(r) : x.id > cursor[r] /\ x.id < last.id}
           T == {x \in Bus!Of(r) : x.id > cursor[r] /\ x.id < e.id}
<1>1. IsFiniteSet(events)
  BY SameEvents DEF EventInv, EventTypes
<1>2. S \in SUBSET events /\ T \in SUBSET S
  BY DEF Bus!Of, EventInv, EventTypes, Event
<1>3. IsFiniteSet(S) /\ IsFiniteSet(T)
  BY <1>1, <1>2, FS_Subset
<1>4. Cardinality(T) =< Cardinality(S) /\ Cardinality(T) \in Nat /\ Cardinality(S) \in Nat
  BY <1>2, <1>3, FS_Subset, FS_CardinalityType
<1> HIDE DEF S, T
<1>5. Cardinality(S) < PageSize
  BY SameEvents DEF S
<1>6. Cardinality(T) < PageSize
  BY <1>4, <1>5, EventAssumption
<1> QED
  BY <1>6, SameEvents DEF T

\* Every step of the event log keeps its invariant.
LEMMA EventStep == EventInv /\ [Bus!Next]_eventVars => EventInv'
<1> SUFFICES ASSUME EventInv, [Bus!Next]_eventVars PROVE EventInv'
  OBVIOUS
<1> USE EventAssumption DEF EventInv, EventTypes, Bus!NothingSkipped, Bus!NewestKept, Bus!Of, Bus!Now
<1>1. ASSUME NEW r \in Channels, Bus!AppendEvent(r) PROVE EventInv'
  <2>1. PICK e : e = [id |-> lastId + 1, run |-> r, n |-> entry[r].n + 1]
    OBVIOUS
  <2>2. e \in Event /\ e.id = lastId + 1 /\ e.run = r
    BY <2>1 DEF Event
  <2>3. lastId' = lastId + 1 /\ entry' = [entry EXCEPT ![r] = e] /\ UNCHANGED <<cursor, received>>
    BY <1>1, <2>1 DEF Bus!AppendEvent
  <2>4. CASE dialect = "postgres"
    <3>1. Bus!Now(r, "open") /\ UNCHANGED <<events, newest>>
      BY <1>1, <2>4 DEF Bus!AppendEvent
    <3> QED
      BY <2>2, <2>3, <3>1, <1>1 DEF Event, Bus!AppendEvent
  <2>5. CASE dialect # "postgres"
    <3>1. Bus!Now(r, "trim") /\ events' = events \union {e} /\ newest' = [newest EXCEPT ![r] = e.n]
      BY <1>1, <2>1, <2>5 DEF Bus!AppendEvent, Bus!Show
    <3>2. Bus!IsFiniteSet(events')
      BY <3>1, SameEvents, FS_AddElement
    <3> QED
      BY <2>2, <2>3, <3>1, <3>2, <1>1 DEF Event
  <2> QED
    BY <2>4, <2>5
<1>2. ASSUME NEW r \in Channels, Bus!CommitEvent(r) PROVE EventInv'
  <2>1. /\ writing[r] = "open" /\ writing' = [writing EXCEPT ![r] = "idle"]
        /\ UNCHANGED <<lastId, entry, cursor, received>>
        /\ Bus!Show(entry[r], Bus!Trimmed(entry[r], events \union {entry[r]}))
    BY <1>2 DEF Bus!CommitEvent
  <2>2. /\ events' \subseteq Event /\ Bus!IsFiniteSet(events')
        /\ newest' = [newest EXCEPT ![r] = entry[r].n]
        /\ events' \subseteq events \union {entry[r]}
        /\ \A f \in events : f.run # r => f \in events'
        /\ Bus!NothingSkipped' /\ Bus!NewestKept'
    BY <2>1, Shown
  <2>3. EventTypes'
    BY <2>1, <2>2 DEF Event
  <2> HIDE DEF Bus!NothingSkipped, Bus!NewestKept
  <2> QED
    BY <2>1, <2>2, <2>3 DEF Event
<1>3. ASSUME NEW r \in Channels, Bus!CommitUnheard(r) PROVE EventInv'
  <2>1. /\ writing[r] = "open" /\ lastId' = lastId + 1 /\ entry' = [entry EXCEPT ![r].id = lastId + 1]
        /\ UNCHANGED <<writing, cursor, received>>
        /\ Bus!Show(entry[r], Bus!Trimmed(entry[r], events \union {entry[r]}))
    BY <1>3 DEF Bus!CommitUnheard
  <2>2. /\ events' \subseteq Event /\ Bus!IsFiniteSet(events')
        /\ newest' = [newest EXCEPT ![r] = entry[r].n]
        /\ events' \subseteq events \union {entry[r]} /\ entry[r] \in events'
        /\ \A f \in events : f.run # r => f \in events'
        /\ Bus!NothingSkipped' /\ Bus!NewestKept'
    BY <2>1, Shown
  <2>3. EventTypes'
    BY <2>1, <2>2 DEF Event
  <2> HIDE DEF Bus!NothingSkipped, Bus!NewestKept
  <2>4. \A e \in events' : e.id =< lastId /\ (e \in events \/ e.run = r)
    BY <2>2
  <2>5. entry'[r].id = lastId + 1 /\ entry'[r].run = r /\ \A q \in Channels : q # r => entry'[q] = entry[q]
    BY <2>1 DEF Event
  <2>6. \A q \in Channels : writing[q] = "open" =>
          cursor[q] < entry'[q].id /\ \A e \in events' : e.run = q => e.id < entry'[q].id
    <3> SUFFICES ASSUME NEW q \in Channels, writing[q] = "open"
        PROVE cursor[q] < entry'[q].id /\ \A e \in events' : e.run = q => e.id < entry'[q].id
      OBVIOUS
    <3>1. CASE q = r
      BY <2>2, <2>4, <2>5, <3>1 DEF Event
    <3>2. CASE q # r
      BY <2>4, <2>5, <3>2
    <3> QED
      BY <3>1, <3>2
  <2>7. \A q \in Channels : writing[q] = "trim" /\ newest'[q] > 0 =>
          entry'[q] \in events' /\ newest'[q] = entry'[q].n
    BY <2>1, <2>2, <2>5
  <2>8. \A e \in events' : e.id =< lastId'
    BY <2>1, <2>2, <2>4 DEF Event
  <2>9. \A q \in Channels : entry'[q].run = q /\ entry'[q].id =< lastId' /\ cursor'[q] =< lastId'
    BY <2>1, <2>5 DEF Event
  <2> QED
    BY <2>1, <2>2, <2>3, <2>6, <2>7, <2>8, <2>9
<1>4. ASSUME NEW r \in Channels, Bus!TrimEvents(r) PROVE EventInv'
  <2>1. events' \in SUBSET events /\ \A f \in events : f.run # r \/ f = entry[r] => f \in events'
    BY <1>4 DEF Bus!TrimEvents, Bus!Trimmed, Event
  <2>2. Bus!IsFiniteSet(events')
    BY <2>1, SameEvents, FS_Subset
  <2> QED
    BY <1>4, <2>1, <2>2 DEF Bus!TrimEvents, Event
<1>5. ASSUME NEW r \in Channels, Bus!WriterGone(r) PROVE EventInv'
  BY <1>5 DEF Bus!WriterGone
<1>6. ASSUME NEW r \in Channels, Bus!Poll(r) PROVE EventInv'
  <2> DEFINE page == {e \in Bus!Of(r) :
                        /\ e.id > cursor[r]
                        /\ Bus!Cardinality({x \in Bus!Of(r) : x.id > cursor[r] /\ x.id < e.id}) < PageSize}
  <2>1. PICK last \in page : (\A e \in page : e.id =< last.id) /\ cursor' = [cursor EXCEPT ![r] = last.id]
    BY <1>6 DEF Bus!Poll
  <2>2. /\ received' = [received EXCEPT ![r] = @ \union {e.n : e \in page}]
        /\ UNCHANGED <<events, lastId, writing, entry, newest>>
    BY <1>6 DEF Bus!Poll
  <2>3. \A e \in Bus!Of(r) : cursor[r] < e.id /\ e.id =< last.id => e \in page
    BY <2>1, WholePage
  <2>4. page \subseteq events /\ \A e \in page : e.run = r /\ e.id > cursor[r]
    OBVIOUS
  <2> HIDE DEF page
  <2>5. EventTypes'
    BY <2>1, <2>2, <2>4 DEF Event
  <2>6. Bus!NothingSkipped'
    BY <2>1, <2>2, <2>3, <2>4 DEF Event
  <2>7. last \in events /\ last.run = r /\ last.id \in Nat /\ last.id > cursor[r]
    BY <2>4 DEF Event
  <2>8. /\ cursor'[r] = last.id
        /\ \A q \in Channels : q # r => cursor'[q] = cursor[q]
    BY <2>1
  <2>9. ASSUME NEW q \in Channels
        PROVE  /\ cursor'[q] =< lastId
               /\ writing[q] = "open" => cursor'[q] < entry[q].id
    BY <2>7, <2>8
  <2>10. Bus!NewestKept'
    BY <2>2
  <2> HIDE DEF Bus!NothingSkipped, Bus!NewestKept
  <2> QED
    BY <2>2, <2>5, <2>6, <2>9, <2>10
<1>7. ASSUME NEW r \in Channels, Bus!DropChannel(r) PROVE EventInv'
  <2>1. Bus!IsFiniteSet(events')
    BY <1>7, SameEvents, FS_Subset DEF Bus!DropChannel
  <2> QED
    BY <1>7, <2>1 DEF Bus!DropChannel, Event
<1>8. CASE UNCHANGED eventVars
  BY <1>8 DEF eventVars
<1> QED
  BY <1>1, <1>2, <1>3, <1>4, <1>5, <1>6, <1>7, <1>8 DEF Bus!Next

-----------------------------------------------------------------------------
(***************************************************************************)
(* Memories.  What is in force and yet closed was brought back by an       *)
(* approval that the closing overtook; no candidate is closed, and what is *)
(* being proposed is not known to anybody else, so a decision that begins  *)
(* is about a memory that is not closed.                                   *)
(***************************************************************************)
Uid == Nat \union {Nobody}
Memo == [status : {"PENDING", "CONFLICTED", "ACTIVE", "TOMBSTONED"}, against : Uid]
DeedSteps == {"idle", "propose", "next", "supersede", "replace", "activate", "reject"}
Deed == [step : DeedSteps, uid : Uid, against : Uid, rest : SUBSET Nat, replacing : BOOLEAN]

\* What a thread is at is a memory that has a uid.
AtOne(t) ==
  /\ doing[t].uid \in 1 .. issued \union {Nobody}
  /\ doing[t].step \notin {"idle", "next"} => doing[t].uid # Nobody
  /\ doing[t].step = "replace" => doing[t].against \in 1 .. issued

MemoryTypes ==
  /\ issued \in Nat /\ items \in [DOMAIN items -> Memo] /\ DOMAIN items \subseteq 1 .. issued
  /\ doing \in [Threads -> Deed] /\ closed \subseteq 1 .. issued
  /\ \A t \in Threads : AtOne(t)

InForceSoundly ==
  \A u \in DOMAIN items :
    /\ items[u].status = "ACTIVE" => u \in approved /\ (u \in closed => u \in revived)
    /\ items[u].status \in Recall!Candidate => u \notin closed

\* What t does with its memory: it knows nothing of a closing that overtook it, and
\* a proposal is its own.
Aware(t) ==
  /\ doing[t].uid \in closed /\ doing[t].step \in {"supersede", "replace", "activate"} => t \in overtaken
  /\ doing[t].step = "propose" =>
       /\ doing[t].uid \notin closed /\ doing[t].uid \notin DOMAIN items
       /\ \A s \in Threads \ {t} :
            /\ doing[s].uid # doing[t].uid
            /\ doing[s].step = "replace" => doing[s].against # doing[t].uid

MemoryInv == MemoryTypes /\ InForceSoundly /\ \A t \in Threads : Aware(t)

\* The initial states of the memory satisfy its invariant.
LEMMA MemoryInit == Recall!Init => MemoryInv
BY MemoryAssumption DEF Recall!Init, MemoryInv, MemoryTypes, AtOne, InForceSoundly, Aware, Memo, Deed,
  DeedSteps, Uid, Recall!Idle

\* A row is saved: its status tells what it must satisfy.
LEMMA Saves ==
  ASSUME MemoryTypes, InForceSoundly, NEW u \in 1 .. issued, NEW st, NEW against,
         Recall!Save(u, st, against), Recall!Row(st, against) \in Memo, UNCHANGED issued,
         approved \subseteq approved',
         \A v \in DOMAIN items \ {u} : (v \in closed' <=> v \in closed) /\ (v \in revived => v \in revived'),
         st = "ACTIVE" => u \in approved' /\ (u \in closed' => u \in revived'),
         st \in Recall!Candidate => u \notin closed'
  PROVE  /\ items' \in [DOMAIN items' -> Memo] /\ DOMAIN items' = DOMAIN items \union {u}
         /\ DOMAIN items' \subseteq 1 .. issued' /\ InForceSoundly'
BY DEF MemoryTypes, InForceSoundly, Memo, Recall!Save, Recall!Saved, Recall!Row, Recall!Candidate

\* A thread goes on with its deed, from one step to another.
LEMMA Does ==
  ASSUME MemoryTypes, NEW t \in Threads, NEW label \in DeedSteps, NEW u \in Uid, NEW against \in Uid,
         Recall!Do(t, label, u, against)
  PROVE  /\ doing' \in [Threads -> Deed] /\ doing'[t].uid = u /\ doing'[t].step = label
         /\ doing'[t].against = against
         /\ \A s \in Threads \ {t} : doing'[s] = doing[s]
<1>1. doing[t] \in Deed
  BY DEF MemoryTypes
<1>2. PICK deed : deed = [doing[t] EXCEPT !.step = label, !.uid = u, !.against = against]
  OBVIOUS
<1>3. deed \in Deed /\ deed.uid = u /\ deed.step = label /\ deed.against = against
  BY <1>1, <1>2 DEF Deed
<1>4. doing' = [doing EXCEPT ![t] = deed]
  BY <1>1, <1>2 DEF Recall!Do, MemoryTypes, Deed
<1> QED
  BY <1>3, <1>4 DEF MemoryTypes

\* Who looks on while t takes a step and us are closed, knows as much as before: a closing
\* overtakes every approval of what it closes, and what is proposed stays the proposer's.
LEMMA Onlookers ==
  ASSUME MemoryInv, NEW t \in Threads, NEW us, \A s \in Threads \ {t} : doing'[s] = doing[s],
         closed' = closed \union us, overtaken \ {t} \subseteq overtaken',
         \A s \in Threads \ {t}, u \in us : Recall!Approves(s, u) => s \in overtaken',
         \A s \in Threads \ {t} : doing[s].step = "propose" =>
           /\ doing[s].uid \notin us /\ doing[s].uid \notin DOMAIN items' /\ doing'[t].uid # doing[s].uid
           /\ doing'[t].step = "replace" => doing'[t].against # doing[s].uid
  PROVE  \A s \in Threads \ {t} : Aware(s)'
<1> SUFFICES ASSUME NEW s \in Threads \ {t} PROVE Aware(s)'
  OBVIOUS
<1>1. ASSUME doing[s].uid \in closed', doing[s].step \in {"supersede", "replace", "activate"}
      PROVE  s \in overtaken'
  BY <1>1 DEF MemoryInv, Aware, Recall!Approves
<1>2. ASSUME doing[s].step = "propose"
      PROVE  /\ doing[s].uid \notin closed' /\ doing[s].uid \notin DOMAIN items'
             /\ \A r \in Threads \ {s} :
                  /\ doing'[r].uid # doing[s].uid
                  /\ doing'[r].step = "replace" => doing'[r].against # doing[s].uid
  <2>1. doing[s].uid \notin closed' /\ doing[s].uid \notin DOMAIN items'
    BY <1>2 DEF MemoryInv, Aware
  <2>2. ASSUME NEW r \in Threads \ {s}
        PROVE  /\ doing'[r].uid # doing[s].uid
               /\ doing'[r].step = "replace" => doing'[r].against # doing[s].uid
    BY <1>2, <2>2 DEF MemoryInv, Aware
  <2> QED
    BY <2>1, <2>2
<1> QED
  BY <1>1, <1>2 DEF Aware

\* Every step of the memory keeps its invariant.
LEMMA MemoryStep == MemoryInv /\ [Recall!Next]_memoryVars => MemoryInv'
<1> SUFFICES ASSUME MemoryInv, [Recall!Next]_memoryVars PROVE MemoryInv'
  OBVIOUS
<1> USE MemoryAssumption
<1>a. Recall!Idle \in Deed /\ Recall!Idle.uid = Nobody /\ Recall!Idle.step = "idle"
  BY DEF Recall!Idle, Deed, DeedSteps, Uid
<1>b. \A u : Recall!Decidable(u) => u \in DOMAIN items /\ u \in 1 .. issued /\ u \notin closed
  BY DEF Recall!Decidable, Recall!Status, Recall!Candidate, MemoryInv, MemoryTypes, InForceSoundly
<1>c. \A u \in DOMAIN items, r \in SUBSET Nat, b \in BOOLEAN :
        /\ Recall!Approving(u, b, r) \in Deed /\ Recall!Approving(u, b, r).uid = u
        /\ Recall!Approving(u, b, r).step \in {"supersede", "activate"}
  BY DEF Recall!Approving, Deed, DeedSteps, Uid, MemoryInv, MemoryTypes, Memo
<1>d. /\ MemoryTypes /\ InForceSoundly
      /\ \A t \in Threads : AtOne(t) /\ Aware(t) /\ doing[t] \in Deed
  BY DEF MemoryInv, MemoryTypes
\* Whose step it is has a deed of the right kind afterwards, and the others keep theirs.
<1>e. ASSUME NEW t \in Threads, doing' \in [Threads -> Deed], AtOne(t)', UNCHANGED issued,
             \A s \in Threads \ {t} : doing'[s] = doing[s],
             items' \in [DOMAIN items' -> Memo], DOMAIN items' \subseteq 1 .. issued', closed' \subseteq 1 .. issued
      PROVE  MemoryTypes'
  <2>1. \A s \in Threads \ {t} : AtOne(s)'
    BY <1>d, <1>e DEF AtOne
  <2> QED
    BY <1>d, <1>e, <2>1 DEF MemoryTypes
\* A thread stops, and nothing is closed.
<1>f. ASSUME NEW t \in Threads, doing' = [doing EXCEPT ![t] = Recall!Idle], UNCHANGED <<issued, closed>>,
             overtaken \ {t} \subseteq overtaken',
             items' \in [DOMAIN items' -> Memo], DOMAIN items' \subseteq 1 .. issued',
             \A s \in Threads \ {t} : doing[s].step = "propose" => doing[s].uid \notin DOMAIN items'
      PROVE  MemoryTypes' /\ \A s \in Threads : Aware(s)'
  <2>1. doing' \in [Threads -> Deed] /\ doing'[t] = Recall!Idle /\ \A s \in Threads \ {t} : doing'[s] = doing[s]
    BY <1>a, <1>d, <1>f DEF MemoryTypes
  <2>2. AtOne(t)' /\ Aware(t)'
    BY <1>a, <2>1 DEF AtOne, Aware
  <2>3. closed' = closed \union {}
    BY <1>f
  <2>4. \A s \in Threads \ {t} : Aware(s)'
    <3>1. \A s \in Threads \ {t} : doing[s].step = "propose" =>
            /\ doing[s].uid \notin {} /\ doing[s].uid \notin DOMAIN items' /\ doing'[t].uid # doing[s].uid
            /\ doing'[t].step = "replace" => doing'[t].against # doing[s].uid
      BY <1>a, <1>d, <1>f, <2>1 DEF AtOne
    <3> QED
      BY <1>f, <2>1, <2>3, <3>1, Onlookers
  <2>5. closed' \subseteq 1 .. issued
    BY <1>d, <1>f DEF MemoryTypes
  <2> QED
    BY <1>e, <1>f, <2>1, <2>2, <2>4, <2>5
\* A decision that begins or goes on, when no row changes, is about a candidate or what it
\* has been about, and the old row that it is to replace has been found.
<1>g. ASSUME NEW t \in Threads, NEW deed \in Deed, doing' = [doing EXCEPT ![t] = deed],
             UNCHANGED <<items, issued, expired, approved, closed, overtaken, revived>>,
             deed.step # "propose", deed.step \notin {"idle", "next"} => deed.uid # Nobody,
             deed.step = "replace" => deed.against \in DOMAIN items,
             \/ deed.uid = Nobody \/ Recall!Decidable(deed.uid)
             \/ deed.uid = doing[t].uid /\ doing[t].step \in {"supersede", "next"}
                  /\ (doing[t].step = "next" => deed.step = "next")
      PROVE  MemoryInv'
  <2>1. doing' \in [Threads -> Deed] /\ doing'[t] = deed /\ \A s \in Threads \ {t} : doing'[s] = doing[s]
    BY <1>d, <1>g DEF MemoryTypes
  <2>2. deed.uid \in 1 .. issued \union {Nobody} /\ (deed.step = "replace" => deed.against \in 1 .. issued)
    BY <1>b, <1>d, <1>g DEF AtOne, MemoryTypes
  <2>3. AtOne(t)' /\ Aware(t)'
    <3>1. AtOne(t)'
      BY <1>g, <2>1, <2>2 DEF AtOne
    <3>2. deed.uid \in closed /\ deed.step \in {"supersede", "replace", "activate"} => t \in overtaken
      BY <1>b, <1>d, <1>g DEF Aware, MemoryTypes
    <3> QED
      BY <1>g, <2>1, <3>1, <3>2 DEF Aware
  <2>4. \A s \in Threads \ {t} : doing[s].step = "propose" =>
            /\ doing[s].uid \notin {} /\ doing[s].uid \notin DOMAIN items' /\ doing'[t].uid # doing[s].uid
            /\ doing'[t].step = "replace" => doing'[t].against # doing[s].uid
    <3> SUFFICES ASSUME NEW s \in Threads \ {t}, doing[s].step = "propose"
                 PROVE  /\ doing[s].uid \notin DOMAIN items /\ deed.uid # doing[s].uid
                        /\ deed.step = "replace" => deed.against # doing[s].uid
      BY <1>g, <2>1
    <3>1. doing[s].uid \notin DOMAIN items /\ doing[t].uid # doing[s].uid /\ doing[s].uid # Nobody
      BY <1>d DEF Aware, AtOne
    <3> QED
      BY <1>b, <1>g, <3>1
  <2>5. \A s \in Threads \ {t} : Aware(s)'
    <3>1. closed' = closed \union {} /\ overtaken \ {t} \subseteq overtaken'
      BY <1>g
    <3> QED
      BY <2>1, <2>4, <3>1, Onlookers
  <2>6. MemoryTypes'
    BY <1>d, <1>e, <1>g, <2>1, <2>3 DEF MemoryTypes
  <2>7. InForceSoundly'
    BY <1>d, <1>g DEF InForceSoundly
  <2> QED
    BY <2>3, <2>5, <2>6, <2>7 DEF MemoryInv
<1>1. ASSUME NEW t \in Threads, Recall!Propose(t) PROVE MemoryInv'
  <2>1. PICK against : /\ Recall!Do(t, "propose", issued + 1, against) /\ issued' = issued + 1
                       /\ against = Nobody \/ against \in DOMAIN items
                       /\ UNCHANGED <<items, expired, approved, closed, overtaken, revived>>
    BY <1>1 DEF Recall!Propose, Recall!Status, Recall!ghosts
  <2>2. /\ doing' \in [Threads -> Deed] /\ doing'[t].uid = issued + 1 /\ doing'[t].step = "propose"
        /\ \A s \in Threads \ {t} : doing'[s] = doing[s]
    <3>1. issued + 1 \in Uid /\ against \in Uid /\ "propose" \in DeedSteps
      BY <1>d, <2>1 DEF MemoryTypes, Uid, DeedSteps
    <3> QED
      BY <1>d, <2>1, <3>1, Does
  <2>3. \A s \in Threads : AtOne(s)'
    <3>1. AtOne(t)'
      BY <1>d, <2>1, <2>2 DEF AtOne, MemoryTypes
    <3>2. \A s \in Threads \ {t} : AtOne(s)'
      BY <1>d, <2>1, <2>2 DEF AtOne, MemoryTypes
    <3> QED
      BY <3>1, <3>2
  <2>4. MemoryTypes' /\ InForceSoundly'
    BY <1>d, <2>1, <2>2, <2>3 DEF MemoryTypes, InForceSoundly
  <2>5. Aware(t)'
    BY <1>d, <2>1, <2>2 DEF Aware, AtOne, MemoryTypes
  <2>6. \A s \in Threads \ {t} : Aware(s)'
    <3>1. closed' = closed \union {} /\ overtaken \ {t} \subseteq overtaken'
      BY <2>1
    <3>2. \A s \in Threads \ {t} : doing[s].step = "propose" =>
            /\ doing[s].uid \notin {} /\ doing[s].uid \notin DOMAIN items' /\ doing'[t].uid # doing[s].uid
            /\ doing'[t].step = "replace" => doing'[t].against # doing[s].uid
      BY <1>d, <2>1, <2>2 DEF Aware, AtOne, MemoryTypes
    <3> QED
      BY <2>2, <3>1, <3>2, Onlookers
  <2> QED
    BY <2>4, <2>5, <2>6 DEF MemoryInv
<1>2. ASSUME NEW t \in Threads, Recall!SaveProposal(t) PROVE MemoryInv'
  <2> DEFINE st == IF doing[t].against = Nobody THEN "PENDING" ELSE "CONFLICTED"
             u == doing[t].uid
  <2>1. /\ Recall!Save(u, st, doing[t].against) /\ doing' = [doing EXCEPT ![t] = Recall!Idle]
        /\ UNCHANGED <<issued, expired, approved, closed, overtaken, revived>> /\ doing[t].step = "propose"
    BY <1>2 DEF Recall!SaveProposal, Recall!Stop, Recall!ghosts
  <2>2. u \in 1 .. issued /\ u \notin closed /\ Recall!Row(st, doing[t].against) \in Memo
    BY <1>d, <2>1 DEF AtOne, Aware, Recall!Row, Memo, Deed
  <2>3. /\ items' \in [DOMAIN items' -> Memo] /\ DOMAIN items' = DOMAIN items \union {u}
        /\ DOMAIN items' \subseteq 1 .. issued' /\ InForceSoundly'
    <3>1. st # "ACTIVE" /\ st \in Recall!Candidate
      BY DEF Recall!Candidate
    <3> HIDE DEF st, u
    <3> QED
      BY <1>d, <2>1, <2>2, <3>1, Saves
  <2>4. \A s \in Threads \ {t} : doing[s].step = "propose" => doing[s].uid \notin DOMAIN items'
    BY <1>d, <2>3 DEF Aware
  <2> QED
    BY <1>f, <2>1, <2>3, <2>4 DEF MemoryInv
<1>3. ASSUME NEW t \in Threads, Recall!Supersede(t) PROVE MemoryInv'
  <2>1. PICK label, against :
          /\ \/ label = "activate" /\ against = Nobody
             \/ label = "replace" /\ against = doing[t].against /\ against \in DOMAIN items
          /\ Recall!Do(t, label, doing[t].uid, against) /\ doing[t].step = "supersede"
          /\ UNCHANGED <<items, issued, expired, approved, closed, overtaken, revived>>
    BY <1>3 DEF Recall!Supersede, Recall!Status, Recall!ghosts
  <2>2. PICK deed : deed = [doing[t] EXCEPT !.step = label, !.uid = doing[t].uid, !.against = against]
    OBVIOUS
  <2>3. label \in DeedSteps /\ against \in Uid /\ doing[t].uid \in Uid
    BY <1>d, <2>1 DEF DeedSteps, Uid, Deed, MemoryTypes
  <2>4. /\ deed \in Deed /\ deed.step = label /\ deed.uid = doing[t].uid /\ deed.against = against
        /\ doing' = [doing EXCEPT ![t] = deed]
    BY <1>d, <2>1, <2>2, <2>3 DEF Deed, Recall!Do
  <2>5. doing[t].uid # Nobody
    BY <1>d, <2>1 DEF AtOne
  <2> QED
    BY <1>g, <2>1, <2>4, <2>5
<1>4. ASSUME NEW t \in Threads, Recall!SaveSuperseded(t) PROVE MemoryInv'
  <2> DEFINE old == doing[t].against
  <2>1. /\ Recall!Save(old, "TOMBSTONED", Nobody) /\ Recall!Do(t, "activate", doing[t].uid, Nobody)
        /\ Recall!Close({old}) /\ UNCHANGED <<issued, expired>> /\ doing[t].step = "replace"
    BY <1>4 DEF Recall!SaveSuperseded
  <2>2. /\ closed' = closed \union {old} /\ revived' = revived \ {old} /\ UNCHANGED approved
        /\ overtaken' = overtaken \union {s \in Threads : \E u \in {old} : Recall!Approves(s, u)}
    BY <2>1 DEF Recall!Close
  <2>3. old \in 1 .. issued /\ Recall!Row("TOMBSTONED", Nobody) \in Memo
    BY <1>d, <2>1 DEF AtOne, Recall!Row, Memo, Uid
  <2>4. /\ items' \in [DOMAIN items' -> Memo] /\ DOMAIN items' = DOMAIN items \union {old}
        /\ DOMAIN items' \subseteq 1 .. issued' /\ InForceSoundly'
    <3>1. "TOMBSTONED" # "ACTIVE" /\ "TOMBSTONED" \notin Recall!Candidate
      BY DEF Recall!Candidate
    <3> HIDE DEF old
    <3> QED
      BY <1>d, <2>1, <2>2, <2>3, <3>1, Saves
  <2>5. /\ doing' \in [Threads -> Deed] /\ doing'[t].uid = doing[t].uid /\ doing'[t].step = "activate"
        /\ \A s \in Threads \ {t} : doing'[s] = doing[s]
    <3>1. doing[t].uid \in Uid /\ Nobody \in Uid /\ "activate" \in DeedSteps
      BY <1>d DEF DeedSteps, Uid, Deed
    <3> QED
      BY <1>d, <2>1, <3>1, Does
  <2>6. AtOne(t)' /\ Aware(t)'
    <3>1. AtOne(t)'
      BY <1>d, <2>1, <2>5 DEF AtOne
    <3>2. doing[t].uid \in closed' => t \in overtaken'
      BY <1>d, <2>1, <2>2 DEF Aware, Recall!Approves
    <3> QED
      BY <2>5, <3>1, <3>2 DEF Aware
  <2>7. \A s \in Threads \ {t} : Aware(s)'
    <3>1. \A s \in Threads \ {t} : doing[s].step = "propose" =>
            /\ doing[s].uid \notin {old} /\ doing[s].uid \notin DOMAIN items' /\ doing'[t].uid # doing[s].uid
            /\ doing'[t].step = "replace" => doing'[t].against # doing[s].uid
      BY <1>d, <2>1, <2>4, <2>5 DEF Aware
    <3> QED
      BY <2>2, <2>5, <3>1, Onlookers
  <2>8. closed' \subseteq 1 .. issued
    BY <1>d, <2>2, <2>3 DEF MemoryTypes
  <2> QED
    BY <1>e, <2>1, <2>4, <2>5, <2>6, <2>7, <2>8 DEF MemoryInv
<1>5. ASSUME NEW t \in Threads, Recall!Activate(t) PROVE MemoryInv'
  <2>1. PICK u : u = doing[t].uid
    OBVIOUS
  <2>2. /\ Recall!Save(u, "ACTIVE", Nobody) /\ approved' = approved \union {u} /\ Recall!Through(t)
        /\ revived' = (IF t \in overtaken THEN revived \union {u} ELSE revived) /\ overtaken' = overtaken \ {t}
        /\ UNCHANGED <<issued, expired, closed>> /\ doing[t].step = "activate"
    BY <1>5, <2>1 DEF Recall!Activate
  <2>3. u \in 1 .. issued /\ Recall!Row("ACTIVE", Nobody) \in Memo /\ (u \in closed' => u \in revived')
    BY <1>d, <2>1, <2>2 DEF AtOne, Aware, Recall!Row, Memo, Uid
  <2>4. /\ items' \in [DOMAIN items' -> Memo] /\ DOMAIN items' = DOMAIN items \union {u}
        /\ DOMAIN items' \subseteq 1 .. issued' /\ InForceSoundly'
    <3>1. "ACTIVE" \notin Recall!Candidate
      BY DEF Recall!Candidate
    <3> QED
      BY <1>d, <2>2, <2>3, <3>1, Saves
  <2>5. /\ doing' \in [Threads -> Deed] /\ doing'[t].uid = Nobody /\ doing'[t].step \in {"idle", "next"}
        /\ \A s \in Threads \ {t} : doing'[s] = doing[s]
    <3>1. CASE doing[t].rest = {}
      BY <1>a, <1>d, <2>2, <3>1 DEF Recall!Through, Recall!Stop, MemoryTypes
    <3>2. CASE doing[t].rest # {}
      <4>1. Recall!Do(t, "next", Nobody, Nobody) /\ Nobody \in Uid /\ "next" \in DeedSteps
        BY <2>2, <3>2 DEF Recall!Through, Uid, DeedSteps
      <4> QED
        BY <1>d, <4>1, Does
    <3> QED
      BY <3>1, <3>2
  <2>6. AtOne(t)' /\ Aware(t)'
    BY <2>5 DEF AtOne, Aware
  <2>7. \A s \in Threads \ {t} : Aware(s)'
    <3>1. closed' = closed \union {} /\ overtaken \ {t} \subseteq overtaken'
      BY <2>2
    <3>2. \A s \in Threads \ {t} : doing[s].step = "propose" =>
            /\ doing[s].uid \notin {} /\ doing[s].uid \notin DOMAIN items' /\ doing'[t].uid # doing[s].uid
            /\ doing'[t].step = "replace" => doing'[t].against # doing[s].uid
      BY <1>d, <2>1, <2>4, <2>5 DEF Aware, AtOne
    <3> QED
      BY <2>5, <3>1, <3>2, Onlookers
  <2>8. closed' \subseteq 1 .. issued
    BY <1>d, <2>2 DEF MemoryTypes
  <2> QED
    BY <1>e, <2>2, <2>4, <2>5, <2>6, <2>7, <2>8 DEF MemoryInv
<1>6. ASSUME NEW t \in Threads, Recall!SaveRejected(t) PROVE MemoryInv'
  <2> DEFINE u == doing[t].uid
  <2>1. /\ Recall!Save(u, "TOMBSTONED", doing[t].against) /\ doing' = [doing EXCEPT ![t] = Recall!Idle]
        /\ Recall!Close({u}) /\ UNCHANGED <<issued, expired>> /\ doing[t].step = "reject"
    BY <1>6 DEF Recall!SaveRejected, Recall!Stop
  <2>2. /\ closed' = closed \union {u} /\ revived' = revived \ {u} /\ UNCHANGED approved
        /\ overtaken' = overtaken \union {s \in Threads : \E v \in {u} : Recall!Approves(s, v)}
    BY <2>1 DEF Recall!Close
  <2>3. u \in 1 .. issued /\ Recall!Row("TOMBSTONED", doing[t].against) \in Memo
    BY <1>d, <2>1 DEF AtOne, Recall!Row, Memo, Deed
  <2>4. /\ items' \in [DOMAIN items' -> Memo] /\ DOMAIN items' = DOMAIN items \union {u}
        /\ DOMAIN items' \subseteq 1 .. issued' /\ InForceSoundly'
    <3>1. "TOMBSTONED" # "ACTIVE" /\ "TOMBSTONED" \notin Recall!Candidate
      BY DEF Recall!Candidate
    <3> HIDE DEF u
    <3> QED
      BY <1>d, <2>1, <2>2, <2>3, <3>1, Saves
  <2>5. doing' \in [Threads -> Deed] /\ doing'[t] = Recall!Idle /\ \A s \in Threads \ {t} : doing'[s] = doing[s]
    BY <1>a, <1>d, <2>1 DEF MemoryTypes
  <2>6. AtOne(t)' /\ Aware(t)'
    BY <1>a, <2>5 DEF AtOne, Aware
  <2>7. \A s \in Threads \ {t} : Aware(s)'
    <3>1. \A s \in Threads \ {t} : doing[s].step = "propose" =>
            /\ doing[s].uid \notin {u} /\ doing[s].uid \notin DOMAIN items' /\ doing'[t].uid # doing[s].uid
            /\ doing'[t].step = "replace" => doing'[t].against # doing[s].uid
      BY <1>a, <1>d, <2>1, <2>4, <2>5 DEF Aware, AtOne
    <3> QED
      BY <2>2, <2>5, <3>1, Onlookers
  <2>8. closed' \subseteq 1 .. issued
    BY <1>d, <2>2, <2>3 DEF MemoryTypes
  <2> QED
    BY <1>e, <2>1, <2>4, <2>5, <2>6, <2>7, <2>8 DEF MemoryInv
<1>7. ASSUME NEW t \in Threads, Recall!Crash(t) PROVE MemoryInv'
  <2>1. doing' = [doing EXCEPT ![t] = Recall!Idle] /\ overtaken' = overtaken \ {t}
        /\ UNCHANGED <<items, issued, expired, approved, closed, revived>>
    BY <1>7 DEF Recall!Crash, Recall!Stop
  <2>2. InForceSoundly' /\ \A s \in Threads \ {t} : doing[s].step = "propose" => doing[s].uid \notin DOMAIN items'
    BY <1>d, <2>1 DEF InForceSoundly, Aware
  <2> QED
    BY <1>d, <1>f, <2>1, <2>2 DEF MemoryInv, MemoryTypes
<1>8. ASSUME NEW t \in Threads, Recall!ConfirmNext(t) PROVE MemoryInv'
  <2>1. PICK u, left : u = Recall!Max(doing[t].rest) /\ left = doing[t].rest \ {u}
    OBVIOUS
  <2>2. /\ doing' = [doing EXCEPT ![t] = CASE Recall!Decidable(u) -> Recall!Approving(u, doing[t].replacing, left)
                                           [] ~Recall!Decidable(u) /\ left = {} -> Recall!Idle
                                           [] OTHER -> [doing[t] EXCEPT !.rest = left]]
        /\ UNCHANGED <<items, issued, expired, approved, closed, overtaken, revived>> /\ doing[t].step = "next"
    BY <1>8, <2>1 DEF Recall!ConfirmNext, Recall!ghosts
  <2>3. left \in SUBSET Nat /\ doing[t].replacing \in BOOLEAN
    BY <1>d, <2>1 DEF Deed
  <2>4. CASE Recall!Decidable(u)
    <3>1. PICK deed : deed = Recall!Approving(u, doing[t].replacing, left)
      OBVIOUS
    <3>2. deed \in Deed /\ deed.uid = u /\ u # Nobody /\ deed.step \in {"supersede", "activate"}
          /\ doing' = [doing EXCEPT ![t] = deed]
      BY <1>b, <1>c, <2>2, <2>3, <2>4, <3>1
    <3> QED
      BY <1>g, <2>2, <2>4, <3>2
  <2>5. CASE ~Recall!Decidable(u)
    <3>1. PICK deed : doing' = [doing EXCEPT ![t] = deed] /\ deed \in {Recall!Idle, [doing[t] EXCEPT !.rest = left]}
      BY <2>2, <2>5
    <3>2. /\ deed \in Deed /\ deed.step \in {"idle", "next"} /\ deed.uid \in {Nobody, doing[t].uid}
          /\ deed.uid = Nobody \/ deed.step = "next"
      BY <1>a, <1>d, <2>2, <2>3, <3>1 DEF Deed
    <3> QED
      BY <1>g, <2>2, <3>1, <3>2
  <2> QED
    BY <2>4, <2>5
<1>9. ASSUME NEW t \in Threads, NEW replacing \in BOOLEAN, Recall!confirm(t, replacing) PROVE MemoryInv'
  <2>1. PICK listed, deed :
          /\ listed = {u \in DOMAIN items : Recall!Decidable(u)} /\ doing' = [doing EXCEPT ![t] = deed]
          /\ deed = [Recall!Idle EXCEPT !.step = "next", !.rest = listed, !.replacing = replacing]
          /\ UNCHANGED <<items, issued, expired, approved, closed, overtaken, revived>>
    BY <1>9 DEF Recall!confirm, Recall!ghosts
  <2>2. listed \in SUBSET Nat
    BY <1>d, <2>1 DEF MemoryTypes
  <2>3. deed \in Deed /\ deed.uid = Nobody /\ deed.step = "next"
    BY <2>1, <2>2 DEF Recall!Idle, Deed, DeedSteps, Uid
  <2> QED
    BY <1>g, <2>1, <2>3
<1>10. ASSUME NEW t \in Threads, NEW replacing \in BOOLEAN, NEW u \in DOMAIN items,
              Recall!Confirm(t, u, replacing) PROVE MemoryInv'
  <2>1. PICK deed : deed = Recall!Approving(u, replacing, {})
    OBVIOUS
  <2>2. deed \in Deed /\ deed.uid = u /\ u # Nobody /\ deed.step \in {"supersede", "activate"}
        /\ Recall!Decidable(u) /\ doing' = [doing EXCEPT ![t] = deed]
        /\ UNCHANGED <<items, issued, expired, approved, closed, overtaken, revived>>
    BY <1>10, <1>b, <1>c, <2>1 DEF Recall!Confirm, Recall!ghosts
  <2> QED
    BY <1>g, <2>2
<1>11. ASSUME NEW t \in Threads, NEW u \in DOMAIN items, Recall!Reject(t, u) PROVE MemoryInv'
  <2>1. PICK against :
          /\ Recall!Decidable(u) /\ u \in 1 .. issued /\ against \in Uid
          /\ Recall!Do(t, "reject", u, against)
          /\ UNCHANGED <<items, issued, expired, approved, closed, overtaken, revived>>
    BY <1>11, <1>b, <1>d DEF Recall!Reject, MemoryTypes, Memo, Recall!ghosts
  <2>2. PICK deed : deed = [doing[t] EXCEPT !.step = "reject", !.uid = u, !.against = against]
    OBVIOUS
  <2>3. /\ deed \in Deed /\ deed.step = "reject" /\ deed.uid = u /\ u # Nobody
        /\ doing' = [doing EXCEPT ![t] = deed]
    <3>1. u \in Uid /\ "reject" \in DeedSteps /\ u # Nobody
      BY <2>1 DEF Uid, DeedSteps
    <3>2. doing[t] \in Deed
      BY <1>d
    <3> QED
      BY <2>1, <2>2, <3>1, <3>2 DEF Deed, Recall!Do
  <2> QED
    BY <1>g, <2>1, <2>3
<1>12. ASSUME NEW u \in DOMAIN items, Recall!Expire(u) PROVE MemoryInv'
  BY <1>12 DEF Recall!Expire, Recall!ghosts, MemoryInv, MemoryTypes, AtOne, InForceSoundly, Aware
<1>13. CASE Recall!Purge
  <2>1. PICK gone \in SUBSET DOMAIN items :
          /\ items' = [u \in DOMAIN items \ gone |-> items[u]]
          /\ closed' = closed \union gone /\ revived' = revived \ gone /\ UNCHANGED approved
          /\ overtaken' = overtaken \union {t \in Threads : \E u \in gone : Recall!Approves(t, u)}
          /\ UNCHANGED <<issued, doing, expired>>
    BY <1>13 DEF Recall!Purge, Recall!Close
  <2>2. MemoryTypes'
    BY <1>d, <2>1 DEF MemoryTypes, AtOne
  <2>3. InForceSoundly'
    BY <1>d, <2>1 DEF InForceSoundly, MemoryTypes
  <2>4. ASSUME NEW t \in Threads PROVE Aware(t)'
    <3>1. doing[t].uid \in closed' /\ doing[t].step \in {"supersede", "replace", "activate"} => t \in overtaken'
      BY <1>d, <2>1 DEF Aware, Recall!Approves
    <3>2. doing[t].step = "propose" => doing[t].uid \notin closed' /\ doing[t].uid \notin DOMAIN items'
      BY <1>d, <2>1 DEF Aware
    <3> QED
      BY <1>d, <2>1, <3>1, <3>2 DEF Aware
  <2> QED
    BY <2>2, <2>3, <2>4 DEF MemoryInv
<1>14. CASE UNCHANGED memoryVars
  BY <1>14 DEF memoryVars, MemoryInv, MemoryTypes, AtOne, InForceSoundly, Aware
<1> QED
  BY <1>1, <1>2, <1>3, <1>4, <1>5, <1>6, <1>7, <1>8, <1>9, <1>10, <1>11, <1>12, <1>13, <1>14 DEF Recall!Next

\* The invariant of the memory implies the properties stated of it.
LEMMA MemoryTold == MemoryInv => Recall!RefusedStaysOut
BY MemoryAssumption DEF MemoryInv, MemoryTypes, InForceSoundly, Recall!RefusedStaysOut, Recall!RecalledByText,
  Recall!RecalledByKey, Recall!Usable, Recall!Status

-----------------------------------------------------------------------------
(***************************************************************************)
(* The knowledge base, with one process over its file and sources that do  *)
(* not come back: a fingerprint of the source stands only over all of its  *)
(* pieces, since an interrupted rebuild leaves that of an older one.       *)
(***************************************************************************)
Piecewise(s, q) == q \in Seq({Corpus!Piece(s, i) : i \in 1 .. Pieces}) /\ \A i \in 1 .. Len(q) : q[i] = Corpus!Piece(s, i)

CorpusInv ==
  /\ source \in Sources /\ meta \in Nat /\ meta =< source
  /\ loader \in [{Indexer} -> {"off", "opened", "indexing", "serving"}]
  /\ DOMAIN config = {Indexer} /\ DOMAIN chunks = {Indexer}
  /\ meta = source => stored = Corpus!Whole(source)
  /\ loader[Indexer] # "off" => config[Indexer] = source
  /\ loader[Indexer] \in {"opened", "indexing"} => chunks[Indexer] = stored
  /\ loader[Indexer] = "indexing" => Piecewise(source, stored) /\ Len(stored) =< Pieces
  /\ loader[Indexer] = "serving" => chunks[Indexer] = Corpus!Whole(source)

\* The initial states of the corpus satisfy its invariant.
LEMMA CorpusInit == Corpus!Init => CorpusInv
BY SourceAssumption DEF Corpus!Init, CorpusInv

\* Every step of the corpus keeps its invariant.
LEMMA CorpusStep == CorpusInv /\ [Corpus!Next]_corpusVars => CorpusInv'
<1> SUFFICES ASSUME CorpusInv, [Corpus!Next]_corpusVars PROVE CorpusInv'
  OBVIOUS
<1> USE SourceAssumption DEF CorpusInv, Corpus!Goto
<1>1. ASSUME NEW s \in Sources, Corpus!Deploy(s) PROVE CorpusInv'
  BY <1>1 DEF Corpus!Deploy
<1>2. CASE Corpus!OpenStore(Indexer)
  BY <1>2 DEF Corpus!OpenStore
<1>3. CASE Corpus!Reuse(Indexer)
  BY <1>3 DEF Corpus!Reuse, Corpus!Reusable
<1>4. CASE Corpus!Reset(Indexer)
  <2>1. stored' = <<>> /\ chunks' = [chunks EXCEPT ![Indexer] = <<>>]
    BY <1>4 DEF Corpus!Reset
  <2>2. Piecewise(source, <<>>) /\ Len(<<>>) = 0
    BY DEF Piecewise
  <2>3. meta = source => stored = <<>>
    BY <1>4 DEF Corpus!Reset, Corpus!Reusable
  <2> QED
    BY <1>4, <2>1, <2>2, <2>3 DEF Corpus!Reset
<1>5. CASE Corpus!AddPiece(Indexer)
  BY <1>5 DEF Corpus!AddPiece, Piecewise, Corpus!Whole
<1>6. CASE Corpus!Finish(Indexer)
  <2>1. stored = Corpus!Whole(source)
    BY <1>6 DEF Corpus!Finish, Piecewise, Corpus!Whole
  <2> QED
    BY <1>6, <2>1 DEF Corpus!Finish
<1>7. CASE Corpus!Stop(Indexer)
  BY <1>7 DEF Corpus!Stop
<1>8. CASE UNCHANGED corpusVars
  BY <1>8 DEF corpusVars
<1> QED
  BY <1>1, <1>2, <1>3, <1>4, <1>5, <1>6, <1>7, <1>8 DEF Corpus!Next

\* The invariant of the corpus implies the properties stated of it.
LEMMA CorpusTold == CorpusInv => Corpus!ServesItsSource
BY DEF CorpusInv, Corpus!ServesItsSource

-----------------------------------------------------------------------------
(***************************************************************************)
(* The shared connection.  A thread inside a method with a block has the   *)
(* lock, and an open block is of that thread and of the connection that is *)
(* there: one that replaces it, or breaks, has none.  As long as none      *)
(* breaks, the open block has all statements of its thread so far, and     *)
(* what else falls into it are methods of one statement.                   *)
(***************************************************************************)
Labels == {"idle", "execute", "commit", "reconnect", "lock", "enter", "cursor", "statement", "exit"}
Op == [at : Labels, kind : {Nobody, "plain", "block", "block and commit"}, n : Nat, stmt : Nat,
       link : Nat, cursor : Nat, tries : Nat]

LinkTypes ==
  /\ conn \in Nat /\ alive \in BOOLEAN /\ block \in Block \union {Nobody}
  /\ guard \in Threads \union {Nobody} /\ op \in [Threads -> Op] /\ drops \in Nat

Inside(t) == op[t].at \in {"enter", "cursor", "statement", "exit"}
Open(t) == op[t].at \in {"cursor", "statement", "exit"}

\* Who has the lock, and whose block is open.
Guarded ==
  /\ \A t \in Threads : Inside(t) <=> guard = t
  /\ block # Nobody => /\ alive /\ Open(block.by) /\ op[block.by].link = conn
                       /\ op[block.by].at # "cursor" => op[block.by].cursor = conn

Counted ==
  \A t \in Threads : /\ op[t].at = "execute" => op[t].stmt = 0
                     /\ op[t].at = "statement" => op[t].stmt \in 1 .. Size

\* The statements that the open block has of its thread.
Has(t, k) == \A i \in 1 .. k : <<op[t].n, i>> \in block.writes
Complete(t) ==
  /\ block # Nobody /\ block.by = t
  /\ \A w \in block.writes : w[2] = 0 \/ w[1] = op[t].n
  /\ op[t].at = "statement" => Has(t, op[t].stmt - 1)
  /\ op[t].at = "exit" => Has(t, Size)

Steady ==
  drops = 0 =>
    /\ alive /\ \A t \in Threads : op[t].at # "reconnect" /\ (Open(t) => Complete(t))
    /\ \A w \in kept : ~Link!Torn(w)

LinkInv == LinkTypes /\ Guarded /\ Counted /\ Steady

\* The initial states of the shared connection satisfy its invariant.
LEMMA LinkInit == Link!Init => LinkInv
BY LinkAssumption DEF Link!Init, Link!Resting, LinkInv, LinkTypes, Op, Labels, Guarded, Inside,
  Counted, Steady, Open

\* A thread goes on, or is through.
LEMMA Moves ==
  ASSUME LinkTypes, NEW t \in Threads, NEW label \in Labels, Link!Goto(t, label)
  PROVE  /\ op' \in [Threads -> Op] /\ \A s \in Threads \ {t} : op'[s] = op[s]
         /\ op'[t].at = label /\ op'[t].n = op[t].n /\ op'[t].stmt = op[t].stmt
         /\ op'[t].link = op[t].link /\ op'[t].cursor = op[t].cursor
BY DEF LinkTypes, Op, Link!Goto

\* A thread that rests changes its own operation alone.
LEMMA Rests ==
  ASSUME LinkTypes, NEW t \in Threads, Link!Rest(t)
  PROVE  op' \in [Threads -> Op] /\ op'[t].at = "idle" /\ \A s \in Threads \ {t} : op'[s] = op[s]
BY DEF LinkTypes, Op, Labels, Link!Rest, Link!Resting

\* The successor of a number is one, and the numbers below it are.
LEMMA NatFacts == \A m \in Nat : m + 1 \in Nat /\ 1 .. m \subseteq Nat
OBVIOUS

\* An operation that begins is of the right type.
LEMMA Begun ==
  ASSUME NEW k \in {"plain", "block", "block and commit"}, NEW n \in Nat, NEW l \in {"execute", "lock"}
  PROVE  /\ [Link!Resting EXCEPT !.n = n, !.kind = k, !.at = l] \in Op
         /\ [Link!Resting EXCEPT !.n = n, !.kind = k, !.at = l].at = l
         /\ [Link!Resting EXCEPT !.n = n, !.kind = k, !.at = l].stmt = 0
BY DEF Link!Resting, Op, Labels

\* A method begins; a block goes on to its next statement; a method is tried again.
LEMMA Calls ==
  ASSUME LinkTypes, NEW t \in Threads, Link!Call(t)
  PROVE  /\ op' \in [Threads -> Op] /\ \A s \in Threads \ {t} : op'[s] = op[s]
         /\ op'[t].at \in {"execute", "lock"} /\ op'[t].stmt = 0
<1>1. PICK k \in {"plain", "block", "block and commit"}, n \in 1 .. MaxOps :
        op' = [op EXCEPT ![t] = [Link!Resting EXCEPT !.n = n, !.kind = k,
                                   !.at = IF k = "plain" THEN "execute" ELSE "lock"]]
  BY DEF Link!Call
<1>2. PICK l \in {"execute", "lock"} : l = (IF k = "plain" THEN "execute" ELSE "lock")
  OBVIOUS
<1>3. PICK o : o = [Link!Resting EXCEPT !.n = n, !.kind = k, !.at = l]
  OBVIOUS
<1>4. op' = [op EXCEPT ![t] = o]
  BY <1>1, <1>2, <1>3
<1>5. n \in Nat
  BY LinkAssumption, NatFacts, Zenon
<1>6. o \in Op /\ o.at \in {"execute", "lock"} /\ o.stmt = 0
  BY <1>3, <1>5, Begun
<1> QED
  BY <1>4, <1>6 DEF LinkTypes

\* A block goes on to its next statement, or to its exit.
LEMMA GoesOn ==
  ASSUME LinkTypes, NEW t \in Threads, Link!NextStatement(t), op[t].at = "statement"
  PROVE  /\ op' \in [Threads -> Op] /\ \A s \in Threads \ {t} : op'[s] = op[s]
         /\ op'[t].n = op[t].n /\ op'[t].link = op[t].link /\ op'[t].cursor = op[t].cursor
         /\ IF op[t].stmt = Size THEN op'[t].at = "exit"
            ELSE op'[t].at = "statement" /\ op'[t].stmt = op[t].stmt + 1
<1>0. op \in [Threads -> Op]
  BY DEF LinkTypes
<1>1. op[t] \in Op /\ op[t].stmt \in Nat
  BY <1>0 DEF Op
<1>2. PICK l \in Labels : l = (IF op[t].stmt = Size THEN "exit" ELSE "statement")
  BY DEF Labels
<1>3. PICK k \in Nat : k = (IF op[t].stmt = Size THEN op[t].stmt ELSE op[t].stmt + 1)
  BY <1>1, NatFacts
<1>4. PICK o : o = [op[t] EXCEPT !.at = l, !.stmt = k]
  OBVIOUS
<1>5. o \in Op /\ o.n = op[t].n /\ o.link = op[t].link /\ o.cursor = op[t].cursor
      /\ o.at = l /\ o.stmt = k
  BY <1>1, <1>4 DEF Op
<1>6. op' = [op EXCEPT ![t] = o]
  BY <1>1, <1>2, <1>3, <1>4 DEF Link!NextStatement
<1> QED
  BY <1>0, <1>2, <1>3, <1>5, <1>6

\* A thread whose connection was lost starts its operation again.
LEMMA Again ==
  ASSUME LinkTypes, NEW t \in Threads, Link!Reconnect(t)
  PROVE  /\ op' \in [Threads -> Op] /\ \A s \in Threads \ {t} : op'[s] = op[s]
         /\ op'[t].at \in {"execute", "lock"} /\ op'[t].stmt = 0
<1>0. op \in [Threads -> Op]
  BY DEF LinkTypes
<1>1. op[t] \in Op /\ op[t].tries \in Nat
  BY <1>0 DEF Op
<1>2. PICK l \in {"execute", "lock"} : l = (IF op[t].kind = "plain" THEN "execute" ELSE "lock")
  OBVIOUS
<1>3. PICK k \in Nat : k = op[t].tries + 1
  BY <1>1, NatFacts
<1>4. PICK o : o = [op[t] EXCEPT !.tries = k, !.stmt = 0, !.at = l]
  OBVIOUS
<1>5. l \in Labels /\ 0 \in Nat
  BY DEF Labels
<1>6. o \in Op /\ o.at = l /\ o.stmt = 0
  BY <1>1, <1>4, <1>5 DEF Op
<1>7. op' = [op EXCEPT ![t] = o]
  BY <1>1, <1>2, <1>3, <1>4 DEF Link!Reconnect
<1> QED
  BY <1>0, <1>2, <1>6, <1>7

\* A thread that has no block moves outside: nobody else is concerned.
LEMMA Outside ==
  ASSUME LinkInv, NEW t \in Threads, UNCHANGED <<conn, alive, block, guard, kept, drops>>,
         op' \in [Threads -> Op], \A s \in Threads \ {t} : op'[s] = op[s],
         ~Inside(t), op'[t].at \in {"idle", "execute", "commit", "lock"},
         op'[t].at = "execute" => op'[t].stmt = 0
  PROVE  LinkInv'
<1> USE DEF LinkInv
<1>1. LinkTypes' /\ Counted'
  BY DEF LinkTypes, Counted
<1>2. Guarded'
  BY LinkAssumption DEF LinkTypes, Guarded, Inside, Open, Block
<1>3. \A s \in Threads : Complete(s) /\ s # t => Complete(s)'
  BY DEF Complete, Has
<1>4. (\A w \in kept : ~Link!Torn(w)) => (\A w \in kept : ~Link!Torn(w))'
  BY DEF Link!Torn
<1>5. Steady'
  BY <1>3, <1>4 DEF Steady, Open
<1> QED
  BY <1>1, <1>2, <1>5

\* A thread gives up the connection, and its lock with it; it has no open block.
LEMMA Losing ==
  ASSUME LinkInv, NEW t \in Threads, Link!Lost(t), drops # 0, block # Nobody => block.by # t,
         UNCHANGED drops
  PROVE  LinkInv'
<1> USE DEF LinkInv
<1>1. /\ op' \in [Threads -> Op] /\ op'[t].at \in {"reconnect", "idle"}
      /\ \A s \in Threads \ {t} : op'[s] = op[s]
  <2>1. "reconnect" \in Labels
    BY DEF Labels
  <2> QED
    BY <2>1, Moves, Rests DEF Link!Lost
<1>2. UNCHANGED <<conn, alive, block, drops>> /\ guard' = IF guard = t THEN Nobody ELSE guard
  BY DEF Link!Lost, Link!Unlocked
<1>3. LinkTypes' /\ Counted'
  BY <1>1, <1>2 DEF LinkTypes, Counted
<1>4. Guarded'
  BY <1>1, <1>2, LinkAssumption DEF LinkTypes, Guarded, Inside, Open, Block
<1> QED
  BY <1>2, <1>3, <1>4 DEF Steady

\* A statement of t falls into the open block, or is committed by itself.
LEMMA Runs0 ==
  ASSUME LinkTypes, NEW t \in Threads, Link!Run(t)
  PROVE  /\ block = Nobody => block' = Nobody /\ kept' = kept \union {<<op[t].n, op[t].stmt>>}
         /\ block # Nobody => /\ block' \in Block /\ block'.by = block.by /\ block'.bad = block.bad
                              /\ block'.writes = block.writes \union {<<op[t].n, op[t].stmt>>}
                              /\ kept' = kept
<1>1. CASE block = Nobody
  BY <1>1 DEF Link!Run, Link!Write
<1>2. CASE block # Nobody
  <2>1. block \in Block /\ <<op[t].n, op[t].stmt>> \in Nat \X Nat
    BY <1>2 DEF LinkTypes, Op
  <2>2. kept' = kept /\ block' = [block EXCEPT !.writes = block.writes \union {<<op[t].n, op[t].stmt>>}]
    BY <1>2 DEF Link!Run, Link!Write
  <2> QED
    BY <1>2, <2>1, <2>2 DEF Block
<1> QED
  BY <1>1, <1>2

\* The methods of one statement.
LEMMA PlainStep ==
  ASSUME LinkInv, NEW t \in Threads, Link!Call(t) \/ Link!Execute(t) \/ Link!Commit(t)
  PROVE  LinkInv'
<1> USE DEF LinkInv
<1>n. ~Inside(t) /\ (block # Nobody => block.by # t /\ block \in Block) /\ op[t] \in Op
  BY DEF Link!Call, Link!Execute, Link!Commit, Inside, Guarded, Open, LinkTypes
<1>1. CASE Link!Call(t)
  <2>2. /\ op' \in [Threads -> Op] /\ \A s \in Threads \ {t} : op'[s] = op[s]
        /\ op'[t].at \in {"execute", "lock"} /\ op'[t].stmt = 0
    BY <1>1, Calls
  <2>3. UNCHANGED <<conn, alive, block, guard, kept, drops>>
    BY <1>1 DEF Link!Call, Link!faults
  <2> QED
    BY <1>n, <2>2, <2>3, Outside
<1>2. ASSUME Link!Lost(t), ~alive, UNCHANGED drops PROVE LinkInv'
  BY <1>2, <1>n, Losing DEF Steady
<1>3. ASSUME Link!Rest(t), UNCHANGED <<conn, alive, block, guard, kept, drops>> PROVE LinkInv'
  BY <1>3, <1>n, Rests, Outside
<1>4. CASE Link!Execute(t)
  <2>1. ASSUME Link!Run(t), Link!Goto(t, "commit"), UNCHANGED <<conn, alive, guard, drops>> PROVE LinkInv'
    <3>1. op[t].stmt = 0 /\ "commit" \in Labels
      BY <1>4 DEF Link!Execute, Counted, Labels
    <3>2. /\ op' \in [Threads -> Op] /\ \A s \in Threads \ {t} : op'[s] = op[s]
          /\ op'[t].at = "commit"
      BY <2>1, <3>1, Moves
    <3>3. LinkTypes' /\ Counted'
      BY <2>1, <3>2, Runs0 DEF LinkTypes, Counted
    <3>4. Guarded'
      BY <1>n, <2>1, <3>2, Runs0, LinkAssumption DEF Guarded, Inside, Open, Block, LinkTypes
    <3>5. \A s \in Threads \ {t} : Complete(s) => Complete(s)'
      <4> SUFFICES ASSUME NEW s \in Threads \ {t}, Complete(s) PROVE Complete(s)'
        OBVIOUS
      <4>1. block # Nobody /\ block.by = s
        BY DEF Complete
      <4>2. block' \in Block /\ block'.by = s /\ block'.writes = block.writes \union {<<op[t].n, 0>>}
        BY <2>1, <3>1, <4>1, Runs0
      <4> QED
        BY <3>2, <4>1, <4>2, LinkAssumption DEF Complete, Has
    <3>6. (\A w \in kept : ~Link!Torn(w)) => (\A w \in kept' : ~Link!Torn(w)')
      <4>1. kept' \subseteq kept \union {<<op[t].n, 0>>} /\ kept \subseteq kept'
        BY <2>1, <3>1, Runs0
      <4> QED
        BY <4>1 DEF Link!Torn
    <3>7. Steady'
      BY <1>4, <2>1, <3>2, <3>5, <3>6 DEF Steady, Open
    <3> QED
      BY <3>3, <3>4, <3>7
  <2>2. ASSUME Link!Spoil, Link!Rest(t), UNCHANGED <<conn, alive, guard, kept, drops>> PROVE LinkInv'
    <3>1. /\ block = Nobody => block' = Nobody
          /\ block # Nobody => /\ block' \in Block /\ block'.by = block.by /\ block'.writes = block.writes
      BY <2>2 DEF Link!Spoil, LinkTypes, Block
    <3>2. op' \in [Threads -> Op] /\ op'[t].at = "idle" /\ \A s \in Threads \ {t} : op'[s] = op[s]
      BY <2>2, Rests
    <3>3. LinkTypes' /\ Counted'
      BY <2>2, <3>1, <3>2 DEF LinkTypes, Counted
    <3>4. Guarded'
      BY <1>n, <2>2, <3>1, <3>2, LinkAssumption DEF Guarded, Inside, Open, Block, LinkTypes
    <3>5. \A s \in Threads \ {t} : Complete(s) => Complete(s)'
      BY <3>1, <3>2, LinkAssumption DEF Complete, Has
    <3>6. (\A w \in kept : ~Link!Torn(w)) => (\A w \in kept' : ~Link!Torn(w)')
      BY <2>2 DEF Link!Torn
    <3>7. Steady'
      BY <2>2, <3>2, <3>5, <3>6 DEF Steady, Open
    <3> QED
      BY <3>3, <3>4, <3>7
  <2>3. CASE ~alive /\ Link!Lost(t)
    BY <1>2, <2>3 DEF Link!Lost, Link!faults
  <2>4. CASE /\ alive /\ ~Link!Spoilt /\ Link!Run(t) /\ Link!Goto(t, "commit")
             /\ UNCHANGED <<conn, alive, guard, done, misled, Link!faults>>
    BY <2>1, <2>4 DEF Link!faults
  <2>5. CASE /\ alive /\ Link!Spoilt /\ Link!Rest(t) /\ misled' = misled \cup {op[t].n}
             /\ UNCHANGED <<conn, alive, block, guard, kept, done, Link!faults>>
    BY <1>3, <2>5 DEF Link!faults
  <2>6. CASE /\ alive /\ ~Link!Spoilt /\ Link!Fails /\ Link!Spoil /\ Link!Rest(t)
             /\ UNCHANGED <<conn, alive, guard, kept, done, misled>>
    BY <2>2, <2>6 DEF Link!Fails
  <2> QED
    BY <1>4, <2>3, <2>4, <2>5, <2>6 DEF Link!Execute
<1>5. CASE Link!Commit(t)
  <2>1. CASE ~alive /\ Link!Lost(t)
    BY <1>2, <2>1 DEF Link!Lost, Link!faults
  <2>2. CASE ~(~alive /\ Link!Lost(t))
    BY <1>3, <1>5, <2>2 DEF Link!Commit, Link!Return, Link!faults
  <2> QED
    BY <2>1, <2>2
<1> QED
  BY <1>1, <1>4, <1>5

\* What a block of t does to the others: nothing.
LEMMA InsideStep ==
  ASSUME LinkInv, NEW t \in Threads,
         Link!Lock(t) \/ Link!Enter(t) \/ Link!Cursor(t) \/ Link!Statement(t) \/ Link!Exit(t)
  PROVE  LinkInv'
<1> USE DEF LinkInv
<1>n. /\ op[t] \in Op /\ guard \in {t, Nobody} /\ (guard = t <=> Inside(t))
      /\ block # Nobody => block \in Block /\ (guard = t => block.by = t)
      /\ \A s \in Threads \ {t} : ~Inside(s) /\ ~Open(s)
  BY LinkAssumption DEF LinkTypes, Guarded, Inside, Open, Block, Link!Lock, Link!Enter, Link!Cursor,
    Link!Statement, Link!Exit
<1>l. {"enter", "cursor", "statement", "exit", "commit", "idle"} \subseteq Labels
  BY DEF Labels
<1>1. CASE Link!Lock(t)
  <2>1. /\ op' \in [Threads -> Op] /\ op'[t].at = "enter" /\ \A s \in Threads \ {t} : op'[s] = op[s]
    BY <1>1, <1>l, Moves DEF Link!Lock
  <2>2. guard = Nobody /\ guard' = t /\ UNCHANGED <<conn, alive, block, kept, drops>>
    BY <1>1 DEF Link!Lock, Link!faults
  <2>3. block = Nobody
    BY <2>2, <1>n, LinkAssumption DEF Guarded, Inside, Open, LinkTypes, Block
  <2>4. LinkTypes' /\ Counted'
    BY <2>1, <2>2 DEF LinkTypes, Counted
  <2>5. Guarded'
    BY <1>n, <2>1, <2>2, <2>3, LinkAssumption DEF Guarded, Inside
  <2>6. Steady'
    BY <1>n, <2>1, <2>2 DEF Steady, Open, Link!Torn
  <2> QED
    BY <2>4, <2>5, <2>6
\* A thread leaves: its lock goes, and there is no block.
<1>2. ASSUME op' \in [Threads -> Op], op'[t].at \in {"commit", "idle"}, \A s \in Threads \ {t} : op'[s] = op[s],
             guard = t, guard' = Nobody, block' = Nobody, UNCHANGED <<conn, alive, drops>>,
             drops = 0 => \A w \in kept' : ~Link!Torn(w)'
      PROVE LinkInv'
  <2>1. LinkTypes' /\ Counted'
    BY <1>2 DEF LinkTypes, Counted
  <2>2. Guarded'
    BY <1>2, <1>n, LinkAssumption DEF Guarded, Inside
  <2>3. Steady'
    BY <1>2, <1>n DEF Steady, Open
  <2> QED
    BY <2>1, <2>2, <2>3
<1>3. CASE Link!Enter(t)
  <2>1. CASE ~alive /\ Link!Lost(t)
    <3>1. drops # 0 /\ (block # Nobody => block.by # t) /\ UNCHANGED drops
      BY <1>3, <2>1 DEF Steady, Guarded, Link!Lost, Link!faults
    <3> QED
      BY <2>1, <3>1, Losing
  <2>2. CASE ~(~alive /\ Link!Lost(t))
    <3>1. block = Nobody /\ guard = t
      BY <1>3, <1>n DEF Guarded, Open, Inside, Link!Enter
    <3>2. /\ alive /\ block' = [by |-> t, writes |-> {}, bad |-> FALSE]
          /\ op' = [op EXCEPT ![t].at = "cursor", ![t].link = conn]
          /\ UNCHANGED <<conn, alive, guard, kept, drops>>
      BY <1>3, <2>2, <3>1 DEF Link!Enter, Link!faults
    <3>3. /\ op' \in [Threads -> Op] /\ op'[t].at = "cursor" /\ op'[t].link = conn
          /\ \A s \in Threads \ {t} : op'[s] = op[s]
      BY <1>l, <3>2 DEF LinkTypes, Op
    <3>4. block' \in Block /\ block'.by = t /\ block'.writes = {} /\ block' # Nobody
      <4>1. block' \in Block /\ block'.by = t /\ block'.writes = {}
        BY <3>2 DEF Block
      <4> QED
        BY <4>1, LinkAssumption
    <3>5. LinkTypes' /\ Counted'
      BY <3>2, <3>3, <3>4 DEF LinkTypes, Counted
    <3>6. Guarded'
      BY <1>n, <3>1, <3>2, <3>3, <3>4, LinkAssumption DEF Guarded, Inside, Open
    <3>7. Complete(t)'
      BY <3>3, <3>4 DEF Complete
    <3>8. Steady'
      BY <1>n, <3>2, <3>3, <3>7 DEF Steady, Open, Link!Torn
    <3> QED
      BY <3>5, <3>6, <3>8
  <2> QED
    BY <2>1, <2>2
<1>4. CASE Link!Cursor(t)
  <2>1. /\ op[t].at = "cursor" /\ op' = [op EXCEPT ![t].at = "statement", ![t].cursor = conn, ![t].stmt = 1]
        /\ UNCHANGED <<conn, alive, block, guard, kept, drops>>
    BY <1>4 DEF Link!Cursor, Link!faults
  <2>2. /\ op' \in [Threads -> Op] /\ op'[t].at = "statement" /\ op'[t].cursor = conn /\ op'[t].stmt = 1
        /\ op'[t].link = op[t].link /\ op'[t].n = op[t].n /\ \A s \in Threads \ {t} : op'[s] = op[s]
    BY <1>l, <2>1 DEF LinkTypes, Op
  <2>3. LinkTypes' /\ Counted'
    BY <2>1, <2>2, LinkAssumption DEF LinkTypes, Counted
  <2>4. Guarded'
    BY <1>n, <2>1, <2>2, LinkAssumption DEF Guarded, Inside, Open
  <2>5. Complete(t) => Complete(t)'
    BY <2>1, <2>2 DEF Complete, Has
  <2>6. Steady'
    BY <1>n, <2>1, <2>2, <2>5 DEF Steady, Open, Link!Torn
  <2> QED
    BY <2>3, <2>4, <2>6
<1>5. CASE Link!Statement(t)
  <2>0. Open(t) /\ guard = t /\ op[t].at = "statement" /\ op[t].stmt \in 1 .. Size
    BY <1>5, <1>n DEF Link!Statement, Open, Inside, Counted
  <2>1. CASE (~alive \/ op[t].cursor # conn) /\ Link!Lost(t)
    <3>1. block = Nobody
      BY <1>n, <2>0, <2>1 DEF Guarded
    <3>2. drops # 0 /\ UNCHANGED drops
      BY <2>0, <2>1, <3>1 DEF Steady, Complete, Link!Lost, Link!faults
    <3> QED
      BY <2>1, <3>1, <3>2, Losing
  <2>2. CASE /\ Link!Run(t) /\ Link!NextStatement(t)
             /\ UNCHANGED <<conn, alive, guard, done, misled, Link!faults>>
    <3>1. /\ op' \in [Threads -> Op] /\ \A s \in Threads \ {t} : op'[s] = op[s]
          /\ op'[t].n = op[t].n /\ op'[t].link = op[t].link /\ op'[t].cursor = op[t].cursor
          /\ IF op[t].stmt = Size THEN op'[t].at = "exit"
             ELSE op'[t].at = "statement" /\ op'[t].stmt = op[t].stmt + 1
      BY <2>0, <2>2, GoesOn
    <3>2. LinkTypes' /\ Counted'
      BY <2>0, <2>2, <3>1, Runs0, LinkAssumption DEF LinkTypes, Counted, Link!faults
    <3>3. Guarded'
      <4>1. block' # Nobody => block # Nobody /\ block'.by = t
        BY <1>n, <2>0, <2>2, Runs0
      <4> QED
        BY <1>n, <2>0, <2>2, <3>1, <4>1, LinkAssumption DEF Guarded, Inside, Open
    <3>4. ASSUME Complete(t), drops = 0 PROVE Complete(t)' /\ kept' = kept
      <4>1. /\ block' \in Block /\ block'.by = t /\ kept' = kept
            /\ block'.writes = block.writes \union {<<op[t].n, op[t].stmt>>}
        BY <2>2, <3>4, Runs0 DEF Complete
      <4>2. \A w \in block'.writes : w[2] = 0 \/ w[1] = op'[t].n
        BY <3>1, <3>4, <4>1 DEF Complete
      <4>3. \A i \in 1 .. op[t].stmt : <<op[t].n, i>> \in block'.writes
        BY <2>0, <3>4, <4>1, LinkAssumption DEF Complete, Has
      <4> QED
        BY <2>0, <3>1, <4>1, <4>2, <4>3, LinkAssumption DEF Complete, Has
    <3>5. Steady'
      BY <1>n, <2>0, <2>2, <3>1, <3>4 DEF Steady, Open, Link!Torn, Link!faults
    <3> QED
      BY <3>2, <3>3, <3>5
  <2>3. CASE Link!RollBack(t) /\ UNCHANGED <<conn, alive, kept, drops>>
    <3>1. block' = Nobody /\ guard' = Nobody
      BY <1>n, <2>0, <2>3 DEF Link!RollBack, Link!Unlocked, Guarded
    <3>2. op' \in [Threads -> Op] /\ op'[t].at = "idle" /\ \A s \in Threads \ {t} : op'[s] = op[s]
      BY <2>3, Rests DEF Link!RollBack
    <3>3. drops = 0 => \A w \in kept' : ~Link!Torn(w)'
      BY <2>3 DEF Steady, Link!Torn
    <3> QED
      BY <1>2, <2>0, <2>3, <3>1, <3>2, <3>3
  <2> QED
    BY <1>5, <2>1, <2>2, <2>3 DEF Link!Statement, Link!faults, Link!Fails
<1>6. CASE Link!Exit(t)
  <2>0. Open(t) /\ guard = t /\ op[t].at = "exit"
    BY <1>6, <1>n DEF Link!Exit, Open, Inside
  <2>1. CASE op[t].link = conn /\ ~alive /\ Link!Lost(t)
    <3>1. block = Nobody
      BY <2>1 DEF Guarded
    <3>2. drops # 0 /\ UNCHANGED drops
      BY <2>1 DEF Steady, Link!Lost, Link!faults
    <3> QED
      BY <2>1, <3>1, <3>2, Losing
  <2>2. CASE ~(op[t].link = conn /\ ~alive /\ Link!Lost(t))
    <3>1. /\ UNCHANGED <<conn, alive, drops>> /\ guard' = Nobody
          /\ IF op[t].link = conn /\ block # Nobody
             THEN kept' = (IF block.bad THEN kept ELSE kept \cup block.writes) /\ block' = Nobody
             ELSE UNCHANGED <<kept, block>>
          /\ Link!Rest(t) \/ Link!Goto(t, "commit")
      BY <1>6, <2>0, <2>2 DEF Link!Exit, Link!Unlocked, Link!faults, Link!Return
    <3>2. block' = Nobody
      BY <1>n, <2>0, <3>1 DEF Guarded
    <3>3. op' \in [Threads -> Op] /\ op'[t].at \in {"commit", "idle"} /\ \A s \in Threads \ {t} : op'[s] = op[s]
      BY <1>l, <3>1, Moves, Rests
    <3>4. ASSUME drops = 0 PROVE \A w \in kept' : ~Link!Torn(w)'
      <4>1. Complete(t) /\ \A w \in kept : ~Link!Torn(w)
        BY <2>0, <3>4 DEF Steady
      <4>2. kept' \in {kept, kept \union block.writes}
        BY <3>1
      <4>3. \A w \in block.writes : w[2] = 0 \/ \A i \in 1 .. Size : <<w[1], i>> \in block.writes
        BY <2>0, <4>1 DEF Complete, Has
      <4> QED
        <5>1. ASSUME NEW w \in kept', w[2] > 0, NEW i \in 1 .. Size PROVE <<w[1], i>> \in kept'
          <6>1. CASE w \in kept
            BY <4>1, <4>2, <5>1, <6>1 DEF Link!Torn
          <6>2. CASE w \in block.writes /\ kept' = kept \union block.writes
            BY <4>3, <5>1, <6>2
          <6> QED
            BY <4>2, <6>1, <6>2
        <5> QED
          BY <5>1 DEF Link!Torn
    <3> QED
      BY <1>2, <2>0, <3>1, <3>2, <3>3, <3>4
  <2> QED
    BY <2>1, <2>2
<1> QED
  BY <1>1, <1>3, <1>4, <1>5, <1>6

\* A thread that finds the connection gone puts another in its place; it breaks.
LEMMA LinkStep == LinkInv /\ [Link!Next]_linkVars => LinkInv'
<1> SUFFICES ASSUME LinkInv, [Link!Next]_linkVars PROVE LinkInv'
  OBVIOUS
<1>1. ASSUME NEW t \in Threads, Link!Reconnect(t) PROVE LinkInv'
  <2>1. /\ conn' = conn + 1 /\ alive' = TRUE /\ block' = Nobody /\ UNCHANGED <<guard, kept, drops>>
        /\ op[t].at = "reconnect"
        /\ op' = [op EXCEPT ![t].tries = @ + 1, ![t].stmt = 0,
                            ![t].at = IF op[t].kind = "plain" THEN "execute" ELSE "lock"]
    BY <1>1 DEF Link!Reconnect, Link!faults
  <2>2. /\ op' \in [Threads -> Op] /\ op'[t].at \in {"execute", "lock"} /\ op'[t].stmt = 0
        /\ \A s \in Threads \ {t} : op'[s] = op[s]
    BY <1>1, <2>1, Again DEF LinkInv
  <2>3. LinkTypes' /\ Counted'
    BY <2>1, <2>2 DEF LinkInv, LinkTypes, Counted
  <2>4. Guarded'
    BY <2>1, <2>2 DEF LinkInv, Guarded, Inside
  <2>5. Steady'
    BY <2>1 DEF LinkInv, Steady
  <2> QED
    BY <2>3, <2>4, <2>5 DEF LinkInv
<1>2. CASE Link!Drop
  <2>1. alive' = FALSE /\ block' = Nobody /\ drops' = drops + 1 /\ UNCHANGED <<conn, guard, op, kept>>
    BY <1>2 DEF Link!Drop
  <2>2. LinkTypes' /\ Counted'
    <3>1. alive' \in BOOLEAN
      BY <2>1, Zenon
    <3>2. conn' \in Nat /\ block' \in Block \union {Nobody} /\ guard' \in Threads \union {Nobody}
          /\ op' \in [Threads -> Op] /\ drops' \in Nat
      BY <2>1 DEF LinkInv, LinkTypes
    <3> QED
      BY <2>1, <3>1, <3>2, Zenon DEF LinkInv, LinkTypes, Counted
  <2>3. Guarded'
    BY <2>1 DEF LinkInv, Guarded, Inside
  <2>4. Steady'
    BY <2>1 DEF LinkInv, LinkTypes, Steady
  <2> QED
    BY <2>2, <2>3, <2>4 DEF LinkInv
<1>3. CASE UNCHANGED linkVars
  BY <1>3 DEF linkVars, LinkInv, LinkTypes, Guarded, Inside, Open, Counted, Steady, Complete, Has, Link!Torn
<1> QED
  BY <1>1, <1>2, <1>3, PlainStep, InsideStep DEF Link!Next

\* The invariant of the shared connection implies the properties stated of it.
LEMMA LinkTold == LinkInv => Link!BlocksAreWhole /\ Link!NoBlockLeft
BY LinkAssumption DEF LinkInv, LinkTypes, Guarded, Inside, Open, Steady, Block, Link!BlocksAreWhole, Link!NoBlockLeft

-----------------------------------------------------------------------------
(***************************************************************************)
(* One effect and one answer per key and TTL, for any number of requests,  *)
(* any TTL, and every failure of the store that Idempotency allows, as     *)
(* long as no request runs for longer than the TTL.                        *)
(***************************************************************************)
USE RetentionAssumption, RequestAssumption

\* The empty table and requests not yet sent have their types.
LEMMA TypeInit == Init => TypeOK
BY DEF Init, TypeOK, Absent, Row, Ages, Old, Errors

\* Every step of a request, of the sweeper and of the clock keeps the types.
LEMMA TypeStep == TypeOK /\ [Next]_vars => TypeOK'
<1> SUFFICES ASSUME TypeOK, [Next]_vars PROVE TypeOK'
  OBVIOUS
<1> USE DEF TypeOK, Row, Absent, Errors, Answer, Stored
<1>0. 0 \in Ages /\ Old \in Ages /\ row.age \in Ages
  BY DEF Ages, Old
<1>1. ASSUME NEW a \in Requests, Step(a) PROVE TypeOK'
  <2>1. CASE Lookup(a)
    BY <2>1 DEF Lookup
  <2>2. CASE Reserve(a)
    BY <2>2, <1>0 DEF Reserve
  <2>3. CASE ReserveRepeated(a)
    BY <2>3, <1>0 DEF ReserveRepeated
  <2>4. CASE StoreRaises(a) \/ Execute(a) \/ ReleaseRaises(a)
    BY <2>4 DEF StoreRaises, Execute, ReleaseRaises
  <2>5. CASE Put(a)
    BY <2>5, <1>0 DEF Put
  <2>6. CASE PutRaises(a)
    BY <2>6, <1>0 DEF PutRaises
  <2>7. CASE Release(a)
    BY <2>7, <1>0 DEF Release
  <2> QED
    BY <1>1, <2>1, <2>2, <2>3, <2>4, <2>5, <2>6, <2>7 DEF Step
<1>2. ASSUME NEW a \in Requests, Crash(a) PROVE TypeOK'
  BY <1>2 DEF Crash
<1>3. CASE Sweep
  BY <1>3, <1>0 DEF Sweep
<1>4. CASE Tick
  <2>1. \A age \in Ages : Older(age) \in Ages
    BY DEF Older, Ages, Old
  <2> QED
    BY <1>4, <2>1 DEF Tick
<1>5. CASE UNCHANGED vars
  BY <1>5 DEF vars
<1> QED
  BY <1>1, <1>2, <1>3, <1>4, <1>5 DEF Next

\* TypeOK is an invariant of the middleware.
THEOREM KeyTypes == Spec => []TypeOK
BY TypeInit, TypeStep, PTL DEF Spec

-----------------------------------------------------------------------------
(***************************************************************************)
(* A claim of the last TTL, whether it is a request that still has the key *)
(* or one whose effect stands or whose answer somebody has seen, is a      *)
(* claim on the row: the row is its own and exactly as old.  The row has   *)
(* one owner, so there is one claimant.                                    *)
(***************************************************************************)

Fresh(a) == row.by = a /\ row.age = since[a]

\* Who has not got the key yet has executed nothing; who has it is in time.
Progress(a) ==
  /\ pc[a] \in {"new", "reserve"} => since[a] = Old
  /\ pc[a] \in {"new", "reserve", "execute"} => a \notin ok
  /\ pc[a] = "put" => a \in ok
  /\ Holds(a) => since[a] <= MaxRun

\* A request that has the key, or whose effect stands, owns the row.
Owner(a) ==
  (Holds(a) \/ Kept(a)) /\ since[a] <= TTL => Fresh(a) /\ row.state # "absent"

\* A stored answer is that of an execution which took effect.
StoredInv ==
  row.state = "stored" =>
    row.by \in ok /\ (since[row.by] <= TTL => row.age = since[row.by])

\* What a client was answered is still stored.
Seen(a) ==
  reply[a] \in Requests =>
    reply[a] \in ok /\ (since[reply[a]] <= TTL => Fresh(reply[a]) /\ row.state = "stored")

KeyInv ==
  /\ TypeOK /\ StoredInv
  /\ \A a \in Requests : Progress(a) /\ Owner(a) /\ Seen(a)

\* Nobody has claimed anything at the start.
LEMMA KeyInit == Init => KeyInv
BY TypeInit DEF Init, KeyInv, StoredInv, Progress, Owner, Seen, Holds, Kept, Absent, Row, Errors,
  TypeOK, Old

\* Every step keeps KeyInv, if the retention outlives the requests.
LEMMA KeyStep ==
  ASSUME ShortRequests PROVE KeyInv /\ [Next]_vars => KeyInv'
<1> SUFFICES ASSUME KeyInv, [Next]_vars PROVE KeyInv'
  OBVIOUS
<1>t. TypeOK'
  BY TypeStep DEF KeyInv
<1>e. TTL < Old /\ MaxRun <= TTL /\ Old \in Nat /\ MaxRun < Old /\ 0 <= MaxRun
  BY DEF Old, ShortRequests
\* Two requests of which both are fresh are one.
<1>u. \A a, b : Fresh(a) /\ Fresh(b) => a = b
  BY DEF Fresh
<1> USE <1>t, <1>e
<1> USE DEF KeyInv, TypeOK, StoredInv, Progress, Owner, Seen, Holds, Kept, Fresh, Row, Absent,
            Errors, Answer, Stored, Ages
<1>1. ASSUME NEW a \in Requests, Step(a) PROVE KeyInv'
  <2>1. CASE Lookup(a)
    BY <2>1 DEF Lookup
  <2>2. CASE Reserve(a)
    <3>1. CASE row = Absent
      BY <2>2, <3>1 DEF Reserve
    <3>2. CASE row # Absent
      BY <2>2, <3>2 DEF Reserve
    <3> QED
      BY <3>1, <3>2
  <2>3. CASE ReserveRepeated(a)
    BY <2>3 DEF ReserveRepeated
  <2>4. CASE StoreRaises(a)
    BY <2>4 DEF StoreRaises
  <2>5. CASE Execute(a)
    BY <2>5 DEF Execute
  <2>6. CASE Put(a)
    <3>1. Fresh(a) /\ a \in ok /\ row.state # "absent" /\ since[a] <= TTL
      BY <2>6 DEF Put
    <3>2. row' = Row("stored", a, row.age) /\ UNCHANGED <<since, ok>>
      BY <2>6 DEF Put
    <3> QED
      BY <2>6, <3>1, <3>2, <1>u DEF Put
  <2>7. CASE PutRaises(a)
    BY <2>7 DEF PutRaises
  <2>8. CASE Release(a)
    <3>1. Fresh(a) /\ since[a] <= TTL
      BY <2>8 DEF Release
    <3>2. CASE row.state = "pending"
      BY <2>8, <3>1, <3>2, <1>u DEF Release
    <3>3. CASE row.state # "pending"
      BY <2>8, <3>1, <3>3 DEF Release
    <3> QED
      BY <3>2, <3>3
  <2>9. CASE ReleaseRaises(a)
    BY <2>9 DEF ReleaseRaises
  <2> QED
    BY <1>1, <2>1, <2>2, <2>3, <2>4, <2>5, <2>6, <2>7, <2>8, <2>9 DEF Step
<1>2. ASSUME NEW a \in Requests, Crash(a) PROVE KeyInv'
  BY <1>2 DEF Crash
<1>3. CASE Sweep
  BY <1>3 DEF Sweep
<1>4. CASE Tick
  BY <1>4 DEF Tick, Older
<1>5. CASE UNCHANGED vars
  BY <1>5 DEF vars
<1> QED
  BY <1>1, <1>2, <1>3, <1>4, <1>5 DEF Next

\* Of the requests that got the key within one TTL at most one has an effect that stands
\* (the middleware of server.py), if no request runs for longer than the TTL.
THEOREM OneEffect == ASSUME ShortRequests PROVE Spec => []OncePerKey
<1>1. KeyInv => OncePerKey
  BY DEF KeyInv, Owner, Fresh, OncePerKey
<1> QED
  BY KeyInit, KeyStep, <1>1, PTL DEF Spec

\* Clients that are answered 2xx for executions of one TTL see the same execution.
THEOREM OneAnswer == ASSUME ShortRequests PROVE Spec => []AnswersAgree
<1>1. KeyInv => AnswersAgree
  BY DEF KeyInv, Seen, Fresh, AnswersAgree
<1> QED
  BY KeyInit, KeyStep, <1>1, PTL DEF Spec

-----------------------------------------------------------------------------
(***************************************************************************)
(* The audit log.  The hash of a row is that of its text as it was         *)
(* written, so that an edited row does not fit its hash; ids grow with     *)
(* the log, and whoever has inserted a row holds the lock and comes after  *)
(* all; as long as nobody has interfered, the head that it has read is     *)
(* the head.  A chain from which a row was cut misses a link for ever, and *)
(* a note whose row is gone finds none.                                    *)
(***************************************************************************)
AuditRow(H) == [id : Nat \ {0}, prev : H, text : {"kept", "changed"}, hash : H]
AuditNote(H) == [id : Nat, hash : H, rows : Nat]

AuditTypes ==
  /\ \E H : /\ log \in Seq(AuditRow(H)) /\ exported \in Seq(AuditRow(H))
            /\ anchors \in Seq(AuditNote(H))
            /\ base \in [Replicas -> [id : Nat, hash : H]]
  /\ nextId \in Nat \ {0} /\ mutex \in Replicas \union {Nobody}
  /\ place \in [Replicas -> {"idle", "locked", "head", "inserted", "anchor", "note"}]
  /\ harm \in {"none", "edit", "cut", "tail", "unnoted"}

Locks(r) == place[r] \in {"locked", "head", "inserted"}

\* What interference never changes.
Grown ==
  /\ \A i \in 1 .. Len(log) : log[i].id < nextId
  /\ \A i, j \in 1 .. Len(log) : i < j => log[i].id < log[j].id
  /\ \A i \in 1 .. Len(log) : log[i].hash = Audit!Digest(log[i].id, log[i].prev, "kept")
  /\ \A i \in 1 .. Len(exported) :
       exported[i].hash = Audit!Digest(exported[i].id, exported[i].prev, "kept")
  /\ \A r \in Replicas : Locks(r) => mutex = r
  /\ \A r \in Replicas : place[r] = "inserted" =>
       base[r].id > 0 /\ base[r].id < nextId /\ \A i \in 1 .. Len(log) : log[i].id < base[r].id

\* A head that was noted, or is about to be, is a row of the log.
IsRow(lines, a) == a.id > 0 => \E i \in 1 .. Len(lines) : lines[i].id = a.id /\ lines[i].hash = a.hash

PrevOf(lines, i) == IF i = 1 THEN Audit!Genesis ELSE lines[i - 1].hash

Untouched ==
  /\ \A i \in 1 .. Len(log) : log[i].text = "kept" /\ log[i].prev = PrevOf(log, i)
  /\ \A r \in Replicas : place[r] \in {"head", "inserted"} => base[r].hash = Audit!ChainHead.hash
  /\ \A r \in Replicas : place[r] = "note" => IsRow(log, base[r])
  /\ anchors # <<>> => IsRow(log, anchors[Len(anchors)]) /\ anchors[Len(anchors)].rows =< Len(log)
  /\ Len(exported) =< Len(log) /\ \A i \in 1 .. Len(exported) : exported[i] = log[i]

NotedId == anchors[Len(anchors)].id

AuditInv ==
  /\ AuditTypes /\ Grown
  /\ harm = "none" => Untouched
  /\ harm = "edit" => \E i \in 1 .. Len(log) : log[i].text = "changed"
  /\ harm = "cut" => \E i \in 1 .. Len(log) : log[i].prev # PrevOf(log, i)
  /\ harm = "tail" =>
       /\ anchors # <<>> /\ NotedId > 0 /\ NotedId < nextId
       /\ \A i \in 1 .. Len(log) : log[i].id # NotedId
       /\ \A r \in Replicas : place[r] = "inserted" => base[r].id > NotedId

\* The initial states of the audit chain satisfy its invariant.
LEMMA AuditInit == Audit!Init => AuditInv
<1> SUFFICES ASSUME Audit!Init PROVE AuditInv
  OBVIOUS
<1>1. \A r \in Replicas : place[r] = "idle"
  BY DEF Audit!Init
<1>2. base \in [Replicas -> [id : Nat, hash : {<<>>}]]
  BY DEF Audit!Init, Audit!Head0, Audit!Genesis
<1>3. AuditTypes
  <2>1. \E H : /\ log \in Seq(AuditRow(H)) /\ exported \in Seq(AuditRow(H))
                /\ anchors \in Seq(AuditNote(H))
                /\ base \in [Replicas -> [id : Nat, hash : H]]
    <3> WITNESS {<<>>}
    <3> QED
      BY <1>2 DEF Audit!Init
  <2> QED
    BY <2>1 DEF Audit!Init, AuditTypes
<1> QED
  BY <1>1, <1>3 DEF Audit!Init, AuditInv, Grown, Untouched, Locks

\* The cardinality seen through the instance is the cardinality.
LEMMA SameAudit == \A S : Audit!Cardinality(S) = Cardinality(S)
BY DEF Audit!Cardinality, Cardinality

\* The rows up to an id are the first rows of a log whose ids grow.
LEMMA Positions == ASSUME NEW n \in Nat PROVE IsFiniteSet(1 .. n) /\ Cardinality(1 .. n) = n
<1>1. IsFiniteSet(1 .. n) /\ Cardinality(1 .. n) = IF 1 > n THEN 0 ELSE n - 1 + 1
  BY FS_Interval
<1> QED
  BY ONLY <1>1, n \in Nat

\* Upto(id) counts the rows up to an id.
LEMMA CountedTo ==
  ASSUME AuditTypes, Grown, NEW id
  PROVE  /\ Audit!Upto(id) \in 0 .. Len(log)
         /\ \A n \in 0 .. Len(log) :
              (\A i \in 1 .. Len(log) : i <= n <=> log[i].id =< id) => Audit!Upto(id) = n
<1> DEFINE S == {i \in 1 .. Len(log) : log[i].id =< id}
<1>1. Len(log) \in Nat
  BY DEF AuditTypes
<1>2. Audit!Upto(id) = Cardinality(S)
  BY SameAudit DEF Audit!Upto
<1>3. IsFiniteSet(1 .. Len(log)) /\ Cardinality(1 .. Len(log)) = Len(log)
  BY ONLY <1>1, Positions
<1>4. Cardinality(S) \in Nat /\ Cardinality(S) <= Len(log)
  BY <1>3, FS_Subset, FS_CardinalityType, S \subseteq 1 .. Len(log)
<1>5. ASSUME NEW n \in 0 .. Len(log), \A i \in 1 .. Len(log) : i <= n <=> log[i].id =< id
      PROVE  Audit!Upto(id) = n
  <2>1. S = 1 .. n
    BY <1>5, <1>1
  <2>2. Cardinality(1 .. n) = n
    BY <1>1, FS_Interval
  <2> QED
    BY <2>1, <2>2, <1>2
<1> QED
  BY <1>1, <1>2, <1>4, <1>5

\* A sequence over a set is one over every larger set.
LEMMA Wider == \A S, T : S \subseteq T => Seq(S) \subseteq Seq(T)
OBVIOUS

\* A step of one replica that appends nothing and notes nothing: what it holds of the lock
\* is told by where it is, and it takes the head or a new id.
Quiet(r, l, b) ==
  /\ l \in {"idle", "locked", "head", "inserted", "anchor", "note"}
  /\ UNCHANGED <<log, anchors, harm, exported>>
  /\ place' = [place EXCEPT ![r] = l] /\ base' = [base EXCEPT ![r] = b]
  /\ nextId' \in Nat /\ nextId <= nextId' /\ mutex' \in Replicas \union {Nobody}
  /\ \A q \in Replicas \ {r} : Locks(q) => mutex' = q
  /\ l \in {"locked", "head", "inserted"} => mutex' = r
  /\ l \in {"head", "note"} => b = Audit!ChainHead
  /\ l = "inserted" => place[r] = "head" /\ nextId' = nextId + 1
                       /\ b = [id |-> nextId, hash |-> base[r].hash]
  /\ l \notin {"head", "note", "inserted"} => b = base[r]

\* A step of a replica that writes no row keeps the invariant.
LEMMA AuditQuiet ==
  ASSUME AuditInv, NEW r \in Replicas, NEW l, NEW b, Quiet(r, l, b) PROVE AuditInv'
<1> USE DEF Quiet
<1> PICK H : /\ log \in Seq(AuditRow(H)) /\ exported \in Seq(AuditRow(H))
             /\ anchors \in Seq(AuditNote(H))
             /\ base \in [Replicas -> [id : Nat, hash : H]]
  BY DEF AuditInv, AuditTypes
<1> DEFINE G == H \union {<<>>}
<1>0. nextId \in Nat \ {0} /\ place \in [Replicas -> {"idle", "locked", "head", "inserted", "anchor", "note"}]
  BY DEF AuditInv, AuditTypes
<1>1. \A i \in 1 .. Len(log) : log[i] \in AuditRow(H) /\ log[i].id \in Nat
  <2>1. \A i \in 1 .. Len(log) : log[i] \in AuditRow(H)
    OBVIOUS
  <2> QED
    BY <2>1 DEF AuditRow
<1>2. Audit!ChainHead \in [id : Nat, hash : G] /\ IsRow(log, Audit!ChainHead)
  <2>1. CASE log = <<>>
    BY <2>1 DEF Audit!ChainHead, Audit!Head0, Audit!Genesis, IsRow
  <2>2. CASE log # <<>>
    <3>1. Len(log) \in 1 .. Len(log) /\ log[Len(log)] \in AuditRow(H)
      BY <2>2
    <3>2. Audit!ChainHead = [id |-> log[Len(log)].id, hash |-> log[Len(log)].hash]
      BY <2>2 DEF Audit!ChainHead, Audit!Last
    <3> QED
      BY <3>1, <3>2 DEF IsRow, AuditRow
  <2> QED
    BY <2>1, <2>2
<1>3. Audit!ChainHead' = Audit!ChainHead /\ \A a : IsRow(log', a) <=> IsRow(log, a)
  BY DEF Audit!ChainHead, IsRow
<1>b. base'[r] = b /\ place'[r] = l /\ b \in [id : Nat, hash : G]
      /\ \A q \in Replicas \ {r} : base'[q] = base[q] /\ place'[q] = place[q]
  BY <1>0, <1>2
<1>4. AuditTypes'
  <2>1. log' \in Seq(AuditRow(G)) /\ exported' \in Seq(AuditRow(G))
    <3>1. AuditRow(H) \subseteq AuditRow(G)
      BY DEF AuditRow
    <3> QED
      BY <3>1, Wider
  <2>a. AuditNote(H) \subseteq AuditNote(G)
    BY DEF AuditNote
  <2>2. anchors' \in Seq(AuditNote(G))
    BY <2>a, Wider
  <2>3. base' \in [Replicas -> [id : Nat, hash : G]]
    BY <1>b
  <2>4. \E I : /\ log' \in Seq(AuditRow(I)) /\ exported' \in Seq(AuditRow(I))
               /\ anchors' \in Seq(AuditNote(I))
               /\ base' \in [Replicas -> [id : Nat, hash : I]]
    BY <2>1, <2>2, <2>3
  <2>5. place' \in [Replicas -> {"idle", "locked", "head", "inserted", "anchor", "note"}]
    BY <1>0
  <2> QED
    <3>1. nextId' \in Nat \ {0} /\ harm' \in {"none", "edit", "cut", "tail", "unnoted"}
      BY <1>0 DEF AuditInv, AuditTypes
    <3> QED
      BY <2>4, <2>5, <3>1 DEF AuditTypes
<1>5. Grown'
  <2>1. \A i \in 1 .. Len(log') : log'[i].id < nextId'
    BY <1>0, <1>1 DEF AuditInv, Grown
  <2>2. ASSUME NEW q \in Replicas PROVE Locks(q)' => mutex' = q
    BY <1>b DEF Locks
  <2>3. ASSUME NEW q \in Replicas, place'[q] = "inserted"
        PROVE  base'[q].id > 0 /\ base'[q].id < nextId' /\ \A i \in 1 .. Len(log') : log'[i].id < base'[q].id
    <3>1. CASE q = r
      BY <1>b, <1>0, <3>1, <2>3 DEF AuditInv, Grown
    <3>2. CASE q # r
      BY <1>b, <1>0, <3>2, <2>3 DEF AuditInv, Grown
    <3> QED
      BY <3>1, <3>2
  <2> QED
    BY <2>1, <2>2, <2>3 DEF Grown, AuditInv, Audit!Digest
<1>6. harm = "none" => Untouched'
  <2> SUFFICES ASSUME harm = "none" PROVE Untouched'
    OBVIOUS
  <2>0. Untouched
    BY DEF AuditInv
  <2>1. \A q \in Replicas : place'[q] \in {"head", "inserted"} => base'[q].hash = Audit!ChainHead.hash
    BY <1>b, <2>0 DEF Untouched
  <2>2. \A q \in Replicas : place'[q] = "note" => IsRow(log, base'[q])
    BY <1>b, <1>2, <2>0 DEF Untouched
  <2> QED
    BY <2>0, <2>1, <2>2, <1>3 DEF Untouched, PrevOf
<1>7. harm = "tail" => NotedId < nextId' /\ \A q \in Replicas : place'[q] = "inserted" => base'[q].id > NotedId
  <2> SUFFICES ASSUME harm = "tail"
               PROVE  NotedId < nextId' /\ \A q \in Replicas : place'[q] = "inserted" => base'[q].id > NotedId
    OBVIOUS
  <2>0. anchors # <<>> /\ NotedId \in Nat /\ NotedId < nextId
    <3>1. anchors # <<>> /\ NotedId < nextId
      BY DEF AuditInv
    <3>0. anchors \in Seq(AuditNote(H)) /\ Len(anchors) \in 1 .. Len(anchors)
      BY <3>1
    <3>2. anchors[Len(anchors)] \in AuditNote(H)
      BY <3>0
    <3> QED
      BY <3>1, <3>2 DEF NotedId, AuditNote
  <2>1. \A q \in Replicas \ {r} : place[q] = "inserted" => base[q].id > NotedId
    BY DEF AuditInv
  <2> QED
    BY <1>b, <1>0, <2>0, <2>1
<1> QED
  BY <1>4, <1>5, <1>6, <1>7 DEF AuditInv, PrevOf, NotedId

\* The steps of an append keep the invariant: the lock, the head, the row, the anchor.
LEMMA AuditMoves ==
  ASSUME AuditInv, NEW r \in Replicas,
         \/ Audit!Lock(r) \/ Audit!ReadHead(r) \/ Audit!Insert(r) \/ Audit!Rollback(r)
         \/ Audit!AnchorHead(r) \/ Audit!AnchorFails(r)
  PROVE  AuditInv'
<1>0. Nobody \notin Replicas /\ nextId \in Nat \ {0} /\ mutex \in Replicas \union {Nobody}
  BY ReplicaAssumption DEF AuditInv, AuditTypes
<1>1. \A q \in Replicas : Locks(q) => mutex = q
  BY DEF AuditInv, Grown
<1>2. base = [base EXCEPT ![r] = base[r]]
  BY DEF AuditInv, AuditTypes
<1> DEFINE Hold(l) == place' = [place EXCEPT ![r] = l] /\ UNCHANGED <<log, anchors, harm, exported>>
<1>3. CASE Audit!Lock(r)
  <2>1. Hold("locked") /\ UNCHANGED <<nextId, base>> /\ mutex = Nobody /\ mutex' = r
    BY <1>3 DEF Audit!Lock, Audit!Go, Audit!exportVars
  <2>3. Quiet(r, "locked", base[r])
    BY <1>0, <1>1, <1>2, <2>1 DEF Quiet, Locks
  <2> QED
    BY <2>3, AuditQuiet
<1>4. CASE Audit!ReadHead(r)
  <2>1. Hold("head") /\ UNCHANGED <<nextId, mutex>> /\ base' = [base EXCEPT ![r] = Audit!ChainHead] /\ Locks(r)
    BY <1>4 DEF Audit!ReadHead, Audit!Go, Audit!exportVars, Locks
  <2>3. Quiet(r, "head", Audit!ChainHead)
    BY <1>0, <1>1, <2>1 DEF Quiet, Locks
  <2> QED
    BY <2>3, AuditQuiet
<1>5. CASE Audit!Insert(r)
  <2>1. /\ Hold("inserted") /\ nextId' = nextId + 1 /\ UNCHANGED mutex /\ place[r] = "head" /\ Locks(r)
        /\ base' = [base EXCEPT ![r] = [id |-> nextId, hash |-> base[r].hash]]
    BY <1>5 DEF Audit!Insert, Audit!Go, Audit!exportVars, Locks, AuditInv, AuditTypes
  <2>3. Quiet(r, "inserted", [id |-> nextId, hash |-> base[r].hash])
    BY <1>0, <1>1, <2>1 DEF Quiet, Locks
  <2> QED
    BY <2>3, AuditQuiet
<1>6. CASE Audit!Rollback(r)
  <2>1. Hold("idle") /\ UNCHANGED <<nextId, base>> /\ Locks(r) /\ mutex' = IF mutex = r THEN Nobody ELSE mutex
    BY <1>6 DEF Audit!Rollback, Audit!Go, Audit!exportVars, Audit!Unlock, Locks
  <2>2. \A q \in Replicas \ {r} : Locks(q) => mutex' = q
    BY <1>1, <2>1
  <2>3. Quiet(r, "idle", base[r])
    BY <1>0, <1>1, <1>2, <2>1, <2>2 DEF Quiet, Locks
  <2> QED
    BY <2>3, AuditQuiet
<1>7. CASE Audit!AnchorHead(r)
  <2>1. Hold("note") /\ UNCHANGED <<nextId, mutex>> /\ base' = [base EXCEPT ![r] = Audit!ChainHead]
    BY <1>7 DEF Audit!AnchorHead, Audit!Go, Audit!exportVars
  <2>3. Quiet(r, "note", Audit!ChainHead)
    BY <1>0, <1>1, <2>1 DEF Quiet, Locks
  <2> QED
    BY <2>3, AuditQuiet
<1>8. CASE Audit!AnchorFails(r)
  <2>1. Hold("idle") /\ UNCHANGED <<nextId, mutex, base>>
    BY <1>8 DEF Audit!AnchorFails, Audit!Go, Audit!exportVars
  <2>3. Quiet(r, "idle", base[r])
    BY <1>0, <1>1, <1>2, <2>1 DEF Quiet, Locks
  <2> QED
    BY <2>3, AuditQuiet
<1> QED
  BY <1>3, <1>4, <1>5, <1>6, <1>7, <1>8

\* A row is appended: it comes after all, and as long as nobody interfered, to the head.
LEMMA AuditCommit == ASSUME AuditInv, NEW r \in Replicas, Audit!Commit(r) PROVE AuditInv'
<1> PICK H : /\ log \in Seq(AuditRow(H)) /\ exported \in Seq(AuditRow(H))
             /\ anchors \in Seq(AuditNote(H))
             /\ base \in [Replicas -> [id : Nat, hash : H]]
  BY DEF AuditInv, AuditTypes
<1> DEFINE line == Audit!Row(base[r].id, base[r].hash, "kept")
           n == Len(log)
           G == H \union {line.hash}
<1>0. /\ nextId \in Nat \ {0} /\ n \in Nat
      /\ place \in [Replicas -> {"idle", "locked", "head", "inserted", "anchor", "note"}]
  BY DEF AuditInv, AuditTypes
<1>1. \A i \in 1 .. n : log[i] \in AuditRow(H) /\ log[i].id \in Nat
  <2>1. \A i \in 1 .. Len(log) : log[i] \in AuditRow(H)
    OBVIOUS
  <2> QED
    BY <2>1 DEF AuditRow
<1>2. /\ base[r].id \in Nat \ {0} /\ base[r].id < nextId /\ mutex = r
      /\ \A i \in 1 .. n : log[i].id < base[r].id
  BY DEF AuditInv, Grown, Audit!Commit, Locks
<1>3. line \in AuditRow(G) /\ line.id = base[r].id /\ line.prev = base[r].hash /\ line.text = "kept"
      /\ line.hash = Audit!Digest(line.id, line.prev, "kept")
  BY <1>2 DEF Audit!Row, AuditRow
<1>4. log' = Append(log, line)
  <2>1. Audit!Upto(base[r].id) = n
    <3>1. \A i \in 1 .. Len(log) : i <= n <=> log[i].id =< base[r].id
      BY <1>0, <1>1, <1>2
    <3>2. AuditTypes /\ Grown /\ n \in 0 .. Len(log)
      BY <1>0 DEF AuditInv
    <3> QED
      BY <3>1, <3>2, CountedTo
  <2>2. SubSeq(log, 1, n) = log /\ SubSeq(log, n + 1, n) = <<>>
    OBVIOUS
  <2>3. log' = log \o <<line>> \o <<>>
    BY <2>1, <2>2 DEF Audit!Commit, Audit!After
  <2> QED
    BY <2>3
<1>5. Len(log') = n + 1 /\ log'[n + 1] = line /\ \A i \in 1 .. n : log'[i] = log[i]
  BY <1>4
<1>e. \A i \in 1 .. Len(log') : i \in 1 .. n \/ i = n + 1
  BY <1>5, <1>0
<1>6. UNCHANGED <<nextId, base, anchors, harm, exported>> /\ mutex' = Nobody
      /\ \E l \in {"anchor", "idle"} : place' = [place EXCEPT ![r] = l]
  BY <1>2 DEF Audit!Commit, Audit!exportVars, Audit!Go, Audit!Unlock
<1>7. AuditTypes'
  <2>1. /\ AuditRow(H) \subseteq AuditRow(G) /\ AuditNote(H) \subseteq AuditNote(G)
        /\ [id : Nat, hash : H] \subseteq [id : Nat, hash : G]
    BY DEF AuditRow, AuditNote
  <2>2. log \in Seq(AuditRow(G)) /\ exported \in Seq(AuditRow(G)) /\ anchors \in Seq(AuditNote(G))
    BY <2>1, Wider
  <2>3. log' \in Seq(AuditRow(G))
    BY <2>2, <1>3, <1>4
  <2>4. base \in [Replicas -> [id : Nat, hash : G]]
    BY <2>1
  <2>5. \E I : /\ log' \in Seq(AuditRow(I)) /\ exported' \in Seq(AuditRow(I))
               /\ anchors' \in Seq(AuditNote(I))
               /\ base' \in [Replicas -> [id : Nat, hash : I]]
    BY <2>2, <2>3, <2>4, <1>6
  <2>6. /\ place' \in [Replicas -> {"idle", "locked", "head", "inserted", "anchor", "note"}]
        /\ harm' \in {"none", "edit", "cut", "tail", "unnoted"} /\ mutex' \in Replicas \union {Nobody}
    BY <1>0, <1>6 DEF AuditInv, AuditTypes
  <2> QED
    BY <2>5, <2>6, <1>0, <1>6 DEF AuditTypes
<1>8. \A q \in Replicas : ~Locks(q)' /\ place'[q] \notin {"head", "inserted"}
      /\ (place'[q] = "note" => place[q] = "note")
  BY <1>0, <1>2, <1>6 DEF AuditInv, Grown, Locks
<1>9. Grown'
  <2>1. \A i, j \in 1 .. Len(log') : i < j => log'[i].id < log'[j].id
    <3> SUFFICES ASSUME NEW i \in 1 .. Len(log'), NEW j \in 1 .. Len(log'), i < j
                 PROVE  log'[i].id < log'[j].id
      OBVIOUS
    <3>1. i \in 1 .. n
      BY <1>0, <1>5
    <3>2. CASE j \in 1 .. n
      BY <3>1, <3>2, <1>5 DEF AuditInv, Grown
    <3>3. CASE j = n + 1
      BY <3>1, <3>3, <1>2, <1>3, <1>5
    <3> QED
      BY <3>2, <3>3, <1>e
  <2>2. \A i \in 1 .. Len(log') : log'[i].id < nextId'
    BY <1>0, <1>2, <1>3, <1>5, <1>e, <1>6 DEF AuditInv, Grown
  <2>3. \A i \in 1 .. Len(log') : log'[i].hash = Audit!Digest(log'[i].id, log'[i].prev, "kept")
    BY <1>0, <1>3, <1>5, <1>e DEF AuditInv, Grown
  <2> QED
    BY <2>1, <2>2, <2>3, <1>6, <1>8 DEF Grown, AuditInv, Audit!Digest
<1>10. \A a : IsRow(log, a) => IsRow(log', a)
  <2> SUFFICES ASSUME NEW a, IsRow(log, a), a.id > 0
               PROVE  \E i \in 1 .. Len(log') : log'[i].id = a.id /\ log'[i].hash = a.hash
    BY DEF IsRow
  <2>1. PICK i \in 1 .. n : log[i].id = a.id /\ log[i].hash = a.hash
    BY DEF IsRow
  <2>2. i \in 1 .. Len(log') /\ log'[i] = log[i]
    BY <1>0, <1>5
  <2> QED
    BY <2>1, <2>2
<1>11. \A i \in 1 .. n : PrevOf(log', i) = PrevOf(log, i)
  <2> TAKE i \in 1 .. n
  <2>1. CASE i = 1
    BY <2>1 DEF PrevOf, Audit!Genesis
  <2>2. CASE i # 1
    <3>1. i - 1 \in 1 .. n
      BY <1>0, <2>2
    <3>2. log'[i - 1] = log[i - 1]
      BY <1>5, <3>1
    <3> QED
      BY <2>2, <3>2 DEF PrevOf
  <2> QED
    BY <2>1, <2>2
<1>12. ASSUME harm = "none" PROVE Untouched'
  <2>0. Untouched
    BY <1>12 DEF AuditInv
  <2>1. line.prev = PrevOf(log', n + 1)
    <3>1. line.prev = Audit!ChainHead.hash
      BY <2>0, <1>3 DEF Untouched, Audit!Commit
    <3>2. CASE n = 0
      BY <3>1, <3>2 DEF PrevOf, Audit!ChainHead, Audit!Head0
    <3>3. CASE n > 0
      <4>1. log # <<>> /\ n \in 1 .. n /\ (n + 1) - 1 = n /\ n + 1 # 1
        BY <3>3, <1>0
      <4> QED
        BY <3>1, <4>1, <1>5 DEF PrevOf, Audit!ChainHead, Audit!Last
    <3> QED
      BY <3>2, <3>3, <1>0
  <2>2. \A i \in 1 .. Len(log') : log'[i].text = "kept" /\ log'[i].prev = PrevOf(log', i)
    BY <2>0, <2>1, <1>0, <1>3, <1>5, <1>e, <1>11 DEF Untouched
  <2>3. \A q \in Replicas : place'[q] = "note" => IsRow(log', base'[q])
    BY <2>0, <1>6, <1>8, <1>10 DEF Untouched
  <2>4. anchors # <<>> => IsRow(log', anchors[Len(anchors)]) /\ anchors[Len(anchors)].rows =< Len(log')
    <3> SUFFICES ASSUME anchors # <<>> PROVE IsRow(log', anchors[Len(anchors)]) /\ anchors[Len(anchors)].rows =< Len(log')
      OBVIOUS
    <3>0. Len(anchors) \in 1 .. Len(anchors)
      OBVIOUS
    <3>1. anchors[Len(anchors)] \in AuditNote(H)
      BY <3>0
    <3>2. anchors[Len(anchors)].rows \in Nat
      BY <3>1 DEF AuditNote
    <3> QED
      BY <3>2, <2>0, <1>0, <1>5, <1>6, <1>10 DEF Untouched
  <2>5. Len(exported) =< Len(log') /\ \A i \in 1 .. Len(exported) : exported[i] = log'[i]
    BY <2>0, <1>0, <1>5 DEF Untouched
  <2> QED
    BY <2>2, <2>3, <2>4, <2>5, <1>6, <1>8 DEF Untouched
<1>13. ASSUME harm = "edit" PROVE \E i \in 1 .. Len(log') : log'[i].text = "changed"
  BY <1>13, <1>0, <1>5 DEF AuditInv
<1>14. ASSUME harm = "cut" PROVE \E i \in 1 .. Len(log') : log'[i].prev # PrevOf(log', i)
  <2>1. PICK i \in 1 .. n : log[i].prev # PrevOf(log, i)
    BY <1>14 DEF AuditInv
  <2> QED
    BY <2>1, <1>0, <1>5, <1>11
<1>15. ASSUME harm = "tail" PROVE \A i \in 1 .. Len(log') : log'[i].id # NotedId
  <2>1. anchors # <<>> /\ place[r] = "inserted"
    BY <1>15 DEF AuditInv, Audit!Commit
  <2>2. Len(anchors) \in 1 .. Len(anchors)
    BY <2>1
  <2>3. anchors[Len(anchors)] \in AuditNote(H)
    BY <2>2
  <2>4. NotedId \in Nat
    BY <2>3 DEF NotedId, AuditNote
  <2>5. base[r].id > NotedId /\ \A i \in 1 .. n : log[i].id # NotedId
    BY <1>15, <2>1 DEF AuditInv
  <2> QED
    BY <2>4, <2>5, <1>2, <1>3, <1>5, <1>e
<1> QED
  BY <1>6, <1>7, <1>8, <1>9, <1>12, <1>13, <1>14, <1>15 DEF AuditInv, NotedId

\* The exports of an untouched log are its first rows, and no row has one of their ids behind.
LEMMA AuditUpto ==
  ASSUME AuditTypes, Grown, Untouched PROVE Audit!Upto(Audit!after_id) = Len(exported)
<1> PICK H : log \in Seq(AuditRow(H)) /\ exported \in Seq(AuditRow(H))
  BY DEF AuditTypes
<1> DEFINE n == Len(exported)
<1>0. Len(log) \in Nat /\ n \in 0 .. Len(log)
  BY DEF Untouched
<1>1. \A i \in 1 .. Len(log) : log[i] \in AuditRow(H) /\ log[i].id \in Nat \ {0}
  <2>1. \A i \in 1 .. Len(log) : log[i] \in AuditRow(H)
    OBVIOUS
  <2> QED
    BY <2>1 DEF AuditRow
<1>2. \A i \in 1 .. Len(log) : i <= n <=> log[i].id =< Audit!after_id
  <2>1. CASE exported = <<>>
    BY <2>1, <1>0, <1>1 DEF Audit!after_id
  <2>2. CASE exported # <<>>
    <3>1. n \in 1 .. Len(log) /\ n \in 1 .. n
      BY <2>2, <1>0
    <3>2. Audit!after_id = log[n].id
      BY <3>1, <2>2 DEF Audit!after_id, Audit!Last, Untouched
    <3>3. ASSUME NEW i \in 1 .. Len(log) PROVE i <= n <=> log[i].id =< log[n].id
      <4>1. i < n => log[i].id < log[n].id
        BY <3>1 DEF Grown
      <4>2. n < i => log[n].id < log[i].id
        BY <3>1 DEF Grown
      <4> QED
        BY <4>1, <4>2, <3>1, <1>1
    <3> QED
      BY <3>2, <3>3
  <2> QED
    BY <2>1, <2>2
<1> QED
  BY <1>0, <1>2, CountedTo

\* The first element of a sequence, as a sequence.
LEMMA FirstOf ==
  ASSUME NEW S, NEW s \in Seq(S), Len(s) >= 1
  PROVE  SubSeq(s, 1, 1) \in Seq(S) /\ Len(SubSeq(s, 1, 1)) = 1 /\ SubSeq(s, 1, 1)[1] = s[1]
OBVIOUS

\* The rest of a sequence after its first k elements.
LEMMA RestOf ==
  ASSUME NEW S, NEW s \in Seq(S), NEW k \in Nat, k <= Len(s)
  PROVE  /\ SubSeq(s, k + 1, Len(s)) \in Seq(S) /\ Len(SubSeq(s, k + 1, Len(s))) = Len(s) - k
         /\ \A i \in 1 .. Len(s) - k : k + i \in 1 .. Len(s) /\ SubSeq(s, k + 1, Len(s))[i] = s[k + i]
OBVIOUS

\* The elements of two sequences joined.
LEMMA Joined ==
  ASSUME NEW S, NEW s \in Seq(S), NEW t \in Seq(S)
  PROVE  /\ s \o t \in Seq(S) /\ Len(s \o t) = Len(s) + Len(t)
         /\ \A i \in 1 .. Len(s) : (s \o t)[i] = s[i]
         /\ \A i \in 1 .. Len(s \o t) : i \notin 1 .. Len(s) =>
              i - Len(s) \in 1 .. Len(t) /\ (s \o t)[i] = t[i - Len(s)]
OBVIOUS

\* A note: its row is in the log, unless somebody has interfered.
LEMMA AuditNotes == ASSUME AuditInv, NEW r \in Replicas, Audit!AnchorNote(r) PROVE AuditInv'
<1> PICK H : /\ log \in Seq(AuditRow(H)) /\ exported \in Seq(AuditRow(H))
             /\ anchors \in Seq(AuditNote(H))
             /\ base \in [Replicas -> [id : Nat, hash : H]]
  BY DEF AuditInv, AuditTypes
<1> DEFINE note == [id |-> base[r].id, hash |-> base[r].hash, rows |-> Len(log)]
<1>0. place \in [Replicas -> {"idle", "locked", "head", "inserted", "anchor", "note"}]
  BY DEF AuditInv, AuditTypes
<1>1. /\ UNCHANGED <<log, nextId, mutex, base, exported>> /\ place[r] = "note"
      /\ place' = [place EXCEPT ![r] = "idle"] /\ anchors' = Append(anchors, note)
      /\ harm' = IF harm = "tail" THEN "unnoted" ELSE harm
  BY DEF Audit!AnchorNote, Audit!Go, Audit!Noted, Audit!exportVars
<1>2. note \in AuditNote(H)
  BY DEF AuditNote
<1>3. anchors' \in Seq(AuditNote(H)) /\ anchors' # <<>> /\ anchors'[Len(anchors')] = note
  <2>1. Append(anchors, note) \in Seq(AuditNote(H)) /\ Len(Append(anchors, note)) = Len(anchors) + 1
    BY <1>2
  <2>2. Append(anchors, note)[Len(anchors) + 1] = note
    BY <1>2
  <2>3. Append(anchors, note) # <<>>
    <3>1. Len(anchors) \in Nat
      OBVIOUS
    <3> HIDE DEF note
    <3> QED
      BY ONLY <2>1, <3>1
  <2>4. anchors' = Append(anchors, note)
    BY <1>1
  <2> HIDE DEF note
  <2> QED
    BY ONLY <2>1, <2>2, <2>3, <2>4
<1>4. AuditTypes'
  <2>1. \E I : /\ log' \in Seq(AuditRow(I)) /\ exported' \in Seq(AuditRow(I))
               /\ anchors' \in Seq(AuditNote(I))
               /\ base' \in [Replicas -> [id : Nat, hash : I]]
    BY <1>1, <1>3
  <2>2. /\ place' \in [Replicas -> {"idle", "locked", "head", "inserted", "anchor", "note"}]
        /\ harm' \in {"none", "edit", "cut", "tail", "unnoted"}
    BY <1>0, <1>1 DEF AuditInv, AuditTypes
  <2>3. nextId' \in Nat \ {0} /\ mutex' \in Replicas \union {Nobody}
    BY <1>1 DEF AuditInv, AuditTypes
  <2> QED
    BY <2>1, <2>2, <2>3 DEF AuditTypes
<1>5. \A q \in Replicas : place'[q] # "idle" => place'[q] = place[q]
  BY <1>0, <1>1
<1>6. Grown'
  BY <1>1, <1>5 DEF AuditInv, Grown, Locks, Audit!Digest
<1>7. ASSUME harm' = "none" PROVE Untouched'
  <2>1. harm = "none" /\ Untouched
    BY <1>7, <1>1 DEF AuditInv
  <2>2. IsRow(log', note) /\ note.rows =< Len(log')
    BY <2>1, <1>1 DEF Untouched, IsRow
  <2>3. Audit!ChainHead' = Audit!ChainHead
    BY <1>1 DEF Audit!ChainHead
  <2> QED
    BY <2>1, <2>2, <2>3, <1>1, <1>3, <1>5 DEF Untouched
<1> QED
  BY <1>1, <1>4, <1>6, <1>7 DEF AuditInv

\* The export keeps the invariant.
LEMMA AuditExport == ASSUME AuditInv, NEW limit \in {0, 1}, Audit!_cmd_audit_export(limit) PROVE AuditInv'
<1> PICK H : /\ log \in Seq(AuditRow(H)) /\ exported \in Seq(AuditRow(H))
             /\ anchors \in Seq(AuditNote(H))
             /\ base \in [Replicas -> [id : Nat, hash : H]]
  BY DEF AuditInv, AuditTypes
<1> DEFINE after == Audit!after_id
           k == Audit!Upto(after)
           new == Audit!export_records(after, limit)
<1>0. Len(log) \in Nat /\ Len(exported) \in Nat
  OBVIOUS
<1>1. UNCHANGED <<log, nextId, mutex, place, base, anchors, harm>> /\ exported' = exported \o new
  BY DEF Audit!_cmd_audit_export, Audit!logVars
<1>2. k \in 0 .. Len(log)
  BY CountedTo DEF AuditInv
\* What is exported are the rows behind the k-th, all of them or the first.
<1> DEFINE Part(some, m) == /\ some \in Seq(AuditRow(H)) /\ Len(some) = m - k
                            /\ \A i \in 1 .. Len(some) : k + i \in 1 .. Len(log) /\ some[i] = log[k + i]
<1>3. \E m \in k .. Len(log) : Part(new, m)
  <2>1. Audit!After(after) = SubSeq(log, k + 1, Len(log))
    BY DEF Audit!After
  <2>2. Len(log) \in k .. Len(log) /\ Part(Audit!After(after), Len(log))
    <3>1. k \in Nat /\ Len(log) \in Nat /\ k <= Len(log)
      BY <1>0, <1>2
    <3>2. SubSeq(log, k + 1, Len(log)) \in Seq(AuditRow(H)) /\ Len(SubSeq(log, k + 1, Len(log))) = Len(log) - k
          /\ \A i \in 1 .. Len(log) - k : k + i \in 1 .. Len(log) /\ SubSeq(log, k + 1, Len(log))[i] = log[k + i]
      BY <1>0, <3>1, RestOf
    <3> DEFINE behind == Audit!After(after)
    <3>3. /\ behind \in Seq(AuditRow(H)) /\ Len(behind) = Len(log) - k
          /\ \A i \in 1 .. Len(log) - k : k + i \in 1 .. Len(log) /\ behind[i] = log[k + i]
      BY ONLY <2>1, <3>2
    <3> HIDE DEF k, behind
    <3>4. \A i \in 1 .. Len(behind) : k + i \in 1 .. Len(log) /\ behind[i] = log[k + i]
      BY ONLY <3>3
    <3> USE DEF behind
    <3> QED
      BY ONLY <3>1, <3>3, <3>4
  <2>3. CASE limit = 0 \/ limit > Len(Audit!After(after))
    <3>1. new = Audit!After(after)
      BY <2>3 DEF Audit!export_records
    <3> QED
      BY <3>1, <2>2
  <2>4. CASE ~(limit = 0 \/ limit > Len(Audit!After(after)))
    <3>1. limit = 1 /\ Len(Audit!After(after)) >= 1 /\ k + 1 \in k .. Len(log)
      BY <2>2, <2>4, <1>0, <1>2
    <3>2. new = SubSeq(Audit!After(after), 1, 1)
      BY <2>4, <3>1 DEF Audit!export_records
    <3>3. new \in Seq(AuditRow(H)) /\ Len(new) = 1 /\ new[1] = Audit!After(after)[1]
      <4>1. Audit!After(after) \in Seq(AuditRow(H))
        BY <2>2
      <4>2. \A s \in Seq(AuditRow(H)) : Len(s) >= 1 =>
              SubSeq(s, 1, 1) \in Seq(AuditRow(H)) /\ Len(SubSeq(s, 1, 1)) = 1 /\ SubSeq(s, 1, 1)[1] = s[1]
        BY FirstOf
      <4> HIDE DEF new
      <4> QED
        BY <4>1, <4>2, <3>1, <3>2
    <3>5. Audit!After(after)[1] = log[k + 1] /\ k + 1 \in 1 .. Len(log)
      BY <2>2, <3>1, <1>2
    <3>4. Part(new, k + 1)
      <4> HIDE DEF new
      <4>1. \A i \in 1 .. 1 : i = 1
        OBVIOUS
      <4> QED
        BY <3>3, <3>5, <4>1, <1>2
    <3> QED
      BY <3>1, <3>4
  <2> QED
    BY <2>3, <2>4
<1>4. PICK m \in k .. Len(log) : Part(new, m)
  BY <1>3
<1>5. /\ exported' \in Seq(AuditRow(H)) /\ Len(exported') = Len(exported) + Len(new)
      /\ \A i \in 1 .. Len(exported) : exported'[i] = exported[i]
      /\ \A i \in 1 .. Len(exported') : i \notin 1 .. Len(exported) =>
           i - Len(exported) \in 1 .. Len(new) /\ exported'[i] = new[i - Len(exported)]
  <2>1. new \in Seq(AuditRow(H)) /\ exported' = exported \o new
    BY <1>1, <1>4
  <2> QED
    BY <2>1, Joined
<1>6. AuditTypes'
  <2>1. \E I : /\ log' \in Seq(AuditRow(I)) /\ exported' \in Seq(AuditRow(I))
               /\ anchors' \in Seq(AuditNote(I))
               /\ base' \in [Replicas -> [id : Nat, hash : I]]
    BY <1>1, <1>5
  <2> QED
    BY <2>1, <1>1 DEF AuditInv, AuditTypes
<1>7. Grown'
  <2>1. ASSUME NEW i \in 1 .. Len(exported')
        PROVE  exported'[i].hash = Audit!Digest(exported'[i].id, exported'[i].prev, "kept")
    <3>1. CASE i \in 1 .. Len(exported)
      BY <3>1, <1>5 DEF AuditInv, Grown
    <3>2. CASE i \notin 1 .. Len(exported)
      <4>1. PICK j \in 1 .. Len(log) : exported'[i] = log[j]
        BY <3>2, <1>4, <1>5
      <4> QED
        BY <4>1 DEF AuditInv, Grown
    <3> QED
      BY <3>1, <3>2
  <2> QED
    BY <2>1, <1>1 DEF AuditInv, Grown, Locks, Audit!Digest
<1>8. ASSUME harm = "none" PROVE Untouched'
  <2>0. Untouched
    BY <1>8 DEF AuditInv
  <2>1. k = Len(exported)
    BY <2>0, <1>8, AuditUpto DEF AuditInv
  <2>2. Len(exported') =< Len(log) /\ \A i \in 1 .. Len(exported') : exported'[i] = log[i]
    <3>1. Len(exported') =< Len(log)
      BY <2>1, <1>0, <1>2, <1>4, <1>5
    <3>2. ASSUME NEW i \in 1 .. Len(exported') PROVE exported'[i] = log[i]
      <4>1. CASE i \in 1 .. Len(exported)
        BY <4>1, <2>0, <1>5 DEF Untouched
      <4>2. CASE i \notin 1 .. Len(exported)
        <5>1. i - Len(exported) \in 1 .. Len(new) /\ exported'[i] = new[i - Len(exported)]
          BY <4>2, <1>5
        <5>2. k + (i - Len(exported)) = i
          BY <2>1, <1>0, <1>5
        <5> QED
          BY <5>1, <5>2, <1>4
      <4> QED
        BY <4>1, <4>2
    <3> QED
      BY <3>1, <3>2
  <2>3. Audit!ChainHead' = Audit!ChainHead
    BY <1>1 DEF Audit!ChainHead
  <2> QED
    BY <2>0, <2>2, <2>3, <1>1 DEF Untouched
<1> QED
  BY <1>1, <1>6, <1>7, <1>8 DEF AuditInv, NotedId

\* Whoever interferes leaves rows of the log, in their order.
LEMMA AuditHarmed ==
  ASSUME AuditInv, harm = "none", UNCHANGED <<nextId, mutex, place, base, anchors, exported>>,
         harm' \in {"edit", "cut", "tail", "unnoted"},
         \A H : log \in Seq(AuditRow(H)) => log' \in Seq(AuditRow(H)),
         NEW f \in [1 .. Len(log') -> 1 .. Len(log)],
         \A i, j \in 1 .. Len(log') : i < j => f[i] < f[j],
         \A i \in 1 .. Len(log') : log'[i].id = log[f[i]].id /\ log'[i].prev = log[f[i]].prev
                                   /\ log'[i].hash = log[f[i]].hash
  PROVE  AuditTypes' /\ Grown'
<1>1. AuditTypes'
  <2>1. \E H : /\ log' \in Seq(AuditRow(H)) /\ exported' \in Seq(AuditRow(H))
               /\ anchors' \in Seq(AuditNote(H))
               /\ base' \in [Replicas -> [id : Nat, hash : H]]
    BY DEF AuditInv, AuditTypes
  <2> QED
    BY <2>1 DEF AuditInv, AuditTypes
<1>2. \A i \in 1 .. Len(log') : log'[i].id < nextId
  BY DEF AuditInv, Grown
<1>3. \A i, j \in 1 .. Len(log') : i < j => log'[i].id < log'[j].id
  BY DEF AuditInv, Grown
<1>4. \A i \in 1 .. Len(log') : log'[i].hash = Audit!Digest(log'[i].id, log'[i].prev, "kept")
  BY DEF AuditInv, Grown
<1>5. \A r \in Replicas : place[r] = "inserted" => \A i \in 1 .. Len(log') : log'[i].id < base[r].id
  BY DEF AuditInv, Grown
<1> QED
  BY <1>1, <1>2, <1>3, <1>4, <1>5 DEF AuditInv, Grown, Locks, Audit!Digest

\* An edit of a row, which breaks the chain there, keeps the invariant.
LEMMA AuditEdit == ASSUME AuditInv, NEW i \in 1 .. Len(log), Audit!Edit(i) PROVE AuditInv'
<1>1. harm = "none" /\ harm' = "edit" /\ UNCHANGED <<nextId, mutex, place, base, anchors, exported>>
  BY DEF Audit!Edit, Audit!exportVars
<1>2. PICK H : log \in Seq(AuditRow(H))
  BY DEF AuditInv, AuditTypes
<1>3. ASSUME NEW G, log \in Seq(AuditRow(G))
      PROVE  /\ log' \in Seq(AuditRow(G)) /\ Len(log') = Len(log) /\ log'[i].text = "changed"
             /\ \A j \in 1 .. Len(log') : log'[j].id = log[j].id /\ log'[j].prev = log[j].prev
                                          /\ log'[j].hash = log[j].hash
  <2> DEFINE line == [log[i] EXCEPT !.text = "changed"]
  <2>0. log[i] \in AuditRow(G)
    BY <1>3
  <2>1. line \in AuditRow(G) /\ line.text = "changed" /\ line.id = log[i].id /\ line.prev = log[i].prev /\ line.hash = log[i].hash
    BY <2>0 DEF AuditRow
  <2>2. log' = [log EXCEPT ![i] = line]
    BY DEF Audit!Edit
  <2> HIDE DEF line
  <2>3. log' \in Seq(AuditRow(G)) /\ Len(log') = Len(log)
    BY <1>3, <2>1, <2>2
  <2>4. \A j \in 1 .. Len(log) : log'[j] = IF j = i THEN line ELSE log[j]
    BY <1>3, <2>2
  <2> QED
    BY <2>1, <2>3, <2>4
<1>4. AuditTypes' /\ Grown'
  <2> DEFINE f == [j \in 1 .. Len(log') |-> j]
  <2>1. f \in [1 .. Len(log') -> 1 .. Len(log)] /\ \A j \in 1 .. Len(log') : f[j] = j
    BY <1>2, <1>3
  <2>2. \A G : log \in Seq(AuditRow(G)) => log' \in Seq(AuditRow(G))
    BY <1>3
  <2>3. \A j \in 1 .. Len(log') : log'[j].id = log[f[j]].id /\ log'[j].prev = log[f[j]].prev
                                  /\ log'[j].hash = log[f[j]].hash
    BY <1>2, <1>3, <2>1
  <2> HIDE DEF f
  <2> QED
    BY <1>1, <2>1, <2>2, <2>3, AuditHarmed
<1> QED
  BY <1>1, <1>2, <1>3, <1>4 DEF AuditInv

\* The row behind the gap has the hash of a row that is gone.
LEMMA AuditCut == ASSUME AuditInv, NEW i \in 1 .. Len(log), Audit!Cut(i) PROVE AuditInv'
<1>1. /\ harm = "none" /\ harm' = "cut" /\ UNCHANGED <<nextId, mutex, place, base, anchors, exported>>
      /\ i < Len(log) /\ Untouched
  BY DEF Audit!Cut, Audit!exportVars, AuditInv
<1>2. PICK H : log \in Seq(AuditRow(H))
  BY DEF AuditInv, AuditTypes
<1>0. Len(log) \in Nat
  BY <1>2
<1> DEFINE f == [j \in 1 .. Len(log) - 1 |-> IF j < i THEN j ELSE j + 1]
<1>3. ASSUME NEW G, log \in Seq(AuditRow(G))
      PROVE  /\ log' \in Seq(AuditRow(G)) /\ Len(log') = Len(log) - 1
             /\ \A j \in 1 .. Len(log') : f[j] \in 1 .. Len(log) /\ log'[j] = log[f[j]]
  <2> DEFINE s == SubSeq(log, 1, i - 1)
             t == SubSeq(log, i + 1, Len(log))
  <2>1. /\ s \in Seq(AuditRow(G)) /\ Len(s) = i - 1 /\ \A j \in 1 .. Len(s) : s[j] = log[j]
    BY <1>3
  <2>2. /\ t \in Seq(AuditRow(G)) /\ Len(t) = Len(log) - i /\ \A j \in 1 .. Len(t) : t[j] = log[j + i]
    BY <1>3
  <2>3. log' = s \o t
    BY DEF Audit!Cut
  <2> HIDE DEF s, t
  <2>4. log' \in Seq(AuditRow(G)) /\ Len(log') = Len(log) - 1
    <3>1. s \o t \in Seq(AuditRow(G)) /\ Len(s \o t) = Len(s) + Len(t)
      BY <2>1, <2>2, Joined
    <3>2. Len(s) + Len(t) = Len(log) - 1
      BY <2>1, <2>2, <1>0
    <3> QED
      BY <3>1, <3>2, <2>3
  <2>5. ASSUME NEW j \in 1 .. Len(log') PROVE f[j] \in 1 .. Len(log) /\ log'[j] = log[f[j]]
    <3>0. j \in 1 .. Len(log) - 1 /\ f[j] = (IF j < i THEN j ELSE j + 1) /\ f[j] \in 1 .. Len(log)
      BY <2>4, <1>0
    <3>1. CASE j < i
      <4>1. j \in 1 .. Len(s)
        BY <3>0, <3>1, <2>1
      <4>2. log'[j] = s[j]
        BY <4>1, <2>1, <2>2, <2>3, Joined
      <4> QED
        BY <3>0, <3>1, <4>1, <4>2, <2>1
    <3>2. CASE ~(j < i)
      <4>1. j \in 1 .. Len(s \o t) /\ j \notin 1 .. Len(s)
        BY <3>0, <3>2, <2>1, <2>3
      <4>2. j - Len(s) \in 1 .. Len(t) /\ log'[j] = t[j - Len(s)]
        BY <4>1, <2>1, <2>2, <2>3, Joined
      <4>3. (j - Len(s)) + i = j + 1
        BY <2>1, <3>0
      <4> QED
        BY <3>0, <3>2, <4>2, <4>3, <2>2
    <3> QED
      BY <3>1, <3>2
  <2> QED
    BY <2>4, <2>5
<1>4. AuditTypes' /\ Grown'
  <2>1. f \in [1 .. Len(log') -> 1 .. Len(log)] /\ \A j, k \in 1 .. Len(log') : j < k => f[j] < f[k]
    BY <1>0, <1>2, <1>3
  <2>2. \A G : log \in Seq(AuditRow(G)) => log' \in Seq(AuditRow(G))
    BY <1>3
  <2>3. \A j \in 1 .. Len(log') : log'[j] = log[f[j]]
    BY <1>2, <1>3
  <2> HIDE DEF f
  <2> QED
    BY <1>1, <2>1, <2>2, <2>3, AuditHarmed
<1>5. log'[i].prev # PrevOf(log', i) /\ i \in 1 .. Len(log')
  <2>a. Len(log') = Len(log) - 1 /\ \A j \in 1 .. Len(log') : log'[j] = log[f[j]]
    BY <1>2, <1>3
  <2>b. \A j \in 1 .. Len(log) - 1 : f[j] = IF j < i THEN j ELSE j + 1
    OBVIOUS
  <2> HIDE DEF f
  <2>1. i \in 1 .. Len(log') /\ f[i] = i + 1 /\ i + 1 \in 1 .. Len(log) /\ log'[i] = log[i + 1]
    BY <1>0, <1>1, <2>a, <2>b
  <2>2. log'[i].prev = log[i].hash
    BY <2>1, <1>0, <1>1 DEF Untouched, PrevOf
  <2>3. log[i].hash = <<log[i].id, log[i].prev, "kept">>
    BY DEF AuditInv, Grown, Audit!Digest
  <2>4. CASE i = 1
    <3>1. PrevOf(log', i) = <<>>
      BY <2>4 DEF PrevOf, Audit!Genesis
    <3> QED
      BY <2>1, <2>2, <2>3, <3>1
  <2>5. CASE i > 1
    <3>1. i - 1 \in 1 .. Len(log') /\ f[i - 1] = i - 1 /\ i - 1 \in 1 .. Len(log)
      BY <2>5, <2>1, <1>0, <2>a, <2>b
    <3>2. PrevOf(log', i) = log[i - 1].hash
      BY <2>5, <3>1, <2>a DEF PrevOf
    <3>3. log[i - 1].hash = <<log[i - 1].id, log[i - 1].prev, "kept">> /\ log[i - 1].id < log[i].id
      BY <2>5, <3>1 DEF AuditInv, Grown, Audit!Digest
    <3>4. log[i - 1] \in AuditRow(H) /\ log[i] \in AuditRow(H)
      BY <1>2, <3>1
    <3>5. log[i - 1].id # log[i].id
      BY <3>3, <3>4 DEF AuditRow
    <3> QED
      BY <2>1, <2>2, <2>3, <3>2, <3>3, <3>5
  <2> QED
    BY <2>4, <2>5
<1> QED
  BY <1>1, <1>4, <1>5 DEF AuditInv

\* A note of the removed tail has no row, and gets none: ids are not used twice.
LEMMA AuditTail == ASSUME AuditInv, NEW i \in 1 .. Len(log), Audit!CutTail(i) PROVE AuditInv'
<1>1. /\ harm = "none" /\ UNCHANGED <<nextId, mutex, place, base, anchors, exported>> /\ Untouched
      /\ harm' = IF anchors # <<>> /\ Audit!Last(anchors).id >= log[i].id THEN "tail" ELSE "unnoted"
  BY DEF Audit!CutTail, Audit!exportVars, AuditInv
<1>2. PICK H : log \in Seq(AuditRow(H)) /\ anchors \in Seq(AuditNote(H))
  BY DEF AuditInv, AuditTypes
<1>0. Len(log) \in Nat
  BY <1>2
<1>3. ASSUME NEW G, log \in Seq(AuditRow(G))
      PROVE  /\ log' \in Seq(AuditRow(G)) /\ Len(log') = i - 1
             /\ \A j \in 1 .. Len(log') : log'[j] = log[j]
  BY <1>3 DEF Audit!CutTail
<1>4. AuditTypes' /\ Grown'
  <2> DEFINE f == [j \in 1 .. Len(log') |-> j]
  <2>1. f \in [1 .. Len(log') -> 1 .. Len(log)] /\ \A j \in 1 .. Len(log') : f[j] = j
    BY <1>0, <1>2, <1>3
  <2>2. \A G : log \in Seq(AuditRow(G)) => log' \in Seq(AuditRow(G))
    BY <1>3
  <2>3. \A j \in 1 .. Len(log') : log'[j] = log[f[j]]
    BY <1>2, <1>3, <2>1
  <2> HIDE DEF f
  <2> QED
    BY <1>1, <2>1, <2>2, <2>3, AuditHarmed
<1>5. ASSUME harm' = "tail"
      PROVE  /\ anchors # <<>> /\ NotedId > 0 /\ NotedId < nextId
             /\ \A j \in 1 .. Len(log') : log'[j].id # NotedId
             /\ \A r \in Replicas : place[r] = "inserted" => base[r].id > NotedId
  <2>1. anchors # <<>> /\ NotedId >= log[i].id
    BY <1>1, <1>5 DEF Audit!Last, NotedId
  <2>2. Len(anchors) \in 1 .. Len(anchors)
    BY <1>2, <2>1
  <2>3. anchors[Len(anchors)] \in AuditNote(H)
    BY <1>2, <2>2
  <2>4. NotedId \in Nat
    BY <2>3 DEF AuditNote, NotedId
  <2>5. \A j \in 1 .. Len(log) : log[j].id \in Nat \ {0}
    <3>1. \A j \in 1 .. Len(log) : log[j] \in AuditRow(H)
      BY <1>2
    <3> QED
      BY <3>1 DEF AuditRow
  <2>6. PICK k \in 1 .. Len(log) : log[k].id = NotedId
    BY <1>1, <2>1, <2>4, <2>5 DEF Untouched, IsRow, NotedId
  <2>7. ASSUME NEW j \in 1 .. Len(log') PROVE log'[j].id # NotedId
    <3>1. j \in 1 .. Len(log) /\ j < i /\ log'[j] = log[j]
      BY <1>0, <1>2, <1>3
    <3>2. log[j].id < log[i].id
      BY <3>1 DEF AuditInv, Grown
    <3> QED
      BY <3>1, <3>2, <2>1, <2>4, <2>5
  <2> QED
    BY <2>1, <2>4, <2>5, <2>6, <2>7 DEF AuditInv, Grown
<1> QED
  BY <1>1, <1>4, <1>5 DEF AuditInv, NotedId

\* Every step of the audit chain keeps its invariant.
LEMMA AuditStep == AuditInv /\ [Audit!Next]_auditVars => AuditInv'
<1> SUFFICES ASSUME AuditInv, [Audit!Next]_auditVars PROVE AuditInv'
  OBVIOUS
<1>1. CASE UNCHANGED <<log, nextId, mutex, place, base, anchors, harm, exported>>
  <2>1. \A l, a : IsRow(l, a)' <=> IsRow(l', a')
    BY DEF IsRow
  <2> QED
    BY <1>1 DEF AuditInv, AuditTypes, Grown, Untouched, Locks, IsRow, PrevOf, NotedId, Audit!ChainHead,
      Audit!Digest
<1>2. CASE Audit!Verify \/ Audit!NotWritten
  BY <1>1, <1>2 DEF Audit!Verify, Audit!NotWritten, Audit!logVars
<1>3. CASE UNCHANGED auditVars
  BY <1>1, <1>3 DEF auditVars
<1> QED
  BY <1>2, <1>3, AuditMoves, AuditCommit, AuditNotes, AuditExport, AuditEdit, AuditCut, AuditTail DEF Audit!Next

\* Verification goes by the hashes; exports are the first rows of the log.
LEMMA AuditTold == AuditInv => Audit!UntouchedVerifies /\ Audit!HarmIsFound /\ Audit!ExportsTell
<1> SUFFICES ASSUME AuditInv PROVE Audit!UntouchedVerifies /\ Audit!HarmIsFound /\ Audit!ExportsTell
  OBVIOUS
<1>0. PICK H : log \in Seq(AuditRow(H)) /\ exported \in Seq(AuditRow(H)) /\ anchors \in Seq(AuditNote(H))
  BY DEF AuditInv, AuditTypes
<1>1. Audit!UntouchedVerifies
  <2> SUFFICES ASSUME harm = "none" PROVE Audit!Linked(log) /\ Audit!AnchorHolds
    BY DEF Audit!UntouchedVerifies, Audit!VerifyChain
  <2>1. Untouched
    BY DEF AuditInv
  <2>2. Audit!Linked(log)
    BY <2>1 DEF Audit!Linked, Untouched, PrevOf, AuditInv, Grown
  <2>3. Audit!AnchorHolds
    BY <2>1, <1>0 DEF Audit!AnchorHolds, Audit!Last, Untouched, IsRow
  <2> QED
    BY <2>2, <2>3
<1>2. Audit!HarmIsFound
  <2>1. ASSUME NEW i \in 1 .. Len(log), log[i].text = "changed" PROVE ~Audit!Linked(log)
    <3>1. log[i].hash = <<log[i].id, log[i].prev, "kept">>
      BY DEF AuditInv, Grown, Audit!Digest
    <3>2. log[i].hash # Audit!Digest(log[i].id, log[i].prev, log[i].text)
      BY <2>1, <3>1 DEF Audit!Digest
    <3> QED
      BY <3>2 DEF Audit!Linked
  <2>2. ASSUME NEW i \in 1 .. Len(log), log[i].prev # PrevOf(log, i) PROVE ~Audit!Linked(log)
    BY <2>2 DEF Audit!Linked, PrevOf
  <2>3. ASSUME harm = "tail" PROVE ~Audit!AnchorHolds
    BY <2>3 DEF AuditInv, Audit!AnchorHolds, Audit!Last, NotedId
  <2> QED
    BY <2>1, <2>2, <2>3 DEF AuditInv, Audit!HarmIsFound, Audit!VerifyChain
<1>3. Audit!ExportsTell
  <2>1. ASSUME harm = "none" PROVE exported = SubSeq(log, 1, Audit!Upto(Audit!after_id))
    <3>1. Untouched
      BY <2>1 DEF AuditInv
    <3>2. Audit!Upto(Audit!after_id) = Len(exported)
      BY <3>1, AuditUpto DEF AuditInv
    <3>3. exported = SubSeq(log, 1, Len(exported))
      BY <3>1, <1>0 DEF Untouched
    <3> QED
      BY <3>2, <3>3
  <2>2. ASSUME Audit!Linked(exported), NEW i \in 1 .. Len(exported) PROVE exported[i].text = "kept"
    <3>1. <<exported[i].id, exported[i].prev, "kept">> = <<exported[i].id, exported[i].prev, exported[i].text>>
      BY <2>2 DEF AuditInv, Grown, Audit!Digest, Audit!Linked
    <3> QED
      BY <3>1
  <2> QED
    BY <2>1, <2>2 DEF Audit!ExportsTell
<1> QED
  BY <1>1, <1>2, <1>3

-----------------------------------------------------------------------------
(***************************************************************************)
(* The archive.  Half a line can only be the last one, since what follows  *)
(* it is lost.  As long as nobody has meddled every entry has the hash of  *)
(* what it says and names a file that is as it was; if no two commands     *)
(* were under way besides, the entries are numbered one by one and linked. *)
(* What is changed then stays changed: a name that is free again gets      *)
(* another archive.                                                        *)
(***************************************************************************)
ShelfLine(H) == [seq : Nat, name : FilesOf \union {"", "torn"}, sha : Int, prev : H, hash : H]

ShelfTypes ==
  /\ \E H : <<>> \in H /\ manifest \in Seq(ShelfLine(H)) /\ prior \in [Commands -> ShelfLine(H)]
  /\ written \in Nat /\ file \in [FilesOf -> Int]
  /\ step \in [Commands -> {"idle", "wrote", "read"}]
  /\ mine \in [Commands -> FilesOf \union {CHOOSE f \in FilesOf : TRUE}]
  /\ meddled \in {"none", "file", "entry", "middle", "end"}

Entry(x) == x # Shelf!HalfLine

ShelfPlain ==
  /\ \A i \in 1 .. Len(manifest) : ~Entry(manifest[i]) => i = Len(manifest)
  /\ \A i \in 1 .. Len(manifest) : Entry(manifest[i]) => manifest[i].seq > 0 /\ manifest[i].name \in FilesOf
  /\ \A f \in FilesOf : file[f] =< written
  /\ \A c \in Commands : step[c] # "idle" => mine[c] \in FilesOf

ShelfTrue ==
  /\ \A i \in 1 .. Len(manifest) : Entry(manifest[i]) =>
       /\ manifest[i].hash = Shelf!ManifestHash(manifest[i], manifest[i].prev)
       /\ manifest[i].sha = file[manifest[i].name] /\ manifest[i].sha > 0
  /\ \A c \in Commands : step[c] # "idle" => file[mine[c]] > 0
  /\ \A c \in Commands : step[c] = "read" => prior[c].sha = file[mine[c]]

ShelfChained ==
  /\ \A i \in 1 .. Len(manifest) : Entry(manifest[i]) =>
       manifest[i].seq = i /\ manifest[i].prev = PrevOf(manifest, i)
  /\ \A c \in Commands : step[c] = "read" =>
       prior[c].seq = Shelf!LastManifest.seq /\ prior[c].hash = Shelf!LastManifest.hash

ShelfInv ==
  /\ ShelfTypes /\ ShelfPlain
  /\ ~overlap => \A c, d \in Commands : step[c] # "idle" /\ step[d] # "idle" => c = d
  /\ meddled = "none" => ShelfTrue
  /\ meddled = "none" /\ ~overlap => ShelfChained
  /\ meddled = "file" => \E i \in 1 .. Len(manifest) :
       Entry(manifest[i]) /\ manifest[i].sha =< written /\ manifest[i].sha # file[manifest[i].name]
  /\ meddled = "entry" => \E i \in 1 .. Len(manifest) :
       Entry(manifest[i]) /\ manifest[i].hash # Shelf!ManifestHash(manifest[i], manifest[i].prev)
  /\ meddled = "middle" /\ ~overlap => \E i \in 1 .. Len(manifest) :
       ~Entry(manifest[i]) \/ manifest[i].prev # PrevOf(manifest, i)

\* The initial states of the archive satisfy its invariant.
LEMMA ShelfInit == Shelf!Init => ShelfInv
<1> SUFFICES ASSUME Shelf!Init PROVE ShelfInv
  OBVIOUS
<1>1. Shelf!NoEntry \in ShelfLine({<<>>})
  BY DEF Shelf!NoEntry, ShelfLine, Shelf!None
<1>2. ShelfTypes
  <2>1. <<>> \in {<<>>} /\ manifest \in Seq(ShelfLine({<<>>})) /\ prior \in [Commands -> ShelfLine({<<>>})]
    BY <1>1 DEF Shelf!Init
  <2>2. \E H : <<>> \in H /\ manifest \in Seq(ShelfLine(H)) /\ prior \in [Commands -> ShelfLine(H)]
    BY <2>1
  <2>3. \A c \in Commands : (CHOOSE f \in FilesOf : TRUE) \in FilesOf \union {CHOOSE f \in FilesOf : TRUE}
    OBVIOUS
  <2> QED
    BY <2>2, <2>3 DEF Shelf!Init, ShelfTypes, Shelf!None
<1>3. Len(manifest) = 0 /\ \A c \in Commands : step[c] = "idle"
  BY DEF Shelf!Init
<1> QED
  BY <1>2, <1>3 DEF Shelf!Init, ShelfInv, ShelfPlain, ShelfTrue, ShelfChained, Shelf!None

\* The last entry is the last line, or the one before half a line.
WholeLines == IF Shelf!Torn THEN Len(manifest) - 1 ELSE Len(manifest)

\* The last entry of the manifest is the last of its whole lines.
LEMMA LastEntry ==
  ASSUME ShelfTypes, ShelfPlain
  PROVE  /\ WholeLines \in 0 .. Len(manifest) /\ Shelf!Good = 1 .. WholeLines
         /\ Shelf!LastManifest = IF WholeLines = 0 THEN Shelf!NoEntry ELSE manifest[WholeLines]
<1> DEFINE k == IF Shelf!Torn THEN Len(manifest) - 1 ELSE Len(manifest)
<1>0. Len(manifest) \in Nat /\ (Shelf!Torn => Len(manifest) > 0)
  BY DEF ShelfTypes, Shelf!Torn
<1>1. k \in 0 .. Len(manifest)
  BY <1>0
<1>2. Shelf!Good = 1 .. k
  <2>1. CASE Shelf!Torn
    BY <2>1, <1>0 DEF Shelf!Good, ShelfPlain, Entry, Shelf!Torn
  <2>2. CASE ~Shelf!Torn
    BY <2>2, <1>0 DEF Shelf!Good, ShelfPlain, Entry, Shelf!Torn
  <2> QED
    BY <2>1, <2>2
<1>3. ASSUME k = 0 PROVE Shelf!LastManifest = Shelf!NoEntry
  <2>1. Shelf!Good = {}
    <3> HIDE DEF k
    <3> QED
      BY <1>2, <1>3
  <2> QED
    BY <2>1 DEF Shelf!LastManifest
<1>4. ASSUME k # 0 PROVE Shelf!LastManifest = manifest[k]
  <2> HIDE DEF k
  <2>1. k \in Shelf!Good /\ \A j \in Shelf!Good : j =< k
    BY <1>1, <1>2, <1>4
  <2>2. (CHOOSE i \in Shelf!Good : \A j \in Shelf!Good : j =< i) = k
    BY <2>1, <1>1, <1>2
  <2>3. Shelf!Good # {}
    BY <2>1
  <2> QED
    BY <2>2, <2>3 DEF Shelf!LastManifest
<1> QED
  BY <1>1, <1>2, <1>3, <1>4 DEF WholeLines

\* A file is written, the manifest is read, or a command dies before its entry.
LEMMA ShelfCommand ==
  ASSUME ShelfInv, NEW c \in Commands,
         \/ \E f \in FilesOf : Shelf!WriteFile(c, f)
         \/ Shelf!ReadManifest(c)
         \/ step[c] # "idle" /\ UNCHANGED <<written, file, manifest, mine, prior, overlap, meddled>>
            /\ step' = [step EXCEPT ![c] = "idle"]
  PROVE  ShelfInv'
<1> PICK H : <<>> \in H /\ manifest \in Seq(ShelfLine(H)) /\ prior \in [Commands -> ShelfLine(H)]
  BY DEF ShelfInv, ShelfTypes
<1>0. /\ step \in [Commands -> {"idle", "wrote", "read"}] /\ written \in Nat /\ file \in [FilesOf -> Int]
      /\ mine \in [Commands -> FilesOf \union {CHOOSE f \in FilesOf : TRUE}]
  BY DEF ShelfInv, ShelfTypes
<1>l. \A i \in 1 .. Len(manifest) : manifest[i] \in ShelfLine(H)
  OBVIOUS
<1>1. ASSUME NEW f \in FilesOf, Shelf!WriteFile(c, f) PROVE ShelfInv'
  <2>1. /\ step[c] = "idle" /\ file[f] = 0 /\ UNCHANGED <<manifest, prior, meddled>> /\ written' = written + 1
        /\ file' = [file EXCEPT ![f] = written + 1] /\ mine' = [mine EXCEPT ![c] = f]
        /\ step' = [step EXCEPT ![c] = "wrote"]
    BY <1>1 DEF Shelf!WriteFile, Shelf!Step, Shelf!None
  <2>2. ~overlap' => ~overlap /\ \A d \in Commands : step[d] = "idle"
    BY <1>1, Zenon DEF Shelf!WriteFile
  <2>3. ShelfTypes'
    BY <1>0, <2>1 DEF ShelfInv, ShelfTypes
  <2>4. /\ file'[f] = written + 1 /\ \A g \in FilesOf \ {f} : file'[g] = file[g]
        /\ step'[c] = "wrote" /\ mine'[c] = f
        /\ \A d \in Commands \ {c} : step'[d] = step[d] /\ mine'[d] = mine[d]
    BY <1>0, <2>1
  <2>5. ShelfPlain'
    BY <1>0, <2>1, <2>4 DEF ShelfInv, ShelfPlain, Entry
  <2>6. ~overlap' => \A d, e \in Commands : step'[d] # "idle" /\ step'[e] # "idle" => d = e
    BY <2>2, <2>4
  <2>7. ASSUME meddled = "none" PROVE ShelfTrue'
    <3>1. ShelfTrue
      BY <2>7 DEF ShelfInv
    <3>2. ASSUME NEW i \in 1 .. Len(manifest), Entry(manifest[i])
          PROVE  manifest[i].hash = Shelf!ManifestHash(manifest[i], manifest[i].prev)
                 /\ manifest[i].sha = file'[manifest[i].name] /\ manifest[i].sha > 0
      <4>1. manifest[i].name \in FilesOf /\ manifest[i].name # f
        BY <3>1, <3>2, <2>1 DEF ShelfInv, ShelfPlain, ShelfTrue
      <4> QED
        BY <4>1, <3>1, <3>2, <2>4 DEF ShelfTrue
    <3>3. ASSUME NEW d \in Commands, step'[d] # "idle"
          PROVE  file'[mine'[d]] > 0 /\ (step'[d] = "read" => prior[d].sha = file'[mine'[d]])
      <4>1. CASE d = c
        BY <4>1, <1>0, <2>4
      <4>2. CASE d # c
        <5>1. step[d] # "idle" /\ mine[d] \in FilesOf /\ mine[d] # f
          BY <4>2, <3>3, <3>1, <2>1, <2>4 DEF ShelfInv, ShelfPlain, ShelfTrue
        <5> QED
          BY <5>1, <4>2, <3>3, <3>1, <2>4 DEF ShelfTrue
      <4> QED
        BY <4>1, <4>2
    <3> QED
      BY <3>2, <3>3, <2>1 DEF ShelfTrue, Entry, Shelf!ManifestHash
  <2>8. ASSUME meddled = "none", ~overlap' PROVE ShelfChained'
    <3>1. ShelfChained /\ \A d \in Commands : step'[d] # "read"
      BY <2>2, <2>4, <2>8 DEF ShelfInv
    <3> QED
      BY <3>1, <2>1 DEF ShelfChained, Entry, PrevOf
  <2>9. ASSUME meddled = "file"
        PROVE  \E i \in 1 .. Len(manifest) : Entry(manifest[i]) /\ manifest[i].sha =< written + 1
                                               /\ manifest[i].sha # file'[manifest[i].name]
    <3>1. PICK i \in 1 .. Len(manifest) : Entry(manifest[i]) /\ manifest[i].sha =< written
                                          /\ manifest[i].sha # file[manifest[i].name]
      BY <2>9 DEF ShelfInv
    <3>2. manifest[i].name \in FilesOf /\ manifest[i].sha \in Int
      BY <3>1, <1>l DEF ShelfInv, ShelfPlain, ShelfLine
    <3>3. file'[manifest[i].name] # manifest[i].sha
      BY <3>1, <3>2, <2>4, <1>0
    <3> QED
      BY <3>1, <3>2, <3>3, <1>0
  <2> QED
    BY <2>1, <2>2, <2>3, <2>5, <2>6, <2>7, <2>8, <2>9 DEF ShelfInv, Entry, PrevOf, Shelf!ManifestHash
<1>2. CASE Shelf!ReadManifest(c)
  <2> DEFINE last == Shelf!LastManifest
  <2>1. /\ step[c] = "wrote" /\ UNCHANGED <<written, file, manifest, mine, overlap, meddled>>
        /\ prior' = [prior EXCEPT ![c] = [last EXCEPT !.sha = file[mine[c]]]]
        /\ step' = [step EXCEPT ![c] = "read"]
    BY <1>2 DEF Shelf!ReadManifest, Shelf!Step
  <2>2. mine[c] \in FilesOf /\ file[mine[c]] \in Int
    BY <1>0, <2>1 DEF ShelfInv, ShelfPlain
  <2>3. last \in ShelfLine(H)
    <3>1. Shelf!NoEntry \in ShelfLine(H)
      <4>1. Shelf!NoEntry = [seq |-> 0, name |-> "", sha |-> 0, prev |-> <<>>, hash |-> <<>>]
        BY DEF Shelf!NoEntry, Shelf!None
      <4>2. "" \in FilesOf \union {"", "torn"} /\ 0 \in Nat /\ 0 \in Int
        OBVIOUS
      <4> QED
        BY <4>1, <4>2, Zenon DEF ShelfLine
    <3>2. ShelfTypes /\ ShelfPlain /\ Len(manifest) \in Nat
      BY DEF ShelfInv
    <3> QED
      <4>1. Shelf!LastManifest = Shelf!NoEntry \/ \E i \in 1 .. Len(manifest) : Shelf!LastManifest = manifest[i]
        <5>1. WholeLines \in 0 .. Len(manifest) /\ (WholeLines # 0 => WholeLines \in 1 .. Len(manifest))
          BY <3>2, LastEntry
        <5> QED
          BY <5>1, <3>2, LastEntry
      <4> QED
        BY <4>1, <3>1, <1>l
  <2>4. PICK e \in ShelfLine(H) : e = [last EXCEPT !.sha = file[mine[c]]]
    BY <2>2, <2>3 DEF ShelfLine
  <2>5. e.seq = last.seq /\ e.hash = last.hash /\ e.sha = file[mine[c]]
    BY <2>3, <2>4 DEF ShelfLine
  <2>6. prior' = [prior EXCEPT ![c] = e]
    BY <2>1, <2>4
  <2> HIDE DEF last
  <2>7. /\ prior' \in [Commands -> ShelfLine(H)] /\ prior'[c] = e /\ step'[c] = "read"
        /\ \A d \in Commands \ {c} : prior'[d] = prior[d] /\ step'[d] = step[d]
    BY <1>0, <2>1, <2>6
  <2>8. ShelfTypes'
    <3>1. \E G : <<>> \in G /\ manifest' \in Seq(ShelfLine(G)) /\ prior' \in [Commands -> ShelfLine(G)]
      BY <2>1, <2>7
    <3>2. step' \in [Commands -> {"idle", "wrote", "read"}]
      BY <1>0, <2>1
    <3> QED
      BY <3>1, <3>2, <1>0, <2>1 DEF ShelfTypes, ShelfInv
  <2>9. ShelfPlain'
    BY <2>1, <2>2, <2>7 DEF ShelfInv, ShelfPlain, Entry
  <2>10. \A d, f \in Commands : ~overlap /\ step'[d] # "idle" /\ step'[f] # "idle" => d = f
    BY <2>1, <2>7 DEF ShelfInv
  <2>11. meddled = "none" => ShelfTrue'
    BY <2>1, <2>5, <2>7 DEF ShelfInv, ShelfTrue, Entry, Shelf!ManifestHash
  <2>12. meddled = "none" /\ ~overlap => ShelfChained'
    <3>1. last' = last
      BY <2>1 DEF last, Shelf!LastManifest, Shelf!Good
    <3> QED
      BY <3>1, <2>1, <2>5, <2>7 DEF ShelfInv, ShelfChained, Entry, PrevOf, last
  <2> QED
    BY <2>1, <2>8, <2>9, <2>10, <2>11, <2>12 DEF ShelfInv, Entry, PrevOf, Shelf!ManifestHash
<1>3. CASE step[c] # "idle" /\ UNCHANGED <<written, file, manifest, mine, prior, overlap, meddled>>
           /\ step' = [step EXCEPT ![c] = "idle"]
  <2>1. \A d \in Commands : step'[d] # "idle" => step'[d] = step[d]
    BY <1>0, <1>3
  <2>2. ShelfTypes'
    BY <1>0, <1>3 DEF ShelfInv, ShelfTypes
  <2>3. Shelf!LastManifest' = Shelf!LastManifest
    BY <1>3 DEF Shelf!LastManifest, Shelf!Good
  <2>4. ShelfPlain' /\ (meddled = "none" => ShelfTrue') /\ (meddled = "none" /\ ~overlap => ShelfChained')
    BY <1>3, <2>1, <2>3 DEF ShelfInv, ShelfPlain, ShelfTrue, ShelfChained, Entry, PrevOf, Shelf!ManifestHash
  <2> QED
    BY <1>3, <2>1, <2>2, <2>4 DEF ShelfInv, Entry, PrevOf, Shelf!ManifestHash
<1> QED
  BY <1>1, <1>2, <1>3

\* A line is added behind whole lines: an entry, or half of one.
LEMMA ShelfAdded ==
  ASSUME ShelfInv, NEW c \in Commands, step[c] = "read", NEW x, x \in {Shelf!Chained(c), Shelf!HalfLine},
         ~Shelf!Torn, manifest' = Append(manifest, x), step' = [step EXCEPT ![c] = "idle"],
         UNCHANGED <<written, file, mine, prior, overlap, meddled>>
  PROVE  ShelfInv'
<1> PICK H : <<>> \in H /\ manifest \in Seq(ShelfLine(H)) /\ prior \in [Commands -> ShelfLine(H)]
  BY DEF ShelfInv, ShelfTypes
<1> DEFINE n == Len(manifest)
           e == Shelf!Chained(c)
           G == H \union {e.hash}
<1>0. /\ step \in [Commands -> {"idle", "wrote", "read"}] /\ written \in Nat /\ file \in [FilesOf -> Int]
      /\ mine \in [Commands -> FilesOf \union {CHOOSE f \in FilesOf : TRUE}] /\ n \in Nat
  BY DEF ShelfInv, ShelfTypes
<1>1. e = [seq |-> prior[c].seq + 1, name |-> mine[c], sha |-> prior[c].sha, prev |-> prior[c].hash,
           hash |-> <<prior[c].seq + 1, mine[c], prior[c].sha, prior[c].hash>>]
  BY ONLY DEF Shelf!Chained, Shelf!ManifestHash
<1>2. mine[c] \in FilesOf /\ prior[c] \in ShelfLine(H) /\ prior[c].seq \in Nat
  BY DEF ShelfInv, ShelfPlain, ShelfLine
<1>3. /\ e.seq = prior[c].seq + 1 /\ e.name = mine[c] /\ e.sha = prior[c].sha /\ e.prev = prior[c].hash
      /\ e.hash = Shelf!ManifestHash(e, e.prev)
  BY <1>1 DEF Shelf!ManifestHash
<1>4. e \in ShelfLine(G)
  <2>1. e.seq \in Nat /\ e.name \in FilesOf \union {"", "torn"} /\ e.sha \in Int /\ e.prev \in G /\ e.hash \in G
    <3>1. e.hash \in G
      OBVIOUS
    <3>2. prior[c].sha \in Int /\ prior[c].hash \in H
      BY <1>2 DEF ShelfLine
    <3> HIDE DEF e, G
    <3>3. e.seq \in Nat /\ e.name \in FilesOf /\ e.sha \in Int
      BY <1>2, <1>3, <3>2
    <3>4. e.prev \in G
      BY <1>3, <3>2 DEF G
    <3> QED
      BY <3>1, <3>3, <3>4
  <2> QED
    BY <1>1, <2>1 DEF ShelfLine
<1>5. /\ Shelf!HalfLine = [seq |-> 0, name |-> "torn", sha |-> 0, prev |-> <<>>, hash |-> <<>>]
      /\ Shelf!HalfLine.seq = 0
  <2>1. Shelf!HalfLine = [seq |-> 0, name |-> "torn", sha |-> 0, prev |-> <<>>, hash |-> <<>>]
    BY DEF Shelf!HalfLine, Shelf!None
  <2> QED
    BY <2>1
<1>6. Shelf!HalfLine \in ShelfLine(G)
  <2>1. "torn" \in FilesOf \union {"", "torn"} /\ 0 \in Nat /\ 0 \in Int /\ <<>> \in G
    OBVIOUS
  <2> QED
    BY <1>5, <2>1, Zenon DEF ShelfLine
<1>7. e # Shelf!HalfLine /\ e.seq > 0
  BY <1>2, <1>3, <1>5
<1> HIDE DEF e
<1>8. /\ manifest' \in Seq(ShelfLine(G)) /\ Len(manifest') = n + 1 /\ manifest'[n + 1] = x
      /\ \A i \in 1 .. n : manifest'[i] = manifest[i] /\ (Entry(manifest'[i]) <=> Entry(manifest[i]))
  <2>1. ShelfLine(H) \subseteq ShelfLine(G)
    BY DEF ShelfLine
  <2>2. manifest \in Seq(ShelfLine(G))
    BY <2>1, Wider
  <2>3. x \in ShelfLine(G)
    BY <1>4, <1>6 DEF e
  <2> HIDE DEF G
  <2>4. manifest' \in Seq(ShelfLine(G)) /\ Len(manifest') = n + 1 /\ manifest'[n + 1] = x
    BY <2>2, <2>3
  <2>5. \A i \in 1 .. n : manifest'[i] = manifest[i]
    BY <2>2, <2>3
  <2> QED
    BY <2>4, <2>5 DEF Entry
<1>9. /\ \A i \in 1 .. Len(manifest') : i \in 1 .. n \/ i = n + 1
      /\ \A i \in 1 .. n : Entry(manifest[i]) /\ i \in 1 .. Len(manifest') /\ PrevOf(manifest', i) = PrevOf(manifest, i)
  <2>1. \A i \in 1 .. n : Entry(manifest[i])
    BY <1>0 DEF ShelfInv, ShelfPlain, Shelf!Torn, Entry
  <2>2. \A i \in 1 .. n : i \in 1 .. Len(manifest') /\ PrevOf(manifest', i) = PrevOf(manifest, i)
    BY <1>0, <1>8 DEF PrevOf
  <2> QED
    BY <2>1, <2>2, <1>0, <1>8
<1>10. Entry(manifest'[n + 1]) => x = e
  BY <1>8 DEF Entry, e
<1>11. \A d \in Commands : step'[d] # "idle" => step'[d] = step[d] /\ d # c
  BY <1>0
<1>12. ShelfTypes'
  <2>1. \E I : <<>> \in I /\ manifest' \in Seq(ShelfLine(I)) /\ prior' \in [Commands -> ShelfLine(I)]
    <3>1. ShelfLine(H) \subseteq ShelfLine(G) /\ <<>> \in G
      BY DEF ShelfLine
    <3>2. prior' \in [Commands -> ShelfLine(G)]
      BY <3>1
    <3> QED
      BY <3>1, <3>2, <1>8
  <2> QED
    BY <2>1, <1>0 DEF ShelfTypes, ShelfInv
<1>13. ShelfPlain'
  <2>1. ASSUME NEW i \in 1 .. Len(manifest'), ~Entry(manifest'[i]) PROVE i = Len(manifest')
    BY <2>1, <1>8, <1>9
  <2>2. ASSUME NEW i \in 1 .. Len(manifest'), Entry(manifest'[i]) PROVE manifest'[i].seq > 0 /\ manifest'[i].name \in FilesOf
    <3>1. CASE i \in 1 .. n
      BY <3>1, <1>8, <1>9 DEF ShelfInv, ShelfPlain
    <3>2. CASE i = n + 1
      BY <3>2, <2>2, <1>2, <1>3, <1>7, <1>8, <1>10
    <3> QED
      BY <3>1, <3>2, <1>9
  <2> QED
    BY <2>1, <2>2, <1>11 DEF ShelfInv, ShelfPlain, Entry
<1>14. ASSUME meddled = "none" PROVE ShelfTrue'
  <2>0. ShelfTrue
    BY <1>14 DEF ShelfInv
  <2>1. e.sha = file[e.name] /\ e.sha > 0
    BY <2>0, <1>3 DEF ShelfTrue
  <2>2. ASSUME NEW i \in 1 .. Len(manifest'), Entry(manifest'[i])
        PROVE  manifest'[i].hash = Shelf!ManifestHash(manifest'[i], manifest'[i].prev)
               /\ manifest'[i].sha = file[manifest'[i].name] /\ manifest'[i].sha > 0
    <3>1. CASE i \in 1 .. n
      BY <3>1, <1>8, <1>9, <2>0 DEF ShelfTrue, Shelf!ManifestHash
    <3>2. CASE i = n + 1
      BY <3>2, <2>1, <2>2, <1>3, <1>8, <1>10
    <3> QED
      BY <3>1, <3>2, <1>9
  <2> QED
    BY <2>0, <2>2, <1>11 DEF ShelfTrue, Shelf!ManifestHash
<1>15. ASSUME meddled = "none", ~overlap PROVE ShelfChained'
  <2>0. ShelfChained /\ \A d \in Commands : step'[d] # "read"
    BY <1>15, <1>11 DEF ShelfInv
  <2>1. e.seq = n + 1 /\ e.prev = PrevOf(manifest', n + 1)
    <3>1. /\ ShelfTypes /\ ShelfPlain /\ WholeLines = n
          /\ Shelf!LastManifest = IF n = 0 THEN Shelf!NoEntry ELSE manifest[n]
      BY LastEntry DEF ShelfInv, WholeLines
    <3>2. prior[c].seq = Shelf!LastManifest.seq /\ prior[c].hash = Shelf!LastManifest.hash
      BY <2>0 DEF ShelfChained
    <3>3. CASE n = 0
      <4>1. Shelf!NoEntry.seq = 0 /\ Shelf!NoEntry.hash = <<>> /\ PrevOf(manifest', n + 1) = <<>>
        BY <3>3 DEF Shelf!NoEntry, PrevOf, Audit!Genesis
      <4> QED
        BY <4>1, <3>1, <3>2, <3>3, <1>3
    <3>4. CASE n # 0
      <4>1. n \in 1 .. n /\ n + 1 # 1 /\ (n + 1) - 1 = n
        BY <3>4, <1>0
      <4>2. manifest[n].seq = n /\ PrevOf(manifest', n + 1) = manifest[n].hash
        BY <4>1, <2>0, <1>8, <1>9 DEF ShelfChained, PrevOf
      <4> QED
        BY <4>2, <3>1, <3>2, <3>4, <1>3
    <3> QED
      BY <3>3, <3>4
  <2>2. ASSUME NEW i \in 1 .. Len(manifest'), Entry(manifest'[i])
        PROVE  manifest'[i].seq = i /\ manifest'[i].prev = PrevOf(manifest', i)
    <3>1. CASE i \in 1 .. n
      BY <3>1, <1>8, <1>9, <2>0 DEF ShelfChained
    <3>2. CASE i = n + 1
      BY <3>2, <2>1, <2>2, <1>8, <1>10
    <3> QED
      BY <3>1, <3>2, <1>9
  <2> QED
    BY <2>0, <2>2 DEF ShelfChained
<1>16. ASSUME meddled = "file"
       PROVE  \E i \in 1 .. Len(manifest') : Entry(manifest'[i]) /\ manifest'[i].sha =< written
                                             /\ manifest'[i].sha # file[manifest'[i].name]
  <2>1. PICK i \in 1 .. n : Entry(manifest[i]) /\ manifest[i].sha =< written /\ manifest[i].sha # file[manifest[i].name]
    BY <1>16 DEF ShelfInv
  <2> QED
    BY <2>1, <1>8, <1>9
<1>17. ASSUME meddled = "entry"
       PROVE  \E i \in 1 .. Len(manifest') :
                Entry(manifest'[i]) /\ manifest'[i].hash # Shelf!ManifestHash(manifest'[i], manifest'[i].prev)
  <2>1. PICK i \in 1 .. n : Entry(manifest[i]) /\ manifest[i].hash # Shelf!ManifestHash(manifest[i], manifest[i].prev)
    BY <1>17 DEF ShelfInv
  <2> QED
    BY <2>1, <1>8, <1>9
<1>18. ASSUME meddled = "middle", ~overlap
       PROVE  \E i \in 1 .. Len(manifest') : ~Entry(manifest'[i]) \/ manifest'[i].prev # PrevOf(manifest', i)
  <2>1. PICK i \in 1 .. n : ~Entry(manifest[i]) \/ manifest[i].prev # PrevOf(manifest, i)
    BY <1>18 DEF ShelfInv
  <2> QED
    BY <2>1, <1>8, <1>9
<1> QED
  BY <1>11, <1>12, <1>13, <1>14, <1>15, <1>16, <1>17, <1>18 DEF ShelfInv, Shelf!ManifestHash

\* A file, an entry or the place of an entry is changed, once.
LEMMA ShelfMeddled ==
  ASSUME ShelfInv, NEW i \in 1 .. Len(manifest),
         Shelf!ChangeEntry(i) \/ Shelf!RemoveEntry(i) \/ \E how \in {Shelf!None, Shelf!Changed} : Shelf!ChangeFile(i, how)
  PROVE  ShelfInv'
<1> PICK H : <<>> \in H /\ manifest \in Seq(ShelfLine(H)) /\ prior \in [Commands -> ShelfLine(H)]
  BY DEF ShelfInv, ShelfTypes
<1>0. /\ meddled = "none" /\ Entry(manifest[i]) /\ UNCHANGED <<written, step, mine, prior, overlap>>
      /\ Len(manifest) \in Nat
  BY DEF Shelf!ChangeEntry, Shelf!RemoveEntry, Shelf!ChangeFile, Shelf!Meddle, Entry
<1>l. \A j \in 1 .. Len(manifest) : manifest[j] \in ShelfLine(H)
  OBVIOUS
<1>1. ShelfTypes /\ ShelfPlain /\ ShelfTrue
      /\ (~overlap => \A c, d \in Commands : step[c] # "idle" /\ step[d] # "idle" => c = d)
  BY <1>0 DEF ShelfInv
<1>2. /\ manifest[i].name \in FilesOf /\ manifest[i].sha = file[manifest[i].name] /\ manifest[i].sha > 0
      /\ manifest[i].hash = Shelf!ManifestHash(manifest[i], manifest[i].prev) /\ manifest[i].sha \in Int
  BY <1>0, <1>1, <1>l DEF ShelfPlain, ShelfTrue, ShelfLine
<1>3. ASSUME NEW how \in {Shelf!None, Shelf!Changed}, Shelf!ChangeFile(i, how) PROVE ShelfInv'
  <2>1. /\ meddled' = "file" /\ manifest' = manifest /\ file' = [file EXCEPT ![manifest[i].name] = how]
        /\ how \in {0, -1}
    BY <1>3 DEF Shelf!ChangeFile, Shelf!Meddle, Shelf!None, Shelf!Changed
  <2>2. /\ file' \in [FilesOf -> Int] /\ file'[manifest[i].name] = how
        /\ \A f \in FilesOf : file'[f] = file[f] \/ file'[f] = how
    BY <1>1, <1>2, <2>1 DEF ShelfTypes
  <2>3. ShelfTypes'
    BY <1>0, <1>1, <2>1, <2>2 DEF ShelfTypes
  <2>4. ShelfPlain'
    BY <1>0, <1>1, <2>1, <2>2 DEF ShelfPlain, ShelfTypes, Entry
  <2>5. Entry(manifest[i]) /\ manifest[i].sha =< written /\ manifest[i].sha # file'[manifest[i].name]
    BY <1>0, <1>1, <1>2, <2>1, <2>2 DEF ShelfPlain
  <2> QED
    BY <1>0, <1>1, <2>1, <2>3, <2>4, <2>5 DEF ShelfInv
<1>4. CASE Shelf!ChangeEntry(i)
  <2> DEFINE x == [manifest[i] EXCEPT !.sha = -1]
  <2>1. meddled' = "entry" /\ file' = file /\ manifest' = [manifest EXCEPT ![i] = x]
    BY <1>4 DEF Shelf!ChangeEntry, Shelf!Meddle, Shelf!Changed
  <2>2. /\ x \in ShelfLine(H) /\ x.seq = manifest[i].seq /\ x.name = manifest[i].name /\ x.sha = -1
        /\ x.prev = manifest[i].prev /\ x.hash = manifest[i].hash
    <3>1. manifest[i] \in ShelfLine(H) /\ -1 \in Int
      BY <1>l
    <3> QED
      BY <3>1 DEF ShelfLine
  <2>3. Entry(x) /\ x.seq > 0
    <3>1. x.seq > 0 /\ Shelf!HalfLine.seq = 0
      BY <1>0, <1>1, <2>2 DEF ShelfPlain, Shelf!HalfLine
    <3> HIDE DEF x
    <3> QED
      BY <3>1 DEF Entry
  <2>4. x.hash # Shelf!ManifestHash(x, x.prev)
    BY <1>2, <2>2 DEF Shelf!ManifestHash
  <2> HIDE DEF x
  <2>5. manifest' \in Seq(ShelfLine(H)) /\ Len(manifest') = Len(manifest)
    BY <2>1, <2>2
  <2>6. \A j \in 1 .. Len(manifest) : manifest'[j] = IF j = i THEN x ELSE manifest[j]
    BY <2>1, <2>2
  <2>7. ShelfTypes'
    <3>1. \E G : <<>> \in G /\ manifest' \in Seq(ShelfLine(G)) /\ prior' \in [Commands -> ShelfLine(G)]
      BY <1>0, <2>5
    <3> QED
      BY <3>1, <1>0, <1>1, <2>1 DEF ShelfTypes
  <2>8. ShelfPlain'
    BY <1>0, <1>1, <1>2, <2>1, <2>2, <2>3, <2>5, <2>6 DEF ShelfPlain
  <2> QED
    BY <1>0, <1>1, <2>1, <2>3, <2>4, <2>5, <2>6, <2>7, <2>8 DEF ShelfInv
<1>5. CASE Shelf!RemoveEntry(i)
  <2> DEFINE s == SubSeq(manifest, 1, i - 1)
             t == SubSeq(manifest, i + 1, Len(manifest))
  <2>1. /\ meddled' = (IF i < Len(manifest) THEN "middle" ELSE "end") /\ file' = file /\ manifest' = s \o t
    BY <1>5 DEF Shelf!RemoveEntry, Shelf!Meddle
  <2>2. s \in Seq(ShelfLine(H)) /\ Len(s) = i - 1 /\ \A j \in 1 .. Len(s) : s[j] = manifest[j]
    OBVIOUS
  <2>3. t \in Seq(ShelfLine(H)) /\ Len(t) = Len(manifest) - i /\ \A j \in 1 .. Len(t) : t[j] = manifest[j + i]
    OBVIOUS
  <2> HIDE DEF s, t
  <2>4. manifest' \in Seq(ShelfLine(H)) /\ Len(manifest') = Len(manifest) - 1
    <3>1. s \o t \in Seq(ShelfLine(H)) /\ Len(s \o t) = Len(s) + Len(t)
      BY <2>2, <2>3, Joined
    <3>2. Len(s) + Len(t) = Len(manifest) - 1
      BY <2>2, <2>3, <1>0
    <3> QED
      BY <3>1, <3>2, <2>1
  <2>5. ASSUME NEW j \in 1 .. Len(manifest')
        PROVE  /\ j < i => j \in 1 .. Len(manifest) /\ manifest'[j] = manifest[j]
               /\ j >= i => j + 1 \in 1 .. Len(manifest) /\ manifest'[j] = manifest[j + 1]
    <3>0. j \in 1 .. Len(manifest) - 1
      BY <2>4, <1>0
    <3>1. CASE j < i
      <4>1. j \in 1 .. Len(s)
        BY <3>0, <3>1, <2>2
      <4>2. manifest'[j] = s[j]
        BY <4>1, <2>1, <2>2, <2>3, Joined
      <4> QED
        BY <3>0, <3>1, <4>1, <4>2, <2>2
    <3>2. CASE ~(j < i)
      <4>1. j \in 1 .. Len(s \o t) /\ j \notin 1 .. Len(s)
        BY <3>0, <3>2, <2>1, <2>2
      <4>2. j - Len(s) \in 1 .. Len(t) /\ manifest'[j] = t[j - Len(s)]
        BY <4>1, <2>1, <2>2, <2>3, Joined
      <4>3. (j - Len(s)) + i = j + 1
        BY <2>2, <3>0
      <4> QED
        BY <3>0, <3>2, <4>2, <4>3, <2>3
    <3> QED
      BY <3>1, <3>2
  <2>6. ShelfTypes'
    <3>1. \E G : <<>> \in G /\ manifest' \in Seq(ShelfLine(G)) /\ prior' \in [Commands -> ShelfLine(G)]
      BY <1>0, <2>4
    <3> QED
      BY <3>1, <1>0, <1>1, <2>1 DEF ShelfTypes
  <2>7. ShelfPlain'
    <3>1. ASSUME NEW j \in 1 .. Len(manifest'), ~Entry(manifest'[j]) PROVE j = Len(manifest')
      BY <3>1, <1>0, <1>1, <2>4, <2>5 DEF ShelfPlain
    <3>2. ASSUME NEW j \in 1 .. Len(manifest'), Entry(manifest'[j])
          PROVE  manifest'[j].seq > 0 /\ manifest'[j].name \in FilesOf
      BY <3>2, <1>0, <1>1, <2>4, <2>5 DEF ShelfPlain
    <3> QED
      BY <3>1, <3>2, <1>0, <1>1, <2>1 DEF ShelfPlain
  <2>8. ASSUME i < Len(manifest), ~overlap
        PROVE  i \in 1 .. Len(manifest') /\ (~Entry(manifest'[i]) \/ manifest'[i].prev # PrevOf(manifest', i))
    <3>0. ShelfChained
      BY <2>8, <1>0 DEF ShelfInv
    <3>1. i \in 1 .. Len(manifest') /\ i + 1 \in 1 .. Len(manifest) /\ manifest'[i] = manifest[i + 1]
      BY <2>8, <2>4, <2>5, <1>0
    <3>2. CASE Entry(manifest[i + 1])
      <4>1. manifest'[i].prev = manifest[i].hash
        BY <3>0, <3>1, <3>2, <1>0 DEF ShelfChained, PrevOf
      <4>2. manifest[i].hash = <<i, manifest[i].name, manifest[i].sha, manifest[i].prev>>
        BY <3>0, <1>0, <1>2 DEF ShelfChained, Shelf!ManifestHash
      <4>3. CASE i = 1
        <5>1. PrevOf(manifest', i) = <<>>
          BY <4>3 DEF PrevOf, Audit!Genesis
        <5> QED
          BY <4>1, <4>2, <5>1, <3>1
      <4>4. CASE i > 1
        <5>1. i - 1 \in 1 .. Len(manifest') /\ i - 1 \in 1 .. Len(manifest) /\ manifest'[i - 1] = manifest[i - 1]
              /\ i - 1 # Len(manifest)
          BY <4>4, <2>4, <2>5, <1>0, <3>1
        <5>2. Entry(manifest[i - 1])
          BY <5>1, <1>1 DEF ShelfPlain
        <5>3. manifest[i - 1].hash = <<i - 1, manifest[i - 1].name, manifest[i - 1].sha, manifest[i - 1].prev>>
          BY <5>1, <5>2, <3>0, <1>1 DEF ShelfChained, ShelfTrue, Shelf!ManifestHash
        <5>4. PrevOf(manifest', i) = manifest[i - 1].hash
          BY <4>4, <5>1 DEF PrevOf
        <5>5. i - 1 # i
          OBVIOUS
        <5> QED
          BY <4>1, <4>2, <5>3, <5>4, <5>5, <3>1
      <4> QED
        BY <4>3, <4>4
    <3>3. CASE ~Entry(manifest[i + 1])
      BY <3>1, <3>3
    <3> QED
      BY <3>2, <3>3
  <2> QED
    BY <1>0, <1>1, <2>1, <2>6, <2>7, <2>8 DEF ShelfInv
<1> QED
  BY <1>3, <1>4, <1>5

\* Every step of the archive keeps its invariant.
LEMMA ShelfStep == ShelfInv /\ [Shelf!Next]_archiveVars => ShelfInv'
<1> SUFFICES ASSUME ShelfInv, [Shelf!Next]_archiveVars PROVE ShelfInv'
  OBVIOUS
<1>1. ASSUME NEW c \in Commands, Shelf!AppendEntry(c) PROVE ShelfInv'
  <2>1. CASE Shelf!Torn
    BY <1>1, <2>1, ShelfCommand DEF Shelf!AppendEntry, Shelf!Step
  <2>2. CASE ~Shelf!Torn
    BY <1>1, <2>2, ShelfAdded DEF Shelf!AppendEntry, Shelf!Step
  <2> QED
    BY <2>1, <2>2
<1>2. ASSUME NEW c \in Commands, NEW half \in BOOLEAN, Shelf!Dies(c, half) PROVE ShelfInv'
  <2>1. CASE half /\ ~Shelf!Torn
    BY <1>2, <2>1, ShelfAdded DEF Shelf!Dies, Shelf!Step
  <2>2. CASE ~(half /\ ~Shelf!Torn)
    BY <1>2, <2>2, ShelfCommand DEF Shelf!Dies, Shelf!Step
  <2> QED
    BY <2>1, <2>2
<1>3. CASE UNCHANGED archiveVars
  <2>1. UNCHANGED <<written, file, manifest, step, mine, prior, overlap, meddled>>
    BY <1>3 DEF archiveVars
  <2>2. ShelfTypes' /\ (ShelfPlain <=> ShelfPlain') /\ (ShelfTrue <=> ShelfTrue')
    BY <2>1 DEF ShelfInv, ShelfTypes, ShelfPlain, ShelfTrue, Entry, Shelf!ManifestHash
  <2>3. ShelfChained <=> ShelfChained'
    BY <2>1 DEF ShelfChained, Entry, PrevOf, Shelf!LastManifest, Shelf!Good
  <2> QED
    BY <2>1, <2>2, <2>3 DEF ShelfInv, Entry, PrevOf, Shelf!ManifestHash
<1> QED
  BY <1>1, <1>2, <1>3, ShelfCommand, ShelfMeddled DEF Shelf!Next

\* The invariant of the archive implies the properties stated of it.
LEMMA ShelfTold == ShelfInv => Shelf!UntouchedPasses /\ Shelf!MeddlingFound
<1> SUFFICES ASSUME ShelfInv PROVE Shelf!UntouchedPasses /\ Shelf!MeddlingFound
  OBVIOUS
<1>1. Shelf!VerifyArchive <=>
        \A i \in 1 .. Len(manifest) :
          /\ Entry(manifest[i]) /\ manifest[i].prev = PrevOf(manifest, i)
          /\ manifest[i].hash = Shelf!ManifestHash(manifest[i], manifest[i].prev)
          /\ file[manifest[i].name] = manifest[i].sha
  BY DEF Shelf!VerifyArchive, Entry, PrevOf, Audit!Genesis
<1>2. Shelf!UntouchedPasses
  BY <1>1 DEF Shelf!UntouchedPasses, Shelf!Good, ShelfInv, ShelfTrue, ShelfChained, Entry
<1>3. Shelf!MeddlingFound
  BY <1>1 DEF Shelf!MeddlingFound, ShelfInv
<1> QED
  BY <1>2, <1>3

-----------------------------------------------------------------------------
(***************************************************************************)
(* The exporter of spans.  A span that was submitted is in exactly one     *)
(* place of those it can still be posted from, or was posted, dropped or   *)
(* lost with its batch; no batch is posted empty or twice, so that the     *)
(* counters count; and what is in the queue behind the last look of close  *)
(* came late.                                                              *)
(***************************************************************************)
InQueue == {queue[i] : i \in 1 .. Len(queue)}
Lost == UNION lostIn

SpanTypes ==
  /\ caller \in [Requests -> {"new", "handed", "done", "off"}] /\ queue \in Seq(Requests)
  /\ batch \subseteq Requests /\ rest \subseteq Requests /\ got \subseteq Requests
  /\ overflow \subseteq Requests /\ late \subseteq Requests /\ lostIn \subseteq SUBSET Requests
  /\ worker \in {"idle", "top", "take", "post", "gone"}
  /\ closer \in {"idle", "join", "drain", "post", "close", "done"}

SpanPlaces ==
  /\ \A s \in Requests : caller[s] = "done" <=>
       s \in InQueue \union batch \union rest \union got \union overflow \union Lost
  /\ \A i, j \in 1 .. Len(queue) : queue[i] = queue[j] => i = j
  /\ InQueue \intersect (batch \union rest \union got \union Lost) = {}
  /\ batch \intersect (rest \union Lost) = {} /\ rest \intersect Lost = {}

SpanCounts ==
  /\ IsFiniteSet(overflow) /\ dropped = Cardinality(overflow)
  /\ IsFiniteSet(lostIn) /\ errors = Cardinality(lostIn)

SpanInv ==
  /\ SpanTypes /\ SpanPlaces /\ SpanCounts
  /\ worker = "post" <=> batch # {}
  /\ exporter = "unset" => worker = "idle"
  /\ exporter \in {"unset", "open"} => closer = "idle"
  /\ closer \notin {"drain", "post"} => rest = {}
  /\ closer = "post" => rest # {}
  /\ closer \in {"post", "close", "done"} => InQueue \subseteq late

\* The cardinality seen through the instance is the cardinality.
LEMMA SameMeter == \A S : Meter!Cardinality(S) = Cardinality(S)
BY DEF Meter!Cardinality, Cardinality

\* The initial states of the exporter satisfy its invariant.
LEMMA SpanInit == Meter!InitExport => SpanInv
<1> SUFFICES ASSUME Meter!InitExport PROVE SpanInv
  OBVIOUS
<1>1. IsFiniteSet({}) /\ Cardinality({}) = 0
  BY FS_EmptySet
<1>2. InQueue = {} /\ Lost = {}
  BY DEF Meter!InitExport, InQueue, Lost
<1>3. SpanTypes
  BY DEF Meter!InitExport, SpanTypes
<1> QED
  BY <1>1, <1>2, <1>3 DEF Meter!InitExport, SpanInv, SpanPlaces, SpanCounts

\* A post: the spans go to the collector, or count as a failed batch, or both.
LEMMA SpansSent ==
  ASSUME SpanInv, NEW spans \in {batch, rest}, spans # {}, Meter!_send(spans)
  PROVE  /\ got' \subseteq got \union spans /\ got \subseteq got'
         /\ Lost' \subseteq Lost \union spans /\ Lost \subseteq Lost'
         /\ spans \subseteq got' \union Lost' /\ lostIn' \subseteq SUBSET Requests
         /\ IsFiniteSet(lostIn') /\ errors' = Cardinality(lostIn')
<1>1. spans \notin lostIn /\ spans \subseteq Requests
  BY DEF SpanInv, SpanPlaces, SpanTypes, Lost
<1>2. IsFiniteSet(lostIn) /\ errors = Cardinality(lostIn) /\ lostIn \subseteq SUBSET Requests
  BY DEF SpanInv, SpanCounts, SpanTypes
<1>3. IsFiniteSet(lostIn \union {spans}) /\ Cardinality(lostIn \union {spans}) = errors + 1
  BY <1>1, <1>2, FS_AddElement
<1>4. UNION (lostIn \union {spans}) = Lost \union spans
  BY DEF Lost
<1> QED
  BY <1>1, <1>2, <1>3, <1>4 DEF Meter!_send, Lost

\* A step after which each span is where it was.
LEMMA SpanSame ==
  ASSUME SpanInv,
         UNCHANGED <<queue, batch, rest, dropped, errors, got, overflow, lostIn, late>>,
         caller' \in [Requests -> {"new", "handed", "done", "off"}],
         \A s \in Requests : caller'[s] = "done" <=> caller[s] = "done",
         worker' \in {"idle", "top", "take", "post", "gone"}, worker' = "post" <=> worker = "post",
         exporter' = "unset" => worker' = "idle", exporter' \in {"unset", "open"} => closer' = "idle",
         closer' \in {"idle", "join", "drain", "post", "close", "done"},
         closer' \notin {"drain", "post"} => rest = {}, closer' = "post" => rest # {},
         closer' \in {"post", "close", "done"} => InQueue \subseteq late
  PROVE  SpanInv'
<1>1. InQueue' = InQueue /\ Lost' = Lost
  BY DEF InQueue, Lost
<1> QED
  BY <1>1 DEF SpanInv, SpanTypes, SpanPlaces, SpanCounts

\* Submitting a span keeps the accounts.
LEMMA SpanSubmit == ASSUME SpanInv, NEW s \in Requests, Meter!submit(s) PROVE SpanInv'
<1>0. Len(queue) \in Nat /\ queue \in Seq(Requests)
  BY DEF SpanInv, SpanTypes
<1>1. /\ caller[s] = "handed" /\ caller' = [caller EXCEPT ![s] = "done"]
      /\ UNCHANGED <<exporter, worker, batch, rest, closer, errors, got, lostIn>>
  BY DEF Meter!submit
<1>2. /\ caller'[s] = "done" /\ \A r \in Requests \ {s} : caller'[r] = caller[r]
      /\ caller' \in [Requests -> {"new", "handed", "done", "off"}]
  BY <1>1 DEF SpanInv, SpanTypes
<1>3. s \notin InQueue \union batch \union rest \union got \union overflow \union Lost /\ Lost' = Lost
  BY <1>1 DEF SpanInv, SpanPlaces, Lost
<1>4. ASSUME queue' = Append(queue, s), UNCHANGED <<dropped, overflow>>,
             late' = IF closer \in {"post", "close", "done"} THEN late \union {s} ELSE late
      PROVE  SpanInv'
  <2>1. Len(queue') = Len(queue) + 1 /\ queue' \in Seq(Requests) /\ queue'[Len(queue) + 1] = s
        /\ \A i \in 1 .. Len(queue) : queue'[i] = queue[i]
    BY <1>0, <1>4
  <2>2. \A i \in 1 .. Len(queue') : i \in 1 .. Len(queue) \/ i = Len(queue) + 1
    BY <1>0, <2>1
  <2>3. InQueue' = InQueue \union {s}
    <3>1. InQueue' \subseteq InQueue \union {s}
      BY <2>1, <2>2 DEF InQueue
    <3>2. InQueue \union {s} \subseteq InQueue'
      <4>1. Len(queue) + 1 \in 1 .. Len(queue') /\ 1 .. Len(queue) \subseteq 1 .. Len(queue')
        BY <1>0, <2>1
      <4> QED
        BY <4>1, <2>1 DEF InQueue
    <3> QED
      BY <3>1, <3>2
  <2>4. \A i, j \in 1 .. Len(queue') : queue'[i] = queue'[j] => i = j
    <3>1. \A i \in 1 .. Len(queue) : queue[i] # s
      BY <1>3 DEF InQueue
    <3> QED
      BY <3>1, <2>1, <2>2 DEF SpanInv, SpanPlaces
  <2>5. SpanTypes'
    BY <1>1, <1>2, <1>4, <2>1 DEF SpanInv, SpanTypes
  <2>6. SpanPlaces'
    BY <1>1, <1>2, <1>3, <1>4, <2>3, <2>4 DEF SpanInv, SpanPlaces
  <2> QED
    BY <1>1, <1>4, <2>3, <2>5, <2>6 DEF SpanInv, SpanCounts
<1>5. ASSUME dropped' = dropped + 1, overflow' = overflow \union {s}, UNCHANGED <<queue, late>>
      PROVE  SpanInv'
  <2>1. IsFiniteSet(overflow') /\ dropped' = Cardinality(overflow')
    BY <1>3, <1>5, FS_AddElement DEF SpanInv, SpanCounts
  <2>2. InQueue' = InQueue
    BY <1>5 DEF InQueue
  <2>3. SpanTypes' /\ SpanPlaces'
    BY <1>1, <1>2, <1>3, <1>5, <2>2 DEF SpanInv, SpanTypes, SpanPlaces
  <2> QED
    BY <1>1, <1>5, <2>1, <2>2, <2>3 DEF SpanInv, SpanCounts
<1> QED
  BY <1>4, <1>5 DEF Meter!submit

\* Taking a batch off the queue keeps them.
LEMMA SpanTaken == ASSUME SpanInv, Meter!_take_batch, queue # <<>> PROVE SpanInv'
<1> DEFINE n == IF Len(queue) < MaxBatch THEN Len(queue) ELSE MaxBatch
<1>0. queue \in Seq(Requests) /\ Len(queue) \in Nat \ {0} /\ MaxBatch \in Nat \ {0}
  BY SpanAssumption DEF SpanInv, SpanTypes
<1>1. /\ worker = "take" /\ worker' = "post" /\ batch' = {queue[i] : i \in 1 .. n}
      /\ queue' = SubSeq(queue, n + 1, Len(queue))
      /\ UNCHANGED <<exporter, caller, rest, closer, dropped, errors, got, overflow, lostIn, late>>
  BY DEF Meter!_take_batch
<1>2. n \in 1 .. Len(queue) /\ batch = {}
  BY <1>0, <1>1 DEF SpanInv
<1> HIDE DEF n
<1>3. queue' \in Seq(Requests) /\ Len(queue') = Len(queue) - n
      /\ \A i \in 1 .. Len(queue') : i + n \in 1 .. Len(queue) /\ queue'[i] = queue[i + n]
  BY <1>0, <1>1, <1>2
<1>4. \A i \in 1 .. Len(queue) : i \in 1 .. n \/ (i - n \in 1 .. Len(queue') /\ queue'[i - n] = queue[i])
  <2> SUFFICES ASSUME NEW i \in 1 .. Len(queue), i \notin 1 .. n
               PROVE  i - n \in 1 .. Len(queue') /\ queue'[i - n] = queue[i]
    OBVIOUS
  <2>1. i - n \in 1 .. Len(queue') /\ (i - n) + n = i
    BY <1>0, <1>2, <1>3
  <2> QED
    BY <2>1, <1>3
<1>5. InQueue = batch' \union InQueue' /\ batch' # {}
  <2>1. InQueue' \subseteq InQueue /\ batch' \subseteq InQueue
    BY <1>1, <1>2, <1>3 DEF InQueue
  <2>2. InQueue \subseteq batch' \union InQueue'
    BY <1>1, <1>4 DEF InQueue
  <2>3. queue[1] \in batch'
    BY <1>1, <1>2
  <2> QED
    BY <2>1, <2>2, <2>3
<1>6. batch' \intersect InQueue' = {} /\ \A i, j \in 1 .. Len(queue') : queue'[i] = queue'[j] => i = j
  <2>0. \A i, j \in 1 .. Len(queue) : queue[i] = queue[j] => i = j
    BY DEF SpanInv, SpanPlaces
  <2>1. ASSUME NEW x \in batch', x \in InQueue' PROVE FALSE
    <3>1. PICK i \in 1 .. n : x = queue[i]
      BY <1>1
    <3>2. PICK j \in 1 .. Len(queue') : x = queue'[j]
      BY <2>1 DEF InQueue
    <3>3. i = j + n
      <4>1. i \in 1 .. Len(queue) /\ j + n \in 1 .. Len(queue) /\ queue[i] = queue[j + n]
        BY <3>1, <3>2, <1>2, <1>3
      <4> QED
        BY <4>1, <2>0
    <3> QED
      BY <3>3, <1>2
  <2>2. ASSUME NEW i \in 1 .. Len(queue'), NEW j \in 1 .. Len(queue'), queue'[i] = queue'[j] PROVE i = j
    <3>1. i + n = j + n
      BY <2>2, <2>0, <1>3
    <3> QED
      BY <3>1, <1>2, <1>3
  <2> QED
    BY <2>1, <2>2
<1>7. Lost' = Lost /\ InQueue \subseteq Requests
  BY <1>0, <1>1 DEF Lost, InQueue
<1>8. SpanTypes'
  BY <1>1, <1>3, <1>5, <1>7 DEF SpanInv, SpanTypes
<1>9. SpanPlaces'
  BY <1>1, <1>2, <1>5, <1>6, <1>7 DEF SpanInv, SpanPlaces
<1> QED
  BY <1>1, <1>5, <1>8, <1>9 DEF SpanInv, SpanCounts

\* Both the thread and close post what they hold, and hold nothing then.
LEMMA SpanPost ==
  ASSUME SpanInv, \/ Meter!Post
                  \/ /\ closer = "post" /\ closer' = "close" /\ rest' = {} /\ Meter!_send(rest)
                     /\ UNCHANGED <<exporter, caller, queue, worker, batch, dropped, overflow, late>>
  PROVE  SpanInv'
<1> DEFINE Sent(spans) == /\ got' \subseteq got \union spans /\ got \subseteq got'
                          /\ Lost' \subseteq Lost \union spans /\ Lost \subseteq Lost'
                          /\ spans \subseteq got' \union Lost' /\ lostIn' \subseteq SUBSET Requests
                          /\ IsFiniteSet(lostIn') /\ errors' = Cardinality(lostIn')
<1>1. CASE Meter!Post
  <2>1. /\ worker = "post" /\ worker' = "top" /\ batch' = {} /\ batch # {} /\ Meter!_send(batch)
        /\ UNCHANGED <<exporter, caller, queue, rest, closer, dropped, overflow, late>>
    BY <1>1 DEF Meter!Post, SpanInv
  <2>2. Sent(batch)
    BY <2>1, SpansSent
  <2>3. InQueue' = InQueue
    BY <2>1 DEF InQueue
  <2>4. SpanTypes'
    BY <2>1, <2>2 DEF SpanInv, SpanTypes
  <2>5. SpanPlaces'
    BY <2>1, <2>2, <2>3 DEF SpanInv, SpanPlaces
  <2> QED
    BY <2>1, <2>2, <2>3, <2>4, <2>5 DEF SpanInv, SpanCounts
<1>2. ASSUME closer = "post", closer' = "close", rest' = {}, Meter!_send(rest),
             UNCHANGED <<exporter, caller, queue, worker, batch, dropped, overflow, late>>
      PROVE  SpanInv'
  <2>1. rest # {}
    BY <1>2 DEF SpanInv
  <2>2. Sent(rest)
    BY <1>2, <2>1, SpansSent
  <2>3. InQueue' = InQueue
    BY <1>2 DEF InQueue
  <2>4. SpanTypes'
    BY <1>2, <2>2 DEF SpanInv, SpanTypes
  <2>5. SpanPlaces'
    BY <1>2, <2>2, <2>3 DEF SpanInv, SpanPlaces
  <2> QED
    BY <1>2, <2>2, <2>3, <2>4, <2>5 DEF SpanInv, SpanCounts
<1> QED
  BY <1>1, <1>2

\* Draining one span at the close keeps them.
LEMMA SpanDrained ==
  ASSUME SpanInv, closer = "drain", closer' = "drain", queue # <<>>,
         rest' = rest \union {Head(queue)}, queue' = Tail(queue),
         UNCHANGED <<exporter, caller, worker, batch, dropped, errors, got, overflow, lostIn, late>>
  PROVE  SpanInv'
<1>0. queue \in Seq(Requests) /\ Len(queue) \in Nat \ {0}
  BY DEF SpanInv, SpanTypes
<1>1. /\ queue' \in Seq(Requests) /\ Len(queue') = Len(queue) - 1 /\ Head(queue) = queue[1]
      /\ \A i \in 1 .. Len(queue') : i + 1 \in 1 .. Len(queue) /\ queue'[i] = queue[i + 1]
  BY <1>0
<1>2. \A i \in 1 .. Len(queue) : i = 1 \/ (i - 1 \in 1 .. Len(queue') /\ queue'[i - 1] = queue[i])
  BY <1>0, <1>1
<1>3. InQueue = InQueue' \union {Head(queue)}
  <2>1. InQueue' \union {Head(queue)} \subseteq InQueue
    BY <1>0, <1>1 DEF InQueue
  <2>2. InQueue \subseteq InQueue' \union {Head(queue)}
    <3> SUFFICES ASSUME NEW i \in 1 .. Len(queue) PROVE queue[i] \in InQueue' \union {Head(queue)}
      BY DEF InQueue
    <3> QED
      BY <1>1, <1>2 DEF InQueue
  <2> QED
    BY <2>1, <2>2
<1>4. \A i, j \in 1 .. Len(queue) : queue[i] = queue[j] => i = j
  BY DEF SpanInv, SpanPlaces
<1>5. Head(queue) \notin InQueue'
  <2> SUFFICES ASSUME NEW i \in 1 .. Len(queue'), queue'[i] = queue[1] PROVE FALSE
    BY <1>1 DEF InQueue
  <2>1. i + 1 = 1
    BY <1>0, <1>1, <1>4
  <2> QED
    BY <2>1
<1>6. \A i, j \in 1 .. Len(queue') : queue'[i] = queue'[j] => i = j
  <2> SUFFICES ASSUME NEW i \in 1 .. Len(queue'), NEW j \in 1 .. Len(queue'), queue'[i] = queue'[j] PROVE i = j
    OBVIOUS
  <2>1. i + 1 = j + 1
    BY <1>1, <1>4
  <2> QED
    BY <2>1
<1>7. Lost' = Lost /\ InQueue \subseteq Requests
  BY <1>0 DEF Lost, InQueue
<1>8. SpanTypes'
  BY <1>1, <1>3, <1>7 DEF SpanInv, SpanTypes
<1>9. SpanPlaces'
  BY <1>3, <1>5, <1>6, <1>7 DEF SpanInv, SpanPlaces
<1> QED
  BY <1>8, <1>9 DEF SpanInv, SpanCounts

\* Every step of the exporter keeps its invariant.
LEMMA SpanStep == SpanInv /\ [Meter!Export]_exportVars => SpanInv'
<1> SUFFICES ASSUME SpanInv, [Meter!Export]_exportVars PROVE SpanInv'
  OBVIOUS
<1>0. SpanTypes
  BY DEF SpanInv
<1>1. ASSUME NEW s \in Requests, Meter!_exporter_for(s) PROVE SpanInv'
  <2>1. caller' \in [Requests -> {"new", "handed", "done", "off"}]
        /\ \A r \in Requests : caller'[r] = "done" <=> caller[r] = "done"
    BY <1>0, <1>1 DEF SpanTypes, Meter!_exporter_for
  <2>2. /\ worker' \in {"idle", "top", "take", "post", "gone"} /\ (worker' = "post" <=> worker = "post")
        /\ (exporter' = "unset" => worker' = "idle") /\ (exporter' \in {"unset", "open"} => closer = "idle")
        /\ UNCHANGED <<queue, batch, rest, closer, dropped, errors, got, overflow, lostIn, late>>
    BY <1>0, <1>1 DEF SpanInv, SpanTypes, Meter!_exporter_for
  <2> QED
    BY <1>0, <2>1, <2>2, SpanSame DEF SpanInv, SpanTypes
<1>2. CASE Meter!_run
  BY <1>0, <1>2, SpanSame DEF SpanInv, SpanTypes, Meter!_run
<1>3. CASE Meter!_take_batch
  <2>1. CASE queue = <<>>
    BY <1>0, <1>3, <2>1, SpanSame DEF SpanInv, SpanTypes, Meter!_take_batch
  <2> QED
    BY <1>3, <2>1, SpanTaken
<1>4. CASE Meter!shutdown
  BY <1>0, <1>4, SpanSame DEF SpanInv, SpanTypes, Meter!shutdown
<1>5. CASE Meter!close
  <2>0. UNCHANGED <<caller, stopped, worker, batch, dropped, overflow, late>>
    BY <1>5 DEF Meter!close
  <2>1. CASE closer = "join" /\ closer' = "drain" /\ UNCHANGED <<exporter, queue, rest, client, errors, got, lostIn>>
    BY <1>0, <2>0, <2>1, SpanSame DEF SpanInv, SpanTypes
  <2>2. CASE closer = "drain" /\ queue = <<>> /\ closer' = (IF rest = {} THEN "close" ELSE "post")
             /\ UNCHANGED <<exporter, queue, rest, client, errors, got, lostIn>>
    <3>1. InQueue = {}
      BY <2>2 DEF InQueue
    <3> QED
      BY <1>0, <2>0, <2>2, <3>1, SpanSame DEF SpanInv, SpanTypes
  <2>3. CASE closer = "drain" /\ queue # <<>> /\ rest' = rest \union {Head(queue)} /\ queue' = Tail(queue)
             /\ UNCHANGED <<closer, exporter, client, errors, got, lostIn>>
    BY <2>0, <2>3, SpanDrained
  <2>4. CASE closer = "post" /\ closer' = "close" /\ rest' = {} /\ Meter!_send(rest) /\ UNCHANGED <<exporter, queue, client>>
    BY <2>0, <2>4, SpanPost
  <2>5. CASE closer = "close" /\ closer' = "done" /\ exporter' = "gone" /\ UNCHANGED <<queue, rest, errors, got, lostIn>>
    BY <1>0, <2>0, <2>5, SpanSame DEF SpanInv, SpanTypes
  <2> QED
    BY <1>5, <2>1, <2>2, <2>3, <2>4, <2>5 DEF Meter!close
<1>6. CASE UNCHANGED exportVars
  BY <1>0, <1>6, SpanSame DEF SpanInv, SpanTypes, exportVars
<1> QED
  BY <1>1, <1>2, <1>3, <1>4, <1>5, <1>6, SpanSubmit, SpanPost DEF Meter!Export

\* The invariant of the exporter implies the properties stated of it.
LEMMA SpanTold == SpanInv => Meter!SpansAccounted
<1> SUFFICES ASSUME SpanInv PROVE Meter!SpansAccounted
  OBVIOUS
<1>1. ASSUME closer = "done", worker = "gone", NEW s \in Requests, caller[s] = "done"
      PROVE  s \in got \union overflow \union (UNION lostIn) \union late
  <2>1. s \in InQueue \union batch \union rest \union got \union overflow \union UNION lostIn
    BY <1>1 DEF SpanInv, SpanPlaces, Lost
  <2>2. batch = {} /\ rest = {} /\ InQueue \subseteq late
    BY <1>1 DEF SpanInv
  <2> QED
    BY <2>1, <2>2
<1>2. \A i \in 1 .. Len(queue) : queue[i] \notin got \union batch \union rest
  BY DEF SpanInv, SpanPlaces, InQueue
<1> QED
  BY <1>1, <1>2, SameMeter DEF Meter!SpansAccounted, SpanInv, SpanCounts

-----------------------------------------------------------------------------
(***************************************************************************)
(* The histograms: every bucket is the count of the values up to its       *)
(* bound, after each value again.                                          *)
(***************************************************************************)
AtMost(b) == {v \in Values : v <= b}

MeasureInv ==
  /\ observed \in Seq(Values) /\ bucket_map \in [Buckets -> Nat] /\ total \in Nat
  /\ \A b \in Buckets : bucket_map[b] = Meter!Observed(AtMost(b))
  /\ total = Meter!Observed(Values)

\* The initial states of the metrics satisfy its invariant.
LEMMA MeasureInit == Meter!InitMeasure => MeasureInv
<1> SUFFICES ASSUME Meter!InitMeasure PROVE MeasureInv
  OBVIOUS
<1>1. \A S : Meter!Observed(S) = 0
  <2> SUFFICES ASSUME NEW S PROVE Meter!Observed(S) = 0
    OBVIOUS
  <2>1. {i \in 1 .. Len(observed) : observed[i] \in S} = {}
    BY DEF Meter!InitMeasure
  <2> QED
    BY <2>1, SameMeter, FS_EmptySet DEF Meter!Observed
<1> QED
  BY <1>1 DEF Meter!InitMeasure, MeasureInv

\* One value more counts once, where it belongs.
LEMMA OneMore ==
  ASSUME NEW v \in Values, observed \in Seq(Values), observed' = Append(observed, v), NEW S
  PROVE  Meter!Observed(S) \in Nat
         /\ Meter!Observed(S)' = Meter!Observed(S) + (IF v \in S THEN 1 ELSE 0)
<1> DEFINE n == Len(observed)
           In == {i \in 1 .. n : observed[i] \in S}
           Now == {i \in 1 .. Len(observed') : observed'[i] \in S}
<1>1. n \in Nat /\ Len(observed') = n + 1 /\ observed'[n + 1] = v /\ \A i \in 1 .. n : observed'[i] = observed[i]
  OBVIOUS
<1>2. IsFiniteSet(In) /\ Cardinality(In) \in Nat /\ n + 1 \notin In
  <2>1. IsFiniteSet(1 .. n)
    <3>1. n \in Int /\ 1 \in Int
      BY <1>1
    <3> QED
      BY <3>1, FS_Interval
  <2>2. IsFiniteSet(In)
    BY <2>1, FS_Subset, In \subseteq 1 .. n
  <2> QED
    BY <2>2, <1>1, FS_CardinalityType
<1>3. Now = IF v \in S THEN In \union {n + 1} ELSE In
  BY <1>1
<1>4. Cardinality(In \union {n + 1}) = Cardinality(In) + 1
  BY <1>2, FS_AddElement
<1>5. Meter!Observed(S) = Cardinality(In) /\ Meter!Observed(S)' = Cardinality(Now)
  BY SameMeter DEF Meter!Observed
<1> HIDE DEF In, Now
<1>6. CASE v \in S
  BY <1>6, <1>2, <1>3, <1>4, <1>5
<1>7. CASE v \notin S
  BY <1>7, <1>2, <1>3, <1>5
<1> QED
  BY <1>6, <1>7

\* Every step of the metrics keeps its invariant.
LEMMA MeasureStep == MeasureInv /\ [Meter!Measure]_measureVars => MeasureInv'
<1> SUFFICES ASSUME MeasureInv, [Meter!Measure]_measureVars PROVE MeasureInv'
  OBVIOUS
<1>1. CASE UNCHANGED <<observed, bucket_map, total>>
  BY <1>1 DEF MeasureInv, AtMost, Meter!Observed
<1>2. ASSUME NEW v \in Values, Meter!_observe(v) PROVE MeasureInv'
  <2>1. /\ observed' = Append(observed, v) /\ total' = total + 1
        /\ bucket_map' = [b \in Buckets |-> bucket_map[b] + (IF v <= b THEN 1 ELSE 0)]
    BY <1>2 DEF Meter!_observe
  <2>2. observed \in Seq(Values)
    BY DEF MeasureInv
  <2>3. observed' \in Seq(Values) /\ total' \in Nat /\ bucket_map' \in [Buckets -> Nat]
    BY <2>1 DEF MeasureInv
  <2>4. ASSUME NEW b \in Buckets PROVE bucket_map'[b] = Meter!Observed(AtMost(b))'
    <3>1. v \in AtMost(b) <=> v <= b
      BY DEF AtMost
    <3>2. Meter!Observed(AtMost(b))' = Meter!Observed(AtMost(b)) + (IF v \in AtMost(b) THEN 1 ELSE 0)
      BY <2>1, <2>2, OneMore
    <3> QED
      BY <3>1, <3>2, <2>1 DEF MeasureInv
  <2>5. total' = Meter!Observed(Values)'
    BY <2>1, <2>2, OneMore DEF MeasureInv
  <2> QED
    BY <2>3, <2>4, <2>5 DEF MeasureInv
<1>3. CASE Meter!render \/ \E name \in Channels : Meter!Register(name)
  BY <1>1, <1>3 DEF Meter!render, Meter!Register
<1>4. CASE UNCHANGED measureVars
  BY <1>1, <1>4 DEF measureVars
<1> QED
  BY <1>2, <1>3, <1>4 DEF Meter!Measure

\* The invariant of the metrics implies the properties stated of it.
LEMMA MeasureTold == MeasureInv => Meter!HistogramTells
BY DEF MeasureInv, Meter!HistogramTells, AtMost

-----------------------------------------------------------------------------
(***************************************************************************)
(* The runs that wait.  Of those that were late at a moment there are only *)
(* fewer later, since a ticket is of the present tick until its run waits: *)
(* so a count of what was late when a scan began is never too small, and a *)
(* scan does not lose a run that was late when it began.  Nobody has       *)
(* waited for less than a scan says, since rows and tickets are not older  *)
(* than the wait.                                                          *)
(***************************************************************************)
Reader == {"scrape", "sweep", "stuck", "report"}
Stamps == [Channels -> Nat \union {Nobody}]
ScanResult == [at : Nat, value : Nat]
ScanState == [step : {"list", "times", "tell"}, at : Nat, awaiting : SUBSET Channels, age : Stamps,
              count : Nat, waited : [Channels -> Int]]

WatchTypes ==
  /\ tick \in Nat /\ waiting \subseteq Channels /\ pending \in Stamps /\ held \in Stamps
  /\ touched \in [Channels -> Nat]
  /\ scan \in [Reader -> ScanState \union {Nobody}]
  /\ gauge \in ScanResult \union {Nobody} /\ cache \in ScanResult \union {Nobody}

\* A run begins to wait with its ticket, and its row is written then.
WaitsInOrder ==
  \A r \in Channels :
    /\ held[r] # Nobody => held[r] =< tick
    /\ pending[r] # Nobody => pending[r] = held[r]
    /\ pending[r] # Nobody /\ r \notin waiting => pending[r] = tick
    /\ r \in waiting => held[r] # Nobody /\ held[r] =< touched[r]
    /\ touched[r] =< tick

OverdueIn(w, p, at) == {r \in w : p[r] # Nobody /\ p[r] + Stuck =< at}

CountTrue(count, w, p, at) == count >= Cardinality(OverdueIn(w, p, at))

ScanTrue(c, s, w, p, u, h) ==
  /\ \A r \in s.awaiting :
       /\ h[r] # Nobody /\ h[r] =< s.at /\ h[r] =< u[r]
       /\ c \in {"stuck", "report"} => s.waited[r] = s.at - h[r]
       /\ s.step = "times" => s.age[r] = Nobody \/ s.age[r] =< s.at - h[r]
  /\ s.step \in {"list", "times"} => OverdueIn(w, p, s.at) \subseteq s.awaiting
  /\ s.step = "tell" => CountTrue(s.count, w, p, s.at)
  /\ s.step = "tell" /\ c \in {"stuck", "report"} =>
       /\ OverdueIn(w, p, s.at) \subseteq Meter!Found(s)
       /\ \A r \in Meter!Found(s) : s.age[r] = Nobody \/ s.age[r] =< s.waited[r]

\* The command scans for its report when its own scan has ended.
Paired == scan["report"] # Nobody => scan["stuck"] # Nobody /\ scan["stuck"].step = "tell"

WatchInv ==
  /\ WatchTypes /\ WaitsInOrder /\ Paired
  /\ \A c \in Reader : scan[c] # Nobody =>
       scan[c].at =< tick /\ ScanTrue(c, scan[c], waiting, pending, touched, held)
  /\ gauge # Nobody => gauge.at =< tick /\ CountTrue(gauge.value, waiting, pending, gauge.at)
  /\ cache # Nobody => cache.at =< tick /\ CountTrue(cache.value, waiting, pending, cache.at)
  /\ Meter!AlarmTells

\* The constants of the watch, and when a run is overdue in terms of what is waiting.
LEMMA WatchFacts == /\ Nobody \notin Nat /\ Stuck \in Nat \ {0} /\ IsFiniteSet(Channels)
                    /\ \A at : Meter!Overdue(at) = OverdueIn(waiting, pending, at)
BY MemoryAssumption, WatchAssumption DEF Meter!Overdue, OverdueIn

\* The initial states of the watch of waiting runs satisfy its invariant.
LEMMA WatchInit == Meter!InitWatch => WatchInv
<1> SUFFICES ASSUME Meter!InitWatch PROVE WatchInv
  OBVIOUS
<1>1. \A c \in Reader : scan[c] = Nobody
  BY DEF Meter!InitWatch, Meter!Scanners, Reader
<1>2. WatchTypes
  BY DEF Meter!InitWatch, Meter!Scanners, Reader, WatchTypes, Stamps
<1>3. WaitsInOrder
  BY WatchFacts DEF Meter!InitWatch, WaitsInOrder
<1> QED
  BY <1>1, <1>2, <1>3 DEF Meter!InitWatch, WatchInv, Meter!AlarmTells, Paired, Reader

\* Fewer runs are late: what was counted or found is still enough.
LEMMA FewerLate ==
  ASSUME NEW w \in SUBSET Channels, NEW w2 \in SUBSET Channels, NEW p, NEW p2, NEW at,
         OverdueIn(w2, p2, at) \subseteq OverdueIn(w, p, at)
  PROVE  /\ Cardinality(OverdueIn(w, p, at)) \in Nat
         /\ \A count \in Nat : CountTrue(count, w, p, at) => CountTrue(count, w2, p2, at)
<1>1. IsFiniteSet(OverdueIn(w, p, at))
  BY WatchFacts, FS_Subset, OverdueIn(w, p, at) \subseteq Channels DEF OverdueIn
<1>2. Cardinality(OverdueIn(w, p, at)) \in Nat
  BY <1>1, FS_CardinalityType
<1>3. IsFiniteSet(OverdueIn(w2, p2, at))
  BY <1>1, FS_Subset
<1>4. Cardinality(OverdueIn(w2, p2, at)) \in Nat
  BY <1>3, FS_CardinalityType
<1>5. Cardinality(OverdueIn(w2, p2, at)) <= Cardinality(OverdueIn(w, p, at))
  BY <1>1, FS_Subset
<1> QED
  BY <1>2, <1>4, <1>5 DEF CountTrue

\* A step of the runs or of the clock: no run becomes late for a moment that is past.
Moved ==
  /\ tick \in Nat /\ tick' \in Nat /\ tick <= tick'
  /\ waiting' \subseteq Channels /\ pending' \in Stamps /\ held' \in Stamps /\ touched' \in [Channels -> Nat]
  /\ \A r \in Channels : (held[r] # Nobody => held'[r] = held[r]) /\ touched[r] <= touched'[r]
  /\ \A at \in 0 .. tick : OverdueIn(waiting', pending', at) \subseteq OverdueIn(waiting, pending, at)

\* A scan that was right before is right after.
LEMMA ScanStays ==
  ASSUME WatchTypes, Moved, NEW c, NEW s \in ScanState, s.at =< tick,
         ScanTrue(c, s, waiting, pending, touched, held)
  PROVE  ScanTrue(c, s, waiting', pending', touched', held')
<1>1. s.at \in 0 .. tick /\ s.count \in Nat /\ s.awaiting \subseteq Channels
  BY DEF ScanState, WatchTypes
<1>2. OverdueIn(waiting', pending', s.at) \subseteq OverdueIn(waiting, pending, s.at)
  BY <1>1 DEF Moved
<1>3. CountTrue(s.count, waiting, pending, s.at) => CountTrue(s.count, waiting', pending', s.at)
  BY <1>1, <1>2, FewerLate DEF WatchTypes, Moved
<1>4. ASSUME NEW r \in s.awaiting, held[r] # Nobody, held[r] =< touched[r]
      PROVE  held'[r] = held[r] /\ held'[r] =< touched'[r]
  <2>1. r \in Channels /\ held[r] \in Nat /\ touched[r] \in Nat /\ touched'[r] \in Nat
    BY <1>1, <1>4 DEF WatchTypes, Moved, Stamps
  <2>2. held'[r] = held[r] /\ touched[r] <= touched'[r]
    BY <1>4, <2>1 DEF Moved
  <2> QED
    BY <2>1, <2>2, <1>4
<1> QED
  BY <1>2, <1>3, <1>4 DEF ScanTrue

\* The clock and the channels keep the invariant while nothing is being told.
LEMMA WatchMoves ==
  ASSUME WatchInv, told = Nobody,
         Meter!Tick \/ \E r \in Channels : Meter!Hold(r) \/ Meter!Decide(r) \/ Meter!Touch(r)
  PROVE  WatchInv'
<1>0. WatchTypes /\ WaitsInOrder /\ Nobody \notin Nat /\ Stuck \in Nat \ {0}
  BY WatchFacts DEF WatchInv
<1>1. UNCHANGED <<scan, gauge, cache, told>>
  BY DEF Meter!Tick, Meter!Hold, Meter!Decide, Meter!Touch
<1>2. Moved /\ WaitsInOrder'
  <2> USE <1>0 DEF WatchTypes, WaitsInOrder, Stamps
  <2>1. ASSUME NEW r \in Channels, Meter!Touch(r) PROVE Moved /\ WaitsInOrder'
    <3>1. touched' = [touched EXCEPT ![r] = tick] /\ UNCHANGED <<tick, waiting, pending, held>>
      BY <2>1 DEF Meter!Touch
    <3>2. touched' \in [Channels -> Nat] /\ \A q \in Channels : touched'[q] = IF q = r THEN tick ELSE touched[q]
      BY <3>1
    <3> QED
      BY <3>1, <3>2 DEF Moved, OverdueIn
  <2>2. ASSUME NEW r \in Channels, Meter!Decide(r) PROVE Moved /\ WaitsInOrder'
    <3>1. r \in waiting /\ touched' = [touched EXCEPT ![r] = tick] /\ UNCHANGED <<tick, held>>
      BY <2>2 DEF Meter!Decide
    <3>2. touched' \in [Channels -> Nat] /\ \A q \in Channels : touched'[q] = IF q = r THEN tick ELSE touched[q]
      BY <3>1
    <3>3. CASE pending' = [pending EXCEPT ![r] = Nobody] /\ UNCHANGED waiting
      <4>1. pending' \in Stamps /\ \A q \in Channels : pending'[q] = IF q = r THEN Nobody ELSE pending[q]
        BY <3>3
      <4> QED
        BY <3>1, <3>2, <3>3, <4>1 DEF Moved, OverdueIn
    <3>4. CASE pending[r] = Nobody /\ waiting' = waiting \ {r} /\ UNCHANGED pending
      BY <3>1, <3>2, <3>4 DEF Moved, OverdueIn
    <3> QED
      BY <2>2, <3>3, <3>4 DEF Meter!Decide
  <2>3. ASSUME NEW r \in Channels, Meter!Hold(r) PROVE Moved /\ WaitsInOrder'
    <3>1. UNCHANGED tick
      BY <2>3 DEF Meter!Hold
    <3>2. CASE /\ held[r] = Nobody /\ pending' = [pending EXCEPT ![r] = tick] /\ held' = [held EXCEPT ![r] = tick]
               /\ UNCHANGED <<waiting, touched>>
      <4>1. /\ pending' \in Stamps /\ held' \in Stamps
            /\ \A q \in Channels : pending'[q] = (IF q = r THEN tick ELSE pending[q])
                                   /\ held'[q] = (IF q = r THEN tick ELSE held[q])
        BY <3>2
      <4>2. r \notin waiting
        BY <3>2
      <4>3. WaitsInOrder'
        BY <3>1, <3>2, <4>1, <4>2
      <4>4. \A at \in 0 .. tick : OverdueIn(waiting', pending', at) \subseteq OverdueIn(waiting, pending, at)
        BY <3>2, <4>1, <4>2 DEF OverdueIn
      <4>5. \A q \in Channels : (held[q] # Nobody => held'[q] = held[q]) /\ touched[q] <= touched'[q]
        BY <3>2, <4>1
      <4>6. /\ tick \in Nat /\ tick' \in Nat /\ tick <= tick'
            /\ waiting' \subseteq Channels /\ touched' \in [Channels -> Nat]
        BY <3>1, <3>2
      <4>7. Moved
        BY ONLY <4>1, <4>4, <4>5, <4>6 DEF Moved, Stamps
      <4> QED
        BY ONLY <4>3, <4>7
    <3>3. CASE /\ r \notin waiting /\ pending[r] # Nobody /\ waiting' = waiting \union {r}
               /\ touched' = [touched EXCEPT ![r] = tick] /\ UNCHANGED <<pending, held>>
      <4>1. touched' \in [Channels -> Nat] /\ \A q \in Channels : touched'[q] = IF q = r THEN tick ELSE touched[q]
        BY <3>3
      <4>2. pending[r] = tick /\ held[r] = tick
        BY <3>3
      <4>3. WaitsInOrder'
        BY <3>1, <3>3, <4>1, <4>2
      <4>4. \A at \in 0 .. tick : OverdueIn(waiting', pending', at) \subseteq OverdueIn(waiting, pending, at)
        BY <3>3, <4>2 DEF OverdueIn
      <4>5. /\ tick \in Nat /\ tick' \in Nat /\ tick <= tick' /\ waiting' \subseteq Channels
            /\ pending' \in Stamps /\ held' \in Stamps
        BY <3>1, <3>3
      <4>6. \A q \in Channels : held'[q] = held[q] /\ touched[q] <= touched'[q]
        BY <3>3, <4>1
      <4>7. Moved
        BY ONLY <4>1, <4>4, <4>5, <4>6 DEF Moved, Stamps
      <4> QED
        BY ONLY <4>3, <4>7
    <3> QED
      BY <2>3, <3>2, <3>3 DEF Meter!Hold
  <2>4. CASE Meter!Tick
    <3>1. /\ tick' = tick + 1 /\ UNCHANGED <<waiting, pending, touched, held>>
          /\ \A r \in Channels : ~(pending[r] # Nobody /\ r \notin waiting)
      BY <2>4 DEF Meter!Tick
    <3>2. WaitsInOrder'
      BY <3>1
    <3> QED
      BY <3>1, <3>2 DEF Moved, OverdueIn
  <2> QED
    BY <2>1, <2>2, <2>3, <2>4
<1>3. WatchTypes'
  BY <1>0, <1>1, <1>2 DEF WatchTypes, Moved
<1>4. ASSUME NEW c \in Reader, scan[c] # Nobody
      PROVE  scan[c].at =< tick' /\ ScanTrue(c, scan[c], waiting', pending', touched', held')
  <2>1. scan[c] \in ScanState /\ scan[c].at =< tick /\ ScanTrue(c, scan[c], waiting, pending, touched, held)
    BY <1>0, <1>4 DEF WatchInv, WatchTypes
  <2>2. scan[c].at \in Nat
    BY <2>1 DEF ScanState
  <2> QED
    BY <2>1, <2>2, <1>0, <1>2, ScanStays DEF Moved
<1>5. ASSUME NEW g \in ScanResult, g.at =< tick, CountTrue(g.value, waiting, pending, g.at)
      PROVE  g.at =< tick' /\ CountTrue(g.value, waiting', pending', g.at)
  <2>1. g.at \in 0 .. tick /\ g.value \in Nat /\ g.at =< tick'
    BY <1>2, <1>5 DEF ScanResult, Moved
  <2>2. OverdueIn(waiting', pending', g.at) \subseteq OverdueIn(waiting, pending, g.at)
    BY <1>2, <2>1 DEF Moved
  <2> QED
    BY <2>1, <2>2, <1>0, <1>2, <1>5, FewerLate DEF WatchTypes, Moved
<1>6. (gauge # Nobody => gauge \in ScanResult) /\ (cache # Nobody => cache \in ScanResult)
  BY <1>0 DEF WatchTypes
<1>7. Meter!AlarmTells'
  BY <1>1 DEF Meter!AlarmTells
<1>8. Paired'
  BY <1>1 DEF WatchInv, Paired
<1> QED
  BY <1>1, <1>2, <1>3, <1>4, <1>5, <1>6, <1>7, <1>8 DEF WatchInv

\* A scan goes on, begins, fails or is told; nobody moves meanwhile.
LEMMA ScanChanged ==
  ASSUME WatchInv, UNCHANGED <<tick, waiting, pending, touched, held>>,
         scan' \in [Reader -> ScanState \union {Nobody}],
         \A c \in Reader : scan'[c] = scan[c] \/ scan'[c] = Nobody \/
           (scan'[c].at =< tick /\ ScanTrue(c, scan'[c], waiting, pending, touched, held)),
         gauge' \in ScanResult \union {Nobody}, cache' \in ScanResult \union {Nobody},
         gauge' = gauge \/ gauge' = cache \/
           (gauge'.at =< tick /\ CountTrue(gauge'.value, waiting, pending, gauge'.at)),
         cache' = cache \/ (cache'.at =< tick /\ CountTrue(cache'.value, waiting, pending, cache'.at)),
         Paired', Meter!AlarmTells'
  PROVE  WatchInv'
<1>1. WatchTypes' /\ WaitsInOrder'
  BY DEF WatchInv, WatchTypes, WaitsInOrder
<1>2. \A c \in Reader : scan'[c] # Nobody =>
        scan'[c].at =< tick /\ ScanTrue(c, scan'[c], waiting, pending, touched, held)
  BY DEF WatchInv
<1>3. gauge' # Nobody => gauge'.at =< tick /\ CountTrue(gauge'.value, waiting, pending, gauge'.at)
  BY DEF WatchInv
<1>4. cache' # Nobody => cache'.at =< tick /\ CountTrue(cache'.value, waiting, pending, cache'.at)
  BY DEF WatchInv
<1> QED
  BY <1>1, <1>2, <1>3, <1>4 DEF WatchInv

\* Planning a scan keeps the invariant.
LEMMA WatchPlan ==
  ASSUME WatchInv, told = Nobody, NEW c \in Reader, Meter!Plan(c) PROVE WatchInv'
<1> DEFINE s == Meter!Scan(c)
<1>0. WatchTypes /\ WaitsInOrder /\ Nobody \notin Nat
  BY WatchFacts DEF WatchInv
<1>1. scan' = [scan EXCEPT ![c] = s] /\ UNCHANGED <<tick, waiting, pending, touched, held, gauge, cache, told>>
  BY DEF Meter!Plan
<1>2. s = [step |-> "list", at |-> tick, awaiting |-> waiting, age |-> [r \in Channels |-> Nobody], count |-> 0,
           waited |-> [r \in Channels |-> IF c \in {"stuck", "report"} /\ held[r] # Nobody THEN tick - held[r] ELSE 0]]
  BY DEF Meter!Scan, Meter!Unknown, Meter!Command
<1>3. s \in ScanState
  <2>1. [r \in Channels |-> Nobody] \in Stamps
    BY DEF Stamps
  <2>2. [r \in Channels |-> IF c \in {"stuck", "report"} /\ held[r] # Nobody THEN tick - held[r] ELSE 0]
          \in [Channels -> Int]
    BY <1>0 DEF WatchTypes, Stamps
  <2> QED
    BY <1>0, <1>2, <2>1, <2>2 DEF ScanState, WatchTypes
<1>4. s.step = "list" /\ s.at = tick /\ s.awaiting = waiting
      /\ \A r \in Channels : c \in {"stuck", "report"} /\ held[r] # Nobody => s.waited[r] = tick - held[r]
  BY <1>2
<1> HIDE DEF s
<1>5. ScanTrue(c, s, waiting, pending, touched, held)
  BY <1>0, <1>4 DEF ScanTrue, WaitsInOrder, WatchTypes, OverdueIn
<1>6. scan' \in [Reader -> ScanState \union {Nobody}] /\ scan'[c] = s
      /\ \A d \in Reader \ {c} : scan'[d] = scan[d]
  BY <1>0, <1>1, <1>3 DEF WatchTypes
<1>7. s.at =< tick /\ Paired'
  <2>1. s.at =< tick
    BY <1>0, <1>4 DEF WatchTypes
  <2>2. /\ c = "stuck" => scan["stuck"] = Nobody
        /\ c = "report" => scan["stuck"] # Nobody /\ scan["stuck"].step = "tell"
    BY DEF Meter!Plan, Meter!Reading
  <2>3. Paired'
    BY <1>6, <2>2 DEF WatchInv, Paired, Reader
  <2> QED
    BY <2>1, <2>3
<1>8. Meter!AlarmTells'
  BY <1>1 DEF Meter!AlarmTells
<1> QED
  BY <1>0, <1>1, <1>5, <1>6, <1>7, <1>8, ScanChanged DEF WatchTypes

\* Listing the runs keeps it.
LEMMA WatchList ==
  ASSUME WatchInv, told = Nobody, NEW c \in Reader, Meter!list_runs(c) PROVE WatchInv'
<1>0. WatchTypes /\ WaitsInOrder /\ Nobody \notin Nat
  BY WatchFacts DEF WatchInv
<1>1. /\ UNCHANGED <<tick, waiting, pending, touched, held, gauge, cache, told>>
      /\ scan[c] # Nobody /\ scan[c].step = "list"
      /\ \E listed \in SUBSET Channels :
           scan' = [scan EXCEPT ![c].step = "times",
             ![c].age = [r \in Channels |-> IF r \in listed THEN Meter!Past(touched[r], scan[c].at) ELSE Nobody]]
  BY DEF Meter!list_runs, Meter!Reading
<1> PICK listed \in SUBSET Channels :
      scan' = [scan EXCEPT ![c].step = "times",
        ![c].age = [r \in Channels |-> IF r \in listed THEN Meter!Past(touched[r], scan[c].at) ELSE Nobody]]
  BY <1>1
<1> DEFINE s == scan[c]
           age == [r \in Channels |-> IF r \in listed THEN Meter!Past(touched[r], scan[c].at) ELSE Nobody]
           t == [s EXCEPT !.step = "times", !.age = age]
<1>2. s \in ScanState /\ s.at \in Nat /\ s.at =< tick /\ s.awaiting \subseteq Channels
      /\ ScanTrue(c, s, waiting, pending, touched, held)
  <2>1. s \in ScanState
    BY <1>0, <1>1 DEF WatchTypes
  <2> QED
    BY <2>1, <1>1 DEF WatchInv, ScanState
<1>3. age \in Stamps
  BY <1>0, <1>2 DEF Meter!Past, Stamps, WatchTypes
<1>4. t \in ScanState /\ t.step = "times" /\ t.age = age /\ t.at = s.at /\ t.awaiting = s.awaiting /\ t.waited = s.waited
  BY <1>2, <1>3 DEF ScanState
<1>5. scan' = [scan EXCEPT ![c] = t]
  BY <1>0 DEF WatchTypes
<1>6. \A r \in s.awaiting : age[r] = Nobody \/ age[r] =< s.at - held[r]
  <2> SUFFICES ASSUME NEW r \in s.awaiting, age[r] # Nobody PROVE age[r] =< s.at - held[r]
    OBVIOUS
  <2>1. r \in Channels /\ held[r] # Nobody /\ held[r] =< s.at /\ held[r] =< touched[r]
    BY <1>2 DEF ScanTrue
  <2>2. held[r] \in Nat /\ touched[r] \in Nat
    BY <1>0, <2>1 DEF WatchTypes, Stamps
  <2>3. age[r] = Meter!Past(touched[r], s.at)
    BY <2>1
  <2> QED
    BY <2>1, <2>2, <2>3, <1>2 DEF Meter!Past
<1> HIDE DEF s, age, t
<1>7. ScanTrue(c, t, waiting, pending, touched, held)
  BY <1>1, <1>2, <1>4, <1>6 DEF ScanTrue, s
<1>8. scan' \in [Reader -> ScanState \union {Nobody}] /\ scan'[c] = t
      /\ \A d \in Reader \ {c} : scan'[d] = scan[d]
  BY <1>0, <1>4, <1>5 DEF WatchTypes
<1>9. t.at =< tick /\ Paired'
  BY <1>1, <1>2, <1>4, <1>8 DEF WatchInv, Paired, Reader
<1>10. Meter!AlarmTells'
  BY <1>1 DEF Meter!AlarmTells
<1> QED
  BY <1>0, <1>1, <1>7, <1>8, <1>9, <1>10, ScanChanged DEF WatchTypes

\* A moment later nothing of a scan is kept but what the runs still show.
LEMMA WatchTimes ==
  ASSUME WatchInv, told = Nobody, NEW c \in Reader, Meter!Times(c) PROVE WatchInv'
<1> DEFINE s == scan[c]
           age == [r \in Channels |-> IF pending[r] # Nobody THEN Meter!Past(pending[r], s.at) ELSE s.age[r]]
           t == [s EXCEPT !.step = "tell", !.age = age]
           n == Meter!Cardinality(Meter!Found(t))
           u == IF c \in {"stuck", "report"} THEN [t EXCEPT !.count = n]
                ELSE [t EXCEPT !.count = n, !.age = Meter!Unknown, !.awaiting = {}]
<1>0. WatchTypes /\ WaitsInOrder /\ Nobody \notin Nat /\ Stuck \in Nat \ {0} /\ IsFiniteSet(Channels)
  BY WatchFacts DEF WatchInv
<1>1. /\ UNCHANGED <<tick, waiting, pending, touched, held, gauge, cache, told>>
      /\ s # Nobody /\ s.step = "times" /\ scan' = [scan EXCEPT ![c] = u]
  BY DEF Meter!Times, Meter!Reading, Meter!Command
<1>2. s \in ScanState /\ s.at \in Nat /\ s.at =< tick /\ s.awaiting \subseteq Channels
      /\ ScanTrue(c, s, waiting, pending, touched, held)
  <2>1. s \in ScanState
    BY <1>0, <1>1 DEF WatchTypes
  <2> QED
    BY <2>1, <1>1 DEF WatchInv, ScanState
<1>3. age \in Stamps
  <2>1. s.age \in Stamps
    BY <1>2 DEF ScanState
  <2> QED
    BY <1>0, <1>2, <2>1 DEF Meter!Past, Stamps, WatchTypes
<1>4. t \in ScanState /\ t.step = "tell" /\ t.age = age /\ t.at = s.at /\ t.awaiting = s.awaiting /\ t.waited = s.waited
  BY <1>2, <1>3 DEF ScanState
<1>5. \A r \in s.awaiting : age[r] = Nobody \/ age[r] =< s.at - held[r]
  <2> SUFFICES ASSUME NEW r \in s.awaiting, age[r] # Nobody PROVE age[r] =< s.at - held[r]
    OBVIOUS
  <2>1. r \in Channels /\ held[r] \in Nat /\ held[r] =< s.at
    BY <1>0, <1>2 DEF ScanTrue, WatchTypes, Stamps
  <2>2. CASE pending[r] # Nobody
    <3>1. age[r] = Meter!Past(held[r], s.at)
      BY <1>0, <2>1, <2>2 DEF WaitsInOrder
    <3> QED
      BY <3>1, <2>1, <1>2 DEF Meter!Past
  <2>3. CASE pending[r] = Nobody
    <3>1. age[r] = s.age[r]
      BY <2>1, <2>3
    <3> QED
      BY <3>1, <1>1, <1>2 DEF ScanTrue
  <2> QED
    BY <2>2, <2>3
<1>6. OverdueIn(waiting, pending, s.at) \subseteq Meter!Found(t)
  <2> SUFFICES ASSUME NEW r \in OverdueIn(waiting, pending, s.at) PROVE r \in Meter!Found(t)
    OBVIOUS
  <2>1. r \in waiting /\ pending[r] # Nobody /\ pending[r] + Stuck =< s.at /\ r \in s.awaiting
    BY <1>1, <1>2 DEF OverdueIn, ScanTrue
  <2>2. r \in Channels /\ pending[r] \in Nat
    BY <1>0, <2>1 DEF WatchTypes, Stamps
  <2>3. age[r] = Meter!Past(pending[r], s.at)
    BY <2>1, <2>2
  <2>4. age[r] >= Stuck
    BY <2>1, <2>2, <2>3, <1>0, <1>2 DEF Meter!Past
  <2> QED
    BY <2>1, <2>4, <1>4 DEF Meter!Found
<1>7. n \in Nat /\ CountTrue(n, waiting, pending, s.at)
  <2>1. Meter!Found(t) \subseteq Channels
    BY <1>2, <1>4 DEF Meter!Found
  <2>2. IsFiniteSet(Meter!Found(t))
    BY <1>0, <2>1, FS_Subset
  <2>3. n = Cardinality(Meter!Found(t))
    BY SameMeter
  <2>4. IsFiniteSet(OverdueIn(waiting, pending, s.at))
        /\ Cardinality(OverdueIn(waiting, pending, s.at)) <= Cardinality(Meter!Found(t))
    BY <1>6, <2>2, FS_Subset
  <2>5. Cardinality(OverdueIn(waiting, pending, s.at)) \in Nat /\ Cardinality(Meter!Found(t)) \in Nat
    BY <2>2, <2>4, FS_CardinalityType
  <2> QED
    BY <2>3, <2>4, <2>5 DEF CountTrue
<1>8. Meter!Unknown \in Stamps
  BY DEF Meter!Unknown, Stamps
<1> HIDE DEF s, age, t, n
<1>9. /\ u \in ScanState /\ u.step = "tell" /\ u.at = s.at /\ u.count = n /\ u.waited = s.waited
      /\ c \in {"stuck", "report"} => u.awaiting = t.awaiting /\ u.age = t.age
      /\ c \notin {"stuck", "report"} => u.awaiting = {}
  BY <1>4, <1>7, <1>8 DEF ScanState
<1> HIDE DEF u
<1>10. \A r \in u.awaiting : r \in s.awaiting
  BY <1>4, <1>9
<1>11. c \in {"stuck", "report"} => Meter!Found(u) = Meter!Found(t)
  BY <1>9 DEF Meter!Found
<1>12. c \in {"stuck", "report"} =>
         \A r \in Meter!Found(u) : u.age[r] = Nobody \/ u.age[r] =< u.waited[r]
  <2> SUFFICES ASSUME c \in {"stuck", "report"}, NEW r \in Meter!Found(u)
               PROVE  u.age[r] = Nobody \/ u.age[r] =< u.waited[r]
    OBVIOUS
  <2>1. r \in s.awaiting
    BY <1>10 DEF Meter!Found
  <2>2. u.waited[r] = s.at - held[r]
    BY <1>2, <1>9, <2>1 DEF ScanTrue
  <2> QED
    BY <2>1, <2>2, <1>4, <1>5, <1>9
<1>13. ScanTrue(c, u, waiting, pending, touched, held)
  <2>1. \A r \in u.awaiting :
          /\ held[r] # Nobody /\ held[r] =< u.at /\ held[r] =< touched[r]
          /\ c \in {"stuck", "report"} => u.waited[r] = u.at - held[r]
    BY <1>2, <1>9, <1>10 DEF ScanTrue
  <2> QED
    BY <2>1, <1>4, <1>6, <1>7, <1>9, <1>11, <1>12 DEF ScanTrue
<1>14. scan' \in [Reader -> ScanState \union {Nobody}] /\ scan'[c] = u
       /\ \A d \in Reader \ {c} : scan'[d] = scan[d]
  BY <1>0, <1>1, <1>9 DEF WatchTypes
<1>15. u.at =< tick /\ Paired'
  <2>1. c # "stuck" => scan'["stuck"] = scan["stuck"]
    BY <1>14 DEF Reader
  <2>2. c = "stuck" => scan'["report"] = Nobody
    <3>1. c = "stuck" => scan["report"] = Nobody
      BY <1>1 DEF WatchInv, Paired, s
    <3> QED
      BY <3>1, <1>14 DEF Reader
  <2>3. c # "stuck" /\ scan'["report"] # Nobody => scan["stuck"] # Nobody /\ scan["stuck"].step = "tell"
    <3>1. c = "report" => scan["report"] # Nobody
      BY <1>1 DEF s
    <3> QED
      BY <3>1, <1>14 DEF WatchInv, Paired, Reader
  <2> QED
    BY <1>2, <1>9, <2>1, <2>2, <2>3 DEF Paired
<1>16. Meter!AlarmTells'
  BY <1>1 DEF Meter!AlarmTells
<1> QED
  BY <1>0, <1>1, <1>13, <1>14, <1>15, <1>16, ScanChanged DEF WatchTypes

\* So does a scan that fails.
LEMMA WatchFails ==
  ASSUME WatchInv, told = Nobody, NEW c \in Reader, Meter!ScanFails(c) PROVE WatchInv'
<1>1. WatchTypes
  BY DEF WatchInv
<1>2. UNCHANGED <<tick, waiting, pending, touched, held, gauge, cache, told>>
      /\ scan' = IF c \in {"stuck", "report"} THEN [d \in Reader |-> Nobody] ELSE [scan EXCEPT ![c] = Nobody]
  BY DEF Meter!ScanFails, Meter!Command, Meter!Scanners, Reader
<1>3. scan' \in [Reader -> ScanState \union {Nobody}] /\ \A d \in Reader : scan'[d] = scan[d] \/ scan'[d] = Nobody
  BY <1>1, <1>2 DEF WatchTypes
<1>4. Meter!AlarmTells'
  BY <1>2 DEF Meter!AlarmTells
<1>5. Paired'
  <2>1. CASE c \in {"stuck", "report"}
    BY <1>2, <2>1 DEF Paired, Reader
  <2>2. CASE c \notin {"stuck", "report"}
    <3>1. scan'["stuck"] = scan["stuck"] /\ scan'["report"] = scan["report"]
      BY <1>1, <1>2, <2>2 DEF Reader, WatchTypes
    <3> QED
      BY <3>1 DEF WatchInv, Paired
  <2> QED
    BY <2>1, <2>2
<1> QED
  BY <1>1, <1>2, <1>3, <1>4, <1>5, ScanChanged DEF WatchTypes

\* What is shown is the result of a scan that was right, of its own moment.
LEMMA WatchShows ==
  ASSUME WatchInv, told = Nobody, Meter!_refresh_stuck_gauge \/ \E c \in Reader : Meter!set_stuck_gauge(c)
  PROVE  WatchInv'
<1>1. WatchTypes
  BY DEF WatchInv
<1>2. CASE Meter!_refresh_stuck_gauge
  <2>1. gauge' = cache /\ UNCHANGED <<tick, waiting, pending, touched, held, scan, cache, told>>
    BY <1>2 DEF Meter!_refresh_stuck_gauge
  <2>2. Meter!AlarmTells' /\ Paired'
    BY <2>1 DEF Meter!AlarmTells, WatchInv, Paired
  <2> QED
    BY <1>1, <2>1, <2>2, ScanChanged DEF WatchTypes
<1>3. ASSUME NEW c \in Reader, Meter!set_stuck_gauge(c) PROVE WatchInv'
  <2> DEFINE s == scan[c]
             g == Meter!Result(s)
  <2>1. /\ s # Nobody /\ s.step = "tell" /\ gauge' = g /\ (cache' = g \/ cache' = cache)
        /\ scan' = [scan EXCEPT ![c] = Nobody] /\ UNCHANGED <<tick, waiting, pending, touched, held, told>>
    BY <1>3 DEF Meter!set_stuck_gauge, Meter!Reading
  <2>2. s \in ScanState
    BY <1>1, <2>1 DEF WatchTypes
  <2>3. g \in ScanResult /\ g.at = s.at /\ g.value = s.count
    BY <2>2 DEF Meter!Result, ScanState, ScanResult
  <2>4. s.at =< tick /\ CountTrue(s.count, waiting, pending, s.at)
    BY <2>1 DEF WatchInv, ScanTrue
  <2>5. scan' \in [Reader -> ScanState \union {Nobody}] /\ \A d \in Reader : scan'[d] = scan[d] \/ scan'[d] = Nobody
    BY <1>1, <2>1 DEF WatchTypes
  <2>6. Meter!AlarmTells' /\ Paired'
    <3>1. Meter!AlarmTells'
      BY <2>1 DEF Meter!AlarmTells
    <3>2. scan'["stuck"] = scan["stuck"] /\ scan'["report"] = scan["report"]
      <4>1. c # "stuck" /\ c # "report"
        BY <1>3 DEF Meter!set_stuck_gauge
      <4> QED
        BY <1>1, <2>1, <4>1 DEF Reader, WatchTypes
    <3> QED
      BY <3>1, <3>2 DEF WatchInv, Paired
  <2> HIDE DEF s, g
  <2> QED
    BY <1>1, <2>1, <2>3, <2>4, <2>5, <2>6, ScanChanged DEF WatchTypes
<1> QED
  BY <1>2, <1>3

\* What a scan that is told must be.
Told(s) ==
  /\ Meter!Overdue(s.at) \subseteq Meter!Found(s)
  /\ s.count = 0 => Meter!Overdue(s.at) = {}
  /\ \A r \in Meter!Found(s) : s.age[r] = Nobody \/ s.age[r] =< s.waited[r]

\* AlarmTells asks only about what is told of the scan that has finished.
LEMMA Finished ==
  ASSUME \A at : Meter!Overdue(at)' = Meter!Overdue(at),
         Told(told'.scan),
         told'.notify => Told(told'.outcome.scan) /\ (told'.outcome.delivered => told'.outcome.got),
         told'.exit = 0 => told'.scan.count = 0,
         told'.exit = 6 => told'.notify /\ ~told'.outcome.delivered
  PROVE  Meter!AlarmTells'
<1>1. \A x \in Meter!Reports' : Told(x)
  BY DEF Meter!Reports
<1>2. \A x : Meter!Found(x)' = Meter!Found(x)
  BY DEF Meter!Found
<1>3. \A x \in Meter!Reports' :
        /\ Meter!Overdue(x.at)' \subseteq Meter!Found(x)'
        /\ \A r \in Meter!Found(x)' : x.age[r] = Nobody \/ x.age[r] =< x.waited[r]
  BY <1>1, <1>2 DEF Told
<1>4. told'.exit = 0 => Meter!Overdue(told.scan.at)' = {}
  BY DEF Told
<1> QED
  BY <1>3, <1>4 DEF Meter!AlarmTells

\* The command ends: of the two scans each was right, and says when it began.
LEMMA WatchEnds ==
  ASSUME WatchInv, told = Nobody, NEW posted \in BOOLEAN, NEW answered \in BOOLEAN, Meter!Finish(posted, answered)
  PROVE  WatchInv'
<1>0. WatchTypes /\ WatchInv
  BY DEF WatchInv
<1> DEFINE s == scan["stuck"]
           o == scan["report"]
<1>1. ASSUME NEW c \in {"stuck", "report"}, scan[c] # Nobody, scan[c].step = "tell"
      PROVE  /\ scan[c] \in ScanState
             /\ Meter!Overdue(scan[c].at) \subseteq Meter!Found(scan[c])
             /\ scan[c].count = 0 => Meter!Overdue(scan[c].at) = {}
             /\ \A r \in Meter!Found(scan[c]) : scan[c].age[r] = Nobody \/ scan[c].age[r] =< scan[c].waited[r]
  <2>1. c \in Reader
    BY DEF Reader
  <2>2. scan[c] \in ScanState /\ ScanTrue(c, scan[c], waiting, pending, touched, held)
    BY <1>0, <1>1, <2>1 DEF WatchInv, WatchTypes
  <2>3. Meter!Overdue(scan[c].at) = OverdueIn(waiting, pending, scan[c].at)
    BY WatchFacts
  <2>4. IsFiniteSet(OverdueIn(waiting, pending, scan[c].at))
    BY <1>0, WatchFacts, FS_Subset, OverdueIn(waiting, pending, scan[c].at) \subseteq Channels
       DEF OverdueIn, WatchTypes
  <2>5. scan[c].count = 0 => OverdueIn(waiting, pending, scan[c].at) = {}
    <3>1. CountTrue(scan[c].count, waiting, pending, scan[c].at)
      BY <1>1, <2>2 DEF ScanTrue
    <3>2. Cardinality(OverdueIn(waiting, pending, scan[c].at)) \in Nat
      BY <2>4, FS_CardinalityType
    <3>3. Cardinality(OverdueIn(waiting, pending, scan[c].at)) = 0
          => OverdueIn(waiting, pending, scan[c].at) = {}
      BY <2>4, FS_EmptySet
    <3> QED
      BY <3>1, <3>2, <3>3 DEF CountTrue
  <2> QED
    BY <1>1, <2>2, <2>3, <2>5 DEF ScanTrue
<1>2. /\ s # Nobody /\ s.step = "tell"
      /\ UNCHANGED <<tick, waiting, pending, touched, held, gauge, cache>>
      /\ scan' = [c \in Reader |-> Nobody]
      /\ \/ o = Nobody /\ Meter!_cmd_stuck(FALSE, Nobody)
         \/ o # Nobody /\ o.step = "tell" /\ Meter!_cmd_stuck(TRUE, Meter!notify_stuck(posted, answered))
  <2>1. s # Nobody /\ s.step = "tell"
    BY DEF Meter!Finish, Meter!Reading, WatchInv, Paired
  <2> QED
    BY <2>1 DEF Meter!Finish, Meter!Reading, Meter!_cmd_stuck, Meter!Scanners, Reader
<1>3. s.count \in Nat /\ (o # Nobody /\ o.step = "tell" => o.count \in Nat)
  BY <1>1, <1>2 DEF ScanState
<1>4. \A at : Meter!Overdue(at)' = Meter!Overdue(at)
  BY <1>2 DEF Meter!Overdue
<1>5. s \in ScanState /\ s.count \in Nat /\ Told(s)
  <2>1. s \in ScanState /\ Told(s)
    BY <1>1, <1>2 DEF Told
  <2> QED
    BY <2>1 DEF ScanState
<1>6. ASSUME o = Nobody, Meter!_cmd_stuck(FALSE, Nobody) PROVE Meter!AlarmTells'
  <2>1. /\ told'.notify = FALSE /\ told'.scan = s
        /\ told'.exit = IF s.count = 0 THEN 0 ELSE 3
    BY <1>6 DEF Meter!_cmd_stuck
  <2>2. told'.exit # 6 /\ (told'.exit = 0 => s.count = 0)
    BY <2>1
  <2>3. Told(told'.scan)
    BY <1>5, <2>1
  <2> HIDE DEF s
  <2> QED
    BY <1>4, <2>1, <2>2, <2>3, Finished
<1>7. ASSUME o # Nobody, o.step = "tell", Meter!_cmd_stuck(TRUE, Meter!notify_stuck(posted, answered))
      PROVE  Meter!AlarmTells'
  <2>1. o \in ScanState /\ Told(o)
    BY <1>1, <1>7 DEF Told
  <2>2. o.count \in Nat
    BY <2>1 DEF ScanState
  <2> DEFINE outcome == Meter!notify_stuck(posted, answered)
  <2>3. /\ outcome.scan = o /\ (outcome.delivered => outcome.got)
        /\ told'.notify = TRUE /\ told'.scan = s /\ told'.outcome = outcome
        /\ told'.exit = IF s.count = 0 THEN 0
                        ELSE IF outcome.scan.count > 0 /\ ~outcome.delivered THEN 6 ELSE 3
    BY <1>7 DEF Meter!_cmd_stuck, Meter!notify_stuck
  <2>4. (told'.exit = 0 => s.count = 0) /\ (told'.exit = 6 => ~outcome.delivered)
    BY <2>3
  <2>5. Told(told'.scan) /\ Told(told'.outcome.scan)
    BY <1>5, <2>1, <2>3
  <2> HIDE DEF outcome, s
  <2> QED
    BY <1>4, <2>3, <2>4, <2>5, Finished
<1>8. WatchTypes' /\ WaitsInOrder' /\ Paired'
  BY <1>0, <1>2 DEF WatchInv, WatchTypes, WaitsInOrder, Paired, Reader
<1> QED
  BY <1>0, <1>2, <1>6, <1>7, <1>8 DEF WatchInv, Reader

\* Every step of the watch of waiting runs keeps its invariant.
LEMMA WatchStep == WatchInv /\ [Meter!Watch]_(Meter!watchVars) => WatchInv'
<1> SUFFICES ASSUME WatchInv, [Meter!Watch]_(Meter!watchVars) PROVE WatchInv'
  OBVIOUS
<1>1. CASE UNCHANGED Meter!watchVars
  BY <1>1 DEF Meter!watchVars, WatchInv, WatchTypes, WaitsInOrder, Paired, Meter!AlarmTells, Meter!Reports,
     Meter!Overdue, Meter!Found
<1>2. CASE Meter!Watch
  <2>1. CASE Meter!Tick \/ \E r \in Channels : Meter!Hold(r) \/ Meter!Decide(r) \/ Meter!Touch(r)
    BY <1>2, <2>1, WatchMoves DEF Meter!Watch
  <2>2. CASE Meter!_refresh_stuck_gauge \/ \E c \in Reader : Meter!set_stuck_gauge(c)
    BY <1>2, <2>2, WatchShows DEF Meter!Watch
  <2>3. CASE \E c \in Reader : Meter!Plan(c) \/ Meter!list_runs(c) \/ Meter!Times(c) \/ Meter!ScanFails(c)
    BY <1>2, <2>3, WatchPlan, WatchList, WatchTimes, WatchFails DEF Meter!Watch
  <2>4. CASE \E posted, answered \in BOOLEAN : Meter!Finish(posted, answered)
    BY <1>2, <2>4, WatchEnds DEF Meter!Watch
  <2> QED
    BY <1>2, <2>1, <2>2, <2>3, <2>4 DEF Meter!Watch, Meter!Scanners, Reader
<1> QED
  BY <1>1, <1>2

\* The invariant of the watch of waiting runs implies the properties stated of it.
LEMMA WatchTold == WatchInv => Meter!GaugeTells /\ Meter!AlarmTells
<1> SUFFICES ASSUME WatchInv PROVE Meter!GaugeTells /\ Meter!AlarmTells
  OBVIOUS
<1>1. \A at : Meter!Overdue(at) = OverdueIn(waiting, pending, at)
  BY WatchFacts
<1>2. \A at : Meter!Cardinality(Meter!Overdue(at)) = Cardinality(OverdueIn(waiting, pending, at))
  BY <1>1, SameMeter
<1> QED
  BY <1>2 DEF WatchInv, Meter!GaugeTells, CountTrue

-----------------------------------------------------------------------------
(***************************************************************************)
(* The windows of outbound requests.  A window that is in force has let    *)
(* through at most its share, and so had the one before; what was let      *)
(* through earlier is a window older than it.  A reading is at most MaxLag *)
(* old when it is counted, so a deleted window cannot have been needed if  *)
(* it was over for as long; of one that was not, nothing is remembered.    *)
(***************************************************************************)
QuotaRow == [start : Nat, count : Nat]

QuotaTypes ==
  /\ clock \in Nat /\ gate \in [Callers -> 0 .. 3] /\ look \in [Callers -> Nat]
  /\ counter \in [1 .. 2 -> QuotaRow] /\ passed \in [1 .. 2 -> Seq(Nat)]
  /\ slots \in Int /\ holding \subseteq Callers

\* Of the requests p of a gate those behind j are of the window r, those behind i of the
\* one before.
InForce(p, r, m, w, t) ==
  \E i, j \in 0 .. Len(p) :
    /\ i <= j /\ Len(p) - j <= m /\ Len(p) - j <= r.count /\ j - i <= m /\ r.start <= t
    /\ \A n \in 1 .. Len(p) : p[n] <= r.start + w - 1 + MaxLag
    /\ \A n \in 1 .. j : p[n] <= r.start - 1 + MaxLag
    /\ \A n \in 1 .. i : p[n] <= r.start - w - 1 + MaxLag

\* The last window has been deleted.
Elapsed(p, m, w, t) ==
  \E i \in 0 .. Len(p) :
    /\ Len(p) - i <= m
    /\ \A n \in 1 .. Len(p) : p[n] < t
    /\ \A n \in 1 .. i : p[n] < t - w

WindowTrue(p, r, m, w, t) ==
  IF r = Quota!None THEN Elapsed(p, m, w, t) ELSE InForce(p, r, m, w, t)

Spaced(p, m, w) == \A n \in 1 .. Len(p) - 2 * m : p[n + 2 * m] >= p[n] + w + 1 - MaxLag

QuotaInv ==
  /\ QuotaTypes
  /\ \A c \in Callers : gate[c] \in 1 .. 2 => look[c] <= clock /\ clock <= look[c] + MaxLag
  /\ \A g \in 1 .. 2 :
       /\ WindowTrue(passed[g], counter[g], Quota!MaxRequests[g], Quota!Window[g], clock)
       /\ Spaced(passed[g], Quota!MaxRequests[g], Quota!Window[g])

SlotInv ==
  /\ slots \in Int /\ holding \subseteq Callers /\ slots + Cardinality(holding) = MaxConcurrency
  /\ gate \in [Callers -> Int] /\ \A c \in Callers : gate[c] # 0 => c \notin holding

\* The two windows and their limits, as the proofs use them.
LEMMA QuotaFacts ==
  /\ Quota!Gates = 1 .. 2 /\ Len(Quota!Window) = 2 /\ MaxLag \in Nat
  /\ \A g \in 1 .. 2 : Quota!Window[g] \in Nat \ {0} /\ Quota!MaxRequests[g] \in Nat
  /\ \A S : Quota!Cardinality(S) = Cardinality(S)
<1>1. \A S : Quota!Cardinality(S) = Cardinality(S)
  BY DEF Cardinality, Quota!Cardinality
<1>2. Quota!Window = <<GlobalWindow, HostWindow>> /\ Quota!MaxRequests = <<GlobalMax, HostMax>>
  BY DEF Quota!Window, Quota!MaxRequests
<1>3. Quota!Gates = 1 .. 2 /\ Len(Quota!Window) = 2
  BY <1>2 DEF Quota!Gates
<1>4. /\ Quota!Window[1] = GlobalWindow /\ Quota!Window[2] = HostWindow
      /\ Quota!MaxRequests[1] = GlobalMax /\ Quota!MaxRequests[2] = HostMax
  BY <1>2
<1> QED
  BY <1>1, <1>3, <1>4, QuotaAssumption

\* The initial states of the limits satisfy the invariants of the windows and of the slots.
LEMMA QuotaInit == Quota!Init => QuotaInv /\ SlotInv
<1> SUFFICES ASSUME Quota!Init PROVE QuotaInv /\ SlotInv
  OBVIOUS
<1>1. /\ clock = 0 /\ counter = [g \in 1 .. 2 |-> Quota!None] /\ gate = [c \in Callers |-> 0]
      /\ look = [c \in Callers |-> 0] /\ holding = {} /\ slots = MaxConcurrency
      /\ passed = [g \in 1 .. 2 |-> <<>>]
  BY QuotaFacts DEF Quota!Init
<1>2. Quota!None \in QuotaRow
  BY DEF Quota!None, QuotaRow
<1>3. QuotaTypes
  BY <1>1, <1>2, QuotaAssumption DEF QuotaTypes
<1>4. ASSUME NEW g \in 1 .. 2
      PROVE  /\ WindowTrue(passed[g], counter[g], Quota!MaxRequests[g], Quota!Window[g], clock)
             /\ Spaced(passed[g], Quota!MaxRequests[g], Quota!Window[g])
  <2>1. passed[g] = <<>> /\ counter[g] = Quota!None /\ Quota!MaxRequests[g] \in Nat
    BY <1>1, QuotaFacts
  <2> QED
    BY <2>1 DEF WindowTrue, Elapsed, Spaced
<1>5. SlotInv
  BY <1>1, FS_EmptySet, QuotaAssumption DEF SlotInv
<1> QED
  BY <1>1, <1>3, <1>4, <1>5 DEF QuotaInv

\* A request is counted with its reading s at time t.
LEMMA WindowHit ==
  ASSUME NEW p \in Seq(Nat), NEW r \in QuotaRow, NEW m \in Nat, NEW w \in Nat \ {0},
         NEW s \in Nat, NEW t \in Nat, s <= t, t <= s + MaxLag, MaxLag \in Nat,
         WindowTrue(p, r, m, w, t), Spaced(p, m, w),
         NEW q, q = Quota!Hit(r, w, m, s)
  PROVE  /\ q \in QuotaRow /\ q # Quota!None /\ InForce(p, q, m, w, t)
         /\ q.count <= m => InForce(Append(p, t), q, m, w, t) /\ Spaced(Append(p, t), m, w)
<1>0. r.start \in Nat /\ r.count \in Nat /\ Len(p) \in Nat
      /\ \A n \in 1 .. Len(p) : p[n] \in Nat
  BY DEF QuotaRow
<1> DEFINE Anew == r = Quota!None \/ s - r.start >= w
<1>1. /\ q \in QuotaRow /\ q.count >= 1 /\ q.start <= t /\ t <= q.start + w - 1 + MaxLag
      /\ Anew => q.start = s /\ q.count = 1
      /\ ~Anew => q.start = r.start /\ q.count >= r.count /\ (q.count <= m => q.count = r.count + 1)
  <2>1. CASE Anew
    <3>1. q = [start |-> s, count |-> 1]
      BY <2>1 DEF Quota!Hit
    <3> QED
      BY <1>0, <2>1, <3>1 DEF QuotaRow
  <2>2. CASE ~Anew
    <3>1. q = [r EXCEPT !.count = IF @ > m THEN @ ELSE @ + 1] /\ s - r.start < w
      BY <1>0, <2>2 DEF Quota!Hit
    <3>2. r.start <= t
      BY <2>2 DEF WindowTrue, InForce
    <3>3. r = [start |-> r.start, count |-> r.count]
      BY DEF QuotaRow
    <3>4. q = [start |-> r.start, count |-> IF r.count > m THEN r.count ELSE r.count + 1]
      BY ONLY <3>1, <3>3
    <3>5. q.start = r.start /\ q.count = IF r.count > m THEN r.count ELSE r.count + 1
      BY <3>4
    <3>6. q \in QuotaRow
      BY <1>0, <3>4 DEF QuotaRow
    <3> QED
      BY <1>0, <2>2, <3>1, <3>2, <3>5, <3>6
  <2> QED
    BY <2>1, <2>2
<1>2. q.start \in Nat /\ q.count \in Nat
  BY <1>1 DEF QuotaRow
\* Where the windows before this one end, and what they have let through.
<1> DEFINE Place(i, j) ==
             /\ i <= j /\ Len(p) - j <= m /\ j - i <= m /\ Len(p) - j <= q.count
             /\ q.count <= m => Len(p) + 1 - j <= q.count
             /\ \A n \in 1 .. Len(p) : p[n] <= q.start + w - 1 + MaxLag
             /\ \A n \in 1 .. j : p[n] <= q.start - 1 + MaxLag
             /\ \A n \in 1 .. i : p[n] <= q.start - w - 1 + MaxLag
<1>3. \E i, j \in 0 .. Len(p) : Place(i, j)
  <2>1. CASE r = Quota!None
    <3>1. PICK i \in 0 .. Len(p) : /\ Len(p) - i <= m /\ \A n \in 1 .. Len(p) : p[n] < t
                                   /\ \A n \in 1 .. i : p[n] < t - w
      BY <2>1 DEF WindowTrue, Elapsed
    <3>2. q.start = s /\ q.count = 1
      BY <1>1, <2>1
    <3>3. /\ \A n \in 1 .. Len(p) : p[n] <= s + w - 1 + MaxLag /\ p[n] <= s - 1 + MaxLag
          /\ \A n \in 1 .. i : p[n] <= s - w - 1 + MaxLag
      BY <1>0, <3>1
    <3>4. Place(i, Len(p))
      BY <1>0, <3>1, <3>2, <3>3
    <3> QED
      BY <1>0, <3>4
  <2>2. CASE r # Quota!None
    <3>1. PICK i, j \in 0 .. Len(p) :
            /\ i <= j /\ Len(p) - j <= m /\ Len(p) - j <= r.count /\ j - i <= m /\ r.start <= t
            /\ \A n \in 1 .. Len(p) : p[n] <= r.start + w - 1 + MaxLag
            /\ \A n \in 1 .. j : p[n] <= r.start - 1 + MaxLag
            /\ \A n \in 1 .. i : p[n] <= r.start - w - 1 + MaxLag
      BY <2>2 DEF WindowTrue, InForce
    <3>2. CASE Anew
      <4>1. q.start = s /\ q.count = 1 /\ s - r.start >= w
        BY <1>1, <2>2, <3>2
      <4>2. /\ \A n \in 1 .. Len(p) : p[n] <= s + w - 1 + MaxLag /\ p[n] <= s - 1 + MaxLag
            /\ \A n \in 1 .. j : p[n] <= s - w - 1 + MaxLag
        <5>1. ASSUME NEW n \in 1 .. Len(p) PROVE p[n] <= s + w - 1 + MaxLag /\ p[n] <= s - 1 + MaxLag
          <6>1. p[n] \in Nat /\ p[n] <= r.start + w - 1 + MaxLag
            BY <1>0, <3>1, <5>1
          <6> QED
            BY <1>0, <4>1, <6>1
        <5>2. ASSUME NEW n \in 1 .. j PROVE p[n] <= s - w - 1 + MaxLag
          <6>1. p[n] \in Nat /\ p[n] <= r.start - 1 + MaxLag
            BY <1>0, <3>1, <5>2
          <6> QED
            BY <1>0, <4>1, <6>1
        <5> QED
          BY <5>1, <5>2
      <4>3. Place(j, Len(p))
        BY <1>0, <3>1, <4>1, <4>2
      <4> HIDE DEF Place
      <4> WITNESS j \in 0 .. Len(p), Len(p) \in 0 .. Len(p)
      <4> QED
        BY <4>3
    <3>3. CASE ~Anew
      <4>1. q.start = r.start /\ q.count >= r.count /\ (q.count <= m => q.count = r.count + 1)
        BY <1>1, <3>3
      <4>2. Place(i, j)
        BY <1>0, <1>2, <3>1, <4>1
      <4> QED
        BY <4>2
    <3> QED
      BY <3>2, <3>3
  <2> QED
    BY <2>1, <2>2
<1>4. PICK i, j \in 0 .. Len(p) : Place(i, j)
  BY <1>3
<1>5. q # Quota!None
  BY <1>1 DEF Quota!None
<1>6. InForce(p, q, m, w, t)
  BY <1>1, <1>4 DEF InForce
<1>7. ASSUME q.count <= m PROVE InForce(Append(p, t), q, m, w, t) /\ Spaced(Append(p, t), m, w)
  <2> DEFINE a == Append(p, t)
  <2>1. /\ Len(a) = Len(p) + 1 /\ a[Len(p) + 1] = t
        /\ \A n \in 1 .. Len(p) : a[n] = p[n]
    OBVIOUS
  <2> HIDE DEF a
  <2>2. /\ i \in 0 .. Len(a) /\ j \in 0 .. Len(a) /\ i <= j /\ Len(a) - j <= q.count /\ Len(a) - j <= m
        /\ j - i <= m
    BY <1>0, <1>2, <1>4, <1>7, <2>1
  <2>3. /\ \A n \in 1 .. Len(a) : a[n] <= q.start + w - 1 + MaxLag
        /\ \A n \in 1 .. j : a[n] <= q.start - 1 + MaxLag
        /\ \A n \in 1 .. i : a[n] <= q.start - w - 1 + MaxLag
    <3>1. \A n \in 1 .. Len(a) : n \in 1 .. Len(p) \/ a[n] = t
      BY <1>0, <2>1
    <3>2. \A n \in 1 .. j : n \in 1 .. Len(p)
      BY <1>0
    <3>3. \A n \in 1 .. i : n \in 1 .. Len(p)
      BY <1>0
    <3> QED
      BY <1>1, <1>4, <2>1, <3>1, <3>2, <3>3
  <2>4. InForce(a, q, m, w, t)
    BY <1>1, <2>2, <2>3 DEF InForce
  <2>5. ASSUME NEW n \in 1 .. Len(a) - 2 * m PROVE a[n + 2 * m] >= a[n] + w + 1 - MaxLag
    <3>1. CASE n + 2 * m <= Len(p)
      <4>1. n \in 1 .. Len(p) - 2 * m /\ n \in 1 .. Len(p) /\ n + 2 * m \in 1 .. Len(p)
        BY <1>0, <2>5, <3>1
      <4> QED
        BY <2>1, <4>1 DEF Spaced
    <3>2. CASE ~(n + 2 * m <= Len(p))
      <4>1. n + 2 * m = Len(p) + 1
        <5> DEFINE d == 2 * m
                   l == Len(p)
        <5>1. n \in 1 .. (l + 1) - d /\ ~(n + d <= l) /\ d \in Nat /\ l \in Nat
          BY <1>0, <2>1, <2>5, <3>2
        <5> HIDE DEF d, l
        <5>2. n + d = l + 1
          BY ONLY <5>1
        <5> QED
          BY <5>2 DEF d, l
      <4>2. n \in 1 .. i
        BY <1>0, <2>1, <2>2, <2>5, <4>1
      <4>3. a[n] \in Nat /\ a[n] <= q.start - w - 1 + MaxLag
        <5>1. n \in 1 .. Len(p)
          BY <1>0, <4>2
        <5> QED
          BY <1>0, <2>1, <2>3, <4>2, <5>1
      <4>4. a[n + 2 * m] = t
        BY <2>1, <4>1
      <4>5. q.start <= t /\ q.start \in Nat /\ t \in Nat /\ w \in Nat /\ MaxLag \in Nat
        BY <1>0, <1>1, <1>2
      <4>6. t >= a[n] + w + 1 - MaxLag
        <5> HIDE DEF a
        <5> QED
          BY ONLY <4>3, <4>5
      <4> QED
        BY <4>4, <4>6
    <3> QED
      BY <3>1, <3>2
  <2> QED
    BY <2>4, <2>5 DEF Spaced, a
<1> QED
  BY <1>1, <1>5, <1>6, <1>7

\* A window that has been over for as long as a reading may be late is not missed.
LEMMA WindowEnds ==
  ASSUME NEW p \in Seq(Nat), NEW r, r.start \in Nat, NEW m \in Nat, NEW w \in Nat \ {0}, NEW t \in Nat,
         MaxLag \in Nat, InForce(p, r, m, w, t), t - r.start >= w + MaxLag
  PROVE  Elapsed(p, m, w, t)
<1>0. Len(p) \in Nat /\ \A n \in 1 .. Len(p) : p[n] \in Nat
  OBVIOUS
<1>1. PICK i, j \in 0 .. Len(p) :
        /\ Len(p) - j <= m
        /\ \A n \in 1 .. Len(p) : p[n] <= r.start + w - 1 + MaxLag
        /\ \A n \in 1 .. j : p[n] <= r.start - 1 + MaxLag
  BY DEF InForce
<1>2. ASSUME NEW n \in 1 .. Len(p) PROVE p[n] < t
  <2>1. p[n] \in Nat /\ p[n] <= r.start + w - 1 + MaxLag
    BY <1>0, <1>1, <1>2
  <2> QED
    BY <2>1
<1>3. ASSUME NEW n \in 1 .. j PROVE p[n] < t - w
  <2>1. p[n] \in Nat /\ p[n] <= r.start - 1 + MaxLag
    BY <1>0, <1>1, <1>3
  <2> QED
    BY <2>1
<1> QED
  BY <1>1, <1>2, <1>3 DEF Elapsed

\* A window stays true to its requests when a second passes.
LEMMA WindowAges ==
  ASSUME NEW p \in Seq(Nat), NEW r, r.start \in Nat, NEW m, NEW w \in Nat, NEW t \in Nat,
         WindowTrue(p, r, m, w, t)
  PROVE  WindowTrue(p, r, m, w, t + 1)
<1>0. Len(p) \in Nat /\ \A n \in 1 .. Len(p) : p[n] \in Nat
  OBVIOUS
<1>1. CASE r = Quota!None
  <2>1. PICK i \in 0 .. Len(p) : /\ Len(p) - i <= m /\ \A n \in 1 .. Len(p) : p[n] < t
                                 /\ \A n \in 1 .. i : p[n] < t - w
    BY <1>1 DEF WindowTrue, Elapsed
  <2>2. /\ \A n \in 1 .. Len(p) : p[n] < t + 1
        /\ \A n \in 1 .. i : p[n] < t + 1 - w
    BY <1>0, <2>1
  <2> QED
    BY <1>1, <2>1, <2>2 DEF WindowTrue, Elapsed
<1>2. CASE r # Quota!None
  <2>1. r.start <= t => r.start <= t + 1
    OBVIOUS
  <2> QED
    BY <1>2, <2>1 DEF WindowTrue, InForce
<1> QED
  BY <1>1, <1>2

\* Every step keeps the invariant of the windows.
LEMMA QuotaStep == QuotaInv /\ [Quota!Next]_limitVars => QuotaInv'
<1> SUFFICES ASSUME QuotaInv, [Quota!Next]_limitVars PROVE QuotaInv'
  OBVIOUS
<1> DEFINE Timely == \A c \in Callers : gate[c] \in 1 .. 2 => look[c] <= clock /\ clock <= look[c] + MaxLag
           True(g) == /\ WindowTrue(passed[g], counter[g], Quota!MaxRequests[g], Quota!Window[g], clock)
                      /\ Spaced(passed[g], Quota!MaxRequests[g], Quota!Window[g])
<1>0. QuotaTypes /\ Timely /\ \A g \in 1 .. 2 : True(g)
  BY DEF QuotaInv
<1>1. ASSUME UNCHANGED <<clock, counter, passed>>, QuotaTypes', Timely' PROVE QuotaInv'
  BY <1>0, <1>1 DEF QuotaInv
<1>2. CASE UNCHANGED limitVars
  BY <1>0, <1>1, <1>2 DEF limitVars, QuotaTypes
<1>3. ASSUME NEW c \in Callers, Quota!Acquire(c) \/ Quota!GateRaises(c) \/ Quota!Slot(c) \/ Quota!Release(c)
      PROVE  QuotaInv'
  <2>1. /\ UNCHANGED <<clock, counter, passed>> /\ slots' \in Int /\ holding' \subseteq Callers
        /\ \/ gate' = [gate EXCEPT ![c] = 1] /\ look' = [look EXCEPT ![c] = clock]
           \/ gate' = [gate EXCEPT ![c] = 0] /\ look' = [look EXCEPT ![c] = 0]
           \/ UNCHANGED <<gate, look>>
    BY <1>0, <1>3 DEF Quota!Acquire, Quota!GateRaises, Quota!Slot, Quota!Release, Quota!Goto, Quota!Leave,
       Quota!table, Quota!thread, QuotaTypes
  <2>2. gate' \in [Callers -> 0 .. 3] /\ look' \in [Callers -> Nat] /\ Timely'
    <3>0. gate \in [Callers -> 0 .. 3] /\ look \in [Callers -> Nat] /\ clock \in Nat /\ MaxLag \in Nat /\ clock' = clock
      BY <1>0, <2>1, QuotaFacts DEF QuotaTypes
    <3>1. CASE gate' = [gate EXCEPT ![c] = 1] /\ look' = [look EXCEPT ![c] = clock]
      BY ONLY <1>0, <3>0, <3>1
    <3>2. CASE gate' = [gate EXCEPT ![c] = 0] /\ look' = [look EXCEPT ![c] = 0]
      BY ONLY <1>0, <3>0, <3>2
    <3>3. CASE UNCHANGED <<gate, look>>
      BY ONLY <1>0, <3>0, <3>3
    <3> QED
      BY <2>1, <3>1, <3>2, <3>3
  <2>3. QuotaTypes'
    BY <1>0, <2>1, <2>2 DEF QuotaTypes
  <2> QED
    BY <1>1, <2>1, <2>2, <2>3
<1>4. ASSUME NEW c \in Callers, Quota!Gate(c) PROVE QuotaInv'
  <2> DEFINE g == gate[c]
             r == Quota!Hit(counter[g], Quota!Window[g], Quota!MaxRequests[g], look[c])
  <2>1. /\ g \in 1 .. 2 /\ counter' = [counter EXCEPT ![g] = r] /\ UNCHANGED <<clock, holding, slots>>
        /\ \/ /\ r.count <= Quota!MaxRequests[g] /\ gate' = [gate EXCEPT ![c] = g + 1] /\ UNCHANGED look
              /\ passed' = [passed EXCEPT ![g] = Append(passed[g], clock)]
           \/ gate' = [gate EXCEPT ![c] = 0] /\ look' = [look EXCEPT ![c] = 0] /\ UNCHANGED passed
    BY <1>4, QuotaFacts DEF Quota!Gate, Quota!Goto, Quota!Leave
  <2>2. /\ passed[g] \in Seq(Nat) /\ counter[g] \in QuotaRow /\ look[c] \in Nat /\ clock \in Nat
        /\ look[c] <= clock /\ clock <= look[c] + MaxLag
        /\ Quota!MaxRequests[g] \in Nat /\ Quota!Window[g] \in Nat \ {0} /\ MaxLag \in Nat
    BY <1>0, <2>1, QuotaFacts DEF QuotaTypes
  <2>3. /\ r \in QuotaRow /\ r # Quota!None
        /\ InForce(passed[g], r, Quota!MaxRequests[g], Quota!Window[g], clock)
        /\ r.count <= Quota!MaxRequests[g] =>
             /\ InForce(Append(passed[g], clock), r, Quota!MaxRequests[g], Quota!Window[g], clock)
             /\ Spaced(Append(passed[g], clock), Quota!MaxRequests[g], Quota!Window[g])
    <3>1. WindowTrue(passed[g], counter[g], Quota!MaxRequests[g], Quota!Window[g], clock)
          /\ Spaced(passed[g], Quota!MaxRequests[g], Quota!Window[g])
      BY <1>0, <2>1
    <3> HIDE DEF g, True, Timely
    <3> QED
      BY <2>2, <3>1, WindowHit
  <2> HIDE DEF r
  <2>4. QuotaTypes'
    <3>1. gate' \in [Callers -> 0 .. 3] /\ look' \in [Callers -> Nat]
      <4>1. g + 1 \in 0 .. 3
        BY <2>1
      <4>2. look' \in [Callers -> Nat]
        BY <1>0, <2>1 DEF QuotaTypes
      <4>3. gate' = [gate EXCEPT ![c] = g + 1] \/ gate' = [gate EXCEPT ![c] = 0]
        BY <2>1
      <4>4. gate \in [Callers -> 0 .. 3]
        BY <1>0 DEF QuotaTypes
      <4> HIDE DEF g
      <4>5. gate' \in [Callers -> 0 .. 3]
        BY ONLY <4>1, <4>3, <4>4
      <4> QED
        BY ONLY <4>2, <4>5
    <3>2. counter' \in [1 .. 2 -> QuotaRow]
      BY <1>0, <2>1, <2>3 DEF QuotaTypes
    <3>3. passed' \in [1 .. 2 -> Seq(Nat)]
      <4>1. Append(passed[g], clock) \in Seq(Nat)
        BY <2>2
      <4> QED
        BY <1>0, <2>1, <4>1 DEF QuotaTypes
    <3> QED
      BY <1>0, <2>1, <3>1, <3>2, <3>3 DEF QuotaTypes
  <2>5. Timely'
    <3> SUFFICES ASSUME NEW d \in Callers, gate'[d] \in 1 .. 2
                 PROVE  look'[d] <= clock /\ clock <= look'[d] + MaxLag
      BY <2>1
    <3>1. CASE d = c
      <4>1. look'[c] = look[c]
        BY <1>0, <2>1, <3>1 DEF QuotaTypes
      <4> QED
        BY <2>2, <3>1, <4>1
    <3>2. CASE d # c
      <4>1. look'[d] = look[d] /\ gate'[d] = gate[d]
        BY <1>0, <2>1, <3>2 DEF QuotaTypes
      <4> QED
        BY <1>0, <4>1
    <3> QED
      BY <3>1, <3>2
  <2>6. ASSUME NEW h \in 1 .. 2
        PROVE  /\ WindowTrue(passed'[h], counter'[h], Quota!MaxRequests[h], Quota!Window[h], clock)
               /\ Spaced(passed'[h], Quota!MaxRequests[h], Quota!Window[h])
    <3>1. CASE h = g
      <4>1. counter'[h] = r
        BY <1>0, <2>1, <3>1 DEF QuotaTypes
      <4>2. \/ passed'[h] = passed[g]
            \/ r.count <= Quota!MaxRequests[g] /\ passed'[h] = Append(passed[g], clock)
        BY <1>0, <2>1, <3>1 DEF QuotaTypes
      <4> QED
        BY <1>0, <2>1, <2>3, <3>1, <4>1, <4>2 DEF WindowTrue
    <3>2. CASE h # g
      <4>1. counter'[h] = counter[h] /\ passed'[h] = passed[h]
        BY <1>0, <2>1, <3>2 DEF QuotaTypes
      <4> QED
        BY <1>0, <4>1
    <3> QED
      BY <3>1, <3>2
  <2> QED
    BY <2>1, <2>4, <2>5, <2>6 DEF QuotaInv
<1>5. CASE Quota!Sweep
  <2>1. PICK gone \in SUBSET (1 .. 2) :
          /\ UNCHANGED <<clock, gate, look, holding, slots>> /\ \A g \in gone : counter[g] # Quota!None
          /\ counter' = [g \in 1 .. 2 |-> IF g \in gone THEN Quota!None ELSE counter[g]]
          /\ passed' = [g \in 1 .. 2 |-> IF g \in gone /\ Quota!MayCount(g) THEN <<>> ELSE passed[g]]
    BY <1>5, QuotaFacts DEF Quota!Sweep, Quota!thread
  <2>2. Quota!None \in QuotaRow /\ <<>> \in Seq(Nat)
    BY DEF Quota!None, QuotaRow
  <2>3. QuotaTypes' /\ Timely'
    <3>1. counter' \in [1 .. 2 -> QuotaRow]
      BY <1>0, <2>1, <2>2 DEF QuotaTypes
    <3>2. passed' \in [1 .. 2 -> Seq(Nat)]
      BY <1>0, <2>1, <2>2 DEF QuotaTypes
    <3> QED
      BY <1>0, <2>1, <3>1, <3>2 DEF QuotaTypes
  <2>4. ASSUME NEW h \in 1 .. 2
        PROVE  /\ WindowTrue(passed'[h], counter'[h], Quota!MaxRequests[h], Quota!Window[h], clock)
               /\ Spaced(passed'[h], Quota!MaxRequests[h], Quota!Window[h])
    <3>0. /\ passed[h] \in Seq(Nat) /\ counter[h].start \in Nat /\ clock \in Nat
          /\ Quota!MaxRequests[h] \in Nat /\ Quota!Window[h] \in Nat \ {0} /\ MaxLag \in Nat
      BY <1>0, QuotaFacts DEF QuotaTypes, QuotaRow
    <3>1. CASE h \notin gone
      <4>1. counter'[h] = counter[h] /\ passed'[h] = passed[h]
        BY <2>1, <3>1
      <4> QED
        BY <1>0, <4>1
    <3>2. CASE h \in gone /\ Quota!MayCount(h)
      <4>1. counter'[h] = Quota!None /\ passed'[h] = <<>>
        BY <2>1, <3>2
      <4> HIDE DEF True, Timely
      <4>2. Len(<<>>) = 0 /\ 0 \in 0 .. 0
        OBVIOUS
      <4>3. Elapsed(<<>>, Quota!MaxRequests[h], Quota!Window[h], clock)
        BY <3>0, <4>2 DEF Elapsed
      <4>4. Spaced(<<>>, Quota!MaxRequests[h], Quota!Window[h])
        BY <3>0, <4>2 DEF Spaced
      <4> QED
        BY <4>1, <4>3, <4>4 DEF WindowTrue
    <3>3. CASE h \in gone /\ ~Quota!MayCount(h)
      <4>1. counter'[h] = Quota!None /\ counter[h] # Quota!None /\ passed'[h] = passed[h]
        BY <2>1, <3>3
      <4>2. clock - counter[h].start >= Quota!Window[h] + MaxLag
        BY <3>0, <3>3 DEF Quota!MayCount
      <4>3. InForce(passed[h], counter[h], Quota!MaxRequests[h], Quota!Window[h], clock)
        BY <1>0, <4>1 DEF WindowTrue
      <4>4. Spaced(passed[h], Quota!MaxRequests[h], Quota!Window[h])
        BY <1>0
      <4> HIDE DEF True, Timely
      <4>5. Elapsed(passed[h], Quota!MaxRequests[h], Quota!Window[h], clock)
        BY <3>0, <4>2, <4>3, WindowEnds
      <4> QED
        BY <4>1, <4>4, <4>5 DEF WindowTrue
    <3> QED
      BY <3>1, <3>2, <3>3
  <2> QED
    BY <1>0, <2>1, <2>3, <2>4 DEF QuotaInv
<1>6. CASE Quota!Restart
  <2>1. UNCHANGED <<clock, counter, passed>> /\ slots' = MaxConcurrency /\ holding' = {}
        /\ gate' = [c \in Callers |-> 0] /\ look' = [c \in Callers |-> 0]
    BY <1>6 DEF Quota!Restart
  <2>2. QuotaTypes' /\ Timely'
    BY <1>0, <2>1, QuotaAssumption DEF QuotaTypes
  <2> QED
    BY <1>1, <2>1, <2>2
<1>7. CASE Quota!Tick
  <2>1. /\ clock' = clock + 1 /\ UNCHANGED <<counter, passed, gate, look, slots, holding>>
        /\ \A c \in Callers : gate[c] \in 1 .. 2 => clock - look[c] < MaxLag
    BY <1>7, QuotaFacts DEF Quota!Tick, Quota!table, Quota!thread
  <2>2. QuotaTypes' /\ Timely'
    BY <1>0, <2>1, QuotaFacts DEF QuotaTypes
  <2>3. ASSUME NEW h \in 1 .. 2
        PROVE  WindowTrue(passed[h], counter[h], Quota!MaxRequests[h], Quota!Window[h], clock + 1)
    <3>1. /\ passed[h] \in Seq(Nat) /\ counter[h].start \in Nat /\ clock \in Nat
          /\ Quota!Window[h] \in Nat \ {0}
      BY <1>0, QuotaFacts DEF QuotaTypes, QuotaRow
    <3> QED
      BY <1>0, <3>1, WindowAges
  <2> QED
    BY <1>0, <2>1, <2>2, <2>3 DEF QuotaInv
<1> QED
  BY <1>2, <1>3, <1>4, <1>5, <1>6, <1>7 DEF Quota!Next, limitVars

\* A slot is of a caller that is past its gates, and is given back by it or by the end of
\* the process.
LEMMA SlotStep == SlotInv /\ [Quota!Next]_limitVars => SlotInv'
<1> SUFFICES ASSUME SlotInv, [Quota!Next]_limitVars PROVE SlotInv'
  OBVIOUS
<1>0. /\ slots \in Int /\ holding \subseteq Callers /\ slots + Cardinality(holding) = MaxConcurrency
      /\ gate \in [Callers -> Int] /\ \A c \in Callers : gate[c] # 0 => c \notin holding
      /\ IsFiniteSet(holding) /\ Cardinality(holding) \in Nat /\ Quota!Gates = 1 .. 2
  BY FS_Subset, FS_CardinalityType, QuotaAssumption, QuotaFacts DEF SlotInv
<1>1. CASE UNCHANGED limitVars
  BY <1>0, <1>1 DEF limitVars, SlotInv
<1>2. ASSUME NEW c \in Callers, Quota!Acquire(c) \/ Quota!Gate(c) \/ Quota!GateRaises(c) PROVE SlotInv'
  <2>1. /\ UNCHANGED <<slots, holding>> /\ c \notin holding
        /\ \E n \in Int : gate' = [gate EXCEPT ![c] = n]
    BY <1>0, <1>2 DEF Quota!Acquire, Quota!Gate, Quota!GateRaises, Quota!Goto, Quota!Leave
  <2> QED
    BY <1>0, <2>1 DEF SlotInv
<1>3. ASSUME NEW c \in Callers, Quota!Slot(c) PROVE SlotInv'
  <2>1. /\ gate[c] # 0 /\ gate' = [gate EXCEPT ![c] = 0]
        /\ \/ slots' = slots - 1 /\ holding' = holding \union {c}
           \/ UNCHANGED <<slots, holding>>
    BY <1>3, QuotaFacts DEF Quota!Slot, Quota!Leave, Quota!Goto
  <2>2. c \notin holding
    BY <1>0, <2>1
  <2>3. Cardinality(holding \union {c}) = Cardinality(holding) + 1
    BY <1>0, <2>2, FS_AddElement
  <2>4. slots' \in Int /\ holding' \subseteq Callers /\ slots' + Cardinality(holding') = MaxConcurrency
    <3>1. CASE slots' = slots - 1 /\ holding' = holding \union {c}
      <4>1. Cardinality(holding') = Cardinality(holding) + 1
        BY <2>3, <3>1
      <4> QED
        BY <1>0, <3>1, <4>1
    <3>2. CASE UNCHANGED <<slots, holding>>
      BY <1>0, <3>2
    <3> QED
      BY <2>1, <3>1, <3>2
  <2>5. gate' \in [Callers -> Int] /\ \A d \in Callers : gate'[d] # 0 => d # c /\ d \notin holding
    BY <1>0, <2>1
  <2>6. \A d \in Callers : gate'[d] # 0 => d \notin holding'
    BY <2>1, <2>5
  <2> QED
    BY <2>4, <2>5, <2>6 DEF SlotInv
<1>4. ASSUME NEW c \in Callers, Quota!Release(c) PROVE SlotInv'
  <2>1. c \in holding /\ slots' = slots + 1 /\ holding' = holding \ {c} /\ UNCHANGED gate
    BY <1>4 DEF Quota!Release, Quota!thread
  <2>2. Cardinality(holding \ {c}) = Cardinality(holding) - 1
    BY <1>0, <2>1, FS_RemoveElement
  <2> QED
    BY <1>0, <2>1, <2>2 DEF SlotInv
<1>5. CASE Quota!Sweep \/ Quota!Tick
  <2>1. UNCHANGED <<gate, slots, holding>>
    BY <1>5 DEF Quota!Sweep, Quota!Tick, Quota!thread
  <2> QED
    BY <1>0, <2>1 DEF SlotInv
<1>6. CASE Quota!Restart
  <2>1. slots' = MaxConcurrency /\ holding' = {} /\ gate' = [c \in Callers |-> 0]
    BY <1>6 DEF Quota!Restart
  <2> QED
    BY <2>1, FS_EmptySet, QuotaAssumption DEF SlotInv
<1> QED
  BY <1>1, <1>2, <1>3, <1>4, <1>5, <1>6 DEF Quota!Next, limitVars

\* These invariants imply the properties stated of the limits.
LEMMA QuotaTold ==
  /\ QuotaInv => Quota!WindowsHold
  /\ SlotInv => Quota!SlotsBalanced
<1>1. QuotaInv => Quota!WindowsHold
  BY QuotaFacts DEF QuotaInv, Spaced, Quota!WindowsHold
<1> QED
  BY <1>1, QuotaFacts DEF SlotInv, Quota!SlotsBalanced

-----------------------------------------------------------------------------
(***************************************************************************)
(* All together.  A part that is not run keeps its state, so that each     *)
(* step of a behaviour is a step or a stutter of every part.               *)
(***************************************************************************)
LEMMA DataParts ==
  [RecordsNext]_recordsVars =>
    [Keys!Next]_vaultVars /\ [Schema!Next]_schemaVars /\ [Copies!Next]_backupVars
BY DEF RecordsNext, recordsVars

\* A step of the composition is one of each store that is read, or leaves it alone.
LEMMA ReaderParts ==
  [RecordsNext]_recordsVars =>
    /\ [Bus!Next]_eventVars /\ [Recall!Next]_memoryVars
    /\ [Corpus!Next]_corpusVars /\ [Link!Next]_linkVars
BY DEF RecordsNext, recordsVars

\* And of each ledger.
LEMMA LedgerParts ==
  [RecordsNext]_recordsVars =>
    /\ [Audit!Next]_auditVars /\ [Shelf!Next]_archiveVars /\ [Meter!Export]_exportVars
    /\ [Meter!Watch]_(Meter!watchVars) /\ [Meter!Measure]_measureVars
BY DEF RecordsNext, recordsVars, watchVars, Meter!watchVars

\* What has been stored stays readable: no rotation that reports success leaves a credential
\* in the old key, no start of old or new code misses a column, and no pruning takes the
\* last good copy; and PostgreSQL's version is never lowered (vault.py:196-250,
\* sqlite.py:220-280, postgres.py:204-390, backup.py:296-333).
THEOREM OldDataStays == RecordsSpec => OldDataReadable
<1>1. RecordsInit => VaultInv /\ SchemaInv /\ BackupInv
  BY VaultInit, SchemaInit, BackupInit DEF RecordsInit
<1>2. VaultInv /\ SchemaInv /\ BackupInv /\ [RecordsNext]_recordsVars
        => VaultInv' /\ SchemaInv' /\ BackupInv'
  BY DataParts, VaultStep, SchemaStep, BackupStep
<1>3. VaultInv /\ SchemaInv /\ BackupInv =>
        /\ part = "vault" => Keys!RotationComplete
        /\ part = "schema" => Schema!ColumnsPresent
        /\ part = "backup" => Copies!UsableKept
  BY VaultTold, SchemaTold, BackupTold
<1>4. SchemaInv /\ [RecordsNext]_recordsVars => [store = "postgres" => version' >= version]_Schema!schemaVars
  BY DataParts, VersionStep DEF schemaVars, Schema!schemaVars
<1> QED
  BY <1>1, <1>2, <1>3, <1>4, PTL DEF RecordsSpec, OldDataReadable, Schema!NeverDowngraded

\* Who reads is told what was meant: no event that is kept is passed over, a method of
\* several statements leaves all of them or none as long as its connection holds, no memory
\* comes back that was refused, replaced or purged unless by an approval that had found it
\* before, and a knowledge base that serves has the whole of one source
\* (coordination.py:285-407, postgres.py:127-131, service.py:93-132, loader.py:90-136).
THEOREM ReadersAreTold == RecordsSpec => []ReadersTold
<1>1. RecordsInit => EventInv /\ MemoryInv /\ CorpusInv /\ LinkInv
  BY EventInit, MemoryInit, CorpusInit, LinkInit DEF RecordsInit
<1>2. EventInv /\ MemoryInv /\ CorpusInv /\ LinkInv /\ [RecordsNext]_recordsVars
        => EventInv' /\ MemoryInv' /\ CorpusInv' /\ LinkInv'
  BY ReaderParts, EventStep, MemoryStep, CorpusStep, LinkStep
<1>3. EventInv /\ MemoryInv /\ CorpusInv /\ LinkInv => ReadersTold
  BY MemoryTold, CorpusTold, LinkTold DEF EventInv, ReadersTold
<1> QED
  BY <1>1, <1>2, <1>3, PTL DEF RecordsSpec

\* What is told of what happened is true: an audit log and an archive that nobody changed
\* pass, whatever replicas and commands interleave, stop or die, and one that was changed
\* does not; every row is exported once; a span is received or counted as lost; no run that
\* waits too long is missed by the gauge, the sweep or the command; histograms count the
\* values (audit.py:320-420, cli.py:429-610, archive.py:94-177, otel.py:173-244,
\* alerting.py:70-161, metrics.py:190-266).
THEOREM LedgersAreTrue == RecordsSpec => []LedgersTell
<1>1. RecordsInit => AuditInv /\ ShelfInv /\ SpanInv /\ WatchInv /\ MeasureInv
  BY AuditInit, ShelfInit, SpanInit, WatchInit, MeasureInit DEF RecordsInit
<1>2. AuditInv /\ ShelfInv /\ SpanInv /\ WatchInv /\ MeasureInv /\ [RecordsNext]_recordsVars
        => AuditInv' /\ ShelfInv' /\ SpanInv' /\ WatchInv' /\ MeasureInv'
  BY LedgerParts, AuditStep, ShelfStep, SpanStep, WatchStep, MeasureStep
<1>3. AuditInv /\ ShelfInv /\ SpanInv /\ WatchInv /\ MeasureInv => LedgersTell
  BY AuditTold, ShelfTold, SpanTold, WatchTold, MeasureTold DEF LedgersTell
<1> QED
  BY <1>1, <1>2, <1>3, PTL DEF RecordsSpec

\* And of the limits.
LEMMA LimitParts == [RecordsNext]_recordsVars => [Quota!Next]_limitVars
BY DEF RecordsNext, recordsVars

\* No slot of outbound requests is lost or given back twice, for any number of callers and
\* of slots, whatever is refused, raises or starts anew (outbound.py:133-155).
THEOREM SlotsAreGivenBack == RecordsSpec => [](part = "limits" => Quota!SlotsBalanced)
<1>1. RecordsInit => SlotInv
  BY QuotaInit DEF RecordsInit
<1>2. SlotInv /\ [RecordsNext]_recordsVars => SlotInv'
  BY LimitParts, SlotStep
<1>3. SlotInv => Quota!SlotsBalanced
  BY QuotaTold
<1> QED
  BY <1>1, <1>2, <1>3, PTL DEF RecordsSpec

\* In any interval of a window a gate opens at most twice as often as configured, less what
\* a reading of the clock may be late, whatever the windows and their shares, however many
\* callers with stale readings, refusals and restarts there are, wherever the wall clock
\* stands and whenever the sweep runs, and again as often for every time that it takes a row
\* whose window may still count; and no slot is lost (outbound.py:98-155, sqlite.py:738-765,
\* maintenance.py:111).
THEOREM WindowsAreKept == RecordsSpec => []LimitsHold
<1>1. RecordsInit => QuotaInv /\ SlotInv
  BY QuotaInit DEF RecordsInit
<1>2. QuotaInv /\ SlotInv /\ [RecordsNext]_recordsVars => QuotaInv' /\ SlotInv'
  BY LimitParts, SlotStep, QuotaStep
<1>3. QuotaInv /\ SlotInv => LimitsHold
  BY QuotaTold DEF LimitsHold, Quota!LimitsHold
<1> QED
  BY <1>1, <1>2, <1>3, PTL DEF RecordsSpec
=============================================================================
