----------------------------- MODULE MCRecords -----------------------------
(* What the program writes down and reads again, for TLC: the answers kept under an
   idempotency key, the audit log and its archive, events, the history of a run,
   credentials, the schema, backups, counters of requests, memories and indexes, spans and
   metrics.  They
   share no state: a behaviour runs the part that it picks at the start. *)
EXTENDS Idempotency, FiniteSets

CONSTANTS
  Replicas, AnchorEvery, MaxRows,                     \* of the audit log
  Commands, FilesOf, MaxWrites,                       \* of the archive
  Channels, EventKeep, PageSize, MaxIds,              \* events; its runs are watched, too
  Texts, MaxCalls, MaxMessages, KeepRecent,           \* of messages
  Servers, Owners, Deployment,                        \* with credentials
  Starters, SchemaVersion,                            \* of the schema
  Keep, MaxTime, MaxVersion,                          \* of backups
  Callers, GlobalWindow, HostWindow, GlobalMax, HostMax, MaxConcurrency,  \* of requests
  Boot, MaxAge, MaxLag, MaxClock,                     \* and their clocks
  Threads, MaxItems, MaxExpired,                      \* of a server; and of memories
  Indexer, Sources, Pieces, MaxCrashes,               \* of the knowledge base
  Size, MaxAttempts, MaxOps, MaxFailures, MaxDrops,   \* of the shared connection
  QueueMax, MaxBatch,                                 \* of spans
  Stuck, CacheTTL, ListMax, AlertMax, MaxTicks, MaxScans,  \* of the runs that are watched
  Values, Buckets, MaxValues,                         \* of a histogram
  Dims, Weights, MaxVectors, RrfK, MaxText            \* of the index

ASSUME StartersAssumption == 0 \notin Starters /\ SchemaVersion \in Nat \ {0}
ASSUME BackupAssumption == Keep \in Nat \ {0} /\ MaxTime \in Nat \ {0}
ASSUME EventAssumption == EventKeep \in Nat \ {0} /\ PageSize \in Nat /\ MaxIds \in Nat
ASSUME MemoryAssumption == Nobody \notin Nat
ASSUME SourceAssumption == Sources \subseteq Nat \ {0} /\ 1 \in Sources /\ Pieces \in Nat

ASSUME ReplicaAssumption == Nobody \notin Replicas
ASSUME SpanAssumption == QueueMax \in Nat /\ MaxBatch \in Nat \ {0}
ASSUME WatchAssumption ==
  /\ Stuck \in Nat \ {0} /\ CacheTTL \in Nat /\ ListMax \in Nat /\ AlertMax \in Nat
  /\ IsFiniteSet(Channels)
ASSUME QuotaAssumption ==
  /\ GlobalWindow \in Nat \ {0} /\ HostWindow \in Nat \ {0} /\ GlobalMax \in Nat /\ HostMax \in Nat
  /\ MaxConcurrency \in Nat /\ MaxLag \in Nat /\ IsFiniteSet(Callers)
ASSUME StoryAssumption == KeepRecent \in Nat
ASSUME IndexAssumption ==
  Dims \in Nat /\ Weights \subseteq Nat /\ MaxVectors \in Nat /\ RrfK \in Nat
ASSUME ValueAssumption == Values \subseteq Nat /\ Buckets \subseteq Nat

\* Nobody is no thread, and no open block of the shared connection.
Block == [by : Threads, writes : SUBSET (Nat \X Nat), bad : BOOLEAN]
ASSUME LinkAssumption == Nobody \notin Threads \union Block /\ Size \in Nat \ {0} /\ MaxOps \in Nat

VARIABLES
  part,
  log, nextId, mutex, place, base, unanchored, anchors, harm, command, exported,
  written, file, manifest, step, mine, prior, overlap, meddled,
  dialect, events, lastId, writing, entry, newest, cursor, received,
  messages, rows, status, ticket, drive, calls,
  keyring, vault, rotor, todo, cur, failed, asked, sound, verdict,
  store, code, columns, version, ddlLock, start, column, draft,
  db, files, now, job, fresh, spoilt, good,
  clock, counter, widest, gate, look, holding, slots, passed,
  items, issued, doing, expired, approved, closed, overtaken, revived,
  source, stored, meta, loader, config, chunks, crashes,
  vectors, postings, kind,
  conn, alive, block, guard, op, kept, done, misled, failures, drops,
  exporter, caller, queue, stopped, worker, batch, rest, client, closer, dropped, errors, got,
  overflow, lostIn, late,
  tick, waiting, pending, touched, held, scan, gauge, cache, scans, told,
  observed, bucket_map, total, names, rendering

Audit == INSTANCE AuditChain WITH
  at <- place, since <- unanchored, NoOne <- Nobody

Shelf == INSTANCE Archive

Bus == INSTANCE EventLog

Story == INSTANCE History

Keys == INSTANCE KeyRotation WITH Absent <- Nobody

Schema == INSTANCE SchemaStart WITH Latest <- SchemaVersion

Copies == INSTANCE Backup WITH failed <- spoilt

Quota == INSTANCE Limits WITH
  row <- counter, at <- gate, now <- look

Recall == INSTANCE Memory

Corpus == INSTANCE KnowledgeIndex WITH
  rows <- stored, at <- loader, Servers <- {Indexer}, Returns <- FALSE

Index == INSTANCE VectorIndex

Link == INSTANCE SharedConnection WITH mutex <- guard, stored <- kept, None <- Nobody

Meter == INSTANCE Telemetry WITH
  received <- got, clock <- tick, ticket <- pending, since <- held, None <- Nobody,
  Spans <- Requests, Runs <- Channels, MaxClock <- MaxTicks

-----------------------------------------------------------------------------
\* A part that does not run stays in one of its initial states.
RecordsInit ==
  /\ part \in {"idempotency", "audit", "archive", "events", "history", "vault", "schema", "backup",
               "limits", "memory", "corpus", "index", "connection", "export", "watch", "measure"}
  /\ Init /\ Audit!Init /\ Shelf!Init /\ Bus!Init /\ Story!Init /\ Keys!Init /\ Schema!Init
  /\ Copies!Init /\ Quota!Init /\ Recall!Init /\ Corpus!Init /\ Index!Init
  /\ Link!Init /\ Meter!InitExport /\ Meter!InitWatch /\ Meter!InitMeasure
  /\ part # "events" => dialect = "sqlite"
  /\ part # "schema" => store = "sqlite" /\ version = 0
                      /\ code = [p \in Starters |-> SchemaVersion]

auditVars   == <<log, nextId, mutex, place, base, unanchored, anchors, harm, command, exported>>
archiveVars == <<written, file, manifest, step, mine, prior, overlap, meddled>>
eventVars   == <<dialect, events, lastId, writing, entry, newest, cursor, received>>
historyVars == <<messages, rows, status, ticket, drive, calls>>
vaultVars   == <<keyring, vault, rotor, todo, cur, failed, asked, sound, verdict>>
schemaVars  == <<store, code, columns, version, ddlLock, start, column, draft>>
backupVars  == <<db, files, now, job, fresh, spoilt, good>>
limitVars   == <<clock, counter, widest, gate, look, holding, slots, passed>>
memoryVars  == <<items, issued, doing, expired, approved, closed, overtaken, revived>>
corpusVars  == <<source, stored, meta, loader, config, chunks, crashes>>
indexVars   == <<vectors, postings, kind>>
linkVars    == <<conn, alive, block, guard, op, kept, done, misled, failures, drops>>
exportVars  == <<exporter, caller, queue, stopped, worker, batch, rest, client, closer, dropped,
                 errors, got, overflow, lostIn, late>>
watchVars   == <<tick, waiting, pending, touched, held, scan, gauge, cache, scans, told>>
measureVars == <<observed, bucket_map, total, names, rendering>>
recordsVars == <<part, vars, auditVars, archiveVars, eventVars, historyVars, vaultVars, schemaVars,
                 backupVars, limitVars, memoryVars, corpusVars, indexVars, linkVars, exportVars,
                 watchVars, measureVars>>

RecordsNext ==
  /\ UNCHANGED part
  /\ IF part = "idempotency" THEN Next ELSE UNCHANGED vars
  /\ IF part = "audit" THEN Audit!Next ELSE UNCHANGED auditVars
  /\ IF part = "archive" THEN Shelf!Next ELSE UNCHANGED archiveVars
  /\ IF part = "events" THEN Bus!Next ELSE UNCHANGED eventVars
  /\ IF part = "history" THEN Story!Next ELSE UNCHANGED historyVars
  /\ IF part = "vault" THEN Keys!Next ELSE UNCHANGED vaultVars
  /\ IF part = "schema" THEN Schema!Next ELSE UNCHANGED schemaVars
  /\ IF part = "backup" THEN Copies!Next ELSE UNCHANGED backupVars
  /\ IF part = "limits" THEN Quota!Next ELSE UNCHANGED limitVars
  /\ IF part = "memory" THEN Recall!Next ELSE UNCHANGED memoryVars
  /\ IF part = "corpus" THEN Corpus!Next ELSE UNCHANGED corpusVars
  /\ IF part = "index" THEN Index!Next ELSE UNCHANGED indexVars
  /\ IF part = "connection" THEN Link!Next ELSE UNCHANGED linkVars
  /\ IF part = "export" THEN Meter!Export ELSE UNCHANGED exportVars
  /\ IF part = "watch" THEN Meter!Watch ELSE UNCHANGED watchVars
  /\ IF part = "measure" THEN Meter!Measure ELSE UNCHANGED measureVars

RecordsSpec == RecordsInit /\ [][RecordsNext]_recordsVars /\ Fairness

-----------------------------------------------------------------------------
\* The audit log and its archive: what nobody changed passes, whatever replicas and
\* commands interleave and die, what is changed is found, and exports that follow one
\* another hold every row once.  And what operators are told besides is true: spans are
\* received or counted, no run that waits too long is missed by the gauge, the sweep or
\* the exit code of `warden stuck`, histograms are those of the values (audit.py:320-420,
\* cli.py:429-610, archive.py:94-177, otel.py:173-244, alerting.py:70-161,
\* metrics.py:190-266).
LedgersTell ==
  CASE part = "audit" -> Audit!UntouchedVerifies /\ Audit!HarmIsFound /\ Audit!ExportsTell
    [] part = "archive" -> Shelf!UntouchedPasses /\ Shelf!MeddlingFound
    [] part = "export" -> Meter!SpansAccounted
    [] part = "watch" -> Meter!GaugeTells /\ Meter!AlarmTells
    [] part = "measure" -> Meter!HistogramTells
    [] OTHER -> TRUE

\* What has been stored is told as it was meant: events to those who poll the shared
\* table, statements that belong together all or none although threads share a connection,
\* no memory that was refused, replaced or purged, unless an approval that had read it before
\* saves it afterwards, and no mixture of two sources of documents (coordination.py:285-407,
\* postgres.py:127-131, service.py:93-132, loader.py:90-136).
ReadersTold ==
  CASE part = "events" -> Bus!NothingSkipped /\ Bus!NewestKept
    [] part = "connection" -> Link!BlocksAreWhole /\ Link!NoBlockLeft
    [] part = "memory" -> Recall!RefusedStaysOut
    [] part = "corpus" -> Corpus!ServesItsSource
    [] OTHER -> TRUE

\* What is stored stays readable: credentials after a rotation of the key, tables after
\* starts of old and new code, a copy of the data after prunings (vault.py:196-250,
\* sqlite.py:220-280, postgres.py:204-390, backup.py:296-333).
OldDataReadable ==
  /\ [](part = "vault" => Keys!RotationComplete)
  /\ [](part = "schema" => Schema!ColumnsPresent)
  /\ [](part = "backup" => Copies!UsableKept)
  /\ Schema!NeverDowngraded

\* Outbound requests keep to their slots, and to their windows but for those that the sweep
\* deletes while they are in force, each of which lets as many through again
\* (outbound.py:98-155, maintenance.py:111).
LimitsHold == part = "limits" => Quota!LimitsHold

\* What a request to the model is made of: every result right after its call, also in a
\* history that was cut, and the best hits whichever index finds them (session.py:107-139,
\* cognition.py:43-67, sqlite.py:307-333, vector_index.py:72-120, hybrid.py:99-112).
PromptIsSound ==
  CASE part = "history" -> Story!CallsPaired /\ Story!NothingNewLost
    [] part = "index" -> Index!SameHits /\ Index!FusedFairly /\ Index!ChunksCover
    [] OTHER -> TRUE
=============================================================================
