----------------------------- MODULE AuditChain -----------------------------
(***************************************************************************)
(* The audit log (web/audit.py): replicas append to one table, each row    *)
(* hashed over its text, its id and the hash of the row before; every so   *)
(* many writes a replica notes the head of the chain in a second table.    *)
(* Verification walks the chain and asks for the last note.  The           *)
(* administrator of the database may edit or delete rows.                  *)
(*                                                                         *)
(* A digest is the tuple of what was hashed, so two digests are equal only *)
(* when the hashed things are.                                             *)
(*                                                                         *)
(* An operator exports the log from where the last export ended, after a   *)
(* verification; the one who receives the exports puts them together.      *)
(***************************************************************************)
EXTENDS Integers, Sequences, FiniteSets

CONSTANTS Replicas, NoOne,
          AnchorEvery,   \* AuditLogger._ANCHOR_EVERY
          MaxRows        \* ids handed out (bound)

VARIABLES
  log,      \* the committed rows, in the order of their ids
  nextId,   \* the id sequence, which a rollback does not wind back
  mutex,    \* who holds the advisory lock of the chain
  at,       \* where a replica is
  base,     \* the head it has read: the predecessor's hash, or the head to note
  since,    \* its _writes_since_anchor
  anchors,  \* the notes
  harm,     \* what the administrator did: "none", "edit", "cut", "tail" or "unnoted"
  command,  \* "idle", or what `warden audit-export` found of the chain it is about to export
  exported  \* the rows that the receiver has, in order

auditVars == <<log, nextId, mutex, at, base, since, anchors, harm, command, exported>>
logVars == <<log, nextId, mutex, at, base, since, anchors, harm>>
exportVars == <<command, exported>>

Genesis == <<>>
Digest(id, prev, text) == <<id, prev, text>>
Row(id, prev, text) == [id |-> id, prev |-> prev, text |-> text, hash |-> Digest(id, prev, text)]

Last(s) == s[Len(s)]
Head0 == [id |-> 0, hash |-> Genesis]
ChainHead == IF log = <<>> THEN Head0 ELSE [id |-> Last(log).id, hash |-> Last(log).hash]

\* How many rows have an id up to this one, and the rows that come after it.
Upto(id) == Cardinality({i \in 1 .. Len(log) : log[i].id =< id})
After(id) == SubSeq(log, Upto(id) + 1, Len(log))

Init ==
  /\ log = <<>> /\ nextId = 1 /\ mutex = NoOne /\ anchors = <<>> /\ harm = "none"
  /\ at = [r \in Replicas |-> "idle"] /\ base = [r \in Replicas |-> Head0]
  /\ since = [r \in Replicas |-> 0]
  /\ command = "idle" /\ exported = <<>>

Go(r, l) == at' = [at EXCEPT ![r] = l]

-----------------------------------------------------------------------------
\* append: a transaction that takes the advisory lock first.

\* Fault variant: no advisory lock.
LockNot(r) ==
  /\ at[r] = "idle" /\ nextId =< MaxRows /\ Go(r, "locked")
  /\ UNCHANGED <<log, nextId, mutex, base, since, anchors, harm, exportVars>>

Lock(r) ==
  /\ at[r] = "idle" /\ mutex = NoOne /\ nextId =< MaxRows
  /\ mutex' = r /\ Go(r, "locked")
  /\ UNCHANGED <<log, nextId, base, since, anchors, harm, exportVars>>

ReadHead(r) ==
  /\ at[r] = "locked" /\ base' = [base EXCEPT ![r] = ChainHead] /\ Go(r, "head")
  /\ UNCHANGED <<log, nextId, mutex, since, anchors, harm, exportVars>>

\* INSERT takes the id; the hash needs it and follows in an UPDATE.
Insert(r) ==
  /\ at[r] = "head" /\ nextId =< MaxRows
  /\ nextId' = nextId + 1 /\ Go(r, "inserted")
  /\ base' = [base EXCEPT ![r] = [id |-> nextId, hash |-> @.hash]]
  /\ UNCHANGED <<log, mutex, since, anchors, harm, exportVars>>

Unlock(r) == mutex' = IF mutex = r THEN NoOne ELSE mutex

\* The row becomes visible and the lock goes with the transaction; AuditLogger counts it.
Commit(r) ==
  /\ at[r] = "inserted" /\ Unlock(r)
  /\ log' = SubSeq(log, 1, Upto(base[r].id))
            \o <<Row(base[r].id, base[r].hash, "kept")>>
            \o After(base[r].id)
  /\ LET due == since[r] + 1 >= AnchorEvery
     IN /\ since' = [since EXCEPT ![r] = IF due THEN 0 ELSE @ + 1]
        /\ Go(r, IF due THEN "anchor" ELSE "idle")
  /\ UNCHANGED <<nextId, base, anchors, harm, exportVars>>

\* The connection is lost: the row is gone, its id stays used, the write is a warning.
Rollback(r) ==
  /\ at[r] \in {"locked", "head", "inserted"} /\ Unlock(r) /\ Go(r, "idle")
  /\ UNCHANGED <<log, nextId, base, since, anchors, harm, exportVars>>

-----------------------------------------------------------------------------
\* record_anchor: two reads and an insert, without the advisory lock.

AnchorHead(r) ==
  /\ at[r] = "anchor" /\ base' = [base EXCEPT ![r] = ChainHead] /\ Go(r, "note")
  /\ UNCHANGED <<log, nextId, mutex, since, anchors, harm, exportVars>>

\* A new note replaces the old one in verification.
Noted(a) == anchors' = Append(anchors, a) /\ harm' = IF harm = "tail" THEN "unnoted" ELSE harm

AnchorNote(r) ==
  /\ at[r] = "note" /\ Go(r, "idle")
  /\ Noted([id |-> base[r].id, hash |-> base[r].hash, rows |-> Len(log)])
  /\ UNCHANGED <<log, nextId, mutex, base, since, exportVars>>

AnchorFails(r) ==
  /\ at[r] \in {"anchor", "note"} /\ Go(r, "idle")
  /\ UNCHANGED <<log, nextId, mutex, base, since, anchors, harm, exportVars>>

-----------------------------------------------------------------------------
\* verify_chain, over the rows and the last note of one moment.

Linked(rows) ==
  \A i \in 1 .. Len(rows) :
    /\ rows[i].prev = (IF i = 1 THEN Genesis ELSE rows[i - 1].hash)
    /\ rows[i].hash = Digest(rows[i].id, rows[i].prev, rows[i].text)

\* Fault variant: only the number of rows is compared with the note.
AnchorHoldsBriefly == anchors # <<>> => Len(log) >= Last(anchors).rows

AnchorHolds ==
  anchors # <<>> =>
    LET a == Last(anchors)
    IN /\ Len(log) >= a.rows
       /\ a.id > 0 => \E i \in 1 .. Len(log) : log[i].id = a.id /\ log[i].hash = a.hash

VerifyChain == Linked(log) /\ AnchorHolds

-----------------------------------------------------------------------------
\* The command.  What it exports it has not verified: it reads the rows anew.

after_id == IF exported = <<>> THEN 0 ELSE Last(exported).id

\* limit 0 is none.
export_records(after, limit) ==
  LET rows == After(after)
  IN IF limit = 0 \/ limit > Len(rows) THEN rows ELSE SubSeq(rows, 1, limit)

Verify ==
  /\ command = "idle" /\ command' = IF VerifyChain THEN "sound" ELSE "broken"
  /\ UNCHANGED <<logVars, exported>>

\* A broken chain is exported too, with another exit code.
_cmd_audit_export(limit) ==
  /\ command # "idle" /\ command' = "idle"
  /\ exported' = exported \o export_records(after_id, limit)
  /\ UNCHANGED logVars

\* The file cannot be written, or (`audit-archive`) there is one of that name.
NotWritten ==
  /\ command # "idle" /\ command' = "idle" /\ UNCHANGED <<logVars, exported>>

-----------------------------------------------------------------------------
\* The administrator, once.  A replica that has read the old head, or is about to note
\* it, can come after.

Edit(i) ==
  /\ harm = "none" /\ log' = [log EXCEPT ![i].text = "changed"] /\ harm' = "edit"
  /\ UNCHANGED <<nextId, mutex, at, base, since, anchors, exportVars>>

Cut(i) ==
  /\ harm = "none" /\ i < Len(log) /\ harm' = "cut"
  /\ log' = SubSeq(log, 1, i - 1) \o SubSeq(log, i + 1, Len(log))
  /\ UNCHANGED <<nextId, mutex, at, base, since, anchors, exportVars>>

CutTail(i) ==
  /\ harm = "none" /\ log' = SubSeq(log, 1, i - 1)
  /\ harm' = IF anchors # <<>> /\ Last(anchors).id >= log[i].id THEN "tail" ELSE "unnoted"
  /\ UNCHANGED <<nextId, mutex, at, base, since, anchors, exportVars>>

Next ==
  \/ \E r \in Replicas :
       \/ Lock(r) \/ ReadHead(r) \/ Insert(r) \/ Commit(r) \/ Rollback(r)
       \/ AnchorHead(r) \/ AnchorNote(r) \/ AnchorFails(r)
  \/ \E i \in 1 .. Len(log) : Edit(i) \/ Cut(i) \/ CutTail(i)
  \/ Verify \/ NotWritten \/ \E limit \in {0, 1} : _cmd_audit_export(limit)

Spec == Init /\ [][Next]_auditVars

-----------------------------------------------------------------------------
\* audit.py:498-638, 667-714: replicas that append and note at the same time,
\* and transactions that roll back, never make an untouched log look altered.
UntouchedVerifies == harm = "none" => VerifyChain

\* audit.py:333-371: an edited or removed row is found for ever, and a removed
\* tail until the next note, if a note had covered it.
HarmIsFound == harm \in {"edit", "cut", "tail"} => ~VerifyChain

\* Exports that go on from the last id together are the log as it was written: no row that
\* was committed late falls between two of them, because ids and rows come under one lock.
\* And who receives them finds, without the database, a row that was edited before it was
\* exported (audit.py:373-420, cli.py:552-610).
ExportsTell ==
  /\ harm = "none" => exported = SubSeq(log, 1, Upto(after_id))
  /\ Linked(exported) => \A i \in 1 .. Len(exported) : exported[i].text = "kept"
=============================================================================
