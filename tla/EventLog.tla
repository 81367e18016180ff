------------------------------ MODULE EventLog ------------------------------
(***************************************************************************)
(* The event table that replicas share (SqlEventBus over the stores): a    *)
(* run's driver appends, trimming the run's old events, and a subscriber   *)
(* polls for what is newer than the last id it has seen.  Ids are common   *)
(* to all runs.  PostgreSQL gives out the id before the commit; SQLite     *)
(* commits the event and trims in a second transaction.                    *)
(***************************************************************************)
EXTENDS Integers, FiniteSets, FiniteSetsExt

CONSTANTS Channels,     \* the runs that publish; each has one subscriber
          EventKeep,    \* WARDEN_EVENT_KEEP
          PageSize,     \* limit of list_events_after
          MaxIds        \* ids handed out (bound)

VARIABLES
  dialect,   \* "postgres" or "sqlite"
  events,    \* the visible rows: [id, run, n], the n-th event of the run
  lastId,    \* the id sequence
  writing,   \* per run: the driver is "idle", has an "open" insert, or is to "trim"
  entry,     \* per run: the row being written
  newest,    \* per run: the n of its last visible event, 0 if it has none
  cursor,    \* per run: the id its subscriber has read up to
  received   \* per run: the events the subscriber got

eventVars == <<dialect, events, lastId, writing, entry, newest, cursor, received>>

Init ==
  /\ dialect \in {"postgres", "sqlite"}
  /\ events = {} /\ lastId = 0
  /\ writing = [r \in Channels |-> "idle"] /\ entry = [r \in Channels |-> [id |-> 0, run |-> r, n |-> 0]]
  /\ newest = [r \in Channels |-> 0] /\ cursor = [r \in Channels |-> 0]
  /\ received = [r \in Channels |-> {}]

Of(r) == {e \in events : e.run = r}
Now(r, p) == writing' = [writing EXCEPT ![r] = p]
Show(e, rows) == events' = rows /\ newest' = [newest EXCEPT ![e.run] = e.n]

\* Fault variant: the DELETE forgets the run.
TrimmedWide(e, rows) == {x \in rows : ~(x.id =< e.id - EventKeep)}

\* The rows that survive the DELETE after the insert of e.
Trimmed(e, rows) == {x \in rows : ~(x.run = e.run /\ x.id =< e.id - EventKeep)}

\* A driver, which holds its run's lease, takes the next id.
AppendEvent(r) ==
  /\ writing[r] = "idle" /\ lastId < MaxIds
  /\ LET e == [id |-> lastId + 1, run |-> r, n |-> entry[r].n + 1]
     IN /\ lastId' = lastId + 1 /\ entry' = [entry EXCEPT ![r] = e]
        /\ IF dialect = "postgres"
             THEN Now(r, "open") /\ UNCHANGED <<events, newest>>
             ELSE Now(r, "trim") /\ Show(e, events \union {e})
  /\ UNCHANGED <<dialect, cursor, received>>

\* PostgreSQL: the insert and the trimming become visible together.
CommitEvent(r) ==
  /\ writing[r] = "open" /\ Now(r, "idle")
  /\ Show(entry[r], Trimmed(entry[r], events \union {entry[r]}))
  /\ UNCHANGED <<dialect, lastId, entry, cursor, received>>

\* The answer to the commit is lost: _reconnecting appends the event once more.
CommitUnheard(r) ==
  /\ writing[r] = "open" /\ lastId < MaxIds /\ lastId' = lastId + 1
  /\ Show(entry[r], Trimmed(entry[r], events \union {entry[r]}))
  /\ entry' = [entry EXCEPT ![r].id = lastId + 1]
  /\ UNCHANGED <<dialect, writing, cursor, received>>

\* SQLite: the second transaction of append_event.
TrimEvents(r) ==
  /\ writing[r] = "trim" /\ Now(r, "idle") /\ events' = Trimmed(entry[r], events)
  /\ UNCHANGED <<dialect, lastId, entry, newest, cursor, received>>

\* The process or the connection is gone: an open insert is undone, a trimming left out.
WriterGone(r) ==
  /\ writing[r] # "idle" /\ Now(r, "idle")
  /\ UNCHANGED <<dialect, events, lastId, entry, newest, cursor, received>>

\* Fault variant: the cursor follows the table instead of the run.
PollWide(r) ==
  LET page == {e \in Of(r) : e.id > cursor[r]}
  IN /\ events # {} /\ Max({e.id : e \in events}) > cursor[r]
     /\ cursor' = [cursor EXCEPT ![r] = Max({e.id : e \in events})]
     /\ received' = [received EXCEPT ![r] = @ \union {e.n : e \in page}]
     /\ UNCHANGED <<dialect, events, lastId, writing, entry, newest>>

\* One round of poll: the oldest rows that are newer than the cursor.
Poll(r) ==
  LET page == {e \in Of(r) : /\ e.id > cursor[r]
                             /\ Cardinality({x \in Of(r) : x.id > cursor[r] /\ x.id < e.id}) < PageSize}
  IN /\ \E last \in page : /\ \A e \in page : e.id =< last.id
                          /\ cursor' = [cursor EXCEPT ![r] = last.id]
     /\ received' = [received EXCEPT ![r] = @ \union {e.n : e \in page}]
     /\ UNCHANGED <<dialect, events, lastId, writing, entry, newest>>

\* delete_run takes the events with the run.
DropChannel(r) ==
  /\ Of(r) # {} /\ events' = events \ Of(r) /\ newest' = [newest EXCEPT ![r] = 0]
  /\ UNCHANGED <<dialect, lastId, writing, entry, cursor, received>>

Next ==
  \E r \in Channels :
    \/ AppendEvent(r) \/ CommitEvent(r) \/ CommitUnheard(r) \/ TrimEvents(r) \/ WriterGone(r)
    \/ Poll(r) \/ DropChannel(r)

Spec == Init /\ [][Next]_eventVars

-----------------------------------------------------------------------------
\* coordination.py:285-407: a subscriber that polls by id has got every event
\* of its run that is still kept and not newer than its cursor, whatever ids
\* other runs took and in whatever order their transactions committed.
NothingSkipped == \A e \in events : e.id =< cursor[e.run] => e.n \in received[e.run]

\* sqlite.py:678-693, postgres.py:782-799: trimming counts the ids of all runs,
\* yet the newest event of a run, which ends its stream, is always in the table.
NewestKept == \A r \in Channels : newest[r] > 0 => \E e \in Of(r) : e.n = newest[r]
=============================================================================
