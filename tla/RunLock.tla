------------------------------- MODULE RunLock -------------------------------
(***************************************************************************)
(* The lease lock of one run (runtime/locking.py and the run_locks table). *)
(* A lease is one RunLease object: it acquires, its heartbeat thread       *)
(* renews every Interval, and stop() releases.  Each lease has an owner id *)
(* of its own (new_owner_id per request), so a lease stands for its owner. *)
(*                                                                         *)
(* Shared = FALSE is InProcessRunLock: one mutex, each method is atomic.   *)
(* Shared = TRUE is SqlRunLock on PostgreSQL: each SQL statement is atomic,*)
(* and a method that needs two of them is two steps (SqliteStore wraps the *)
(* two of acquire in a transaction, but not the two of run_lock_owner).    *)
(* All processes read one clock; a lease may act on a reading grown old.   *)
(***************************************************************************)
EXTENDS Integers

CONSTANTS Leases,       \* the leases that contend for the run
          Nobody,       \* the owner of a free lock
          TTL,          \* lifetime of a lock row that is not renewed
          Interval,     \* time between two heartbeats
          Slow,         \* leases whose threads may be stopped for any time
          MaxLag,       \* how late the other leases may be with a step that is due
          Shared,       \* the lock is a row of a shared database
          RenewFaults,  \* may renew raise (a database error)?
          MaxClock      \* bound: the clock stops there

ASSUME TimeAssumption ==
  /\ TTL \in Nat \ {0} /\ Interval \in Nat \ {0}
  /\ Slow \subseteq Leases /\ MaxLag \in Nat /\ MaxClock \in Nat
  /\ Shared \in BOOLEAN /\ RenewFaults \in BOOLEAN
ASSUME NobodyAssumption == Nobody \notin Leases

\* RunLease sets the heartbeat to a third of the TTL; a lag below that is harmless.
TimelyAssumption == Interval + 2 * MaxLag < TTL

VARIABLES
  now,    \* the clock
  row,    \* the lock: who owns it and until when
  pc,     \* what the thread that uses the lease does
  at,     \* the clock reading acquire works with
  until,  \* the expiry the lease last obtained
  beat,   \* the heartbeat thread: off, waiting, or about to renew
  read,   \* the clock reading renew works with
  due,    \* when the lease's next step is due
  lost,   \* the flag RunLease.lost
  wiped   \* observed: leases that drove when an owner_of deleted their lock

vars == <<now, row, pc, at, until, beat, read, due, lost, wiped>>

PCs == {"idle", "acquire", "verify", "owner_of", "cleanup", "held", "stopping", "done"}
Beats == {"off", "wait", "renew"}

\* A row of run_locks.
Lock(l, t) == [owner |-> l, expires |-> t]
NoLock == Lock(Nobody, 0)

Init ==
  /\ now = 0 /\ row = NoLock
  /\ pc = [l \in Leases |-> "idle"] /\ beat = [l \in Leases |-> "off"]
  /\ at = [l \in Leases |-> 0] /\ until = [l \in Leases |-> 0]
  /\ read = [l \in Leases |-> 0] /\ due = [l \in Leases |-> 0]
  /\ lost = [l \in Leases |-> FALSE] /\ wiped = {}

\* The lease drives the run, and the lifetime it obtained has not ended.
Held(l) == pc[l] \in {"held", "stopping"}
Drives(l) == Held(l) /\ until[l] > now

\* A lease that is acquiring or whose heartbeat runs has a step to make by due + MaxLag;
\* a slow one (a paused process, locking.py:31) makes it at any time.
Pending(l) == pc[l] \in {"acquire", "verify"} \/ beat[l] \in {"wait", "renew"}

Tick ==
  /\ now < MaxClock
  /\ \A l \in Leases \ Slow : Pending(l) => now < due[l] + MaxLag
  /\ now' = now + 1
  /\ UNCHANGED <<row, pc, at, until, beat, read, due, lost, wiped>>

ReadClock(l) ==
  /\ pc[l] = "idle"
  /\ pc' = [pc EXCEPT ![l] = "acquire"]
  /\ at' = [at EXCEPT ![l] = now] /\ due' = [due EXCEPT ![l] = now]
  /\ UNCHANGED <<now, row, until, beat, read, lost, wiped>>

\* Fault variant: the first heartbeat comes after a whole TTL.
StartLate(l) ==
  /\ pc' = [pc EXCEPT ![l] = "held"]
  /\ until' = [until EXCEPT ![l] = at[l] + TTL]
  /\ beat' = [beat EXCEPT ![l] = "wait"]
  /\ due' = [due EXCEPT ![l] = now + TTL]

\* acquire() returned True: the lease is held and its heartbeat thread starts.
Start(l) ==
  /\ pc' = [pc EXCEPT ![l] = "held"]
  /\ until' = [until EXCEPT ![l] = at[l] + TTL]
  /\ beat' = [beat EXCEPT ![l] = "wait"]
  /\ due' = [due EXCEPT ![l] = now + Interval]

\* acquire() returned False: the caller asks who the holder is, for its answer.
Refuse(l) ==
  /\ pc' = [pc EXCEPT ![l] = "owner_of"]
  /\ UNCHANGED <<until, beat, due>>

\* Fault variant: compared with the new expiry instead of the clock.
FreeSoon(l) == row.expires <= at[l] + TTL

\* A free or expired lock is taken over; the clock may have moved since it was read.
Free(l) == row.expires <= at[l]

\* Fault variant: a repeated acquire works with a new reading.
AcquireAtNewReading(l) ==
  /\ pc[l] = "acquire"
  /\ row' = IF Free(l) THEN Lock(l, at[l] + TTL) ELSE row
  /\ \/ Shared /\ pc' = [pc EXCEPT ![l] = "verify"] /\ UNCHANGED <<at, until, beat, due>>
     \/ Shared /\ at' = [at EXCEPT ![l] = now] /\ UNCHANGED <<pc, until, beat, due>>
  /\ UNCHANGED <<now, read, lost, wiped>>

Acquire(l) ==
  /\ pc[l] = "acquire"
  /\ row' = IF Free(l) THEN Lock(l, at[l] + TTL) ELSE row
  /\ \/ ~Shared /\ Free(l) /\ Start(l)
     \/ ~Shared /\ ~Free(l) /\ Refuse(l)
     \/ Shared /\ pc' = [pc EXCEPT ![l] = "verify"] /\ UNCHANGED <<until, beat, due>>
     \* the connection broke after the write: _reconnecting runs the method again
     \/ Shared /\ UNCHANGED <<pc, until, beat, due>>
  /\ UNCHANGED <<now, at, read, lost, wiped>>

\* The second statement of acquire: is the row the one this lease wrote?
Verify(l) ==
  /\ pc[l] = "verify"
  /\ \/ row = Lock(l, at[l] + TTL) /\ Start(l)
     \/ row # Lock(l, at[l] + TTL) /\ Refuse(l)
  /\ UNCHANGED <<now, row, at, read, lost, wiped>>

\* owner_of: an expired lock has no owner and is deleted on the way.
OwnerOf(l) ==
  /\ pc[l] = "owner_of"
  /\ LET expired == row # NoLock /\ row.expires <= now IN
     /\ pc' = [pc EXCEPT ![l] = IF expired /\ Shared THEN "cleanup" ELSE "done"]
     /\ row' = IF expired /\ ~Shared THEN NoLock ELSE row
  /\ UNCHANGED <<now, at, until, beat, read, due, lost, wiped>>

\* The second statement of owner_of deletes by run_id, whoever owns the row by now.
Cleanup(l) ==
  /\ pc[l] = "cleanup"
  /\ row' = NoLock
  /\ wiped' = wiped \cup {m \in Leases : Drives(m) /\ row.owner = m}
  /\ pc' = [pc EXCEPT ![l] = "done"]
  /\ UNCHANGED <<now, at, until, beat, read, due, lost>>

\* The heartbeat wakes up and reads the clock.
Wake(l) ==
  /\ beat[l] = "wait" /\ now >= due[l]
  /\ beat' = [beat EXCEPT ![l] = "renew"]
  /\ read' = [read EXCEPT ![l] = now]
  /\ UNCHANGED <<now, row, pc, at, until, due, lost, wiped>>

\* Fault variant: any unexpired lock can be renewed.
RenewableByAge(l) == row.expires > read[l]

\* renew: only one's own lock, and only while it has not expired.
Renewable(l) == row.owner = l /\ row.expires > read[l]

Renew(l) ==
  /\ beat[l] = "renew" /\ Renewable(l)
  /\ row' = Lock(l, read[l] + TTL)
  /\ until' = [until EXCEPT ![l] = read[l] + TTL]
  /\ due' = [due EXCEPT ![l] = now + Interval]
  /\ beat' = [beat EXCEPT ![l] = IF pc[l] = "held" THEN "wait" ELSE "off"]
  /\ UNCHANGED <<now, pc, at, read, lost, wiped>>

\* Fault variant: the flag is not set.
RenewRefusedSilently(l) ==
  /\ beat[l] = "renew" /\ ~Renewable(l)
  /\ beat' = [beat EXCEPT ![l] = "off"]
  /\ UNCHANGED <<now, row, pc, at, until, read, due, lost, wiped>>

\* A renewal that is refused sets the flag and ends the thread.
RenewRefused(l) ==
  /\ beat[l] = "renew" /\ ~Renewable(l)
  /\ lost' = [lost EXCEPT ![l] = TRUE]
  /\ beat' = [beat EXCEPT ![l] = "off"]
  /\ UNCHANGED <<now, row, pc, at, until, read, due, wiped>>

\* A renewal that raises ends the thread: _beat has no handler around renew.
RenewRaises(l) ==
  /\ RenewFaults /\ beat[l] = "renew"
  /\ beat' = [beat EXCEPT ![l] = "off"]
  /\ UNCHANGED <<now, row, pc, at, until, read, due, lost, wiped>>

\* stop(): a waiting heartbeat ends; one inside renew is waited for, but not for ever.
Stop(l) ==
  /\ pc[l] = "held"
  /\ pc' = [pc EXCEPT ![l] = "stopping"]
  /\ beat' = [beat EXCEPT ![l] = IF @ = "wait" THEN "off" ELSE @]
  /\ UNCHANGED <<now, row, at, until, read, due, lost, wiped>>

\* stop() deletes the lock if it is still this lease's.
Release(l) ==
  /\ pc[l] = "stopping"
  /\ row' = IF row.owner = l THEN NoLock ELSE row
  /\ pc' = [pc EXCEPT ![l] = "done"]
  /\ UNCHANGED <<now, at, until, beat, read, due, lost, wiped>>

\* The process dies: its threads are gone, a row in the database stays.
Crash(l) ==
  /\ pc[l] # "done"
  /\ pc' = [pc EXCEPT ![l] = "done"] /\ beat' = [beat EXCEPT ![l] = "off"]
  /\ row' = IF ~Shared /\ row.owner = l THEN NoLock ELSE row
  /\ UNCHANGED <<now, at, until, read, due, lost, wiped>>

LeaseStep(l) ==
  \/ ReadClock(l) \/ Acquire(l) \/ Verify(l) \/ OwnerOf(l) \/ Cleanup(l)
  \/ Wake(l) \/ Renew(l) \/ RenewRefused(l) \/ RenewRaises(l)
  \/ Stop(l) \/ Release(l) \/ Crash(l)

Next == Tick \/ \E l \in Leases : LeaseStep(l)

Spec == Init /\ [][Next]_vars

-----------------------------------------------------------------------------
\* Every variable keeps its type (the row of run_locks, the fields of RunLease).
TypeOK ==
  /\ now \in 0..MaxClock
  /\ row \in [owner : Leases \cup {Nobody}, expires : Nat]
  /\ pc \in [Leases -> PCs] /\ beat \in [Leases -> Beats]
  /\ at \in [Leases -> 0..MaxClock] /\ read \in [Leases -> 0..MaxClock]
  /\ until \in [Leases -> Nat] /\ due \in [Leases -> Nat]
  /\ lost \in [Leases -> BOOLEAN] /\ wiped \subseteq Leases

\* locking.py:1: no two leases drive the run at the same time within their lifetimes,
\* however slow their threads are.
Exclusive == \A l, m \in Leases : Drives(l) /\ Drives(m) => l = m

\* A lease whose heartbeats are less than TTL/3 late never loses its lock while it is held,
\* whatever the slow ones do: a drive may take longer than the TTL (RunLease).
HolderKeepsLock ==
  \A l \in Leases \ Slow : pc[l] = "held" => row = Lock(l, until[l]) /\ until[l] > now

\* On a shared database two leases do drive at once, after owner_of: between its two
\* statements the expired lock may be taken over, and its DELETE by run_id (sqlite.py:919)
\* then removes the new one.  Nothing else lets two leases drive: one of them is a lease
\* whose lock an owner_of deleted while it drove, whatever is late, raises or is repeated.
OverlapOnlyOfWiped ==
  \A l, m \in Leases : Drives(l) /\ Drives(m) /\ l # m => l \in wiped \/ m \in wiped

\* A lease that is turned away has not left a lock of its own behind: acquire may be
\* run again after a broken connection, it still recognises the row it wrote.
NoOrphanedLock == \A l \in Leases : pc[l] = "owner_of" => row.owner # l

\* locking.py:27: a lease whose lock is gone has been told, or has a heartbeat that
\* will find out.
LossIsNoticed ==
  \A l \in Leases : pc[l] = "held" /\ row.owner # l => lost[l] \/ beat[l] # "off"

=============================================================================
