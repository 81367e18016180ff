----------------------------- MODULE Idempotency -----------------------------
(***************************************************************************)
(* Requests that carry the same Idempotency-Key, served by the gateway's   *)
(* middleware (web/server.py) over the shared idempotency table.  A key is *)
(* looked up, reserved with a placeholder, executed under, and then holds  *)
(* the answer or is released; the maintenance thread sweeps old rows.      *)
(*                                                                         *)
(* Time is kept as ages, which stop counting once they exceed the TTL.     *)
(***************************************************************************)
EXTENDS Integers

CONSTANTS Requests,     \* the requests with this key
          Nobody,       \* no request
          TTL,          \* idempotency_ttl_s: rows older than this are swept
          MaxRun,       \* how long a request may take once it has the key
          StoreFaults   \* may a store method raise, or be repeated?

Errors == {"none", "in_flight", "failed"}

ASSUME RetentionAssumption == TTL \in Nat /\ MaxRun \in Nat /\ StoreFaults \in BOOLEAN
ASSUME RequestAssumption == Nobody \notin Requests /\ Requests \cap Errors = {}

\* The retention outlives every request that executes (one day by default).
ShortRequests == MaxRun <= TTL

Old  == TTL + 1      \* an age beyond the TTL
Ages == 0..Old

VARIABLES
  row,    \* the key's row: its state, the request that wrote it, its age
  pc,     \* where each request is
  since,  \* time since a request got the key, Old if it never did
  ok,     \* requests whose execution ended with a 2xx
  reply   \* the answer given: whose execution it shows, or an error

vars == <<row, pc, since, ok, reply>>

Row(state, a, age) == [state |-> state, by |-> a, age |-> age]
Absent == Row("absent", Nobody, 0)

Init ==
  /\ row = Absent
  /\ pc = [a \in Requests |-> "new"]
  /\ since = [a \in Requests |-> Old]
  /\ ok = {}
  /\ reply = [a \in Requests |-> "none"]

Answer(a, r) == pc' = [pc EXCEPT ![a] = "done"] /\ reply' = [reply EXCEPT ![a] = r]

\* A stored answer is replayed; a placeholder reads like no row.
Lookup(a) ==
  /\ pc[a] = "new"
  /\ \/ row.state = "stored" /\ Answer(a, row.by)
     \/ row.state # "stored" /\ pc' = [pc EXCEPT ![a] = "reserve"] /\ UNCHANGED reply
  /\ UNCHANGED <<row, since, ok>>

\* Fault variant: the reservation overwrites a placeholder that is there.
ReserveBlind(a) ==
  /\ pc[a] = "reserve"
  /\ \/ /\ row.state # "stored"
        /\ row' = Row("pending", a, 0)
        /\ pc' = [pc EXCEPT ![a] = "execute"] /\ since' = [since EXCEPT ![a] = 0]
        /\ UNCHANGED reply
     \/ row.state = "stored" /\ Answer(a, "in_flight") /\ UNCHANGED <<row, since>>
  /\ UNCHANGED ok

\* Only a key without a row can be reserved, in one statement.
Reserve(a) ==
  /\ pc[a] = "reserve"
  /\ \/ /\ row = Absent
        /\ row' = Row("pending", a, 0)
        /\ pc' = [pc EXCEPT ![a] = "execute"] /\ since' = [since EXCEPT ![a] = 0]
        /\ UNCHANGED reply
     \/ row # Absent /\ Answer(a, "in_flight") /\ UNCHANGED <<row, since>>
  /\ UNCHANGED ok

\* _reconnecting repeats an INSERT that had succeeded: the row it finds is its own.
ReserveRepeated(a) ==
  /\ StoreFaults /\ pc[a] = "reserve" /\ row = Absent
  /\ row' = Row("pending", a, 0)
  /\ Answer(a, "in_flight")
  /\ UNCHANGED <<since, ok>>

\* get or reserve raises: a 500, and nothing is released.
StoreRaises(a) ==
  /\ StoreFaults /\ pc[a] \in {"new", "reserve"}
  /\ Answer(a, "failed")
  /\ UNCHANGED <<row, since, ok>>

\* call_next: the route answers 2xx, or anything else, or raises.
Execute(a) ==
  /\ pc[a] = "execute"
  /\ \/ ok' = ok \cup {a} /\ pc' = [pc EXCEPT ![a] = "put"]
     \/ UNCHANGED ok /\ pc' = [pc EXCEPT ![a] = "release"]
  /\ UNCHANGED <<row, since, reply>>

\* The upsert keeps the age of the row it overwrites.
Stored(a) == Row("stored", a, row.age)

Put(a) ==
  /\ pc[a] = "put"
  /\ row' = Stored(a)
  /\ Answer(a, a)
  /\ UNCHANGED <<since, ok>>

\* put raises, before or after the row was written: the handler releases the key.
PutRaises(a) ==
  /\ StoreFaults /\ pc[a] = "put"
  /\ row' \in {row, Stored(a)}
  /\ pc' = [pc EXCEPT ![a] = "release"]
  /\ UNCHANGED <<since, ok, reply>>

\* Fault variant: whatever the row holds is deleted.
ReleaseAny(a) ==
  /\ pc[a] = "release"
  /\ row' = Absent
  /\ Answer(a, "failed")
  /\ UNCHANGED <<since, ok>>

\* release deletes a placeholder, whoever wrote it, and leaves a stored answer.
Release(a) ==
  /\ pc[a] = "release"
  /\ row' = IF row.state = "pending" THEN Absent ELSE row
  /\ Answer(a, "failed")
  /\ UNCHANGED <<since, ok>>

\* release raises in the exception handler: the placeholder stays.
ReleaseRaises(a) ==
  /\ StoreFaults /\ pc[a] = "release"
  /\ Answer(a, "failed")
  /\ UNCHANGED <<row, since, ok>>

\* The process dies or the request's task is cancelled: no handler runs.
Crash(a) ==
  /\ pc[a] # "done"
  /\ pc' = [pc EXCEPT ![a] = "done"]
  /\ UNCHANGED <<row, since, ok, reply>>

\* Fault variant: placeholders are kept.
SweepStored ==
  /\ row.state = "stored" /\ row.age > TTL
  /\ row' = Absent
  /\ UNCHANGED <<pc, since, ok, reply>>

\* The maintenance sweep deletes what is older than the TTL, answers and placeholders.
Sweep ==
  /\ row # Absent /\ row.age > TTL
  /\ row' = Absent
  /\ UNCHANGED <<pc, since, ok, reply>>

\* Time passes; a request that has the key does not exceed MaxRun.
Holds(a) == pc[a] \in {"execute", "put", "release"}

\* Fault variant: an age that does not stop at Old.
OlderForEver(age) == age + 1

Older(age) == IF age < Old THEN age + 1 ELSE Old
Tick ==
  /\ \A a \in Requests : Holds(a) => since[a] < MaxRun
  /\ since' = [a \in Requests |-> Older(since[a])]
  /\ row' = IF row = Absent THEN row ELSE [row EXCEPT !.age = Older(@)]
  /\ UNCHANGED <<pc, ok, reply>>

Step(a) ==
  \/ Lookup(a) \/ Reserve(a) \/ ReserveRepeated(a) \/ StoreRaises(a) \/ Execute(a)
  \/ Put(a) \/ PutRaises(a) \/ Release(a) \/ ReleaseRaises(a)

Next == (\E a \in Requests : Step(a) \/ Crash(a)) \/ Sweep \/ Tick

Spec == Init /\ [][Next]_vars

\* A request that has arrived is served, the sweeper runs every interval, time passes.
Fairness ==
  /\ \A a \in Requests : WF_vars(pc[a] # "new" /\ Step(a))
  /\ WF_vars(Sweep) /\ WF_vars(Tick)
FairSpec == Spec /\ Fairness

-----------------------------------------------------------------------------
\* The row of the table and the progress of every request have their types.
TypeOK ==
  /\ row \in {Absent} \cup [state : {"pending", "stored"}, by : Requests, age : Ages]
  /\ pc \in [Requests -> {"new", "reserve", "execute", "put", "release", "done"}]
  /\ since \in [Requests -> Ages] /\ ok \subseteq Requests
  /\ reply \in [Requests -> Requests \cup Errors]

\* The execution took effect and its client was not told that it failed.
Kept(a) == a \in ok /\ reply[a] # "failed"

\* The promise of the key (README.md:70): of the requests that got the key within one TTL
\* at most one has an effect that stands, whatever raises, is repeated or dies.
OncePerKey ==
  \A a, b \in Requests :
    Kept(a) /\ Kept(b) /\ since[a] <= TTL /\ since[b] <= TTL => a = b

\* Two clients that are answered 2xx for executions of one TTL see the same execution,
\* also when the answer of a failed put was replayed.
AnswersAgree ==
  \A a, b \in Requests :
    /\ reply[a] \in Requests /\ reply[b] \in Requests
    /\ since[reply[a]] <= TTL /\ since[reply[b]] <= TTL
    => reply[a] = reply[b]

\* server.py:777: a key of the shared table does not stay "in flight" for ever, whatever died
\* or raised while it was reserved, because the table is swept.
KeyRecovers == row.state = "pending" ~> row.state # "pending"

=============================================================================
