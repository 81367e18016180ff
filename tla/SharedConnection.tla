-------------------------- MODULE SharedConnection --------------------------
(***************************************************************************)
(* PostgresStore: the threads of a process share one connection, which     *)
(* commits each statement by itself unless a block is open.  Blocks        *)
(* (append_message, delete_run, append_event) exclude each other by a      *)
(* lock; the other methods take no lock, and their statements fall into    *)
(* whatever block is open.  A thread that finds the connection broken puts *)
(* another in its place and tries again.                                   *)
(*                                                                         *)
(* A write is the number of its operation and that of the statement; what  *)
(* it says does not matter here (EventLog, History and AgentSession have   *)
(* that).                                                                  *)
(***************************************************************************)
EXTENDS Naturals

CONSTANTS Threads, None,
          Size,         \* statements of a block
          MaxAttempts,  \* _RECONNECT_ATTEMPTS
          MaxOps,       \* bound: operations of all threads
          MaxFailures,  \* bound: statements that the server rejects
          MaxDrops      \* bound: connections that break

VARIABLES
  conn, alive,  \* self.conn, by number; has it broken?
  block,        \* the transaction that is open on self.conn, or None
  mutex,        \* self._lock
  op,           \* what each thread is doing
  stored,       \* the statements that are committed
  done,         \* the operations that returned
  misled,       \* (observed) operations that raised although nothing was wrong with them
  failures, drops

connVars == <<conn, alive, block, mutex, op, stored, done, misled, failures, drops>>
faults == <<failures, drops>>

Resting == [at |-> "idle", kind |-> None, n |-> 0, stmt |-> 0, link |-> 0, cursor |-> 0, tries |-> 0]

Init ==
  /\ conn = 1 /\ alive = TRUE /\ block = None /\ mutex = None
  /\ op = [t \in Threads |-> Resting]
  /\ stored = {} /\ done = {} /\ misled = {} /\ failures = 0 /\ drops = 0

Goto(t, label) == op' = [op EXCEPT ![t].at = label]
Rest(t) == op' = [op EXCEPT ![t] = [Resting EXCEPT !.n = op[t].n]]
Write(t) == <<op[t].n, op[t].stmt>>
Unlocked(t) == IF mutex = t THEN None ELSE mutex
Fails == failures < MaxFailures /\ failures' = failures + 1 /\ UNCHANGED drops

-----------------------------------------------------------------------------
Numbers == {op[t].n : t \in Threads}

Call(t) ==
  /\ op[t].at = "idle"
  /\ \E kind \in {"plain", "block", "block and commit"}, n \in 1 .. MaxOps :
       /\ n - 1 \in Numbers /\ \A m \in Numbers : m < n
       /\ op' = [op EXCEPT ![t] = [Resting EXCEPT !.n = n, !.kind = kind,
                                  !.at = IF kind = "plain" THEN "execute" ELSE "lock"]]
  /\ UNCHANGED <<conn, alive, block, mutex, stored, done, misled, faults>>

Return(t) == done' = done \cup {op[t].n} /\ Rest(t)

\* What a statement of t does to the connection that it runs on.
Run(t) ==
  IF block = None THEN stored' = stored \cup {Write(t)} /\ UNCHANGED block
  ELSE block' = [block EXCEPT !.writes = @ \cup {Write(t)}] /\ UNCHANGED stored

\* The server rejects it: an open block is spoilt, whoever opened it.
Spoil == block' = IF block = None THEN None ELSE [block EXCEPT !.bad = TRUE]
Spoilt == block # None /\ block.bad

\* _reconnecting: a broken connection is replaced, a few times.
Lost(t) ==
  /\ mutex' = Unlocked(t)
  /\ IF op[t].tries < MaxAttempts THEN Goto(t, "reconnect") ELSE Rest(t)
  /\ UNCHANGED <<conn, alive, block, stored, done, misled, faults>>

Reconnect(t) ==
  /\ op[t].at = "reconnect"
  /\ conn' = conn + 1 /\ alive' = TRUE /\ block' = None
  /\ op' = [op EXCEPT ![t].tries = @ + 1, ![t].stmt = 0,
                      ![t].at = IF op[t].kind = "plain" THEN "execute" ELSE "lock"]
  /\ UNCHANGED <<mutex, stored, done, misled, faults>>

-----------------------------------------------------------------------------
(* A method of one statement, and the commit() behind it *)

Execute(t) ==
  /\ op[t].at = "execute"
  /\ \/ ~alive /\ Lost(t)
     \/ /\ alive /\ ~Spoilt /\ Run(t) /\ Goto(t, "commit")
        /\ UNCHANGED <<conn, alive, mutex, done, misled, faults>>
     \/ /\ alive /\ Spoilt /\ Rest(t) /\ misled' = misled \cup {op[t].n}
        /\ UNCHANGED <<conn, alive, block, mutex, stored, done, faults>>
     \/ /\ alive /\ ~Spoilt /\ Fails /\ Spoil /\ Rest(t)
        /\ UNCHANGED <<conn, alive, mutex, stored, done, misled>>

\* commit() is forbidden while a block is open, and does nothing else; whether it sees
\* that the connection is broken depends on the driver.
Commit(t) ==
  /\ op[t].at = "commit"
  /\ \/ ~alive /\ Lost(t)
     \/ /\ IF block # None THEN Rest(t) /\ misled' = misled \cup {op[t].n} /\ UNCHANGED done
           ELSE Return(t) /\ UNCHANGED misled
        /\ UNCHANGED <<conn, alive, block, mutex, stored, faults>>

-----------------------------------------------------------------------------
(* with self._lock, self.conn.transaction(), self.conn.cursor() as cur *)

\* Fault variant: blocks are not kept apart.
LockNone(t) ==
  /\ op[t].at = "lock" /\ Goto(t, "enter")
  /\ UNCHANGED <<conn, alive, block, mutex, stored, done, misled, faults>>

Lock(t) ==
  /\ op[t].at = "lock" /\ mutex = None /\ mutex' = t /\ Goto(t, "enter")
  /\ UNCHANGED <<conn, alive, block, stored, done, misled, faults>>

\* A block that is opened in another is a part of it.
Enter(t) ==
  /\ op[t].at = "enter"
  /\ \/ ~alive /\ Lost(t)
     \/ /\ alive
        /\ block' = IF block = None THEN [by |-> t, writes |-> {}, bad |-> FALSE] ELSE block
        /\ op' = [op EXCEPT ![t].at = "cursor", ![t].link = conn]
        /\ UNCHANGED <<conn, alive, mutex, stored, done, misled, faults>>

\* The cursor is taken from self.conn as it is by then.
Cursor(t) ==
  /\ op[t].at = "cursor"
  /\ op' = [op EXCEPT ![t].at = "statement", ![t].cursor = conn, ![t].stmt = 1]
  /\ UNCHANGED <<conn, alive, block, mutex, stored, done, misled, faults>>

NextStatement(t) == op' = [op EXCEPT ![t].at = IF op[t].stmt = Size THEN "exit" ELSE @,
                             ![t].stmt = IF op[t].stmt = Size THEN @ ELSE @ + 1]
\* An exception leaves the block, which is rolled back if it is still there.
RollBack(t) ==
  /\ block' = IF op[t].link = conn THEN None ELSE block
  /\ mutex' = Unlocked(t) /\ Rest(t)

Statement(t) ==
  /\ op[t].at = "statement"
  /\ \/ (~alive \/ op[t].cursor # conn) /\ Lost(t)
     \/ /\ alive /\ op[t].cursor = conn /\ ~Spoilt /\ Run(t) /\ NextStatement(t)
        /\ UNCHANGED <<conn, alive, mutex, done, misled, faults>>
     \/ /\ alive /\ op[t].cursor = conn /\ Spoilt /\ RollBack(t)
        /\ misled' = misled \cup {op[t].n}
        /\ UNCHANGED <<conn, alive, stored, done, faults>>
     \/ /\ alive /\ op[t].cursor = conn /\ ~Spoilt /\ Fails /\ RollBack(t)
        /\ UNCHANGED <<conn, alive, stored, done, misled>>

\* COMMIT, which rolls a spoilt block back without an error; on a connection that was
\* closed meanwhile nothing happens, and nothing is said.
Exit(t) ==
  /\ op[t].at = "exit"
  /\ \/ op[t].link = conn /\ ~alive /\ Lost(t)
     \/ /\ op[t].link = conn => alive
        /\ IF op[t].link = conn /\ block # None
           THEN /\ stored' = IF block.bad THEN stored ELSE stored \cup block.writes
                /\ block' = None
           ELSE UNCHANGED <<stored, block>>
        /\ mutex' = Unlocked(t)
        /\ IF op[t].kind = "block" THEN Return(t) ELSE Goto(t, "commit") /\ UNCHANGED done
        /\ UNCHANGED <<conn, alive, misled, faults>>

\* The network fails, or the database is restarted.
Drop ==
  /\ alive /\ drops < MaxDrops /\ drops' = drops + 1
  /\ alive' = FALSE /\ block' = None
  /\ UNCHANGED <<conn, mutex, op, stored, done, misled, failures>>

Next ==
  \/ \E t \in Threads :
       \/ Call(t) \/ Execute(t) \/ Commit(t) \/ Reconnect(t)
       \/ Lock(t) \/ Enter(t) \/ Cursor(t) \/ Statement(t) \/ Exit(t)
  \/ Drop

Spec == Init /\ [][Next]_connVars

-----------------------------------------------------------------------------
(* Properties *)

Torn(w) == w[2] > 0 /\ \E i \in 1 .. Size : <<w[1], i>> \notin stored

\* Others see all of a block or none of it, although statements and commits of other
\* threads fall into it and statements fail, as long as the connection holds
\* (postgres.py:127-131, 434-444, 575-591).
BlocksAreWhole == drops = 0 => ~\E w \in stored : Torn(w)

\* No block is left open behind the thread that opened it, so that what follows would
\* be written into it and be lost, or fail (postgres.py:110-114).
NoBlockLeft == block # None => mutex = block.by /\ op[block.by].at \in {"cursor", "statement", "exit"}

\* (Refuted.)  The commit() behind each statement does no harm (postgres.py:118-119).
CommitsHarmless == failures = 0 => misled = {}

\* (Refuted.)  What an operation has written when it returns is stored.
ReturnedIsStored ==
  \A n \in done : \E w \in stored : w[1] = n
=============================================================================
