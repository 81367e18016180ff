--------------------------- MODULE ToolStability ---------------------------
(***************************************************************************)
(* Timeouts, retries, fallback and circuit breaker around a tool call      *)
(* (tool/stability.py).  One executor is built at start-up and shared by   *)
(* all sessions.  Each attempt runs on a thread of its own, which Python   *)
(* cannot stop: after a timeout it is left to itself and only counted.     *)
(***************************************************************************)
EXTENDS Integers, FiniteSets

CONSTANTS Callers,      \* threads that call execute
          Threads,      \* the worker threads there may be at a time (bound)
          MaxStuck,     \* _MAX_STUCK_THREADS
          MaxAttempts,  \* config.max_attempts
          Threshold     \* config.circuit_threshold, 0 turns the breaker off

ASSUME StabilityAssumption ==
  /\ IsFiniteSet(Callers) /\ IsFiniteSet(Threads) /\ Threads \subseteq Nat
  /\ MaxStuck \in Nat \ {0} /\ MaxAttempts \in Nat \ {0} /\ Threshold \in Nat

VARIABLES
  th,       \* what the function did on a thread: its last outcome, or "run"
  settled,  \* the threads with state["finished"], and those not started yet
  counted,  \* the threads abandoned, with state["counted"], that have not settled
  stuck,    \* _stuck_threads
  fails,    \* _fail_counts of the tool
  until,    \* _open_until of the tool: "none", in the future or "over"
  half,     \* _half_open of the tool
  pc,       \* where a caller is
  pure,     \* is the called tool pure?
  tries,    \* the attempts of the call
  began,    \* the threads it started, without those seen to fail
  cur,      \* the threads of the attempt under way (at most one)
  seen      \* the count read by _record_failure

threads == <<th, settled, counted, stuck>>
breaker == <<fails, until, half>>
call    == <<pure, tries, began, cur, seen>>
vars    == <<threads, breaker, call, pc>>

Outcomes == {"ok", "transient", "permanent"}

TypeOK ==
  /\ th \in [Threads -> Outcomes \cup {"run"}]
  /\ settled \subseteq Threads /\ counted \subseteq Threads /\ stuck \in Nat
  /\ fails \in Nat /\ until \in {"none", "open", "over"} /\ half \in BOOLEAN
  /\ pc \in [Callers -> {"idle", "cool", "try", "wait", "late", "count", "mark", "reset"}]
  /\ pure \in [Callers -> BOOLEAN] /\ tries \in [Callers -> 0 .. MaxAttempts]
  /\ began \in [Callers -> SUBSET Threads] /\ cur \in [Callers -> SUBSET Threads]
  /\ seen \in [Callers -> Nat]

Init ==
  /\ th = [t \in Threads |-> "ok"] /\ settled = Threads /\ counted = {} /\ stuck = 0
  /\ fails = 0 /\ until = "none" /\ half = FALSE
  /\ pc = [c \in Callers |-> "idle"] /\ pure = [c \in Callers |-> TRUE]
  /\ tries = [c \in Callers |-> 0]
  /\ began = [c \in Callers |-> {}] /\ cur = [c \in Callers |-> {}]
  /\ seen = [c \in Callers |-> 0]

Goto(c, l) == pc' = [pc EXCEPT ![c] = l]

\* A thread that belongs to no call and has ended; a new one takes the least name.
Free(t) == t \in settled /\ \A c \in Callers : t \notin began[c]
Least(t) == Free(t) /\ \A u \in Threads : Free(u) => t =< u

-----------------------------------------------------------------------------
\* The circuit breaker.

\* execute begins: a breaker that is open answers in the tool's place.
Call(c) ==
  /\ pc[c] = "idle" /\ (Threshold > 0 => until # "open")
  /\ Goto(c, IF Threshold > 0 /\ until = "over" THEN "cool" ELSE "try")
  /\ \E p \in BOOLEAN : pure' = [pure EXCEPT ![c] = p]
  /\ UNCHANGED <<threads, breaker, tries, began, cur, seen>>

\* The cooldown has run out: half open.
Cool(c) ==
  /\ pc[c] = "cool" /\ Goto(c, "try")
  /\ until' = "none" /\ half' = TRUE
  /\ UNCHANGED <<threads, fails, call>>

\* The call is over: its locals are dropped, the threads it gave up live on.
Leave(c) ==
  /\ Goto(c, "idle") /\ pure' = [pure EXCEPT ![c] = TRUE]
  /\ tries' = [tries EXCEPT ![c] = 0] /\ began' = [began EXCEPT ![c] = {}]
  /\ seen' = [seen EXCEPT ![c] = 0]
  /\ th' = [t \in Threads |-> IF t \in began[c] /\ th[t] # "run" THEN "ok" ELSE th[t]]
  /\ UNCHANGED <<settled, counted, stuck, cur>>

\* _record_failure reads the count ...
Count(c) ==
  /\ pc[c] = "count"
  /\ IF Threshold = 0
     THEN Leave(c) /\ UNCHANGED half
     ELSE /\ Goto(c, "mark") /\ half' = FALSE
          /\ seen' = [seen EXCEPT ![c] = IF half THEN Threshold ELSE fails + 1]
          /\ UNCHANGED <<threads, pure, tries, began, cur>>
  /\ UNCHANGED <<fails, until>>

\* ... and writes it back, or opens the breaker.
Mark(c) ==
  /\ pc[c] = "mark" /\ Leave(c)
  /\ IF seen[c] >= Threshold
     THEN until' = "open" /\ fails' = 0
     ELSE fails' = seen[c] /\ UNCHANGED until
  /\ UNCHANGED half

\* A success closes it.
Reset(c) ==
  /\ pc[c] = "reset" /\ Leave(c)
  /\ fails' = 0 /\ until' = "none" /\ half' = FALSE

Elapse == until = "open" /\ until' = "over" /\ UNCHANGED <<threads, fails, half, call, pc>>

-----------------------------------------------------------------------------
\* One attempt, and what follows from its outcome.

\* Fault variant: a timeout counts as a transient exception.
RetryableLate(c, o) == pure[c] \/ o \in {"transient", "timeout"}

\* _should_retry: after a timeout the function may still be at work.
Retryable(c, o) == pure[c] \/ o = "transient"

\* The retry loop after the n-th attempt.  A call that is given up has failed, whether
\* or not a fallback answers for it.
Judge(c, o, n) ==
  Goto(c, CASE o = "ok" -> "reset"
            [] o # "ok" /\ n < MaxAttempts /\ Retryable(c, o) -> "try"
            [] OTHER -> "count")

\* At the cap no thread is started: a RuntimeError, which is not transient.
Refuse(c) ==
  /\ pc[c] = "try" /\ stuck >= MaxStuck
  /\ Judge(c, "permanent", tries[c] + 1) /\ tries' = [tries EXCEPT ![c] = @ + 1]
  /\ UNCHANGED <<threads, breaker, pure, began, cur, seen>>

\* The cap is looked at under the lock; the thread starts, and counts, later.
Start(c, t) ==
  /\ pc[c] = "try" /\ stuck < MaxStuck /\ Least(t)
  /\ cur' = [cur EXCEPT ![c] = {t}] /\ began' = [began EXCEPT ![c] = @ \cup {t}]
  /\ tries' = [tries EXCEPT ![c] = @ + 1]
  /\ th' = [th EXCEPT ![t] = "run"] /\ settled' = settled \ {t}
  /\ Goto(c, "wait") /\ UNCHANGED <<counted, stuck, breaker, pure, seen>>

\* The function returns or raises: done is set ...
Finish(t) ==
  /\ th[t] = "run"
  /\ \E o \in IF \E c \in Callers : pc[c] = "wait" /\ t \in cur[c]
              THEN Outcomes
              ELSE {"ok"} :      \* nobody looks at it: the outcome with an effect stands for all
       th' = [th EXCEPT ![t] = o]
  /\ UNCHANGED <<settled, counted, stuck, breaker, call, pc>>

\* ... and the count is corrected under the lock.
Settle(t) ==
  /\ t \notin settled /\ th[t] # "run"
  /\ settled' = settled \cup {t} /\ counted' = counted \ {t}
  /\ stuck' = IF t \in counted /\ stuck > 0 THEN stuck - 1 ELSE stuck
  /\ UNCHANGED <<th, breaker, call, pc>>

\* done.wait returns in time.
Reap(c, t) ==
  /\ pc[c] = "wait" /\ t \in cur[c] /\ th[t] # "run" /\ Judge(c, th[t], tries[c])
  /\ cur' = [cur EXCEPT ![c] = {}]
  /\ began' = [began EXCEPT ![c] = IF th[t] = "ok" THEN @ ELSE @ \ {t}]
  /\ th' = [th EXCEPT ![t] = "ok"]
  /\ UNCHANGED <<settled, counted, stuck, breaker, pure, tries, seen>>

\* It does not: the function may still return before the waiter has the lock.
TimeOut(c, t) ==
  /\ pc[c] = "wait" /\ t \in cur[c] /\ th[t] = "run"
  /\ Goto(c, "late") /\ UNCHANGED <<threads, breaker, call>>

GiveUp(c, t) ==
  /\ pc[c] = "late" /\ t \in cur[c] /\ Judge(c, "timeout", tries[c])
  /\ cur' = [cur EXCEPT ![c] = {}]
  /\ UNCHANGED <<th, settled, breaker, pure, tries, began, seen>>

\* Fault variant: it is counted in any case.
AbandonBlind(c, t) ==
  /\ GiveUp(c, t) /\ counted' = counted \cup ({t} \ settled) /\ stuck' = stuck + 1

\* The thread is counted as stuck unless it has ended meanwhile.
Abandon(c, t) ==
  /\ GiveUp(c, t)
  /\ IF t \in settled THEN UNCHANGED <<counted, stuck>>
     ELSE counted' = counted \cup {t} /\ stuck' = stuck + 1

-----------------------------------------------------------------------------
Attempt(c) ==
  \/ Refuse(c)
  \/ \E t \in Threads : Start(c, t) \/ Reap(c, t) \/ TimeOut(c, t) \/ Abandon(c, t)

Continue(c) == Cool(c) \/ Attempt(c) \/ Count(c) \/ Mark(c) \/ Reset(c)

Next ==
  \/ Elapse
  \/ \E c \in Callers : Call(c) \/ Continue(c)
  \/ \E t \in Threads : Finish(t) \/ Settle(t)

Spec == Init /\ [][Next]_vars

-----------------------------------------------------------------------------
\* The callers that have passed the cap and may still count their thread.
Pending == {c \in Callers : pc[c] \in {"wait", "late"}}

StuckCounted == stuck = Cardinality(counted)
CapHolds == stuck + Cardinality(Pending) < MaxStuck + Cardinality(Callers)

\* stability.py:56, 221-279: however a timeout and the late return of the function
\* meet, _stuck_threads is the number of abandoned threads that have not ended.  The
\* cap on them is checked before it is raised, so it can be overrun, but by no more
\* than the callers that passed it together.
ThreadsBounded == StuckCounted /\ CapHolds

\* stability.py:283-304: a tool with side effects is never run by two threads of
\* one call that may both have had their effect: one whose outcome is unknown
\* (still running when it was given up) is the last of its call.
NoDoubleEffect ==
  \A c \in Callers :
    ~pure[c] => Cardinality({t \in began[c] : th[t] \in {"run", "ok"}}) =< 1
=============================================================================
