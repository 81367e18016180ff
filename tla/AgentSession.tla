---------------------------- MODULE AgentSession ----------------------------
(***************************************************************************)
(* One run of the agent, driven through AgentSession objects that live in  *)
(* several processes and share the database.                               *)
(*                                                                         *)
(* A replica serves chat, approve and reject requests and caches one       *)
(* session object of the run (SessionRegistry); a recovery worker reads a  *)
(* plan from the checkpoints and later drives a fresh session object.  The *)
(* run lock admits one driver at a time (module RunLock refines that       *)
(* assumption).  Every database write of the driver is a step of its own,  *)
(* so a crash can fall between any two of them.                            *)
(*                                                                         *)
(* Left to other modules: the message texts and their order (History), the *)
(* lease and its expiry (RunLock).  Of the messages this module keeps which*)
(* tool calls have been noted and which have been answered.                *)
(***************************************************************************)
EXTENDS Integers, AgentRun

CONSTANTS Replicas,          \* processes that serve HTTP requests
          Workers,           \* recovery worker processes
          Nobody,            \* the driver of a run nobody drives
          Tools,             \* tool names
          Tool,              \* the tool each call names
          MaxCalls,          \* bound: tool calls the model makes
          MaxIter,           \* max_iterations of the session
          MaxBatch,          \* bound: calls in one model response
          MaxAttempts,       \* max_attempts_per_run of the recovery plan
          MaxTurns,          \* bound: requests served
          MaxCrashes,        \* bound: process crashes
          Verdicts,          \* what the policy and the intent check may say
          Requests,          \* the kinds of request that arrive
          CheckpointFaults,  \* may a checkpoint write fail (it is swallowed)?
          Eviction           \* may the session cache evict the run?

Calls == 1..MaxCalls
NoCall == 0
Processes == Replicas \cup Workers

ASSUME BoundsAssumption ==
  /\ MaxCalls \in Nat /\ MaxIter \in Nat \ {0} /\ MaxBatch \in Nat \ {0}
  /\ MaxAttempts \in Nat \ {0} /\ MaxTurns \in Nat /\ MaxCrashes \in Nat
  /\ CheckpointFaults \in BOOLEAN /\ Eviction \in BOOLEAN
ASSUME ProcessAssumption == Replicas \cap Workers = {} /\ Nobody \notin Processes
ASSUME ToolAssumption == Tool \in [Calls -> Tools]
ASSUME ChoiceAssumption ==
  /\ Verdicts \subseteq {"ALLOW", "ASK", "DENY", "HINT"}
  /\ Requests \subseteq {"chat", "approve", "reject"}

Steps == {"none", "model_call", "tool_exec", "awaiting_approval", "done", "failed"}

Checkpoint == [status : RunStatus, iteration : Nat, step : Steps,
               attempts : Nat \ {0}, retryable : BOOLEAN]

\* No checkpoint row: the code's fallbacks (attempt 1, iteration 0) are its fields.
NoCheckpoint == [status |-> "PENDING", iteration |-> 0, step |-> "none",
                 attempts |-> 1, retryable |-> TRUE]

Session == [status : RunStatus, shown : Calls \cup {NoCall},
            gated : Calls \cup {NoCall}, attempts : Nat \ {0}, latest : Checkpoint]

\* No session object in memory.
NoSession == [status |-> "NONE", shown |-> NoCall, gated |-> NoCall,
              attempts |-> 1, latest |-> NoCheckpoint]

Kinds == {"none", "chat", "approve", "reject", "resume"}
\* Who drives, what for, whether its session object is the cached one, and the
\* call a human decided on.
Drive == [proc : Processes \cup {Nobody}, kind : Kinds, cached : BOOLEAN,
          decided : Calls \cup {NoCall}]
NoDrive == [proc |-> Nobody, kind |-> "none", cached |-> FALSE, decided |-> NoCall]

PCs == {"idle", "restart", "queue", "loop", "model", "note", "verdict", "exec",
        "result", "hold_status", "hold_checkpoint", "complete", "done_checkpoint",
        "fail", "fail_persist", "approved_exec", "approved_result",
        "approved_clear", "rejected_status", "rejected_result", "restore",
        "retry", "retry_restart", "return", "raise"}

VARIABLES
  \* the database
  runStatus,  \* status column of the runs row, "NONE" before the first save
  ticket,     \* the pending_approvals row: the call it is for
  cp,         \* the checkpoints row
  noted,      \* calls 1..noted have an assistant message
  answered,   \* the calls that have a tool message
  history,    \* the recorded approval decisions
  \* the memory of the processes
  cache,      \* the session object each replica has cached
  plan,       \* each worker's pending decision about the run
  \* the driver
  pc, drv,
  mem,        \* the session object being driven
  iter,       \* the loop's iteration
  call,       \* the tool call in hand
  batch,      \* calls of the response not yet handled
  ok,         \* retryable flag of a failure; validity of a final content
  \* bounds and observations
  turns, crashes,
  asked,      \* calls the policy held for approval
  granted,    \* how often approve() released each call
  refused,    \* calls a reject() was shown or answered
  executed    \* how often each call was executed

store    == <<runStatus, ticket, cp, noted, answered, history>>
control  == <<pc, drv>>
work     == <<mem, iter, call, batch, ok>>
observed == <<asked, granted, refused, executed>>
bounds   == <<turns, crashes>>
vars     == <<store, cache, plan, control, work, bounds, observed>>

Init ==
  /\ runStatus = "NONE" /\ ticket = NoCall /\ cp = NoCheckpoint
  /\ noted = 0 /\ answered = {} /\ history = {}
  /\ cache = [r \in Replicas |-> NoSession]
  /\ plan = [w \in Workers |-> "none"]
  /\ pc = "idle" /\ drv = NoDrive
  /\ mem = NoSession /\ iter = 0 /\ call = NoCall /\ batch = 0 /\ ok = TRUE
  /\ turns = 0 /\ crashes = 0
  /\ asked = {} /\ refused = {}
  /\ granted = [c \in Calls |-> 0] /\ executed = [c \in Calls |-> 0]

-----------------------------------------------------------------------------
(* Session objects *)

\* The calls the rebuilt session may gate for a ticket: the last noted call of
\* the same tool without an answer, or the ticket's own call if there is none.
Unanswered(t) == {c \in Calls : c <= noted /\ Tool[c] = Tool[t] /\ c \notin answered}
Gate(t) ==
  IF Unanswered(t) = {} THEN {t}
  ELSE {c \in Unanswered(t) : \A d \in Unanswered(t) : d <= c}

\* What AgentSession.__init__ builds from the database.
Rebuilt ==
  { [status   |-> IF runStatus = "NONE" THEN "PENDING" ELSE runStatus,
     shown    |-> ticket,
     gated    |-> g,
     attempts |-> cp.attempts,
     latest   |-> cp] : g \in IF ticket = NoCall THEN {NoCall} ELSE Gate(ticket) }

\* registry.get: the cached object, or a rebuilt one.
SessionOf(r) == IF cache[r] # NoSession THEN {cache[r]} ELSE Rebuilt

\* Steps after which the iteration's model call need not be repeated.
PostModelSteps == {"tool_exec", "awaiting_approval"}
ResumeIteration(c) == IF c.step \in PostModelSteps THEN c.iteration + 1 ELSE c.iteration

\* _checkpoint: the session remembers the checkpoint whether or not the write succeeds.
Capture(m, step, i, retryable) ==
  LET c == [status |-> m.status, iteration |-> i, step |-> step,
            attempts |-> m.attempts, retryable |-> retryable]
  IN /\ mem' = [m EXCEPT !.latest = c]
     /\ \/ cp' = c
        \/ CheckpointFaults /\ cp' = cp

Goto(label) == pc' = label /\ UNCHANGED drv
Persist(status) == runStatus' = status /\ mem' = [mem EXCEPT !.status = status]

\* No driver: the run lock is free and the driving session's variables are reset.
Reset ==
  /\ pc' = "idle" /\ drv' = NoDrive
  /\ mem' = NoSession /\ iter' = 0 /\ call' = NoCall /\ batch' = 0 /\ ok' = TRUE

\* The request ends: the lease is released, a cached object stays in the cache.
Release ==
  /\ Reset
  /\ cache' = IF drv.cached THEN [cache EXCEPT ![drv.proc] = mem] ELSE cache

-----------------------------------------------------------------------------
(* The cache of a replica, and crashes *)

\* GET /status and the other reads build and cache a session without the run lock.
Get(r) ==
  /\ cache[r] = NoSession /\ ~(drv.proc = r /\ drv.cached)
  /\ \E s \in Rebuilt : cache' = [cache EXCEPT ![r] = s]
  /\ UNCHANGED <<store, plan, control, work, bounds, observed>>

\* The LRU or the TTL drops the cached object; a request that drives it keeps it.
Evict(r) ==
  /\ Eviction
  /\ \/ cache[r] # NoSession /\ cache' = [cache EXCEPT ![r] = NoSession] /\ UNCHANGED drv
     \/ drv.proc = r /\ drv.cached /\ drv' = [drv EXCEPT !.cached = FALSE] /\ UNCHANGED cache
  /\ UNCHANGED <<store, plan, pc, work, bounds, observed>>

\* A process dies: its memory is lost, its lease expires, the database stays.
Crash(p) ==
  /\ crashes < MaxCrashes /\ crashes' = crashes + 1
  /\ IF drv.proc = p THEN Reset ELSE UNCHANGED <<control, work>>
  /\ cache' = [r \in Replicas |-> IF r = p THEN NoSession ELSE cache[r]]
  /\ plan' = [w \in Workers |-> IF w = p THEN "none" ELSE plan[w]]
  /\ UNCHANGED <<store, turns, observed>>

-----------------------------------------------------------------------------
(* Requests: take the lock, get the session, do the first database write *)

Begin(r, kind, decided) ==
  /\ pc = "idle" /\ kind \in Requests /\ turns < MaxTurns
  /\ turns' = turns + 1
  /\ drv' = [proc |-> r, kind |-> kind, cached |-> TRUE, decided |-> decided]
  /\ cache' = [cache EXCEPT ![r] = NoSession]     \* the object is now mem
  /\ UNCHANGED <<plan, crashes>>

\* POST /chat: start() restarts a finished run, queues a new one, drives any other.
BeginChat(r) ==
  /\ Begin(r, "chat", NoCall)
  /\ mem' \in SessionOf(r)
  /\ pc' = IF mem'.status \in Terminal THEN "restart"
           ELSE IF mem'.status \in {"PENDING", "QUEUED"} THEN "queue" ELSE "loop"
  /\ UNCHANGED <<store, iter, call, batch, ok, observed>>

\* Fault variant: RUNNING is not saved before the effect.
BeginApproveUnsaved(r) ==
  /\ \E s \in SessionOf(r) :
       /\ Begin(r, "approve", s.gated)
       /\ s.gated # NoCall /\ s.status \in Allowed.resume
       /\ mem' = [s EXCEPT !.status = Target.resume]
       /\ call' = s.gated
       /\ granted' = [granted EXCEPT ![s.gated] = @ + 1]
  /\ pc' = "approved_exec"
  /\ UNCHANGED <<runStatus, ticket, cp, noted, answered, history, iter, batch, ok, asked, refused, executed>>

\* POST /approve: a 409 without a ticket, a 500 when the status forbids resume().
BeginApprove(r) ==
  /\ \E s \in SessionOf(r) :
       /\ Begin(r, "approve", s.gated)
       /\ s.gated # NoCall /\ s.status \in Allowed.resume
       /\ mem' = [s EXCEPT !.status = Target.resume]
       /\ call' = s.gated
       /\ granted' = [granted EXCEPT ![s.gated] = @ + 1]
  /\ runStatus' = Target.resume
  /\ pc' = "approved_exec"
  /\ UNCHANGED <<ticket, cp, noted, answered, history, iter, batch, ok, asked, refused, executed>>

\* Fault variant: the ticket's row is not deleted.
BeginRejectKeepingRow(r) ==
  /\ \E s \in SessionOf(r) :
       /\ Begin(r, "reject", s.gated)
       /\ s.gated # NoCall /\ s.shown # NoCall
       /\ mem' = [s EXCEPT !.shown = NoCall, !.gated = NoCall]
       /\ call' = s.gated
       /\ refused' = refused \cup {s.shown, s.gated}
       /\ pc' = IF s.status \in Allowed.resume THEN "rejected_status" ELSE "raise"
  /\ UNCHANGED <<runStatus, ticket, cp, noted, answered, history, iter, batch, ok, asked, granted, executed>>

\* POST /reject: the ticket goes first, the status may still forbid resume().  What the
\* human saw is the call of the ticket, what is answered the one the session gates.
BeginReject(r) ==
  /\ \E s \in SessionOf(r) :
       /\ Begin(r, "reject", s.gated)
       /\ s.gated # NoCall /\ s.shown # NoCall
       /\ mem' = [s EXCEPT !.shown = NoCall, !.gated = NoCall]
       /\ call' = s.gated
       /\ refused' = refused \cup {s.shown, s.gated}
       /\ pc' = IF s.status \in Allowed.resume THEN "rejected_status" ELSE "raise"
  /\ ticket' = NoCall
  /\ UNCHANGED <<runStatus, cp, noted, answered, history, iter, batch, ok, asked, granted, executed>>

\* Fault variant: the run is reopened without PENDING and QUEUED.
RestartRunning ==
  /\ pc \in {"restart", "retry_restart"} /\ mem.status \in Allowed.restart
  /\ Persist(Target.start)
  /\ Goto("loop")
  /\ UNCHANGED <<ticket, cp, noted, answered, history, cache, plan, iter, call, batch, ok,
                 bounds, observed>>

Restart ==
  /\ pc \in {"restart", "retry_restart"} /\ mem.status \in Allowed.restart
  /\ Persist(Target.restart)
  /\ Goto("queue")
  /\ UNCHANGED <<ticket, cp, noted, answered, history, cache, plan, iter, call, batch, ok,
                 bounds, observed>>

\* mark_queued() and start(), one save; the loop begins where a recovery left it.
Queue ==
  /\ pc = "queue" /\ mem.status \in Allowed.mark_queued
  /\ Persist(Target.start)
  /\ iter' = IF drv.kind = "resume" THEN ResumeIteration(mem.latest) ELSE 0
  /\ Goto("loop")
  /\ UNCHANGED <<ticket, cp, noted, answered, history, cache, plan, call, batch, ok,
                 bounds, observed>>

-----------------------------------------------------------------------------
(* The loop: checkpoint, model call, tool calls *)

Model ==
  /\ pc = "loop" /\ iter < MaxIter
  /\ Capture(mem, "model_call", iter, TRUE)
  /\ Goto("model")
  /\ UNCHANGED <<runStatus, ticket, noted, answered, history, cache, plan, iter, call, batch,
                 ok, bounds, observed>>

\* The iterations are used up: RuntimeError.
Exhausted ==
  /\ pc = "loop" /\ iter >= MaxIter
  /\ Goto("fail") /\ ok' = TRUE
  /\ UNCHANGED <<store, cache, plan, mem, iter, call, batch, bounds, observed>>

\* The model answers with tool calls, a final text, nothing, or an error.
ModelCallsTools ==
  /\ pc = "model"
  /\ batch' \in 1..MaxBatch /\ noted + batch' <= MaxCalls
  /\ Goto("note")
  /\ UNCHANGED <<store, cache, plan, mem, iter, call, ok, bounds, observed>>

ModelAnswers ==
  /\ pc = "model"
  /\ ok' \in BOOLEAN          \* FALSE: empty, or it does not fit the reply type
  /\ Goto("complete")
  /\ UNCHANGED <<store, cache, plan, mem, iter, call, batch, bounds, observed>>

\* Fault variant: an empty response does not use up an iteration.
ModelSaysNothingAgain ==
  /\ pc = "model"
  /\ UNCHANGED iter /\ Goto("loop")
  /\ UNCHANGED <<store, cache, plan, mem, call, batch, ok, bounds, observed>>

ModelSaysNothing ==
  /\ pc = "model"
  /\ iter' = iter + 1 /\ Goto("loop")
  /\ UNCHANGED <<store, cache, plan, mem, call, batch, ok, bounds, observed>>

ModelFails ==
  /\ pc = "model"
  /\ Goto("fail") /\ ok' = TRUE
  /\ UNCHANGED <<store, cache, plan, mem, iter, call, batch, bounds, observed>>

Note ==
  /\ pc = "note"
  /\ noted' = noted + 1 /\ call' = noted + 1 /\ batch' = batch - 1
  /\ Goto("verdict")
  /\ UNCHANGED <<runStatus, ticket, cp, answered, history, cache, plan, mem, iter, ok,
                 bounds, observed>>

\* After a handled call: the next one of the batch, or the next iteration.
NextCall ==
  IF batch > 0 THEN Goto("note") /\ UNCHANGED iter
               ELSE Goto("loop") /\ iter' = iter + 1

Deny ==
  /\ pc = "verdict" /\ "DENY" \in Verdicts
  /\ Goto("fail") /\ ok' = FALSE
  /\ UNCHANGED <<store, cache, plan, mem, iter, call, batch, bounds, observed>>

\* Fault variant: the held call falls through to its execution.
AskAndExecute ==
  /\ pc = "verdict" /\ "ASK" \in Verdicts
  /\ mem' = [mem EXCEPT !.gated = call, !.shown = call]
  /\ ticket' = call /\ asked' = asked \cup {call}
  /\ Goto("exec")
  /\ UNCHANGED <<runStatus, cp, noted, answered, history, cache, plan, iter, call, batch, ok,
                 bounds, granted, refused, executed>>

\* ASK: the ticket is saved before the status; the rest of the batch is dropped.
Ask ==
  /\ pc = "verdict" /\ "ASK" \in Verdicts
  /\ mem' = [mem EXCEPT !.gated = call, !.shown = call]
  /\ ticket' = call /\ asked' = asked \cup {call}
  /\ Goto("hold_status")
  /\ UNCHANGED <<runStatus, cp, noted, answered, history, cache, plan, iter, call, batch, ok,
                 bounds, granted, refused, executed>>

\* The intent check answers the call with a hint instead of executing it.
Hint ==
  /\ pc = "verdict" /\ "HINT" \in Verdicts
  /\ answered' = answered \cup {call}
  /\ NextCall
  /\ UNCHANGED <<runStatus, ticket, cp, noted, history, cache, plan, mem, call, batch, ok,
                 bounds, observed>>

Allow ==
  /\ pc = "verdict" /\ "ALLOW" \in Verdicts
  /\ Capture(mem, "tool_exec", iter, TRUE)
  /\ Goto("exec")
  /\ UNCHANGED <<runStatus, ticket, noted, answered, history, cache, plan, iter, call, batch,
                 ok, bounds, observed>>

\* The tool's effect on the world comes before its result is stored.
Execute ==
  /\ pc \in {"exec", "approved_exec"}
  /\ executed' = [executed EXCEPT ![call] = @ + 1]
  /\ Goto(IF pc = "exec" THEN "result" ELSE "approved_result")
  /\ UNCHANGED <<store, cache, plan, work, bounds, asked, granted, refused>>

Result ==
  /\ pc = "result"
  /\ answered' = answered \cup {call}
  /\ NextCall
  /\ UNCHANGED <<runStatus, ticket, cp, noted, history, cache, plan, mem, call, batch, ok,
                 bounds, observed>>

-----------------------------------------------------------------------------
(* Holding for approval, completing, failing *)

HoldStatus ==
  /\ pc = "hold_status"
  /\ IF mem.status \in Allowed.wait_for_approval
     THEN Persist(Target.wait_for_approval) /\ Goto("hold_checkpoint") /\ UNCHANGED ok
     ELSE Goto("fail") /\ ok' = TRUE /\ UNCHANGED <<runStatus, mem>>
  /\ UNCHANGED <<ticket, cp, noted, answered, history, cache, plan, iter, call, batch, bounds,
                 observed>>

HoldCheckpoint ==
  /\ pc = "hold_checkpoint"
  /\ Capture(mem, "awaiting_approval", iter, TRUE)
  /\ Goto("return")
  /\ UNCHANGED <<runStatus, ticket, noted, answered, history, cache, plan, iter, call, batch,
                 ok, bounds, observed>>

\* The completion guard, begin_completing() and complete(), one save.
Complete ==
  /\ pc = "complete"
  /\ IF ok /\ mem.status \in Allowed.begin_completing
     THEN Persist(Target.complete) /\ Goto("done_checkpoint") /\ UNCHANGED ok
     ELSE Goto("fail") /\ ok' = TRUE /\ UNCHANGED <<runStatus, mem>>
  /\ UNCHANGED <<ticket, cp, noted, answered, history, cache, plan, iter, call, batch, bounds,
                 observed>>

DoneCheckpoint ==
  /\ pc = "done_checkpoint"
  /\ Capture(mem, "done", iter, TRUE)
  /\ Goto("return")
  /\ UNCHANGED <<runStatus, ticket, noted, answered, history, cache, plan, iter, call, batch,
                 ok, bounds, observed>>

\* Fault variant: the row is saved without the checkpoint before it.
FailRowFirst ==
  /\ pc = "fail" /\ mem.status \in Allowed.fail
  /\ Persist(Target.fail)
  /\ Goto("fail_persist")
  /\ UNCHANGED <<cp, ticket, noted, answered, history, cache, plan, iter, call, batch,
                 ok, bounds, observed>>

\* _mark_failed: the FAILED checkpoint first, then the status.
Fail ==
  /\ pc = "fail" /\ mem.status \in Allowed.fail
  /\ Capture([mem EXCEPT !.status = Target.fail], "failed", mem.latest.iteration, ok)
  /\ Goto("fail_persist")
  /\ UNCHANGED <<runStatus, ticket, noted, answered, history, cache, plan, iter, call, batch,
                 ok, bounds, observed>>

FailPersist ==
  /\ pc = "fail_persist"
  /\ Persist(mem.status)
  /\ Goto("raise")
  /\ UNCHANGED <<ticket, cp, noted, answered, history, cache, plan, iter, call, batch, ok,
                 bounds, observed>>

-----------------------------------------------------------------------------
(* After the human's decision *)

ApprovedResult ==
  /\ pc = "approved_result"
  /\ answered' = answered \cup {call}
  /\ Goto("approved_clear")
  /\ UNCHANGED <<runStatus, ticket, cp, noted, history, cache, plan, work, bounds, observed>>

\* Fault variant: the session object keeps its gate.
ApprovedClearRowOnly ==
  /\ pc = "approved_clear"
  /\ ticket' = NoCall
  /\ iter' = ResumeIteration(mem.latest)
  /\ Goto("loop")
  /\ UNCHANGED <<runStatus, cp, noted, answered, history, cache, plan, mem, call, batch, ok, bounds,
                 observed>>

\* The ticket goes once the result is stored; the loop continues after the held iteration.
ApprovedClear ==
  /\ pc = "approved_clear"
  /\ ticket' = NoCall
  /\ mem' = [mem EXCEPT !.shown = NoCall, !.gated = NoCall]
  /\ iter' = ResumeIteration(mem.latest)
  /\ Goto("loop")
  /\ UNCHANGED <<runStatus, cp, noted, answered, history, cache, plan, call, batch, ok, bounds,
                 observed>>

RejectedStatus ==
  /\ pc = "rejected_status"
  /\ Persist(Target.resume)
  /\ Goto("rejected_result")
  /\ UNCHANGED <<ticket, cp, noted, answered, history, cache, plan, iter, call, batch, ok,
                 bounds, observed>>

RejectedResult ==
  /\ pc = "rejected_result"
  /\ answered' = answered \cup {call}
  /\ iter' = ResumeIteration(mem.latest)
  /\ Goto("loop")
  /\ UNCHANGED <<runStatus, ticket, cp, noted, history, cache, plan, mem, call, batch, ok,
                 bounds, observed>>

\* A normal end; approve and reject record the human's decision only here.
Return ==
  /\ pc = "return"
  /\ history' = history \cup (IF drv.kind \in {"approve", "reject"}
                               THEN {<<drv.decided, drv.kind>>} ELSE {})
  /\ Release
  /\ UNCHANGED <<runStatus, ticket, cp, noted, answered, plan, bounds, observed>>

Raise ==
  /\ pc = "raise"
  /\ Release
  /\ UNCHANGED <<store, plan, bounds, observed>>
-----------------------------------------------------------------------------
(* The recovery worker: plan from the checkpoint, later drive under the lock *)

Resumable(c) == c.status \notin Terminal \cup AwaitsHuman
Retryable(c) == c.status = "FAILED" /\ c.retryable

\* Fault variant: interrupted runs are not planned.
PlanRetriesOnly(w) ==
  /\ plan[w] = "none" /\ drv.proc # w /\ cp.step # "none"
  /\ Retryable(cp) /\ cp.attempts < MaxAttempts
  /\ plan' = [plan EXCEPT ![w] = "retry"]
  /\ UNCHANGED <<store, cache, control, work, bounds, observed>>

\* RecoveryController.plan for this run; every other decision drives nothing.
Plan(w) ==
  /\ plan[w] = "none" /\ drv.proc # w /\ cp.step # "none"
  /\ \/ Resumable(cp) /\ plan' = [plan EXCEPT ![w] = "resume"]
     \/ /\ Retryable(cp) /\ cp.attempts < MaxAttempts
        /\ plan' = [plan EXCEPT ![w] = "retry"]
  /\ UNCHANGED <<store, cache, control, work, bounds, observed>>

\* The lock is held by another driver: skip the run in this round.
SkipHeld(w) ==
  /\ plan[w] # "none" /\ pc # "idle" /\ drv.proc # w
  /\ plan' = [plan EXCEPT ![w] = "none"]
  /\ UNCHANGED <<store, cache, control, work, bounds, observed>>

\* The lock is free: a fresh session object resumes, whatever the plan said.
BeginResume(w) ==
  /\ pc = "idle" /\ plan[w] # "none"
  /\ plan' = [plan EXCEPT ![w] = "none"]
  /\ mem' \in Rebuilt
  /\ drv' = [proc |-> w, kind |-> "resume", cached |-> FALSE, decided |-> NoCall]
  /\ pc' = "restore"
  /\ UNCHANGED <<store, cache, iter, call, batch, ok, bounds, observed>>

\* Fault variant: finished and waiting runs go on too.
RestoreUnchecked ==
  /\ pc = "restore"
  /\ mem' = [mem EXCEPT !.status = cp.status, !.attempts = cp.attempts, !.latest = cp]
  /\ runStatus' = IF cp.status = mem.status THEN runStatus ELSE cp.status
  /\ \/ Retryable(cp) /\ Goto("retry") /\ UNCHANGED iter
     \/ /\ ~Retryable(cp)
        /\ Goto(IF cp.status \in {"PENDING", "QUEUED"} THEN "queue" ELSE "loop")
        /\ iter' = ResumeIteration(cp)
  /\ UNCHANGED <<ticket, cp, noted, answered, history, cache, plan, call, batch, ok, bounds,
                 observed>>

\* resume(): the checkpoint corrects the status, then decides what may go on.
Restore ==
  /\ pc = "restore"
  /\ mem' = [mem EXCEPT !.status = cp.status, !.attempts = cp.attempts, !.latest = cp]
  /\ runStatus' = IF cp.status = mem.status THEN runStatus ELSE cp.status
  /\ \/ Retryable(cp) /\ Goto("retry") /\ UNCHANGED iter
     \/ /\ cp.status \in Terminal \cup AwaitsHuman /\ ~Retryable(cp)
        /\ Goto("raise") /\ UNCHANGED iter
     \/ /\ Resumable(cp)
        /\ Goto(IF cp.status \in {"PENDING", "QUEUED"} THEN "queue" ELSE "loop")
        /\ iter' = ResumeIteration(cp)
  /\ UNCHANGED <<ticket, cp, noted, answered, history, cache, plan, call, batch, ok, bounds,
                 observed>>

\* A retry counts an attempt in memory and drops the ticket of the failed one.
Retry ==
  /\ pc = "retry"
  /\ mem' = [mem EXCEPT !.attempts = @ + 1, !.shown = NoCall, !.gated = NoCall]
  /\ ticket' = NoCall
  /\ Goto("retry_restart")
  /\ UNCHANGED <<runStatus, cp, noted, answered, history, cache, plan, iter, call, batch, ok,
                 bounds, observed>>

-----------------------------------------------------------------------------
DriverStep ==
  \/ Restart \/ Queue
  \/ Model \/ Exhausted \/ ModelCallsTools \/ ModelAnswers \/ ModelSaysNothing \/ ModelFails
  \/ Note \/ Deny \/ Ask \/ Hint \/ Allow \/ Execute \/ Result
  \/ HoldStatus \/ HoldCheckpoint \/ Complete \/ DoneCheckpoint \/ Fail \/ FailPersist
  \/ ApprovedResult \/ ApprovedClear \/ RejectedStatus \/ RejectedResult
  \/ Return \/ Raise \/ Restore \/ Retry

WorkerStep(w) == Plan(w) \/ SkipHeld(w) \/ BeginResume(w)

Next ==
  \/ \E r \in Replicas :
       Get(r) \/ Evict(r) \/ BeginChat(r) \/ BeginApprove(r) \/ BeginReject(r)
  \/ \E w \in Workers : WorkerStep(w)
  \/ \E p \in Processes : Crash(p)
  \/ DriverStep

Spec == Init /\ [][Next]_vars

\* A live driver goes on, and a live worker keeps polling (run_forever).  Nothing
\* obliges a human to decide, a client to send, or a process to crash.
Fairness ==
  /\ WF_vars(DriverStep)
  /\ \A w \in Workers : WF_vars(WorkerStep(w))
FairSpec == Spec /\ Fairness

-----------------------------------------------------------------------------
(* Properties *)

\* Every variable keeps its type (session.py, checkpoint.py and the store's rows).
TypeOK ==
  /\ runStatus \in RunStatus \cup {"NONE"} /\ ticket \in Calls \cup {NoCall}
  /\ cp \in Checkpoint /\ noted \in 0..MaxCalls /\ answered \subseteq Calls
  /\ history \subseteq (Calls \cup {NoCall}) \X Kinds
  /\ cache \in [Replicas -> Session \cup {NoSession}]
  /\ plan \in [Workers -> {"none", "resume", "retry"}]
  /\ pc \in PCs /\ drv \in Drive
  /\ mem \in Session \cup {NoSession} /\ iter \in Nat /\ call \in Calls \cup {NoCall}
  /\ batch \in 0..MaxBatch /\ ok \in BOOLEAN
  /\ turns \in Nat /\ crashes \in Nat
  /\ asked \subseteq Calls /\ refused \subseteq Calls
  /\ granted \in [Calls -> Nat] /\ executed \in [Calls -> Nat]

\* A call the policy held is executed at most once per approve() of that call,
\* whatever was cached, crashed, recovered or retried (_run_loop, approve).
GrantedExecutions == \A c \in asked : executed[c] <= granted[c]

\* In one serving process no call is executed twice, crashes included: approve()
\* persists RUNNING before the effect, so the ticket left behind cannot be used again.
\* But for one mistake: a call that the policy let through and whose result a crash lost
\* may stand behind a held call of the same tool.  A session built again takes it for the
\* held one (session.py:243), and approve() executes it, once more and not again.
SingleExecution ==
  \A c \in Calls : executed[c] <= IF c \in asked \/ granted[c] = 0 THEN 1 ELSE 2

\* In one serving process neither the call that a human saw when refusing nor the one that
\* was answered as refused is executed afterwards, also when a rebuilt session confused
\* calls of one tool (reject, __init__).
RefusedNotExecuted == [][\A c \in refused : executed'[c] = executed[c]]_vars

\* The order of writes in _mark_failed: a FAILED row has a FAILED checkpoint, so the
\* recovery plan counts the attempt.
FailedIsCheckpointed == runStatus = "FAILED" => cp.status = "FAILED"

\* What a replica has cached is what it would load: no request acts on a stale
\* status, ticket or attempt count.
CacheCoherent ==
  \A r \in Replicas :
    cache[r] # NoSession =>
      /\ cache[r].status = IF runStatus = "NONE" THEN "PENDING" ELSE runStatus
      /\ cache[r].shown = ticket /\ (cache[r].gated = NoCall) = (ticket = NoCall)
      /\ cache[r].latest = cp /\ cache[r].attempts = cp.attempts

\* The order of writes in _hold_for_approval and approve(): a run at rest that waits for
\* an approval has a ticket to approve, unless a crash fell into a reject() (session.py:412).
HeldHasTicket ==
  pc = "idle" /\ runStatus = "WAITING_APPROVAL" /\ refused = {} => ticket # NoCall

\* A run whose row and checkpoint agree that it waits for a human, is over, or has
\* failed for good is not changed by a worker, however old its plan.
Settled ==
  /\ cp.status = runStatus
  /\ ~Resumable(cp) /\ ~Retryable(cp)
WorkersLeaveSettled ==
  [][Settled /\ drv'.kind = "resume" => UNCHANGED <<runStatus, cp>>]_vars

\* In one serving process the stored status only moves as RunLifecycle allows: no
\* jump past the methods of status.py, whatever crashes between two saves.
Row == IF runStatus = "NONE" THEN "PENDING" ELSE runStatus
Lifecycle == INSTANCE RunLifecycle WITH status <- Row
RefinesLifecycle == Lifecycle!Spec

\* Every drive ends and gives the lock back: the loop is bounded by max_iterations.
DriveEnds == pc # "idle" ~> pc = "idle"

\* A run whose checkpoint says it was under way when its driver went away is taken up
\* again by a worker until it is over or waits for a human.
InterruptedIsResumed == Resumable(cp) /\ cp.step # "none" ~> ~Resumable(cp)

-----------------------------------------------------------------------------
(* What the documentation says and the code does not do *)

\* worker.py:14 says a run that waits for a human is never continued automatically.
NeverResumedWithoutHuman ==
  [][runStatus = "WAITING_APPROVAL" /\ drv'.kind = "resume"
       => runStatus' = "WAITING_APPROVAL"]_vars

\* worker.py:17 says the retries of a run end at the limit kept on its checkpoint.
AttemptsBounded == cp.attempts <= MaxAttempts

=============================================================================
