------------------------- MODULE AgentSession_proof -------------------------
(***************************************************************************)
(* Proofs about AgentSession, for any number of replicas and workers, any  *)
(* policy, with crashes, lost checkpoint writes and cache evictions.       *)
(***************************************************************************)
EXTENDS AgentSession, TLAPS

USE DEF NoCall

(***************************************************************************)
(* Session objects and checkpoints keep their type.                        *)
(***************************************************************************)

\* The statuses the methods of status.py move to are statuses of a run.
LEMMA StatusTypes ==
  /\ Terminal \subseteq RunStatus /\ AwaitsHuman \subseteq RunStatus
  /\ {Target.restart, Target.start, Target.resume, Target.wait_for_approval,
      Target.complete, Target.fail} \subseteq RunStatus
  /\ Target.restart = "PENDING" /\ Target.start = "RUNNING" /\ Target.resume = "RUNNING"
  /\ Target.wait_for_approval = "WAITING_APPROVAL" /\ Target.complete = "COMPLETED"
  /\ Target.fail = "FAILED"
  /\ Allowed.resume = AwaitsHuman
  /\ "NONE" \notin RunStatus
BY DEF Terminal, AwaitsHuman, RunStatus, Target, Allowed

\* The fallbacks for a missing checkpoint row form a checkpoint.
LEMMA NoCheckpointType == NoCheckpoint \in Checkpoint
BY DEF NoCheckpoint, Checkpoint, RunStatus, Steps

\* What __init__ rebuilds from well-typed rows is a session.
LEMMA RebuiltType ==
  ASSUME runStatus \in RunStatus \cup {"NONE"}, ticket \in Calls \cup {NoCall},
         cp \in Checkpoint
  PROVE  Rebuilt \subseteq Session
<1>1. \A t \in Calls : Gate(t) \subseteq Calls
  BY DEF Gate, Unanswered
<1>2. ASSUME NEW g \in IF ticket = NoCall THEN {NoCall} ELSE Gate(ticket)
      PROVE  g \in Calls \cup {NoCall}
  BY <1>1
<1>3. (IF runStatus = "NONE" THEN "PENDING" ELSE runStatus) \in RunStatus
  BY DEF RunStatus
<1>4. cp.attempts \in Nat \ {0} /\ cp \in Checkpoint /\ ticket \in Calls \cup {NoCall}
  BY DEF Checkpoint
<1> QED
  BY <1>2, <1>3, <1>4 DEF Rebuilt, Session

\* registry.get returns a session, cached or rebuilt.
LEMMA SessionOfType ==
  ASSUME runStatus \in RunStatus \cup {"NONE"}, ticket \in Calls \cup {NoCall},
         cp \in Checkpoint, cache \in [Replicas -> Session \cup {NoSession}],
         NEW r \in Replicas
  PROVE  SessionOf(r) \subseteq Session
BY RebuiltType DEF SessionOf

\* The fields of sessions and checkpoints have their types.
LEMMA Fields ==
  /\ \A m \in Session : /\ m.status \in RunStatus /\ m.latest \in Checkpoint
                        /\ m.shown \in Calls \cup {NoCall} /\ m.gated \in Calls \cup {NoCall}
                        /\ m.attempts \in Nat \ {0}
  /\ \A c \in Checkpoint : /\ c.status \in RunStatus /\ c.iteration \in Nat
                           /\ c.step \in Steps /\ c.attempts \in Nat \ {0}
                           /\ c.retryable \in BOOLEAN
BY DEF Session, Checkpoint

\* A session whose status, gate or checkpoint changes is still a session.
LEMMA StatusUpdate ==
  ASSUME NEW m \in Session, NEW s \in RunStatus
  PROVE  [m EXCEPT !.status = s] \in Session
BY Fields DEF Session

\* A session with another ticket and gate is a session.
LEMMA GateUpdate ==
  ASSUME NEW m \in Session, NEW c \in Calls \cup {NoCall}
  PROVE  /\ [m EXCEPT !.gated = c, !.shown = c] \in Session
         /\ [m EXCEPT !.shown = c, !.gated = c] \in Session
BY Fields DEF Session

\* A session whose attempt was counted and whose ticket was dropped is a session.
LEMMA RetryUpdate ==
  ASSUME NEW m \in Session
  PROVE  [m EXCEPT !.attempts = @ + 1, !.shown = NoCall, !.gated = NoCall] \in Session
<1>1. m.attempts + 1 \in Nat \ {0}
  BY Fields
<1> QED
  BY <1>1, Fields DEF Session

\* A session that took over a checkpoint is a session.
LEMMA RestoreUpdate ==
  ASSUME NEW m \in Session, NEW c \in Checkpoint
  PROVE  [m EXCEPT !.status = c.status, !.attempts = c.attempts, !.latest = c] \in Session
BY Fields DEF Session

\* _checkpoint leaves a well-typed session and row.
LEMMA CaptureType ==
  ASSUME cp \in Checkpoint, NEW m \in Session, NEW step \in Steps, NEW i \in Nat,
         NEW retryable \in BOOLEAN, Capture(m, step, i, retryable)
  PROVE  mem' \in Session /\ cp' \in Checkpoint /\ mem'.status = m.status
<1> DEFINE c == [status |-> m.status, iteration |-> i, step |-> step,
                 attempts |-> m.attempts, retryable |-> retryable]
<1>1. c \in Checkpoint
  BY DEF Session, Checkpoint
<1>2. mem' = [m EXCEPT !.latest = c] /\ cp' \in {c, cp}
  BY DEF Capture
<1> QED
  BY <1>1, <1>2 DEF Session

\* No drive, and a drive whose session was evicted, are drives.
LEMMA DriveTypes ==
  /\ NoDrive \in Drive
  /\ \A d \in Drive : [d EXCEPT !.cached = FALSE] \in Drive
<1>1. NoDrive \in Drive
  BY DEF NoDrive, Drive, Kinds
<1>2. ASSUME NEW d \in Drive PROVE [d EXCEPT !.cached = FALSE] \in Drive
  BY DEF Drive
<1> QED
  BY <1>1, <1>2

\* A resumed loop starts at a natural iteration.
LEMMA ResumeIterationType ==
  ASSUME NEW c \in Checkpoint
  PROVE  ResumeIteration(c) \in Nat
BY DEF ResumeIteration, Checkpoint

(***************************************************************************)
(* The type invariant.  Its strengthening says when a driver's variables   *)
(* hold something: a session while somebody drives, a call while one is in *)
(* hand, a call left in the batch while one is about to be noted.          *)
(***************************************************************************)

InHand == {"verdict", "exec", "result", "hold_status", "approved_exec", "approved_result",
           "rejected_status", "rejected_result"}

Shape ==
  /\ noted + batch <= MaxCalls
  /\ pc = "note" => batch >= 1
  /\ pc \in InHand => call \in Calls
  /\ pc # "idle" => mem \in Session

TypeInv == TypeOK /\ Shape

\* The empty database and empty memories have their types.
LEMMA TypeInit == Init => TypeInv
BY BoundsAssumption, NoCheckpointType
DEF Init, TypeInv, TypeOK, Shape, Calls, InHand, NoDrive, Drive, Kinds, PCs

\* Every step keeps the types and the shape of the driver.
LEMMA TypeStep ==
  ASSUME TypeInv, [Next]_vars
  PROVE  TypeInv'
<1> USE BoundsAssumption
<1> USE DEF TypeInv, TypeOK, Shape, InHand, PCs
<1>1. ASSUME NEW r \in Replicas, Get(r) PROVE TypeInv'
  BY <1>1, RebuiltType DEF Get, store, control, work, observed, bounds
<1>2. ASSUME NEW r \in Replicas, Evict(r) PROVE TypeInv'
  <2>1. drv' \in Drive /\ cache' \in [Replicas -> Session \cup {NoSession}]
    BY <1>2, DriveTypes DEF Evict
  <2> QED
    BY <1>2, <2>1 DEF Evict, store, control, work, observed, bounds
<1>3. ASSUME NEW r \in Replicas, BeginChat(r) PROVE TypeInv'
  <2>1. drv' \in Drive /\ cache' \in [Replicas -> Session \cup {NoSession}] /\ turns' \in Nat
    BY <1>3, SessionOfType, Fields DEF BeginChat, Begin, Drive, Processes, Kinds
  <2>2. mem' \in Session
    BY <1>3, SessionOfType, Fields, StatusUpdate, StatusTypes DEF BeginChat
  <2> QED
    BY <1>3, <2>1, <2>2 DEF BeginChat, Begin, store, control, work, observed, bounds
<1>4. ASSUME NEW r \in Replicas, BeginApprove(r) PROVE TypeInv'
  <2>1. drv' \in Drive /\ cache' \in [Replicas -> Session \cup {NoSession}] /\ turns' \in Nat
    BY <1>4, SessionOfType, Fields DEF BeginApprove, Begin, Drive, Processes, Kinds
  <2>2. mem' \in Session
    BY <1>4, SessionOfType, Fields, StatusUpdate, StatusTypes DEF BeginApprove
  <2>3. call' \in Calls
    BY <1>4, SessionOfType, Fields DEF BeginApprove
  <2> QED
    BY <1>4, <2>1, <2>2, <2>3, StatusTypes DEF BeginApprove, Begin, store, control, work, observed, bounds
<1>5. ASSUME NEW r \in Replicas, BeginReject(r) PROVE TypeInv'
  <2>1. drv' \in Drive /\ cache' \in [Replicas -> Session \cup {NoSession}] /\ turns' \in Nat
    BY <1>5, SessionOfType, Fields DEF BeginReject, Begin, Drive, Processes, Kinds
  <2>2. mem' \in Session
    <3>1. PICK s \in SessionOf(r) : mem' = [s EXCEPT !.shown = NoCall, !.gated = NoCall]
      BY <1>5 DEF BeginReject
    <3> QED
      BY <3>1, SessionOfType, GateUpdate
  <2>3. call' \in Calls
    BY <1>5, SessionOfType, Fields DEF BeginReject
  <2>4. refused' \subseteq Calls
    BY <1>5, SessionOfType, Fields DEF BeginReject
  <2> QED
    BY <1>5, <2>1, <2>2, <2>3, <2>4, StatusTypes DEF BeginReject, Begin, store, control, work, observed, bounds
<1>6. ASSUME NEW w \in Workers, Plan(w) PROVE TypeInv'
  BY <1>6 DEF Plan, store, control, work, observed, bounds
<1>7. ASSUME NEW w \in Workers, SkipHeld(w) PROVE TypeInv'
  BY <1>7 DEF SkipHeld, store, control, work, observed, bounds
<1>8. ASSUME NEW w \in Workers, BeginResume(w) PROVE TypeInv'
  <2>1. drv' \in Drive
    BY <1>8 DEF BeginResume, Drive, Processes, Kinds
  <2>2. mem' \in Session
    BY <1>8, RebuiltType DEF BeginResume
  <2> QED
    BY <1>8, <2>1, <2>2 DEF BeginResume, store, control, work, observed, bounds
<1>9. ASSUME NEW p \in Processes, Crash(p) PROVE TypeInv'
  <2>1. drv' \in Drive
    BY <1>9, DriveTypes DEF Crash, Reset, control
  <2>2. cache' \in [Replicas -> Session \cup {NoSession}] /\ plan' \in [Workers -> {"none", "resume", "retry"}]
    BY <1>9 DEF Crash
  <2>3. CASE drv.proc = p
    BY <1>9, <2>1, <2>2, <2>3 DEF Crash, Reset, store, control, work, observed, bounds
  <2>4. CASE drv.proc # p
    BY <1>9, <2>1, <2>2, <2>4 DEF Crash, store, control, work, observed, bounds
  <2> QED
    BY <2>3, <2>4
<1>10. CASE Restart
  <2>1. mem' \in Session
    BY <1>10, StatusUpdate, Fields, StatusTypes DEF Restart, Persist
  <2> QED
    BY <1>10, <2>1, StatusTypes, Fields DEF Restart, Goto, Persist, store, control, work, observed, bounds
<1>11. CASE Queue
  <2>1. mem' \in Session
    BY <1>11, StatusUpdate, Fields, StatusTypes DEF Queue, Persist
  <2> QED
    BY <1>11, <2>1, StatusTypes, Fields, ResumeIterationType DEF Queue, Goto, Persist, store, control, work, observed, bounds
<1>12. CASE Model
  <2>1. mem' \in Session /\ cp' \in Checkpoint
    BY <1>12, CaptureType, Fields DEF Model, Steps
  <2> QED
    BY <1>12, <2>1 DEF Model, Goto, store, control, work, observed, bounds
<1>13. CASE Exhausted
  BY <1>13 DEF Exhausted, Goto, store, control, work, observed, bounds
<1>14. CASE ModelCallsTools
  <2>1. batch' \in 1..MaxBatch /\ noted + batch' <= MaxCalls
    BY <1>14 DEF ModelCallsTools
  <2>2. batch' \in 0..MaxBatch /\ batch' >= 1
    BY <2>1
  <2> QED
    BY <1>14, <2>1, <2>2 DEF ModelCallsTools, Goto, store, control, work, observed, bounds
<1>15. CASE ModelAnswers
  BY <1>15 DEF ModelAnswers, Goto, store, control, work, observed, bounds
<1>16. CASE ModelSaysNothing
  BY <1>16 DEF ModelSaysNothing, Goto, store, control, work, observed, bounds
<1>17. CASE ModelFails
  BY <1>17 DEF ModelFails, Goto, store, control, work, observed, bounds
<1>18. CASE Note
  BY <1>18 DEF Note, Goto, store, control, work, observed, bounds, Calls
<1>19. CASE Deny
  BY <1>19 DEF Deny, Goto, store, control, work, observed, bounds
<1>20. CASE Ask
  <2>1. mem' \in Session
    BY <1>20, GateUpdate, Fields, StatusTypes DEF Ask, Persist
  <2> QED
    BY <1>20, <2>1, StatusTypes, Fields DEF Ask, Goto, Persist, store, control, work, observed, bounds
<1>21. CASE Hint
  BY <1>21 DEF Hint, Goto, store, control, work, observed, bounds, NextCall
<1>22. CASE Allow
  <2>1. mem' \in Session /\ cp' \in Checkpoint
    BY <1>22, CaptureType, Fields DEF Allow, Steps
  <2> QED
    BY <1>22, <2>1 DEF Allow, Goto, store, control, work, observed, bounds
<1>23. CASE Execute
  BY <1>23 DEF Execute, Goto, store, control, work, observed, bounds
<1>24. CASE Result
  BY <1>24 DEF Result, Goto, store, control, work, observed, bounds, NextCall
<1>25. CASE HoldStatus
  <2>1. mem' \in Session
    BY <1>25, StatusUpdate, Fields, StatusTypes DEF HoldStatus, Persist
  <2> QED
    BY <1>25, <2>1, StatusTypes, Fields DEF HoldStatus, Goto, Persist, store, control, work, observed, bounds
<1>26. CASE HoldCheckpoint
  <2>1. mem' \in Session /\ cp' \in Checkpoint
    BY <1>26, CaptureType, Fields DEF HoldCheckpoint, Steps
  <2> QED
    BY <1>26, <2>1 DEF HoldCheckpoint, Goto, store, control, work, observed, bounds
<1>27. CASE Complete
  <2>1. mem' \in Session
    BY <1>27, StatusUpdate, Fields, StatusTypes DEF Complete, Persist
  <2> QED
    BY <1>27, <2>1, StatusTypes, Fields DEF Complete, Goto, Persist, store, control, work, observed, bounds
<1>28. CASE DoneCheckpoint
  <2>1. mem' \in Session /\ cp' \in Checkpoint
    BY <1>28, CaptureType, Fields DEF DoneCheckpoint, Steps
  <2> QED
    BY <1>28, <2>1 DEF DoneCheckpoint, Goto, store, control, work, observed, bounds
<1>29. CASE Fail
  <2>1. [mem EXCEPT !.status = Target.fail] \in Session
    BY <1>29, StatusUpdate, StatusTypes, Fields, NoCheckpointType DEF Fail
  <2>2. mem' \in Session /\ cp' \in Checkpoint
    BY <1>29, <2>1, CaptureType, Fields DEF Fail, Steps
  <2> QED
    BY <1>29, <2>2 DEF Fail, Goto, store, control, work, observed, bounds
<1>30. CASE FailPersist
  <2>1. mem' \in Session
    BY <1>30, StatusUpdate, Fields, StatusTypes DEF FailPersist, Persist
  <2> QED
    BY <1>30, <2>1, StatusTypes, Fields DEF FailPersist, Goto, Persist, store, control, work, observed, bounds
<1>31. CASE ApprovedResult
  BY <1>31 DEF ApprovedResult, Goto, store, control, work, observed, bounds
<1>32. CASE ApprovedClear
  <2>1. mem' \in Session
    BY <1>32, GateUpdate, Fields, StatusTypes DEF ApprovedClear, Persist
  <2> QED
    BY <1>32, <2>1, StatusTypes, Fields, ResumeIterationType DEF ApprovedClear, Goto, Persist, store, control, work, observed, bounds
<1>33. CASE RejectedStatus
  <2>1. mem' \in Session
    BY <1>33, StatusUpdate, Fields, StatusTypes DEF RejectedStatus, Persist
  <2> QED
    BY <1>33, <2>1, StatusTypes, Fields DEF RejectedStatus, Goto, Persist, store, control, work, observed, bounds
<1>34. CASE RejectedResult
  BY <1>34, ResumeIterationType, Fields DEF RejectedResult, Goto, store, control, work, observed, bounds
<1>35. CASE Return
  <2>1. drv' \in Drive /\ cache' \in [Replicas -> Session \cup {NoSession}]
    BY <1>35, DriveTypes DEF Return, Release, Reset
  <2>2. history' \subseteq (Calls \cup {NoCall}) \X Kinds
    BY <1>35 DEF Return, Drive, Kinds, store
  <2> QED
    BY <1>35, <2>1, <2>2 DEF Return, Release, Reset, store, control, work, observed, bounds
<1>36. CASE Raise
  <2>1. drv' \in Drive /\ cache' \in [Replicas -> Session \cup {NoSession}]
    BY <1>36, DriveTypes DEF Raise, Release, Reset
  <2>2. history' \subseteq (Calls \cup {NoCall}) \X Kinds
    BY <1>36 DEF Raise, Drive, Kinds, store
  <2> QED
    BY <1>36, <2>1, <2>2 DEF Raise, Release, Reset, store, control, work, observed, bounds
<1>37. CASE Restore
  <2>1. mem' \in Session
    BY <1>37, RestoreUpdate, Fields, StatusTypes DEF Restore, Persist
  <2> QED
    BY <1>37, <2>1, StatusTypes, Fields, ResumeIterationType DEF Restore, Goto, Persist, store, control, work, observed, bounds
<1>38. CASE Retry
  <2>1. mem' \in Session
    BY <1>38, RetryUpdate, Fields, StatusTypes DEF Retry, Persist
  <2> QED
    BY <1>38, <2>1, StatusTypes, Fields DEF Retry, Goto, Persist, store, control, work, observed, bounds
<1>39. CASE UNCHANGED vars
  BY <1>39 DEF vars, store, control, work, observed, bounds
<1> QED
  BY <1>1, <1>2, <1>3, <1>4, <1>5, <1>6, <1>7, <1>8, <1>9, <1>10, <1>11, <1>12, <1>13, <1>14, <1>15, <1>16, <1>17, <1>18, <1>19, <1>20, <1>21, <1>22, <1>23, <1>24, <1>25, <1>26, <1>27, <1>28, <1>29, <1>30, <1>31, <1>32, <1>33, <1>34, <1>35, <1>36, <1>37, <1>38, <1>39 DEF Next, DriverStep, WorkerStep

\* TypeInv is an invariant, and with it every variable's type (TypeOK).
THEOREM TypeCorrect == Spec => []TypeOK
<1>1. Spec => []TypeInv
  BY TypeInit, TypeStep, PTL DEF Spec
<1>2. TypeInv => TypeOK
  BY DEF TypeInv
<1> QED
  BY <1>1, <1>2, PTL

(***************************************************************************)
(* A held call is executed only as often as it was approved.  The argument *)
(* needs to know where a call is in its life: not yet noted, judged for    *)
(* the first time, about to be executed because the policy allowed it, or  *)
(* about to be executed because a human did.                               *)
(***************************************************************************)

\* A call that has not been noted has neither been held nor executed.
Untouched == \A c \in Calls : c > noted => c \notin asked /\ executed[c] = 0

\* Tickets and gates, wherever they are kept, are for noted calls.
GatesNoted ==
  /\ ticket <= noted /\ mem.gated <= noted
  /\ \A r \in Replicas : cache[r].gated <= noted
  /\ pc \in {"verdict", "exec", "approved_exec"} => call <= noted

AtVerdict == pc = "verdict" => call \notin asked /\ executed[call] = 0
AtExec    == pc = "exec" => call \notin asked
AtGrant   == pc = "approved_exec" /\ call \in asked => executed[call] < granted[call]

GrantInv == GrantedExecutions /\ Untouched /\ GatesNoted /\ AtVerdict /\ AtExec /\ AtGrant

\* Before the first request nothing is noted, held or executed.
LEMMA GrantInit == Init => GrantInv
BY DEF Init, GrantInv, GrantedExecutions, Untouched, GatesNoted, AtVerdict, AtExec, AtGrant,
       NoSession

\* The gate of a rebuilt session is for a noted call.
LEMMA RebuiltGate ==
  ASSUME ticket <= noted, ticket \in Nat, noted \in Nat, NEW s \in Rebuilt
  PROVE  s.gated <= noted
<1>1. PICK g \in IF ticket = NoCall THEN {NoCall} ELSE Gate(ticket) : s.gated = g
  BY DEF Rebuilt
<1>2. CASE ticket = NoCall
  BY <1>1, <1>2
<1>3. CASE ticket # NoCall
  BY <1>1, <1>3 DEF Gate, Unanswered
<1> QED
  BY <1>2, <1>3

\* The gate of the session a request gets is for a noted call.
LEMMA SessionOfGate ==
  ASSUME GatesNoted, ticket \in Nat, noted \in Nat, NEW r \in Replicas, NEW s \in SessionOf(r)
  PROVE  s.gated <= noted
BY RebuiltGate DEF SessionOf, GatesNoted

\* Every step keeps GrantInv: only approve() leads to the execution of a held call.
LEMMA GrantStep ==
  ASSUME TypeInv, GrantInv, [Next]_vars
  PROVE  GrantInv'
<1>1. /\ executed \in [Calls -> Nat] /\ granted \in [Calls -> Nat] /\ asked \subseteq Calls
      /\ noted \in Nat /\ ticket \in Nat /\ call \in Nat /\ batch \in Nat
      /\ Calls = 1..MaxCalls /\ MaxCalls \in Nat
      /\ noted + batch <= MaxCalls /\ (pc = "note" => batch >= 1)
      /\ (pc \in {"verdict", "exec", "approved_exec", "hold_status"} => call \in Calls)
      /\ (pc # "idle" => mem \in Session)
      /\ cache \in [Replicas -> Session \cup {NoSession}]
  BY BoundsAssumption DEF TypeInv, TypeOK, Shape, InHand, Calls
<1> USE DEF GrantInv, GrantedExecutions, Untouched, GatesNoted, AtVerdict, AtExec, AtGrant
<1>2. ASSUME NEW r \in Replicas, Get(r) PROVE GrantInv'
  <2>1. \A q \in Replicas : cache'[q].gated <= noted
    BY <1>1, <1>2, RebuiltGate DEF Get
  <2> QED
    BY <1>2, <2>1 DEF Get, store, control, work, observed, bounds
<1>3. ASSUME NEW r \in Replicas, Evict(r) PROVE GrantInv'
  <2>1. \A q \in Replicas : cache'[q].gated <= noted
    BY <1>1, <1>3 DEF Evict, NoSession
  <2> QED
    BY <1>3, <2>1 DEF Evict, store, control, work, observed, bounds
<1>4. ASSUME NEW r \in Replicas, BeginChat(r) PROVE GrantInv'
  <2>1. \A q \in Replicas : cache'[q].gated <= noted
    BY <1>1, <1>4 DEF BeginChat, Begin, NoSession
  <2>2. mem'.gated <= noted
    BY <1>1, <1>4, SessionOfGate DEF BeginChat
  <2> QED
    BY <1>4, <2>1, <2>2 DEF BeginChat, Begin, store, control, work, observed, bounds
<1>5. ASSUME NEW r \in Replicas, BeginApprove(r) PROVE GrantInv'
  <2>1. \A q \in Replicas : cache'[q].gated <= noted
    BY <1>1, <1>5 DEF BeginApprove, Begin, NoSession
  <2>2. PICK s \in SessionOf(r) :
          /\ s.gated # NoCall /\ mem' = [s EXCEPT !.status = Target.resume]
          /\ call' = s.gated /\ granted' = [granted EXCEPT ![s.gated] = granted[s.gated] + 1]
    BY <1>5 DEF BeginApprove
  <2>3. s \in Session /\ s.gated <= noted /\ s.gated \in Calls
    BY <1>1, <2>2, SessionOfType, SessionOfGate, Fields DEF TypeInv, TypeOK
  <2>4. mem'.gated <= noted /\ call' <= noted /\ call' \in Calls
    BY <2>2, <2>3 DEF Session
  <2>5. executed' = executed /\ asked' = asked /\ noted' = noted /\ ticket' = ticket
        /\ pc' = "approved_exec"
    BY <1>5 DEF BeginApprove
  <2>6. \A c \in Calls : granted'[c] >= granted[c]
    BY <1>1, <2>2, <2>3
  <2>7. GrantedExecutions'
    BY <1>1, <2>5, <2>6, <2>2, <2>3
  <2>8. AtGrant'
    BY <1>1, <2>2, <2>3, <2>5
  <2> QED
    BY <1>1, <2>1, <2>4, <2>5, <2>7, <2>8
<1>6. ASSUME NEW r \in Replicas, BeginReject(r) PROVE GrantInv'
  <2>1. \A q \in Replicas : cache'[q].gated <= noted
    BY <1>1, <1>6 DEF BeginReject, Begin, NoSession
  <2>2. mem'.gated <= noted
    <3>1. PICK s \in SessionOf(r) : mem' = [s EXCEPT !.shown = NoCall, !.gated = NoCall]
      BY <1>6 DEF BeginReject
    <3>2. s \in Session
      BY <3>1, SessionOfType DEF TypeInv, TypeOK
    <3> QED
      BY <1>1, <3>1, <3>2 DEF Session
  <2>3. ticket' = 0 /\ pc' \in {"rejected_status", "raise"}
    BY <1>6 DEF BeginReject
  <2> QED
    BY <1>1, <1>6, <2>1, <2>2, <2>3 DEF BeginReject, store, control, work, observed, bounds
<1>7. ASSUME NEW w \in Workers, Plan(w) PROVE GrantInv'
  BY <1>7 DEF Plan, store, control, work, observed, bounds
<1>8. ASSUME NEW w \in Workers, SkipHeld(w) PROVE GrantInv'
  BY <1>8 DEF SkipHeld, store, control, work, observed, bounds
<1>9. ASSUME NEW w \in Workers, BeginResume(w) PROVE GrantInv'
  <2>1. mem'.gated <= noted
    BY <1>1, <1>9, RebuiltGate DEF BeginResume
  <2> QED
    BY <1>9, <2>1 DEF BeginResume, store, control, work, observed, bounds
<1>10. ASSUME NEW p \in Processes, Crash(p) PROVE GrantInv'
  <2>1. \A q \in Replicas : cache'[q].gated <= noted
    BY <1>1, <1>10 DEF Crash, NoSession
  <2>2. CASE drv.proc = p
    BY <1>1, <1>10, <2>1, <2>2 DEF Crash, Reset, NoSession, store, control, work, observed, bounds
  <2>3. CASE drv.proc # p
    BY <1>1, <1>10, <2>1, <2>3 DEF Crash, store, control, work, observed, bounds
  <2> QED
    BY <2>2, <2>3
<1>11. CASE Restart
  <2>1. mem'.gated = mem.gated
    BY <1>1, <1>11 DEF Restart, Persist, Session
  <2> QED
    BY <1>1, <1>11, <2>1 DEF Restart, Goto, Persist, store, control, work, observed, bounds
<1>12. CASE Queue
  <2>1. mem'.gated = mem.gated
    BY <1>1, <1>12 DEF Queue, Persist, Session
  <2> QED
    BY <1>1, <1>12, <2>1 DEF Queue, Goto, Persist, store, control, work, observed, bounds
<1>13. CASE Model
  <2>1. mem'.gated = mem.gated
    BY <1>1, <1>13 DEF Model, Persist, Session, Capture
  <2> QED
    BY <1>1, <1>13, <2>1 DEF Model, Goto, Persist, store, control, work, observed, bounds
<1>14. CASE Exhausted
  BY <1>1, <1>14 DEF Exhausted, Goto, store, control, work, observed, bounds
<1>15. CASE ModelCallsTools
  BY <1>1, <1>15 DEF ModelCallsTools, Goto, store, control, work, observed, bounds
<1>16. CASE ModelAnswers
  BY <1>1, <1>16 DEF ModelAnswers, Goto, store, control, work, observed, bounds
<1>17. CASE ModelSaysNothing
  BY <1>1, <1>17 DEF ModelSaysNothing, Goto, store, control, work, observed, bounds
<1>18. CASE ModelFails
  BY <1>1, <1>18 DEF ModelFails, Goto, store, control, work, observed, bounds
<1>19. CASE Note
  <2>1. noted + 1 \in Calls
    BY <1>1, <1>19 DEF Note
  <2>2. noted + 1 \notin asked /\ executed[noted + 1] = 0
    BY <1>1, <2>1
  <2>3. noted' = noted + 1 /\ call' = noted + 1 /\ pc' = "verdict"
        /\ UNCHANGED <<ticket, cache, mem, asked, granted, executed>>
    BY <1>19 DEF Note, Goto, observed
  <2>4. Untouched' /\ GrantedExecutions'
    BY <1>1, <2>3
  <2>5. AtVerdict'
    BY <2>2, <2>3
  <2>6. GatesNoted'
    <3>1. \A r \in Replicas : cache[r].gated \in Nat
      BY <1>1, Fields DEF NoSession, Calls
    <3>2. mem.gated \in Nat
      BY <1>1, <1>19, Fields DEF Note, Calls
    <3> QED
      BY <1>1, <2>3, <3>1, <3>2
  <2> QED
    BY <2>3, <2>4, <2>5, <2>6
<1>20. CASE Deny
  BY <1>1, <1>20 DEF Deny, Goto, store, control, work, observed, bounds
<1>21. CASE Ask
  <2>1. mem'.gated = call
    BY <1>1, <1>21 DEF Ask, Persist, Session
  <2> QED
    BY <1>1, <1>21, <2>1 DEF Ask, Goto, Persist, store, control, work, observed, bounds
<1>22. CASE Hint
  BY <1>1, <1>22 DEF Hint, Goto, store, control, work, observed, bounds, NextCall
<1>23. CASE Allow
  <2>1. mem'.gated = mem.gated
    BY <1>1, <1>23 DEF Allow, Persist, Session, Capture
  <2> QED
    BY <1>1, <1>23, <2>1 DEF Allow, Goto, Persist, store, control, work, observed, bounds
<1>24. CASE Execute
  <2>1. CASE pc = "exec"
    BY <1>1, <1>24, <2>1 DEF Execute, Goto, store, control, work, observed, bounds
  <2>2. CASE pc = "approved_exec"
    BY <1>1, <1>24, <2>2 DEF Execute, Goto, store, control, work, observed, bounds
  <2> QED
    BY <1>24, <2>1, <2>2 DEF Execute
<1>25. CASE Result
  BY <1>1, <1>25 DEF Result, Goto, store, control, work, observed, bounds, NextCall
<1>26. CASE HoldStatus
  <2>1. mem'.gated = mem.gated
    BY <1>1, <1>26 DEF HoldStatus, Persist, Session
  <2> QED
    BY <1>1, <1>26, <2>1 DEF HoldStatus, Goto, Persist, store, control, work, observed, bounds
<1>27. CASE HoldCheckpoint
  <2>1. mem'.gated = mem.gated
    BY <1>1, <1>27 DEF HoldCheckpoint, Persist, Session, Capture
  <2> QED
    BY <1>1, <1>27, <2>1 DEF HoldCheckpoint, Goto, Persist, store, control, work, observed, bounds
<1>28. CASE Complete
  <2>1. mem'.gated = mem.gated
    BY <1>1, <1>28 DEF Complete, Persist, Session
  <2> QED
    BY <1>1, <1>28, <2>1 DEF Complete, Goto, Persist, store, control, work, observed, bounds
<1>29. CASE DoneCheckpoint
  <2>1. mem'.gated = mem.gated
    BY <1>1, <1>29 DEF DoneCheckpoint, Persist, Session, Capture
  <2> QED
    BY <1>1, <1>29, <2>1 DEF DoneCheckpoint, Goto, Persist, store, control, work, observed, bounds
<1>30. CASE Fail
  <2>1. mem'.gated = mem.gated
    BY <1>1, <1>30 DEF Fail, Persist, Session, Capture
  <2> QED
    BY <1>1, <1>30, <2>1 DEF Fail, Goto, Persist, store, control, work, observed, bounds
<1>31. CASE FailPersist
  <2>1. mem'.gated = mem.gated
    BY <1>1, <1>31 DEF FailPersist, Persist, Session
  <2> QED
    BY <1>1, <1>31, <2>1 DEF FailPersist, Goto, Persist, store, control, work, observed, bounds
<1>32. CASE ApprovedResult
  BY <1>1, <1>32 DEF ApprovedResult, Goto, store, control, work, observed, bounds
<1>33. CASE ApprovedClear
  <2>1. mem'.gated = 0
    BY <1>1, <1>33 DEF ApprovedClear, Persist, Session
  <2> QED
    BY <1>1, <1>33, <2>1 DEF ApprovedClear, Goto, Persist, store, control, work, observed, bounds
<1>34. CASE RejectedStatus
  <2>1. mem'.gated = mem.gated
    BY <1>1, <1>34 DEF RejectedStatus, Persist, Session
  <2> QED
    BY <1>1, <1>34, <2>1 DEF RejectedStatus, Goto, Persist, store, control, work, observed, bounds
<1>35. CASE RejectedResult
  BY <1>1, <1>35 DEF RejectedResult, Goto, store, control, work, observed, bounds
<1>36. CASE Return
  <2>1. \A q \in Replicas : cache'[q].gated <= noted
    BY <1>1, <1>36 DEF Return, Release
  <2> QED
    BY <1>1, <1>36, <2>1 DEF Return, Release, Reset, NoSession, store, control, work, observed, bounds
<1>37. CASE Raise
  <2>1. \A q \in Replicas : cache'[q].gated <= noted
    BY <1>1, <1>37 DEF Raise, Release
  <2> QED
    BY <1>1, <1>37, <2>1 DEF Raise, Release, Reset, NoSession, store, control, work, observed, bounds
<1>38. CASE Restore
  <2>1. mem'.gated = mem.gated
    BY <1>1, <1>38 DEF Restore, Persist, Session
  <2> QED
    BY <1>1, <1>38, <2>1 DEF Restore, Goto, Persist, store, control, work, observed, bounds
<1>39. CASE Retry
  <2>1. mem'.gated = 0
    BY <1>1, <1>39 DEF Retry, Persist, Session
  <2> QED
    BY <1>1, <1>39, <2>1 DEF Retry, Goto, Persist, store, control, work, observed, bounds
<1>40. CASE UNCHANGED vars
  BY <1>40 DEF vars, store, control, work, observed, bounds
<1> QED
  BY <1>2, <1>3, <1>4, <1>5, <1>6, <1>7, <1>8, <1>9, <1>10, <1>11, <1>12, <1>13, <1>14, <1>15,
     <1>16, <1>17, <1>18, <1>19, <1>20, <1>21, <1>22, <1>23, <1>24, <1>25, <1>26, <1>27, <1>28,
     <1>29, <1>30, <1>31, <1>32, <1>33, <1>34, <1>35, <1>36, <1>37, <1>38, <1>39, <1>40 DEF
     Next, DriverStep, WorkerStep

\* Every execution of a call the policy held was approved: once per approve(), in any
\* interleaving of replicas, workers, crashes and lost writes.
THEOREM ApprovalGate == Spec => []GrantedExecutions
<1>1. Init => TypeInv /\ GrantInv
  BY TypeInit, GrantInit
<1>2. TypeInv /\ GrantInv /\ [Next]_vars => (TypeInv /\ GrantInv)'
  BY TypeStep, GrantStep
<1>3. GrantInv => GrantedExecutions
  BY DEF GrantInv
<1> QED
  BY <1>1, <1>2, <1>3, PTL DEF Spec

(***************************************************************************)
(* A worker leaves a settled run alone.  What makes this true is that      *)
(* resume() decides on the checkpoint it reads under the lock and not on   *)
(* the plan: past that decision the checkpoint stays resumable or          *)
(* retryable until the drive's own last write.                             *)
(***************************************************************************)

Working == {"queue", "loop", "model", "note", "verdict", "exec", "result", "hold_status",
            "complete", "fail"}

OpenCheckpoint == Resumable(cp) \/ Retryable(cp)

WorkerInv ==
  drv.kind = "resume" =>
    /\ pc \in Working \cup {"hold_checkpoint", "done_checkpoint", "fail_persist", "restore",
                            "retry", "retry_restart", "return", "raise"}
    /\ pc \in Working => mem.status \notin Terminal \cup AwaitsHuman
    /\ pc \in Working \cup {"hold_checkpoint", "done_checkpoint", "retry", "retry_restart"}
         => OpenCheckpoint
    /\ pc = "fail_persist" => mem.status = "FAILED" /\ (OpenCheckpoint \/ cp.status = "FAILED")

\* At the start no worker drives.
LEMMA WorkerInit == Init => WorkerInv
BY DEF Init, WorkerInv, NoDrive

\* What start() and restart() move to is neither over nor waiting for a human.
LEMMA WorkerStatuses ==
  /\ \A m \in {"mark_queued", "start", "resume", "restart", "fail"} : m \in DOMAIN Target
  /\ Target.restart \notin Terminal \cup AwaitsHuman
  /\ Target.start \notin Terminal \cup AwaitsHuman
  /\ Target.fail = "FAILED" /\ "FAILED" \in Terminal
BY DEF Target, Terminal, AwaitsHuman

\* Every step keeps WorkerInv: past Restore a worker has an open run in hand.
LEMMA WorkerInvStep ==
  ASSUME TypeInv, WorkerInv, [Next]_vars
  PROVE  WorkerInv'
<1>1. (pc # "idle" => mem \in Session) /\ cp \in Checkpoint /\ drv \in Drive
  BY DEF TypeInv, TypeOK, Shape
<1> USE DEF WorkerInv, Working, OpenCheckpoint, Resumable, Retryable
<1>2. ASSUME NEW r \in Replicas, Get(r) PROVE WorkerInv'
  BY <1>2 DEF Get, store, control, work, observed, bounds
<1>3. ASSUME NEW r \in Replicas, Evict(r) PROVE WorkerInv'
  BY <1>1, <1>3 DEF Evict, Drive, store, control, work, observed, bounds
<1>4. ASSUME NEW r \in Replicas, BeginChat(r) PROVE WorkerInv'
  BY <1>4 DEF BeginChat, Begin
<1>5. ASSUME NEW r \in Replicas, BeginApprove(r) PROVE WorkerInv'
  BY <1>5 DEF BeginApprove, Begin
<1>6. ASSUME NEW r \in Replicas, BeginReject(r) PROVE WorkerInv'
  BY <1>6 DEF BeginReject, Begin
<1>7. ASSUME NEW w \in Workers, Plan(w) PROVE WorkerInv'
  BY <1>7 DEF Plan, store, control, work, observed, bounds
<1>8. ASSUME NEW w \in Workers, SkipHeld(w) PROVE WorkerInv'
  BY <1>8 DEF SkipHeld, store, control, work, observed, bounds
<1>9. ASSUME NEW w \in Workers, BeginResume(w) PROVE WorkerInv'
  BY <1>9 DEF BeginResume
<1>10. ASSUME NEW p \in Processes, Crash(p) PROVE WorkerInv'
  BY <1>10 DEF Crash, Reset, NoDrive, store, control, work, observed, bounds
<1>11. CASE Restart
  <2>1. mem'.status = Target.restart
    BY <1>1, <1>11 DEF Restart, Persist, Session
  <2> QED
    BY <1>11, <2>1, WorkerStatuses DEF Restart, Goto, Persist, store, control, work, observed, bounds
<1>12. CASE Queue
  <2>1. mem'.status = Target.start
    BY <1>1, <1>12 DEF Queue, Persist, Session
  <2> QED
    BY <1>12, <2>1, WorkerStatuses DEF Queue, Goto, Persist, store, control, work, observed, bounds
<1>13. CASE Model
  <2>1. mem'.status = mem.status /\ (cp'.status = mem.status \/ cp' = cp)
    BY <1>1, <1>13 DEF Model, Capture, Session
  <2> QED
    BY <1>13, <2>1 DEF Model, Goto
<1>14. CASE Exhausted
  BY <1>1, <1>14, WorkerStatuses DEF Exhausted, Goto, Persist, NextCall, store, control, work, observed, bounds
<1>15. CASE ModelCallsTools
  BY <1>1, <1>15, WorkerStatuses DEF ModelCallsTools, Goto, Persist, NextCall, store, control, work, observed, bounds
<1>16. CASE ModelAnswers
  BY <1>1, <1>16, WorkerStatuses DEF ModelAnswers, Goto, Persist, NextCall, store, control, work, observed, bounds
<1>17. CASE ModelSaysNothing
  BY <1>1, <1>17, WorkerStatuses DEF ModelSaysNothing, Goto, Persist, NextCall, store, control, work, observed, bounds
<1>18. CASE ModelFails
  BY <1>1, <1>18, WorkerStatuses DEF ModelFails, Goto, Persist, NextCall, store, control, work, observed, bounds
<1>19. CASE Note
  BY <1>1, <1>19, WorkerStatuses DEF Note, Goto, Persist, NextCall, store, control, work, observed, bounds
<1>20. CASE Deny
  BY <1>1, <1>20, WorkerStatuses DEF Deny, Goto, Persist, NextCall, store, control, work, observed, bounds
<1>21. CASE Ask
  <2>1. mem'.status = mem.status
    BY <1>1, <1>21 DEF Ask, Persist, Session
  <2> QED
    BY <1>21, <2>1, WorkerStatuses DEF Ask, Goto, Persist, store, control, work, observed, bounds
<1>22. CASE Hint
  BY <1>1, <1>22, WorkerStatuses DEF Hint, Goto, Persist, NextCall, store, control, work, observed, bounds
<1>23. CASE Allow
  <2>1. mem'.status = mem.status /\ (cp'.status = mem.status \/ cp' = cp)
    BY <1>1, <1>23 DEF Allow, Capture, Session
  <2> QED
    BY <1>23, <2>1 DEF Allow, Goto
<1>24. CASE Execute
  BY <1>1, <1>24, WorkerStatuses DEF Execute, Goto, Persist, NextCall, store, control, work, observed, bounds
<1>25. CASE Result
  BY <1>1, <1>25, WorkerStatuses DEF Result, Goto, Persist, NextCall, store, control, work, observed, bounds
<1>26. CASE HoldStatus
  BY <1>1, <1>26, WorkerStatuses DEF HoldStatus, Goto, Persist, NextCall, store, control, work, observed, bounds
<1>27. CASE HoldCheckpoint
  <2>1. mem'.status = mem.status /\ (cp'.status = mem.status \/ cp' = cp)
    BY <1>1, <1>27 DEF HoldCheckpoint, Capture, Session
  <2> QED
    BY <1>27, <2>1 DEF HoldCheckpoint, Goto
<1>28. CASE Complete
  BY <1>1, <1>28, WorkerStatuses DEF Complete, Goto, Persist, NextCall, store, control, work, observed, bounds
<1>29. CASE DoneCheckpoint
  <2>1. mem'.status = mem.status /\ (cp'.status = mem.status \/ cp' = cp)
    BY <1>1, <1>29 DEF DoneCheckpoint, Capture, Session
  <2> QED
    BY <1>29, <2>1 DEF DoneCheckpoint, Goto
<1>30. CASE Fail
  <2>1. mem'.status = "FAILED" /\ (cp'.status = "FAILED" \/ cp' = cp)
    BY <1>1, <1>30, WorkerStatuses DEF Fail, Capture, Session
  <2> QED
    BY <1>30, <2>1 DEF Fail, Goto
<1>31. CASE FailPersist
  BY <1>1, <1>31, WorkerStatuses DEF FailPersist, Goto, Persist, NextCall, store, control, work, observed, bounds
<1>32. CASE ApprovedResult
  BY <1>1, <1>32, WorkerStatuses DEF ApprovedResult, Goto, Persist, NextCall, store, control, work, observed, bounds
<1>33. CASE ApprovedClear
  BY <1>1, <1>33, WorkerStatuses DEF ApprovedClear, Goto, Persist, NextCall, store, control, work, observed, bounds
<1>34. CASE RejectedStatus
  BY <1>1, <1>34, WorkerStatuses DEF RejectedStatus, Goto, Persist, NextCall, store, control, work, observed, bounds
<1>35. CASE RejectedResult
  BY <1>1, <1>35, WorkerStatuses DEF RejectedResult, Goto, Persist, NextCall, store, control, work, observed, bounds
<1>36. CASE Return
  BY <1>36 DEF Return, Release, Reset, NoDrive
<1>37. CASE Raise
  BY <1>37 DEF Raise, Release, Reset, NoDrive
<1>38. CASE Restore
  <2>1. mem'.status = cp.status
    BY <1>1, <1>38 DEF Restore, Persist, Session
  <2> QED
    BY <1>38, <2>1, WorkerStatuses DEF Restore, Goto, Persist, store, control, work, observed, bounds
<1>39. CASE Retry
  <2>1. mem'.status = mem.status
    BY <1>1, <1>39 DEF Retry, Persist, Session
  <2> QED
    BY <1>39, <2>1, WorkerStatuses DEF Retry, Goto, Persist, store, control, work, observed, bounds
<1>40. CASE UNCHANGED vars
  BY <1>40 DEF vars, store, control, work, observed, bounds
<1> QED
  BY <1>2, <1>3, <1>4, <1>5, <1>6, <1>7, <1>8, <1>9, <1>10, <1>11, <1>12, <1>13, <1>14, <1>15,
     <1>16, <1>17, <1>18, <1>19, <1>20, <1>21, <1>22, <1>23, <1>24, <1>25, <1>26, <1>27, <1>28,
     <1>29, <1>30, <1>31, <1>32, <1>33, <1>34, <1>35, <1>36, <1>37, <1>38, <1>39, <1>40 DEF
     Next, DriverStep, WorkerStep

\* No step of a worker's drive changes the row or the checkpoint of a settled run.
LEMMA SettledStep ==
  ASSUME TypeInv, WorkerInv, Next, Settled, drv'.kind = "resume"
  PROVE  UNCHANGED <<runStatus, cp>>
<1>1. (pc # "idle" => mem \in Session) /\ cp \in Checkpoint /\ drv \in Drive
  BY DEF TypeInv, TypeOK, Shape
<1>2. ~OpenCheckpoint /\ cp.status = runStatus
  BY DEF Settled, OpenCheckpoint
<1>3. ASSUME NEW r \in Replicas, Get(r) PROVE UNCHANGED <<runStatus, cp>>
  BY <1>3 DEF Get, store
<1>4. ASSUME NEW r \in Replicas, Evict(r) PROVE UNCHANGED <<runStatus, cp>>
  BY <1>4 DEF Evict, store
<1>5. ASSUME NEW r \in Replicas, BeginChat(r) PROVE UNCHANGED <<runStatus, cp>>
  BY <1>5 DEF BeginChat, store
<1>6. ASSUME NEW r \in Replicas, BeginApprove(r) PROVE UNCHANGED <<runStatus, cp>>
  BY <1>6 DEF BeginApprove, Begin
<1>7. ASSUME NEW r \in Replicas, BeginReject(r) PROVE UNCHANGED <<runStatus, cp>>
  BY <1>7 DEF BeginReject, Begin
<1>8. ASSUME NEW w \in Workers, Plan(w) PROVE UNCHANGED <<runStatus, cp>>
  BY <1>8 DEF Plan, store
<1>9. ASSUME NEW w \in Workers, SkipHeld(w) PROVE UNCHANGED <<runStatus, cp>>
  BY <1>9 DEF SkipHeld, store
<1>10. ASSUME NEW w \in Workers, BeginResume(w) PROVE UNCHANGED <<runStatus, cp>>
  BY <1>10 DEF BeginResume, store
<1>11. ASSUME NEW p \in Processes, Crash(p) PROVE UNCHANGED <<runStatus, cp>>
  BY <1>11 DEF Crash, store
<1>12. CASE Exhausted \/ ModelCallsTools \/ ModelAnswers \/ ModelSaysNothing \/ ModelFails \/ Note
              \/ Deny \/ Ask \/ Hint \/ Execute \/ Result \/ ApprovedResult
              \/ ApprovedClear \/ RejectedResult \/ Return \/ Raise \/ Retry
  BY <1>12 DEF Exhausted, ModelCallsTools, ModelAnswers, ModelSaysNothing, ModelFails, Note, Deny, Ask, Hint,
            Execute, Result, ApprovedResult, ApprovedClear, RejectedResult, Return, Raise, Retry, store
<1>13. CASE Restart
  BY <1>2, <1>13 DEF Restart, Goto, WorkerInv, Working
<1>14. CASE Queue
  BY <1>2, <1>14 DEF Queue, Goto, WorkerInv, Working
<1>15. CASE Model
  BY <1>2, <1>15 DEF Model, Goto, WorkerInv, Working
<1>16. CASE Allow
  BY <1>2, <1>16 DEF Allow, Goto, WorkerInv, Working
<1>17. CASE HoldStatus
  BY <1>2, <1>17 DEF HoldStatus, Goto, WorkerInv, Working
<1>18. CASE HoldCheckpoint
  BY <1>2, <1>18 DEF HoldCheckpoint, Goto, WorkerInv, Working
<1>19. CASE Complete
  BY <1>2, <1>19 DEF Complete, Goto, WorkerInv, Working
<1>20. CASE DoneCheckpoint
  BY <1>2, <1>20 DEF DoneCheckpoint, Goto, WorkerInv, Working
<1>21. CASE Fail
  BY <1>2, <1>21 DEF Fail, Goto, WorkerInv, Working
<1>22. CASE RejectedStatus
  BY <1>2, <1>22 DEF RejectedStatus, Goto, WorkerInv, Working
<1>23. CASE FailPersist
  <2>1. cp.status = "FAILED" /\ mem.status = "FAILED"
    BY <1>2, <1>23 DEF FailPersist, Goto, WorkerInv
  <2> QED
    BY <1>2, <1>23, <2>1 DEF FailPersist, Persist
<1>24. CASE Restore
  BY <1>2, <1>24 DEF Restore
<1> QED
  BY <1>3, <1>4, <1>5, <1>6, <1>7, <1>8, <1>9, <1>10, <1>11, <1>12, <1>13, <1>14, <1>15, <1>16,
     <1>17, <1>18, <1>19, <1>20, <1>21, <1>22, <1>23, <1>24 DEF Next, DriverStep, WorkerStep

\* A worker never changes a run whose row and checkpoint agree that it waits for a human,
\* is over, or has failed for good, however old the plan it acts on.
THEOREM SettledRunsAreLeft == Spec => WorkersLeaveSettled
<1>1. Init => TypeInv /\ WorkerInv
  BY TypeInit, WorkerInit
<1>2. TypeInv /\ WorkerInv /\ [Next]_vars => (TypeInv /\ WorkerInv)'
  BY TypeStep, WorkerInvStep
<1>3. TypeInv /\ WorkerInv /\ [Next]_vars
        => [Settled /\ drv'.kind = "resume" => UNCHANGED <<runStatus, cp>>]_vars
  BY SettledStep
<1> QED
  BY <1>1, <1>2, <1>3, PTL DEF Spec, WorkersLeaveSettled

(***************************************************************************)
(* One serving process: what it has cached or drives is what it would load.*)
(***************************************************************************)

\* One replica, no recovery worker, no eviction, no checkpoint write that fails unnoticed.
OneProcess ==
  /\ Workers = {} /\ \A r, s \in Replicas : r = s
  /\ ~CheckpointFaults /\ ~Eviction

\* The session m, but for its status, agrees with the rows.
Agrees(m) ==
  /\ m.shown = ticket /\ (m.gated = NoCall) = (ticket = NoCall)
  /\ m.latest = cp /\ m.attempts = cp.attempts

\* The driver's session agrees with the rows between any two of its writes; only the
\* status of a failure is saved one write after its checkpoint.
DriverAgrees ==
  pc # "idle" =>
    /\ drv.proc \in Replicas /\ drv.cached /\ cache[drv.proc] = NoSession
    /\ Agrees(mem)
    /\ pc # "fail_persist" => mem.status = Row
    /\ pc = "fail_persist" => mem.status = "FAILED" /\ cp.status = "FAILED"
    /\ pc \notin {"restore", "retry", "retry_restart"}
    /\ pc \in {"approved_exec", "approved_result", "approved_clear"} => mem.status = "RUNNING"
    /\ pc = "hold_status" => ticket # NoCall

\* A run that waits has its ticket, at every step, unless a reject took it.
WaitingHasTicket == runStatus = "WAITING_APPROVAL" /\ refused = {} => ticket # NoCall

OneInv == CacheCoherent /\ DriverAgrees /\ FailedIsCheckpointed /\ WaitingHasTicket

\* Nothing is stored, cached or driven at the start.
LEMMA OneInit == Init => OneInv
BY DEF Init, OneInv, CacheCoherent, DriverAgrees, FailedIsCheckpointed, WaitingHasTicket

\* A session object built from the rows agrees with them.
LEMMA RebuiltAgrees ==
  ASSUME TypeInv, NEW s \in Rebuilt
  PROVE  Agrees(s) /\ s.status = Row
<1>1. ticket # NoCall => Gate(ticket) \subseteq Calls
  BY DEF TypeInv, TypeOK, Gate, Unanswered
<1>2. 0 \notin Calls
  BY DEF Calls
<1> QED
  BY <1>1, <1>2 DEF Rebuilt, Agrees, Row

\* So does the one that a request gets, cached or rebuilt.
LEMMA SessionAgrees ==
  ASSUME TypeInv, CacheCoherent, NEW r \in Replicas, NEW s \in SessionOf(r)
  PROVE  Agrees(s) /\ s.status = Row
<1>1. CASE cache[r] # NoSession
  BY <1>1 DEF SessionOf, CacheCoherent, Agrees, Row
<1>2. CASE cache[r] = NoSession
  BY <1>2, RebuiltAgrees DEF SessionOf
<1> QED
  BY <1>1, <1>2

\* While a request drives, the process has no other session object.
LEMMA DrivenAlone ==
  ASSUME OneProcess, TypeInv, OneInv, pc # "idle"
  PROVE  \A r \in Replicas : cache[r] = NoSession /\ r = drv.proc
BY DEF OneProcess, OneInv, DriverAgrees

\* An empty cache is coherent with any rows.
LEMMA EmptyCoherent ==
  ASSUME \A r \in Replicas : cache'[r] = NoSession
  PROVE  CacheCoherent'
BY DEF CacheCoherent

\* A driver's step that leaves the drive and the cache alone.
LEMMA DriverWrites ==
  ASSUME OneProcess, TypeInv, OneInv, pc # "idle", UNCHANGED <<cache, drv>>,
         Agrees(mem)', pc' \in PCs \ {"idle", "restore", "retry", "retry_restart"},
         pc' # "fail_persist" => mem'.status = Row',
         pc' = "fail_persist" => mem'.status = "FAILED" /\ cp'.status = "FAILED",
         pc' \in {"approved_exec", "approved_result", "approved_clear"} => mem'.status = "RUNNING",
         pc' = "hold_status" => ticket' # NoCall,
         FailedIsCheckpointed', WaitingHasTicket'
  PROVE  OneInv'
<1>1. CacheCoherent'
  BY DrivenAlone, EmptyCoherent
<1> QED
  BY <1>1 DEF OneInv, DriverAgrees

\* A request begins with a session that agrees with the rows.
LEMMA DriverBegins ==
  ASSUME OneProcess, TypeInv, NEW r \in Replicas, cache' = [cache EXCEPT ![r] = NoSession],
         drv'.proc = r, drv'.cached, Agrees(mem)', mem'.status = Row',
         pc' \in {"restart", "queue", "loop", "approved_exec", "rejected_status", "raise"},
         pc' = "approved_exec" => mem'.status = "RUNNING",
         FailedIsCheckpointed', WaitingHasTicket'
  PROVE  OneInv'
<1>1. \A s \in Replicas : cache'[s] = NoSession
  BY DEF OneProcess, TypeInv, TypeOK
<1>2. CacheCoherent'
  BY <1>1, EmptyCoherent
<1> QED
  BY <1>1, <1>2 DEF OneInv, DriverAgrees

\* The steps that store messages, execute or decide where to go on.
LEMMA QuietWrites ==
  ASSUME OneProcess, TypeInv, OneInv, pc # "idle",
         UNCHANGED <<runStatus, ticket, cp, cache, drv, mem, refused>>,
         pc' \in {"loop", "model", "note", "verdict", "exec", "result", "complete", "fail",
                  "approved_result", "approved_clear"},
         pc' \in {"approved_result", "approved_clear"} => pc \in {"approved_exec", "approved_result"},
         pc # "fail_persist"
  PROVE  OneInv'
<1>1. Row' = Row /\ (Agrees(mem) => Agrees(mem)')
  BY DEF Row, Agrees
<1> QED
  BY <1>1, DriverWrites DEF OneInv, DriverAgrees, FailedIsCheckpointed, WaitingHasTicket, PCs

\* _checkpoint, when its write succeeds.
LEMMA Captured ==
  ASSUME OneProcess, NEW m \in Session, NEW step, NEW i, NEW retryable, Capture(m, step, i, retryable)
  PROVE  /\ mem'.latest = cp' /\ cp'.status = m.status /\ mem'.attempts = cp'.attempts
         /\ mem'.status = m.status /\ mem'.shown = m.shown /\ mem'.gated = m.gated
BY DEF Capture, OneProcess, Session

\* The checkpoints of the loop.
LEMMA CheckpointStep ==
  ASSUME OneProcess, TypeInv, OneInv, NEW step, NEW i, pc # "idle", pc # "fail_persist",
         Capture(mem, step, i, TRUE), UNCHANGED <<runStatus, ticket, cache, drv, refused>>,
         pc' \in {"model", "exec", "return"}
  PROVE  OneInv'
<1>1. mem \in Session
  BY DEF TypeInv, Shape
<1>2. /\ mem'.latest = cp' /\ cp'.status = mem.status /\ mem'.attempts = cp'.attempts
      /\ mem'.status = mem.status /\ mem'.shown = mem.shown /\ mem'.gated = mem.gated
  BY <1>1, Captured
<1>3. Agrees(mem)' /\ mem'.status = Row'
  BY <1>2 DEF OneInv, DriverAgrees, Agrees, Row
<1>4. FailedIsCheckpointed' /\ WaitingHasTicket'
  BY <1>2 DEF OneInv, DriverAgrees, FailedIsCheckpointed, WaitingHasTicket, Row
<1> QED
  BY <1>3, <1>4, DriverWrites DEF PCs

\* A save of the row, with the status in memory.
LEMMA SaveStep ==
  ASSUME OneProcess, TypeInv, OneInv, pc # "idle", NEW s \in RunStatus, Persist(s),
         s = "FAILED" => cp.status = "FAILED", s = "WAITING_APPROVAL" => ticket # NoCall,
         UNCHANGED <<ticket, cp, cache, drv, refused>>,
         pc' \in {"queue", "loop", "hold_checkpoint", "done_checkpoint", "raise", "rejected_result"}
  PROVE  OneInv'
<1>1. mem \in Session
  BY DEF TypeInv, Shape
<1>2. /\ mem'.status = s /\ runStatus' = s /\ mem'.latest = mem.latest /\ mem'.attempts = mem.attempts
      /\ mem'.shown = mem.shown /\ mem'.gated = mem.gated
  BY <1>1 DEF Persist, Session
<1>3. Agrees(mem)' /\ mem'.status = Row'
  BY <1>2, StatusTypes DEF OneInv, DriverAgrees, Agrees, Row
<1>4. FailedIsCheckpointed' /\ WaitingHasTicket'
  BY <1>2 DEF FailedIsCheckpointed, WaitingHasTicket
<1> QED
  BY <1>3, <1>4, DriverWrites DEF PCs

\* The request ends: what was driven is what the process has cached.
LEMMA ReleaseStep ==
  ASSUME OneProcess, TypeInv, OneInv, pc \in {"return", "raise"}, Release,
         UNCHANGED <<runStatus, ticket, cp, refused>>
  PROVE  OneInv'
<1>1. cache' = [cache EXCEPT ![drv.proc] = mem] /\ pc' = "idle"
  BY DEF Release, Reset, OneInv, DriverAgrees
<1>2. \A r \in Replicas : cache'[r] = mem
  BY <1>1, DrivenAlone DEF TypeInv, TypeOK
<1>3. Agrees(mem) /\ mem.status = Row
  BY DEF OneInv, DriverAgrees
<1>4. CacheCoherent'
  BY <1>2, <1>3 DEF CacheCoherent, Agrees, Row
<1> QED
  BY <1>1, <1>4 DEF OneInv, DriverAgrees, FailedIsCheckpointed, WaitingHasTicket

\* Every step of the process, and its crash.
LEMMA OneStep ==
  ASSUME OneProcess PROVE TypeInv /\ OneInv /\ [Next]_vars => OneInv'
<1> SUFFICES ASSUME TypeInv, OneInv, [Next]_vars PROVE OneInv'
  OBVIOUS
<1>1. ASSUME NEW r \in Replicas, Get(r) PROVE OneInv'
  <2>1. pc = "idle"
    BY <1>1, DrivenAlone DEF Get, OneInv, DriverAgrees
  <2>2. PICK s \in Rebuilt : cache' = [cache EXCEPT ![r] = s]
    BY <1>1 DEF Get
  <2>3. Agrees(s) /\ s.status = Row
    BY RebuiltAgrees
  <2>4. UNCHANGED <<runStatus, ticket, cp, pc, refused>>
    BY <1>1 DEF Get, store, control, observed
  <2>5. CacheCoherent'
    BY <2>2, <2>3, <2>4 DEF OneInv, CacheCoherent, Agrees, Row, TypeInv, TypeOK
  <2> QED
    BY <2>1, <2>4, <2>5 DEF OneInv, DriverAgrees, FailedIsCheckpointed, WaitingHasTicket
<1>2. ASSUME NEW r \in Replicas, Evict(r) PROVE OneInv'
  BY <1>2 DEF Evict, OneProcess
<1>3. ASSUME NEW r \in Replicas, BeginChat(r) PROVE OneInv'
  <2>1. Agrees(mem') /\ mem'.status = Row /\ UNCHANGED <<runStatus, ticket, cp, refused>>
    BY <1>3, SessionAgrees DEF BeginChat, OneInv, store, observed
  <2>2. Agrees(mem)' /\ mem'.status = Row'
    BY <2>1 DEF Agrees, Row
  <2>3. /\ cache' = [cache EXCEPT ![r] = NoSession] /\ drv'.proc = r /\ drv'.cached
        /\ pc' \in {"restart", "queue", "loop"}
    BY <1>3 DEF BeginChat, Begin
  <2>4. FailedIsCheckpointed' /\ WaitingHasTicket'
    BY <2>1 DEF OneInv, FailedIsCheckpointed, WaitingHasTicket
  <2> QED
    BY <2>2, <2>3, <2>4, DriverBegins
<1>4. ASSUME NEW r \in Replicas, BeginApprove(r) PROVE OneInv'
  <2>1. PICK s \in SessionOf(r) : /\ Begin(r, "approve", s.gated)
                                  /\ mem' = [s EXCEPT !.status = Target.resume]
    BY <1>4 DEF BeginApprove
  <2>2. s \in Session /\ Agrees(s)
    BY SessionAgrees, SessionOfType DEF OneInv, TypeInv, TypeOK
  <2>3. runStatus' = "RUNNING" /\ UNCHANGED <<ticket, cp, refused>> /\ pc' = "approved_exec"
    BY <1>4, StatusTypes DEF BeginApprove
  <2>4. mem'.status = "RUNNING" /\ Agrees(mem)' /\ Row' = "RUNNING"
    BY <2>1, <2>2, <2>3, StatusTypes DEF Agrees, Session, Row
  <2>5. cache' = [cache EXCEPT ![r] = NoSession] /\ drv'.proc = r /\ drv'.cached
    BY <2>1 DEF Begin
  <2> QED
    BY <2>3, <2>4, <2>5, DriverBegins DEF FailedIsCheckpointed, WaitingHasTicket
<1>5. ASSUME NEW r \in Replicas, BeginReject(r) PROVE OneInv'
  <2>1. PICK s \in SessionOf(r) : /\ Begin(r, "reject", s.gated) /\ refused' = refused \cup {s.shown, s.gated}
                                  /\ mem' = [s EXCEPT !.shown = NoCall, !.gated = NoCall]
    BY <1>5 DEF BeginReject
  <2>2. s \in Session /\ Agrees(s) /\ s.status = Row
    BY SessionAgrees, SessionOfType DEF OneInv, TypeInv, TypeOK
  <2>3. ticket' = NoCall /\ UNCHANGED <<runStatus, cp>> /\ pc' \in {"rejected_status", "raise"}
    BY <1>5 DEF BeginReject
  <2>4. mem'.status = Row' /\ Agrees(mem)'
    BY <2>1, <2>2, <2>3 DEF Agrees, Session, Row
  <2>5. cache' = [cache EXCEPT ![r] = NoSession] /\ drv'.proc = r /\ drv'.cached
    BY <2>1 DEF Begin
  <2>6. FailedIsCheckpointed' /\ WaitingHasTicket'
    BY <2>1, <2>3 DEF OneInv, FailedIsCheckpointed, WaitingHasTicket
  <2> QED
    BY <2>3, <2>4, <2>5, <2>6, DriverBegins
<1>6. ASSUME NEW p \in Processes, Crash(p) PROVE OneInv'
  <2>1. UNCHANGED <<runStatus, ticket, cp, refused>> /\ \A r \in Replicas : cache'[r] \in {NoSession, cache[r]}
    BY <1>6 DEF Crash, store, observed
  <2>2. CacheCoherent'
    BY <2>1 DEF OneInv, CacheCoherent
  <2>3. pc' = "idle" \/ p = drv.proc \/ UNCHANGED <<pc, drv, mem>>
    BY <1>6 DEF Crash, control, work
  <2>4. CASE drv.proc = p
    BY <1>6, <2>1, <2>2, <2>4 DEF Crash, Reset, OneInv, DriverAgrees, FailedIsCheckpointed, WaitingHasTicket
  <2>5. CASE drv.proc # p
    <3>1. UNCHANGED <<pc, drv, mem>>
      BY <1>6, <2>5 DEF Crash, control, work
    <3>2. pc # "idle" => cache'[drv.proc] = NoSession
      BY <2>1 DEF OneInv, DriverAgrees
    <3>3. DriverAgrees'
      BY <2>1, <3>1, <3>2 DEF OneInv, DriverAgrees, Agrees, Row
    <3> QED
      BY <2>1, <2>2, <3>3 DEF OneInv, FailedIsCheckpointed, WaitingHasTicket
  <2> QED
    BY <2>4, <2>5
<1>7. CASE Restart
  BY <1>7, SaveStep, StatusTypes DEF Restart, Goto, OneProcess, observed
<1>8. CASE Queue
  BY <1>8, SaveStep, StatusTypes DEF Queue, Goto, observed
<1>9. CASE Model \/ Allow \/ HoldCheckpoint \/ DoneCheckpoint
  <2>1. PICK step, i : Capture(mem, step, i, TRUE)
    BY <1>9 DEF Model, Allow, HoldCheckpoint, DoneCheckpoint
  <2>2. UNCHANGED <<runStatus, ticket, cache, drv, refused>> /\ pc \notin {"idle", "fail_persist"}
        /\ pc' \in {"model", "exec", "return"}
    BY <1>9 DEF Model, Allow, HoldCheckpoint, DoneCheckpoint, Goto, observed
  <2> QED
    BY <2>1, <2>2, CheckpointStep
<1>10. CASE Exhausted \/ ModelCallsTools \/ ModelAnswers \/ ModelSaysNothing \/ ModelFails
            \/ Note \/ Deny \/ Hint \/ Execute \/ Result \/ ApprovedResult \/ RejectedResult
  <2>1. /\ UNCHANGED <<runStatus, ticket, cp, cache, drv, mem, refused>>
        /\ pc \notin {"idle", "fail_persist"}
    BY <1>10 DEF Exhausted, ModelCallsTools, ModelAnswers, ModelSaysNothing, ModelFails, Note,
       Deny, Hint, Execute, Result, ApprovedResult, RejectedResult, Goto, NextCall,
       store, work, observed
  <2>2. /\ pc' \in {"loop", "model", "note", "verdict", "exec", "result", "complete", "fail",
                    "approved_result", "approved_clear"}
        /\ pc' \in {"approved_result", "approved_clear"} => pc \in {"approved_exec", "approved_result"}
    BY <1>10 DEF Exhausted, ModelCallsTools, ModelAnswers, ModelSaysNothing, ModelFails, Note,
       Deny, Hint, Execute, Result, ApprovedResult, RejectedResult, Goto, NextCall
  <2> QED
    BY <2>1, <2>2, QuietWrites
<1>11. CASE Ask
  <2>1. /\ mem' = [mem EXCEPT !.gated = call, !.shown = call] /\ ticket' = call
        /\ UNCHANGED <<runStatus, cp, cache, drv, refused>> /\ pc = "verdict" /\ pc' = "hold_status"
    BY <1>11 DEF Ask, Goto
  <2>2. mem \in Session /\ call \in Calls /\ call # NoCall
    BY <2>1 DEF TypeInv, Shape, InHand, Calls
  <2>3. Agrees(mem)' /\ mem'.status = Row'
    BY <2>1, <2>2 DEF OneInv, DriverAgrees, Agrees, Row, Session
  <2>4. FailedIsCheckpointed' /\ WaitingHasTicket'
    BY <2>1, <2>2 DEF OneInv, FailedIsCheckpointed, WaitingHasTicket
  <2> QED
    BY <2>1, <2>2, <2>3, <2>4, DriverWrites DEF PCs
<1>12. CASE HoldStatus
  <2>1. CASE Persist(Target.wait_for_approval) /\ Goto("hold_checkpoint")
    BY <1>12, <2>1, SaveStep, StatusTypes DEF HoldStatus, Goto, observed, OneInv, DriverAgrees
  <2>2. CASE Goto("fail") /\ UNCHANGED <<runStatus, mem>>
    BY <1>12, <2>2, QuietWrites DEF HoldStatus, Goto, observed
  <2> QED
    BY <1>12, <2>1, <2>2 DEF HoldStatus
<1>13. CASE Complete
  <2>1. CASE Persist(Target.complete) /\ Goto("done_checkpoint")
    BY <1>13, <2>1, SaveStep, StatusTypes DEF Complete, Goto, observed
  <2>2. CASE Goto("fail") /\ UNCHANGED <<runStatus, mem>>
    BY <1>13, <2>2, QuietWrites DEF Complete, Goto, observed
  <2> QED
    BY <1>13, <2>1, <2>2 DEF Complete
<1>14. CASE Fail
  <2>0. mem \in Session
    BY <1>14 DEF Fail, TypeInv, Shape
  <2>1. /\ Capture([mem EXCEPT !.status = Target.fail], "failed", mem.latest.iteration, ok)
        /\ UNCHANGED <<runStatus, ticket, cache, drv, refused>> /\ pc = "fail" /\ pc' = "fail_persist"
    BY <1>14 DEF Fail, Goto, observed
  <2>2. /\ [mem EXCEPT !.status = Target.fail] \in Session
        /\ [mem EXCEPT !.status = Target.fail].status = "FAILED"
        /\ [mem EXCEPT !.status = Target.fail].shown = mem.shown
        /\ [mem EXCEPT !.status = Target.fail].gated = mem.gated
    BY <2>0, StatusUpdate, StatusTypes DEF Session
  <2>3. /\ mem'.latest = cp' /\ cp'.status = "FAILED" /\ mem'.attempts = cp'.attempts
        /\ mem'.status = "FAILED" /\ mem'.shown = mem.shown /\ mem'.gated = mem.gated
    BY <2>1, <2>2, Captured
  <2>4. Agrees(mem)'
    BY <2>1, <2>3 DEF OneInv, DriverAgrees, Agrees
  <2>5. FailedIsCheckpointed' /\ WaitingHasTicket'
    BY <2>1, <2>3 DEF OneInv, FailedIsCheckpointed, WaitingHasTicket
  <2> QED
    BY <2>1, <2>3, <2>4, <2>5, DriverWrites DEF PCs
<1>15. CASE FailPersist
  <2>1. mem.status = "FAILED" /\ cp.status = "FAILED"
    BY <1>15 DEF FailPersist, OneInv, DriverAgrees
  <2> QED
    BY <1>15, <2>1, SaveStep, StatusTypes DEF FailPersist, Goto, observed
<1>16. CASE ApprovedClear
  <2>1. /\ mem' = [mem EXCEPT !.shown = NoCall, !.gated = NoCall] /\ ticket' = NoCall
        /\ UNCHANGED <<runStatus, cp, cache, drv, refused>> /\ pc = "approved_clear" /\ pc' = "loop"
    BY <1>16 DEF ApprovedClear, Goto, observed
  <2>2. mem \in Session /\ mem.status = "RUNNING" /\ Row = "RUNNING"
    BY <2>1 DEF TypeInv, Shape, OneInv, DriverAgrees
  <2>3. Agrees(mem)' /\ mem'.status = Row'
    BY <2>1, <2>2 DEF OneInv, DriverAgrees, Agrees, Row, Session
  <2>4. FailedIsCheckpointed' /\ WaitingHasTicket'
    BY <2>1, <2>2 DEF OneInv, FailedIsCheckpointed, WaitingHasTicket, Row
  <2> QED
    BY <2>1, <2>3, <2>4, DriverWrites DEF PCs
<1>17. CASE RejectedStatus
  BY <1>17, SaveStep, StatusTypes DEF RejectedStatus, Goto, observed
<1>18. CASE Return \/ Raise
  BY <1>18, ReleaseStep DEF Return, Raise, store, observed
<1>19. CASE Restore \/ Retry
  BY <1>19 DEF Restore, Retry, OneInv, DriverAgrees
<1>20. CASE UNCHANGED vars
  <2>1. UNCHANGED <<runStatus, ticket, cp, cache, pc, drv, mem, refused>>
    BY <1>20 DEF vars, store, control, work, observed
  <2> QED
    BY <2>1 DEF OneInv, CacheCoherent, DriverAgrees, Agrees, Row, FailedIsCheckpointed, WaitingHasTicket
<1>21. \A w \in Workers : ~WorkerStep(w)
  BY DEF OneProcess
<1> QED
  BY <1>1, <1>2, <1>3, <1>4, <1>5, <1>6, <1>7, <1>8, <1>9, <1>10, <1>11, <1>12, <1>13, <1>14,
     <1>15, <1>16, <1>17, <1>18, <1>19, <1>20, <1>21 DEF Next, DriverStep

\* What makes the three properties hold in every state of a single process.
LEMMA OneAlways == ASSUME OneProcess PROVE Spec => []OneInv
<1>1. Init => TypeInv /\ OneInv
  BY TypeInit, OneInit
<1>2. TypeInv /\ OneInv /\ [Next]_vars => (TypeInv /\ OneInv)'
  BY TypeStep, OneStep
<1> QED
  BY <1>1, <1>2, PTL DEF Spec

\* No request of a single process acts on a stale status, ticket or attempt count,
\* whatever crashed before (web/session_registry.py).
THEOREM OneProcessIsCoherent == ASSUME OneProcess PROVE Spec => []CacheCoherent
<1>1. OneInv => CacheCoherent
  BY DEF OneInv
<1> QED
  BY <1>1, OneAlways, PTL

\* _mark_failed writes the checkpoint before the row, and no crash comes between so as to
\* leave a FAILED row that recovery cannot count.
THEOREM FailureIsCheckpointed == ASSUME OneProcess PROVE Spec => []FailedIsCheckpointed
<1>1. OneInv => FailedIsCheckpointed
  BY DEF OneInv
<1> QED
  BY <1>1, OneAlways, PTL

\* A run that waits for a human can be approved, however the holding was interrupted.
THEOREM WaitingCanBeApproved == ASSUME OneProcess PROVE Spec => []HeldHasTicket
<1>1. OneInv => HeldHasTicket
  BY DEF OneInv, WaitingHasTicket, HeldHasTicket
<1> QED
  BY <1>1, OneAlways, PTL

(***************************************************************************)
(* One serving process executes a call once, and a refused one never.  It  *)
(* takes more than fresh caches: __init__ finds the gated call by the      *)
(* tool's name (session.py:243), so a session object that was built again  *)
(* may gate a later call than the one on the ticket.  It never gates an    *)
(* earlier one while the run waits, and every call that was held or        *)
(* refused before is earlier than the ticket.                              *)
(***************************************************************************)

\* While the run waits, session objects gate the call on the ticket or a later one.
GateSound(g) ==
  /\ g = NoCall <=> ticket = NoCall
  /\ runStatus \in AwaitsHuman => g >= ticket
GatesSound ==
  /\ \A r \in Replicas : cache[r] # NoSession => GateSound(cache[r].gated)
  /\ pc # "idle" => GateSound(mem.gated)

\* A call that approve() would release has not been executed, and no later one released.
Unspent ==
  runStatus \in AwaitsHuman /\ ticket # NoCall =>
    /\ ticket \notin answered /\ executed[ticket] = 0
    /\ \A c \in Calls : c > ticket => granted[c] = 0

\* Up to its effect a call is not refused.  A new one is the last that was noted, and not
\* on the ticket; a held one is.  Only a call that was not held may have been executed
\* before approve() executes it.
BeforeEffect ==
  /\ pc \in {"verdict", "exec", "hold_status"} =>
       /\ executed[call] = 0 /\ granted[call] = 0 /\ call = noted /\ call \notin answered
  /\ pc \in {"verdict", "exec", "approved_exec", "hold_status"} => call \notin refused
  /\ pc = "approved_exec" =>
       granted[call] > 0 /\ executed[call] <= IF call \in asked THEN 0 ELSE 1
  /\ pc \in {"verdict", "exec", "result"} => call # ticket
  /\ pc = "hold_status" => call = ticket /\ mem.gated = ticket
  /\ pc \in {"rejected_status", "rejected_result"} => ticket = NoCall

\* Calls that were held, released, refused or answered have been noted; a ticket is for the
\* last one held, and later than the refused ones.
TicketIsLast ==
  /\ call <= noted /\ \A c \in asked \cup refused \cup answered : c <= noted
  /\ \A c \in Calls : c > noted => granted[c] = 0
  /\ ticket # NoCall => \A c \in asked : c <= ticket
  /\ ticket # NoCall => \A c \in refused : c < ticket

OnceInv == SingleExecution /\ GatesSound /\ Unspent /\ BeforeEffect /\ TicketIsLast

\* Nothing is noted, held or refused at the start.
LEMMA OnceInit == Init => OnceInv
BY DEF Init, OnceInv, SingleExecution, GatesSound, Unspent, BeforeEffect, TicketIsLast

\* While the run waits, a session that is built from the rows gates the call on the ticket
\* or a later one, since the call on the ticket has no answer.
LEMMA RebuiltGateSound ==
  ASSUME TypeInv, GrantInv, OnceInv, NEW s \in Rebuilt
  PROVE  GateSound(s.gated)
<1>1. PICK g \in IF ticket = NoCall THEN {NoCall} ELSE Gate(ticket) : s.gated = g
  BY DEF Rebuilt
<1>2. CASE ticket = NoCall
  BY <1>1, <1>2 DEF GateSound, NoCall
<1>3. CASE ticket # NoCall
  <2>1. ticket \in Calls /\ noted \in Nat /\ Calls = 1..MaxCalls /\ MaxCalls \in Nat
    BY <1>3, BoundsAssumption DEF TypeInv, TypeOK, Calls
  <2>2. g \in Calls
    BY <1>1, <1>3, <2>1 DEF Gate, Unanswered
  <2>3. ASSUME runStatus \in AwaitsHuman PROVE g >= ticket
    <3>1. ticket \in Unanswered(ticket)
      BY <1>3, <2>1, <2>3 DEF OnceInv, Unspent, GrantInv, GatesNoted, Unanswered
    <3> QED
      BY <1>1, <1>3, <3>1 DEF Gate
  <2> QED
    BY <1>1, <1>3, <2>1, <2>2, <2>3 DEF GateSound, NoCall
<1> QED
  BY <1>2, <1>3

\* So does the session that a request gets.
LEMMA SessionGateSound ==
  ASSUME TypeInv, GrantInv, OnceInv, NEW r \in Replicas, NEW s \in SessionOf(r)
  PROVE  GateSound(s.gated)
BY RebuiltGateSound DEF SessionOf, OnceInv, GatesSound

\* The steps of a drive that neither execute, hold, release, refuse nor note a call.
LEMMA OnceQuiet ==
  ASSUME TypeInv, GrantInv, OneInv, OnceInv, pc # "idle", pc' # "idle",
         UNCHANGED <<ticket, cache, noted, call, asked, granted, refused, executed>>,
         mem'.gated = mem.gated, runStatus' \in AwaitsHuman => runStatus' = runStatus,
         \/ answered' = answered
         \/ /\ answered' = answered \cup {call} /\ pc' # "exec"
            /\ pc \in {"verdict", "result", "approved_result", "rejected_result"},
         pc' \notin {"verdict", "approved_exec", "hold_status", "result", "rejected_status"},
         pc' = "exec" => pc = "verdict", pc' = "rejected_result" => pc = "rejected_status"
  PROVE  OnceInv'
<1>1. SingleExecution' /\ GatesSound'
  BY DEF OnceInv, SingleExecution, GatesSound, GateSound
<1>2. BeforeEffect'
  BY DEF OnceInv, BeforeEffect
<1>3. TicketIsLast'
  BY DEF OnceInv, TicketIsLast
<1>4. ASSUME runStatus' \in AwaitsHuman, ticket # NoCall PROVE ticket \notin answered'
  <2>1. ticket \notin answered /\ runStatus \in AwaitsHuman
    BY <1>4 DEF OnceInv, Unspent
  <2>2. pc # "approved_result"
    BY <2>1 DEF OneInv, DriverAgrees, Row, AwaitsHuman
  <2>3. pc \in {"verdict", "result"} => call # ticket
    BY DEF OnceInv, BeforeEffect
  <2>4. pc # "rejected_result"
    BY <1>4 DEF OnceInv, BeforeEffect
  <2> QED
    BY <2>1, <2>2, <2>3, <2>4
<1>5. Unspent'
  BY <1>4 DEF OnceInv, Unspent
<1> QED
  BY <1>1, <1>2, <1>3, <1>5 DEF OnceInv

\* Every step of the process, and its crash; RefusedNotExecuted with it.
LEMMA OnceStep ==
  ASSUME OneProcess, TypeInv, GrantInv, OneInv, OnceInv, [Next]_vars
  PROVE  OnceInv' /\ (\A c \in refused : executed'[c] = executed[c])
<1> DEFINE Left == \A c \in refused : executed'[c] = executed[c]
<1>0. /\ executed \in [Calls -> Nat] /\ granted \in [Calls -> Nat] /\ refused \subseteq Calls
      /\ asked \subseteq Calls /\ answered \subseteq Calls /\ noted \in Nat
      /\ call \in Calls \cup {0} /\ ticket \in Calls \cup {0}
      /\ Calls = 1..MaxCalls /\ MaxCalls \in Nat
      /\ cache \in [Replicas -> Session \cup {NoSession}]
      /\ (pc # "idle" => mem \in Session)
      /\ (pc \in {"verdict", "exec", "approved_exec", "hold_status"} => call \in Calls)
      /\ noted + batch <= MaxCalls /\ (pc = "note" => batch >= 1) /\ batch \in Nat
  BY BoundsAssumption DEF TypeInv, TypeOK, Shape, InHand, Calls, NoCall
<1>s. NoSession \notin Session
  BY StatusTypes DEF Session, NoSession
<1>w. "RUNNING" \notin AwaitsHuman
  BY DEF AwaitsHuman
<1> USE DEF NoCall
<1>1. ASSUME NEW r \in Replicas, Get(r) PROVE OnceInv' /\ Left
  <2>1. pc = "idle"
    BY <1>1, DrivenAlone DEF Get, OneInv, DriverAgrees
  <2>2. PICK s \in Rebuilt : cache' = [cache EXCEPT ![r] = s]
    BY <1>1 DEF Get
  <2>3. GateSound(s.gated)
    BY RebuiltGateSound
  <2>4. UNCHANGED <<runStatus, ticket, noted, answered, pc, call, mem, observed>>
    BY <1>1 DEF Get, store, control, work
  <2>5. UNCHANGED <<asked, granted, refused, executed>>
    BY <2>4 DEF observed
  <2>6. GatesSound'
    BY <1>0, <2>1, <2>2, <2>3, <2>4 DEF OnceInv, GatesSound, GateSound
  <2>7. SingleExecution' /\ Unspent' /\ BeforeEffect' /\ TicketIsLast'
    BY <2>4, <2>5 DEF OnceInv, SingleExecution, Unspent, BeforeEffect, TicketIsLast
  <2> QED
    BY <2>5, <2>6, <2>7 DEF OnceInv
<1>2. ASSUME NEW r \in Replicas, Evict(r) PROVE OnceInv' /\ Left
  BY <1>2 DEF Evict, OneProcess
<1>3. ASSUME NEW r \in Replicas, BeginChat(r) PROVE OnceInv' /\ Left
  <2>1. pc' \in {"restart", "queue", "loop"} /\ cache' = [cache EXCEPT ![r] = NoSession]
    BY <1>3 DEF BeginChat, Begin
  <2>2. GateSound(mem'.gated)
    BY <1>3, SessionGateSound DEF BeginChat
  <2>3. UNCHANGED <<runStatus, ticket, noted, answered, call, asked, granted, refused, executed>>
    BY <1>3 DEF BeginChat, store, observed
  <2>4. \A q \in Replicas : cache'[q] = NoSession
    BY <1>0, <2>1 DEF OneProcess
  <2>5. GatesSound'
    BY <2>2, <2>3, <2>4 DEF GatesSound, GateSound
  <2>6. SingleExecution' /\ Unspent' /\ BeforeEffect' /\ TicketIsLast'
    BY <2>1, <2>3 DEF OnceInv, SingleExecution, Unspent, BeforeEffect, TicketIsLast
  <2> QED
    BY <2>3, <2>5, <2>6 DEF OnceInv
<1>4. ASSUME NEW r \in Replicas, BeginApprove(r) PROVE OnceInv' /\ Left
  <2>1. PICK s \in SessionOf(r) :
          /\ cache' = [cache EXCEPT ![r] = NoSession]
          /\ s.gated # NoCall /\ s.status \in Allowed.resume
          /\ mem' = [s EXCEPT !.status = Target.resume] /\ call' = s.gated
          /\ granted' = [granted EXCEPT ![s.gated] = granted[s.gated] + 1]
    BY <1>4 DEF BeginApprove, Begin
  <2>2. /\ UNCHANGED <<ticket, noted, answered, asked, refused, executed>>
        /\ runStatus' = "RUNNING" /\ pc' = "approved_exec"
    BY <1>4, StatusTypes DEF BeginApprove
  <2>3. GateSound(s.gated) /\ s.gated <= noted
    BY SessionGateSound, SessionOfGate, <1>0 DEF GrantInv
  <2>4. s \in Session /\ s.status = Row
    BY <2>1, SessionAgrees, SessionOfType DEF OneInv, TypeInv, TypeOK
  <2>5. runStatus \in AwaitsHuman
    BY <2>1, <2>4 DEF Row, Allowed, AwaitsHuman
  <2>6. mem'.gated = s.gated /\ s.gated \in Calls
    BY <2>1, <2>4 DEF Session
  <2>7. \A q \in Replicas : cache'[q] = NoSession
    BY <1>0, <2>1 DEF OneProcess
  <2>8. ticket # NoCall /\ s.gated >= ticket /\ ticket \in Calls
    BY <1>0, <2>1, <2>3, <2>5 DEF GateSound
  <2>9. GatesSound'
    BY <1>w, <2>2, <2>3, <2>6, <2>7 DEF GatesSound, GateSound
  <2>10. SingleExecution' /\ TicketIsLast'
    BY <1>0, <2>1, <2>2, <2>3, <2>6 DEF OnceInv, SingleExecution, TicketIsLast
  <2>11. s.gated \notin refused
    BY <1>0, <2>6, <2>8 DEF OnceInv, TicketIsLast
  <2>12. executed[s.gated] <= IF s.gated \in asked THEN 0 ELSE 1
    <3>1. CASE s.gated = ticket
      BY <1>0, <2>5, <2>8, <3>1 DEF OnceInv, Unspent
    <3>2. CASE s.gated > ticket
      <4>1. granted[s.gated] = 0
        BY <2>5, <2>6, <2>8, <3>2 DEF OnceInv, Unspent
      <4>2. s.gated \notin asked
        BY <1>0, <2>6, <2>8, <3>2 DEF OnceInv, TicketIsLast
      <4> QED
        BY <2>6, <4>1, <4>2 DEF OnceInv, SingleExecution
    <3> QED
      BY <1>0, <2>6, <2>8, <3>1, <3>2
  <2>13. granted'[s.gated] > 0
    BY <1>0, <2>1, <2>6
  <2>14. BeforeEffect'
    BY <2>1, <2>2, <2>11, <2>12, <2>13 DEF BeforeEffect
  <2>15. Unspent'
    BY <1>w, <2>2 DEF Unspent
  <2> QED
    BY <2>2, <2>9, <2>10, <2>14, <2>15 DEF OnceInv
<1>5. ASSUME NEW r \in Replicas, BeginReject(r) PROVE OnceInv' /\ Left
  <2>1. PICK s \in SessionOf(r) :
          /\ cache' = [cache EXCEPT ![r] = NoSession]
          /\ s.gated # NoCall /\ s.shown # NoCall /\ refused' = refused \cup {s.shown, s.gated}
          /\ mem' = [s EXCEPT !.shown = NoCall, !.gated = NoCall] /\ call' = s.gated
    BY <1>5 DEF BeginReject, Begin
  <2>2. /\ UNCHANGED <<runStatus, noted, answered, asked, granted, executed>> /\ ticket' = NoCall
        /\ pc' \in {"rejected_status", "raise"}
    BY <1>5 DEF BeginReject
  <2>3. s \in Session /\ s.shown = ticket
    BY SessionAgrees, SessionOfType DEF OneInv, TypeInv, TypeOK, Agrees
  <2>4. ticket <= noted /\ s.gated <= noted /\ mem'.gated = NoCall
    BY <1>0, <2>1, <2>3, SessionOfGate DEF GrantInv, GatesNoted, Session
  <2>5. \A q \in Replicas : cache'[q] = NoSession
    BY <1>0, <2>1 DEF OneProcess
  <2>6. GatesSound' /\ Unspent' /\ BeforeEffect'
    BY <2>2, <2>4, <2>5 DEF GatesSound, GateSound, Unspent, BeforeEffect
  <2>7. SingleExecution' /\ TicketIsLast'
    BY <1>0, <2>1, <2>2, <2>3, <2>4 DEF OnceInv, SingleExecution, TicketIsLast
  <2> QED
    BY <2>2, <2>6, <2>7 DEF OnceInv
<1>6. ASSUME NEW p \in Processes, Crash(p) PROVE OnceInv' /\ Left
  <2>1. UNCHANGED <<runStatus, ticket, noted, answered, asked, granted, refused, executed>>
    BY <1>6 DEF Crash, store, observed
  <2>2. \A r \in Replicas : cache'[r] \in {NoSession, cache[r]}
    BY <1>6 DEF Crash
  <2>3. (pc' = "idle" /\ call' = 0) \/ UNCHANGED <<pc, mem, call>>
    BY <1>6 DEF Crash, Reset, control, work
  <2>4. GatesSound'
    BY <2>1, <2>2, <2>3 DEF OnceInv, GatesSound, GateSound
  <2>5. SingleExecution' /\ Unspent' /\ BeforeEffect' /\ TicketIsLast'
    BY <1>0, <2>1, <2>3 DEF OnceInv, SingleExecution, Unspent, BeforeEffect, TicketIsLast
  <2> QED
    BY <2>1, <2>4, <2>5 DEF OnceInv
<1>7. CASE Note
  <2>1. /\ noted' = noted + 1 /\ call' = noted + 1 /\ pc = "note" /\ pc' = "verdict"
        /\ UNCHANGED <<runStatus, ticket, answered, cache, mem, asked, granted, refused, executed>>
    BY <1>7 DEF Note, Goto, observed
  <2>2. noted + 1 \in Calls
    BY <1>0, <2>1
  <2>3. executed[noted + 1] = 0 /\ ticket <= noted
    BY <1>0, <2>2 DEF GrantInv, Untouched, GatesNoted
  <2>4. /\ granted[noted + 1] = 0
        /\ noted + 1 \notin asked \cup refused \cup answered
    BY <1>0, <2>2 DEF OnceInv, TicketIsLast
  <2>5. BeforeEffect'
    BY <1>0, <2>1, <2>2, <2>3, <2>4 DEF BeforeEffect
  <2>6. TicketIsLast'
    BY <1>0, <2>1 DEF OnceInv, TicketIsLast
  <2>7. SingleExecution' /\ GatesSound' /\ Unspent'
    BY <2>1 DEF OnceInv, SingleExecution, GatesSound, GateSound, Unspent
  <2> QED
    BY <2>1, <2>5, <2>6, <2>7 DEF OnceInv
<1>8. CASE Ask
  <2>1. /\ mem' = [mem EXCEPT !.gated = call, !.shown = call] /\ ticket' = call
        /\ pc = "verdict" /\ pc' = "hold_status" /\ asked' = asked \cup {call}
        /\ UNCHANGED <<runStatus, noted, answered, cache, call, granted, refused, executed>>
    BY <1>8 DEF Ask, Goto
  <2>2. mem'.gated = call /\ call \in Calls
    BY <1>0, <2>1 DEF Session
  <2>3. \A r \in Replicas : cache[r] = NoSession
    BY <2>1, DrivenAlone
  <2>4. /\ executed[call] = 0 /\ granted[call] = 0 /\ call = noted
        /\ call \notin answered /\ call \notin refused
    BY <2>1 DEF OnceInv, BeforeEffect
  <2>5. BeforeEffect'
    BY <2>1, <2>2, <2>4 DEF BeforeEffect
  <2>6. TicketIsLast'
    BY <1>0, <2>1, <2>2, <2>4 DEF OnceInv, TicketIsLast
  <2>7. Unspent'
    BY <1>0, <2>1, <2>2, <2>4 DEF OnceInv, TicketIsLast, Unspent
  <2>8. SingleExecution'
    BY <1>0, <2>1, <2>2, <2>4 DEF OnceInv, SingleExecution
  <2>9. GatesSound'
    BY <1>0, <2>1, <2>2, <2>3 DEF GatesSound, GateSound
  <2> QED
    BY <2>1, <2>5, <2>6, <2>7, <2>8, <2>9 DEF OnceInv
<1>9. CASE Execute
  <2>1. /\ executed' = [executed EXCEPT ![call] = executed[call] + 1]
        /\ pc \in {"exec", "approved_exec"}
        /\ pc' = IF pc = "exec" THEN "result" ELSE "approved_result"
        /\ UNCHANGED <<runStatus, ticket, noted, answered, cache, mem, call, asked, granted, refused>>
    BY <1>9 DEF Execute, Goto, store, work
  <2>2. call \in Calls /\ call \notin refused
    BY <1>0, <2>1 DEF OnceInv, BeforeEffect
  <2>3. /\ pc = "exec" => executed[call] = 0 /\ call # ticket
        /\ pc = "approved_exec" =>
             granted[call] > 0 /\ executed[call] <= IF call \in asked THEN 0 ELSE 1
    BY DEF OnceInv, BeforeEffect
  <2>4. executed'[call] <= IF call \in asked \/ granted[call] = 0 THEN 1 ELSE 2
    BY <1>0, <2>1, <2>2, <2>3
  <2>5. SingleExecution'
    BY <1>0, <2>1, <2>2, <2>4 DEF OnceInv, SingleExecution
  <2>6. Unspent'
    <3>1. CASE pc = "exec"
      BY <1>0, <2>1, <2>3, <3>1 DEF OnceInv, Unspent
    <3>2. CASE pc = "approved_exec"
      BY <2>1, <3>2 DEF OneInv, DriverAgrees, Row, Unspent, AwaitsHuman
    <3> QED
      BY <2>1, <3>1, <3>2
  <2>7. BeforeEffect'
    BY <2>1, <2>3 DEF BeforeEffect
  <2>8. GatesSound' /\ TicketIsLast'
    BY <2>1 DEF OnceInv, GatesSound, GateSound, TicketIsLast
  <2>9. Left
    BY <1>0, <2>1, <2>2
  <2> QED
    BY <2>5, <2>6, <2>7, <2>8, <2>9 DEF OnceInv
<1>10. CASE HoldStatus
  <2>1. /\ pc = "hold_status" /\ pc' \in {"hold_checkpoint", "fail"}
        /\ UNCHANGED <<ticket, noted, answered, cache, call, asked, granted, refused, executed>>
    BY <1>10 DEF HoldStatus, Goto, observed
  <2>2. mem'.gated = mem.gated
    BY <1>0, <1>10 DEF HoldStatus, Persist, Session
  <2>3. /\ executed[ticket] = 0 /\ ticket \notin answered /\ ticket = noted
        /\ mem.gated = ticket
    BY <2>1 DEF OnceInv, BeforeEffect
  <2>4. Unspent'
    BY <1>0, <2>1, <2>3 DEF OnceInv, TicketIsLast, Unspent
  <2>5. GatesSound'
    BY <1>0, <2>1, <2>2, <2>3, DrivenAlone DEF GatesSound, GateSound
  <2>6. SingleExecution' /\ BeforeEffect' /\ TicketIsLast'
    BY <2>1 DEF OnceInv, SingleExecution, BeforeEffect, TicketIsLast
  <2> QED
    BY <2>1, <2>4, <2>5, <2>6 DEF OnceInv
<1>11. CASE ApprovedClear
  <2>1. /\ mem' = [mem EXCEPT !.shown = NoCall, !.gated = NoCall] /\ ticket' = NoCall
        /\ pc = "approved_clear" /\ pc' = "loop"
        /\ UNCHANGED <<runStatus, noted, answered, cache, call, asked, granted, refused, executed>>
    BY <1>11 DEF ApprovedClear, Goto, observed
  <2>2. mem'.gated = NoCall
    BY <1>0, <2>1 DEF Session
  <2>3. \A r \in Replicas : cache[r] = NoSession
    BY <2>1, DrivenAlone
  <2>4. GatesSound'
    BY <2>1, <2>2, <2>3 DEF GatesSound, GateSound
  <2>5. SingleExecution' /\ Unspent' /\ BeforeEffect' /\ TicketIsLast'
    BY <2>1 DEF OnceInv, SingleExecution, Unspent, BeforeEffect, TicketIsLast
  <2> QED
    BY <2>1, <2>4, <2>5 DEF OnceInv
<1>12. CASE Return \/ Raise
  <2>1. /\ cache' = [cache EXCEPT ![drv.proc] = mem] /\ pc' = "idle" /\ pc # "idle" /\ call' = 0
        /\ UNCHANGED <<runStatus, ticket, noted, answered, asked, granted, refused, executed>>
    BY <1>12 DEF Return, Raise, Release, Reset, OneInv, DriverAgrees, store, observed
  <2>2. \A r \in Replicas : cache'[r] = mem
    BY <1>0, <2>1, DrivenAlone
  <2>3. GatesSound'
    BY <2>1, <2>2 DEF OnceInv, GatesSound, GateSound
  <2>4. SingleExecution' /\ Unspent' /\ BeforeEffect' /\ TicketIsLast'
    BY <1>0, <2>1 DEF OnceInv, SingleExecution, Unspent, BeforeEffect, TicketIsLast
  <2> QED
    BY <2>1, <2>3, <2>4 DEF OnceInv
<1>13. CASE Exhausted \/ ModelCallsTools \/ ModelAnswers \/ ModelSaysNothing \/ ModelFails \/ Deny
  <2>1. /\ UNCHANGED <<runStatus, ticket, answered, cache, mem, noted, call, asked, granted, refused, executed>>
        /\ pc # "idle" /\ pc' \in {"loop", "fail", "note", "complete"}
    BY <1>13 DEF Exhausted, ModelCallsTools, ModelAnswers, ModelSaysNothing, ModelFails, Deny,
       Goto, store, observed
  <2> QED
    BY <2>1, OnceQuiet
<1>14. CASE Hint \/ Result \/ ApprovedResult \/ RejectedResult
  <2>1. /\ UNCHANGED <<runStatus, ticket, cache, mem, noted, call, asked, granted, refused, executed>>
        /\ answered' = answered \cup {call} /\ pc' \in {"loop", "note", "approved_clear"}
        /\ pc \in {"verdict", "result", "approved_result", "rejected_result"}
    BY <1>14 DEF Hint, Result, ApprovedResult, RejectedResult, NextCall, Goto, work, observed
  <2> QED
    BY <2>1, OnceQuiet
<1>15. CASE Model \/ Allow \/ HoldCheckpoint \/ DoneCheckpoint \/ Fail
  <2>1. /\ UNCHANGED <<runStatus, ticket, answered, cache, noted, call, asked, granted, refused, executed>>
        /\ pc # "idle" /\ pc' \in {"model", "exec", "return", "fail_persist"}
        /\ pc' = "exec" => pc = "verdict"
    BY <1>15 DEF Model, Allow, HoldCheckpoint, DoneCheckpoint, Fail, Goto, observed
  <2>2. mem'.gated = mem.gated
    BY <1>0, <1>15, <2>1 DEF Model, Allow, HoldCheckpoint, DoneCheckpoint, Fail, Capture, Session
  <2> QED
    BY <2>1, <2>2, OnceQuiet
<1>16. CASE Restart \/ Queue \/ Complete \/ FailPersist \/ RejectedStatus
  <2>1. /\ UNCHANGED <<ticket, answered, cache, noted, call, asked, granted, refused, executed>>
        /\ pc # "idle"
        /\ pc' \in {"queue", "loop", "done_checkpoint", "fail", "raise", "rejected_result"}
        /\ pc' = "rejected_result" => pc = "rejected_status"
    BY <1>16 DEF Restart, Queue, Complete, FailPersist, RejectedStatus, Goto, observed
  <2>2. mem'.gated = mem.gated
    BY <1>0, <1>16, <2>1 DEF Restart, Queue, Complete, FailPersist, RejectedStatus, Persist, Session
  <2>3. pc = "fail_persist" => mem.status = "FAILED"
    BY DEF OneInv, DriverAgrees
  <2>4. runStatus' \in AwaitsHuman => runStatus' = runStatus
    BY <1>16, <2>3 DEF Restart, Queue, Complete, FailPersist, RejectedStatus, Persist, Target, AwaitsHuman
  <2> QED
    BY <2>1, <2>2, <2>4, OnceQuiet
<1>17. CASE Restore \/ Retry
  BY <1>17 DEF Restore, Retry, OneInv, DriverAgrees
<1>18. CASE UNCHANGED vars
  <2>1. UNCHANGED <<runStatus, ticket, noted, answered, cache, pc, mem, call, asked, granted, refused, executed>>
    BY <1>18 DEF vars, store, control, work, observed
  <2>2. GatesSound'
    BY <2>1 DEF OnceInv, GatesSound, GateSound
  <2>3. SingleExecution' /\ Unspent' /\ BeforeEffect' /\ TicketIsLast'
    BY <2>1 DEF OnceInv, SingleExecution, Unspent, BeforeEffect, TicketIsLast
  <2> QED
    BY <2>1, <2>2, <2>3 DEF OnceInv
<1>19. \A w \in Workers : ~WorkerStep(w)
  BY DEF OneProcess
<1> QED
  BY <1>1, <1>2, <1>3, <1>4, <1>5, <1>6, <1>7, <1>8, <1>9, <1>10, <1>11, <1>12, <1>13, <1>14,
     <1>15, <1>16, <1>17, <1>18, <1>19 DEF Next, DriverStep

\* What the two theorems below have in common.
LEMMA OnceAlways ==
  ASSUME OneProcess
  PROVE  Spec => [](TypeInv /\ GrantInv /\ OneInv /\ OnceInv)
<1>1. Init => TypeInv /\ GrantInv /\ OneInv /\ OnceInv
  BY TypeInit, GrantInit, OneInit, OnceInit
<1>2. TypeInv /\ GrantInv /\ OneInv /\ OnceInv /\ [Next]_vars
        => (TypeInv /\ GrantInv /\ OneInv /\ OnceInv)'
  BY TypeStep, GrantStep, OneStep, OnceStep
<1> QED
  BY <1>1, <1>2, PTL DEF Spec

\* In one serving process no call that was held is executed twice, nor one that approve()
\* never released, whatever crashes between an effect and what is stored of it
\* (session.py:393-405); a call that a rebuilt session took for the held one, twice at most.
THEOREM ExecutedOnce == ASSUME OneProcess PROVE Spec => []SingleExecution
<1>1. OnceInv => SingleExecution
  BY DEF OnceInv
<1> QED
  BY <1>1, OnceAlways, PTL

\* In one serving process neither the call that a human saw when refusing nor the one that
\* was answered as refused is executed afterwards (session.py:407-421).
THEOREM RefusedStaysRefused == ASSUME OneProcess PROVE Spec => RefusedNotExecuted
<1>1. TypeInv /\ GrantInv /\ OneInv /\ OnceInv /\ [Next]_vars
        => [\A c \in refused : executed'[c] = executed[c]]_vars
  BY OnceStep
<1> QED
  BY <1>1, OnceAlways, PTL DEF Spec, RefusedNotExecuted

(***************************************************************************)
(* One serving process implements RunLifecycle: every save of the status   *)
(* is a method of the status machine, or one of its pairs.                 *)
(***************************************************************************)

\* What was checked before the row is saved still holds when it is saved.
PermitInv ==
  /\ pc = "fail_persist" => Row \in Allowed.fail
  /\ pc = "rejected_status" => Row \in Allowed.resume

\* What every step does to the stored status, in the words of RunLifecycle.
Lawful == Row' = Row \/ Lifecycle!Next

\* The initial row shows PENDING.
LEMMA LifecycleInit == Init => Lifecycle!Init /\ PermitInv
BY DEF Init, Lifecycle!Init, Row, PermitInv

\* A step that does not save the status.
LEMMA Unsaved ==
  ASSUME PermitInv, runStatus' = runStatus,
         pc' = "fail_persist" => pc = "fail_persist" \/ Row \in Allowed.fail,
         pc' = "rejected_status" => pc = "rejected_status" \/ Row \in Allowed.resume
  PROVE  PermitInv' /\ Lawful
BY DEF PermitInv, Lawful, Row

\* Both modules have the status machine of AgentRun.
LEMMA SameMachine == Lifecycle!Allowed = Allowed /\ Lifecycle!Target = Target
BY DEF Lifecycle!Allowed, Lifecycle!Target, Lifecycle!Terminal, Lifecycle!AwaitsHuman,
       Lifecycle!RunStatus, Allowed, Target, Terminal, AwaitsHuman, RunStatus

\* A step that saves the status s.
LEMMA Saved ==
  ASSUME NEW s, s # "NONE", runStatus' = s, pc' \notin {"fail_persist", "rejected_status"},
         \/ Row \in Allowed.mark_queued /\ s = Target.start
         \/ Row \in Allowed.begin_completing /\ s = Target.complete
         \/ Row \in Allowed.wait_for_approval /\ s = Target.wait_for_approval
         \/ Row \in Allowed.resume /\ s = Target.resume
         \/ Row \in Allowed.fail /\ s = Target.fail
         \/ Row \in Allowed.restart /\ s = Target.restart
  PROVE  PermitInv' /\ Lawful
<1>1. Row' = s
  BY DEF Row
<1>2. Target.mark_queued \in Allowed.start /\ Target.begin_completing \in Allowed.complete
  BY DEF Target, Allowed
<1>3. Lifecycle!Next
  <2> USE <1>1, SameMachine DEF Lifecycle!Next
  <2>1. CASE Row \in Allowed.mark_queued /\ s = Target.start
    BY <1>2, <2>1 DEF Lifecycle!Open, Lifecycle!DoBoth
  <2>2. CASE Row \in Allowed.begin_completing /\ s = Target.complete
    BY <1>2, <2>2 DEF Lifecycle!Finish, Lifecycle!DoBoth
  <2>3. CASE Row \in Allowed.wait_for_approval /\ s = Target.wait_for_approval
    BY <2>3 DEF Lifecycle!Hold, Lifecycle!Do
  <2>4. CASE Row \in Allowed.resume /\ s = Target.resume
    BY <2>4 DEF Lifecycle!Decide, Lifecycle!Do
  <2>5. CASE Row \in Allowed.fail /\ s = Target.fail
    BY <2>5 DEF Lifecycle!GiveUp, Lifecycle!Do
  <2>6. CASE Row \in Allowed.restart /\ s = Target.restart
    BY <2>6 DEF Lifecycle!Reopen, Lifecycle!Do
  <2> QED
    BY <2>1, <2>2, <2>3, <2>4, <2>5, <2>6
<1> QED
  BY <1>3 DEF PermitInv, Lawful

\* Every step of a single process is a step of RunLifecycle, or none.
LEMMA LifecycleStep ==
  ASSUME OneProcess, TypeInv, OneInv, PermitInv, [Next]_vars
  PROVE  PermitInv' /\ Lawful
<1>0. /\ pc # "idle" => mem \in Session
      /\ pc \notin {"idle", "fail_persist"} => mem.status = Row
  BY DEF TypeInv, Shape, OneInv, DriverAgrees
<1>1. ASSUME NEW r \in Replicas, Get(r) \/ Evict(r) \/ BeginChat(r) PROVE PermitInv' /\ Lawful
  <2>1. runStatus' = runStatus /\ pc' \in {pc, "restart", "queue", "loop"}
    BY <1>1 DEF Get, Evict, BeginChat, store, control
  <2> QED
    BY <2>1, Unsaved
<1>2. ASSUME NEW r \in Replicas, BeginApprove(r) PROVE PermitInv' /\ Lawful
  <2>1. PICK s \in SessionOf(r) : s.status \in Allowed.resume
    BY <1>2 DEF BeginApprove
  <2>2. Row \in Allowed.resume
    BY <2>1, SessionAgrees DEF OneInv
  <2> QED
    BY <1>2, <2>2, Saved, StatusTypes DEF BeginApprove
<1>3. ASSUME NEW r \in Replicas, BeginReject(r) PROVE PermitInv' /\ Lawful
  <2>1. PICK s \in SessionOf(r) : pc' = IF s.status \in Allowed.resume THEN "rejected_status" ELSE "raise"
    BY <1>3 DEF BeginReject
  <2>2. s.status = Row
    BY SessionAgrees DEF OneInv
  <2>3. runStatus' = runStatus
    BY <1>3 DEF BeginReject
  <2> QED
    BY <2>1, <2>2, <2>3, Unsaved
<1>4. ASSUME NEW p \in Processes, Crash(p) PROVE PermitInv' /\ Lawful
  <2>1. runStatus' = runStatus /\ pc' \in {pc, "idle"}
    BY <1>4 DEF Crash, Reset, store, control
  <2> QED
    BY <2>1, Unsaved
<1>5. CASE Restart
  BY <1>0, <1>5, Saved, StatusTypes DEF Restart, Persist, Goto
<1>6. CASE Queue
  BY <1>0, <1>6, Saved, StatusTypes DEF Queue, Persist, Goto
<1>7. CASE HoldStatus
  <2>1. CASE mem.status \in Allowed.wait_for_approval
    BY <1>0, <1>7, <2>1, Saved, StatusTypes DEF HoldStatus, Persist, Goto
  <2>2. CASE mem.status \notin Allowed.wait_for_approval
    BY <1>7, <2>2, Unsaved DEF HoldStatus, Goto
  <2> QED
    BY <2>1, <2>2
<1>8. CASE Complete
  <2>1. CASE ok /\ mem.status \in Allowed.begin_completing
    BY <1>0, <1>8, <2>1, Saved, StatusTypes DEF Complete, Persist, Goto
  <2>2. CASE ~(ok /\ mem.status \in Allowed.begin_completing)
    BY <1>8, <2>2, Unsaved DEF Complete, Goto
  <2> QED
    BY <2>1, <2>2
<1>9. CASE Fail
  <2>1. Row \in Allowed.fail
    BY <1>0, <1>9 DEF Fail
  <2> QED
    BY <1>9, <2>1, Unsaved DEF Fail, Goto
<1>10. CASE FailPersist
  <2>1. mem.status = "FAILED" /\ Row \in Allowed.fail
    BY <1>10 DEF FailPersist, OneInv, DriverAgrees, PermitInv
  <2> QED
    BY <1>10, <2>1, Saved, StatusTypes DEF FailPersist, Persist, Goto
<1>11. CASE RejectedStatus
  <2>1. Row \in Allowed.resume
    BY <1>11 DEF RejectedStatus, PermitInv
  <2> QED
    BY <1>11, <2>1, Saved, StatusTypes DEF RejectedStatus, Persist, Goto
<1>12. CASE Model \/ Exhausted \/ ModelCallsTools \/ ModelAnswers \/ ModelSaysNothing \/ ModelFails
            \/ Note \/ Deny \/ Ask \/ Hint \/ Allow \/ Execute \/ Result \/ HoldCheckpoint
            \/ DoneCheckpoint \/ ApprovedResult \/ ApprovedClear \/ RejectedResult
  <2>1. runStatus' = runStatus /\ pc' \notin {"fail_persist", "rejected_status"}
    BY <1>12 DEF Model, Exhausted, ModelCallsTools, ModelAnswers, ModelSaysNothing, ModelFails,
       Note, Deny, Ask, Hint, Allow, Execute, Result, HoldCheckpoint, DoneCheckpoint,
       ApprovedResult, ApprovedClear, RejectedResult, Goto, NextCall, store
  <2> QED
    BY <2>1, Unsaved
<1>13. CASE Return \/ Raise
  <2>1. runStatus' = runStatus /\ pc' = "idle"
    BY <1>13 DEF Return, Raise, Release, Reset, store
  <2> QED
    BY <2>1, Unsaved
<1>14. CASE Restore \/ Retry
  BY <1>14 DEF Restore, Retry, OneInv, DriverAgrees
<1>15. CASE UNCHANGED vars
  BY <1>15, Unsaved DEF vars, store, control
<1>16. \A w \in Workers : ~WorkerStep(w)
  BY DEF OneProcess
<1> QED
  BY <1>1, <1>2, <1>3, <1>4, <1>5, <1>6, <1>7, <1>8, <1>9, <1>10, <1>11, <1>12, <1>13, <1>14,
     <1>15, <1>16 DEF Next, DriverStep

\* In one serving process the stored status moves only as the methods of status.py allow,
\* whatever crashes between two saves: the session implements the lifecycle.
THEOREM SessionImplementsLifecycle == ASSUME OneProcess PROVE Spec => RefinesLifecycle
<1>1. Init => TypeInv /\ OneInv /\ PermitInv /\ Lifecycle!Init
  BY TypeInit, OneInit, LifecycleInit
<1>2. TypeInv /\ OneInv /\ PermitInv /\ [Next]_vars => (TypeInv /\ OneInv /\ PermitInv)'
  BY TypeStep, OneStep, LifecycleStep
<1>3. TypeInv /\ OneInv /\ PermitInv /\ [Next]_vars => [Lifecycle!Next]_Row
  BY LifecycleStep DEF Lawful
<1> QED
  BY <1>1, <1>2, <1>3, PTL DEF Spec, RefinesLifecycle, Lifecycle!Spec

=============================================================================
