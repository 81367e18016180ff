------------------------------ MODULE AgentRun ------------------------------
(***************************************************************************)
(* The status machine of one run (core/run/status.py).  A behaviour method *)
(* of AgentRun is a name; Allowed gives the statuses it may be called in   *)
(* and Target the status it leaves behind.  Calling a method in any other  *)
(* status raises IllegalStateTransition, which the users of this module    *)
(* model as the exception path of the caller.                              *)
(***************************************************************************)

RunStatus == {"PENDING", "QUEUED", "RUNNING", "SUSPENDING", "SUSPENDED",
              "WAITING_INTERACTION", "WAITING_APPROVAL", "COMPLETING",
              "COMPLETED", "FAILED", "CANCELLED", "TIMED_OUT"}

Terminal == {"COMPLETED", "FAILED", "CANCELLED", "TIMED_OUT"}

\* The statuses in which a human has to act before the run may go on.
AwaitsHuman == {"WAITING_APPROVAL", "WAITING_INTERACTION", "SUSPENDED"}

Allowed == [mark_queued          |-> {"PENDING"},
            start                |-> {"QUEUED"},
            request_suspend      |-> {"RUNNING"},
            suspend              |-> {"SUSPENDING"},
            resume               |-> AwaitsHuman,
            wait_for_interaction |-> {"RUNNING"},
            wait_for_approval    |-> {"RUNNING"},
            begin_completing     |-> {"RUNNING"},
            complete             |-> {"COMPLETING"},
            restart              |-> Terminal,
            fail                 |-> RunStatus \ Terminal,
            cancel               |-> RunStatus \ Terminal,
            timeout              |-> RunStatus \ Terminal]

Target == [mark_queued          |-> "QUEUED",
           start                |-> "RUNNING",
           request_suspend      |-> "SUSPENDING",
           suspend              |-> "SUSPENDED",
           resume               |-> "RUNNING",
           wait_for_interaction |-> "WAITING_INTERACTION",
           wait_for_approval    |-> "WAITING_APPROVAL",
           begin_completing     |-> "COMPLETING",
           complete             |-> "COMPLETED",
           restart              |-> "PENDING",
           fail                 |-> "FAILED",
           cancel               |-> "CANCELLED",
           timeout              |-> "TIMED_OUT"]

\* One method call moves a run from s to t.
Step(s, t) == \E m \in DOMAIN Allowed : s \in Allowed[m] /\ t = Target[m]

=============================================================================
