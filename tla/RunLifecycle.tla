---------------------------- MODULE RunLifecycle ----------------------------
(***************************************************************************)
(* What the observers of a run are promised about its stored status: every *)
(* change is one method of AgentRun, or one of the three pairs of methods  *)
(* that the session calls without saving in between.  The detailed module  *)
(* AgentSession is shown to implement this in one serving process.         *)
(***************************************************************************)
EXTENDS AgentRun

VARIABLE status

Init == status = "PENDING"

\* One call of the method m, saved.
Do(m) == status \in Allowed[m] /\ status' = Target[m]

\* Two calls, the first one's target being where the second one starts.
DoBoth(m, n) ==
  /\ status \in Allowed[m] /\ Target[m] \in Allowed[n]
  /\ status' = Target[n]

Open     == DoBoth("mark_queued", "start")
Hold     == Do("wait_for_approval")
Decide   == Do("resume")
Finish   == DoBoth("begin_completing", "complete")
GiveUp   == Do("fail")
Reopen   == Do("restart")

Next == Open \/ Hold \/ Decide \/ Finish \/ GiveUp \/ Reopen

Spec == Init /\ [][Next]_status

=============================================================================
