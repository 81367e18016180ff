----------------------------- MODULE Embodiment -----------------------------
(***************************************************************************)
(* The safety supervisor and the reflex loop of a robot (embodiment/).     *)
(* Agents, on threads of their own, set a target, stop and reset; the loop *)
(* reads the device, lets the supervisor judge what it read, computes a    *)
(* torque and sends it.  Nothing here holds a lock.  One joint, whose      *)
(* positions are small integers and whose torques are directions.          *)
(***************************************************************************)
EXTENDS Integers, FiniteSets

CONSTANTS Loops,      \* the threads start() may have started
          Agents,     \* the threads that call the tools
          Poses,      \* positions the joint may be in, a set of integers
          Lo, Hi,     \* limits.position
          MaxStep,    \* limits.max_step
          Clamp,      \* is the mode "clamp"?
          MaxFaults,  \* bound on failures of the link, the device and the clock
          None        \* no target, no reading that is a number

VARIABLES
  stop,               \* _stop: is the supervisor latched?
  lastTarget,         \* _last_target
  lastPose,           \* _last_pose, kept only as long as it is the reference
  target,             \* ReflexLoop._target
  thread, stopping,   \* _thread (at most one), _stop_evt
  tick,               \* where a loop thread is in its step
  sample,             \* the position it has read in this step
  cmd,                \* the torque it is about to send
  agent,              \* the target that was allowed and is still to be assigned, or None
  pose, torque,       \* the device
  faults,
  flight,             \* the loops that had a torque in hand when the latch fell
  vetted              \* has a target been allowed since the last reset?

supervisor == <<stop, lastTarget, lastPose>>
loop       == <<thread, stopping>>
step       == <<tick, sample, cmd>>
device     == <<pose, torque>>
ghosts     == <<flight, vetted>>
vars       == <<supervisor, target, loop, step, agent, device, faults, ghosts>>

Targets == Poses \cup {None}
Torques == {-1, 0, 1}

RobotTypes ==
  /\ {stop, stopping, vetted} \subseteq BOOLEAN
  /\ {lastTarget, lastPose, target} \subseteq Targets
  /\ thread \subseteq Loops /\ Cardinality(thread) =< 1
  /\ tick \in [Loops -> {"off", "rest", "gate", "aim", "slack", "send", "dead"}]
  /\ sample \in [Loops -> Targets] /\ cmd \in [Loops -> Torques]
  /\ agent \in [Agents -> Targets]
  /\ pose \in Poses /\ torque \in Torques /\ faults \in 0 .. MaxFaults
  /\ flight \subseteq Loops

Init ==
  /\ stop = FALSE /\ lastTarget = None /\ lastPose = None /\ target = None
  /\ thread = {} /\ stopping = FALSE
  /\ tick = [l \in Loops |-> "off"]
  /\ sample = [l \in Loops |-> None] /\ cmd = [l \in Loops |-> 0]
  /\ agent = [a \in Agents |-> None]
  /\ pose \in Poses \cap Lo .. Hi /\ torque = 0
  /\ faults = 0 /\ flight = {} /\ vetted = TRUE

Goto(l, p) == tick' = [tick EXCEPT ![l] = p]
Fault == faults < MaxFaults /\ faults' = faults + 1

\* The loops that are about to send a torque.
Loaded == {l \in Loops : tick[l] = "send" /\ cmd[l] # 0}

\* _trip and estop: the first reason stays.
Latch(L) == stop' = TRUE /\ flight' = (IF stop THEN flight \ L ELSE Loaded \ L)

-----------------------------------------------------------------------------
\* The supervisor's judgement of a target.

Between(x, lo, hi) == IF x < lo THEN lo ELSE IF x > hi THEN hi ELSE x

\* The last target, or the last pose observed before there was one.
Reference == IF lastTarget # None THEN lastTarget ELSE lastPose

WithinStep(x) == Reference = None \/ x - Reference \in -MaxStep .. MaxStep

\* What submit lets through for the position x, None if it refuses.
Allowed(x) ==
  IF Clamp THEN LET y == Between(x, Lo, Hi)
                IN IF WithinStep(y) THEN y
                   ELSE Between(y, Reference - MaxStep, Reference + MaxStep)
  ELSE IF x \in Lo .. Hi /\ WithinStep(x) THEN x ELSE None

\* robot.move: submit; the rate window or a repeated request id may refuse as well.
Move(a) ==
  /\ agent[a] = None /\ ~stop
  /\ \E x \in Poses :
       /\ Allowed(x) # None
       /\ lastTarget' = Allowed(x) /\ agent' = [agent EXCEPT ![a] = Allowed(x)]
  /\ lastPose' = None /\ vetted' = TRUE
  /\ UNCHANGED <<stop, target, loop, step, device, faults, flight>>

\* set_target: the verdict arrives at the loop.
Assign(a) ==
  /\ agent[a] # None /\ target' = agent[a] /\ agent' = [agent EXCEPT ![a] = None]
  /\ UNCHANGED <<supervisor, loop, step, device, faults, ghosts>>

\* hold: its IDLE command is judged and goes nowhere.
Hold(a) ==
  /\ agent[a] = None /\ target' = None
  /\ UNCHANGED <<supervisor, loop, step, agent, device, faults, ghosts>>

\* robot.stop
Estop(a) ==
  /\ agent[a] = None /\ Latch({})
  /\ UNCHANGED <<lastTarget, lastPose, target, loop, step, agent, device, faults, vetted>>

\* robot.reset: the latch, and nothing else.
Reset(a) ==
  /\ agent[a] = None /\ stop /\ stop' = FALSE /\ flight' = {} /\ vetted' = FALSE
  /\ UNCHANGED <<lastTarget, lastPose, target, loop, step, agent, device, faults>>

-----------------------------------------------------------------------------
\* One step of the reflex loop.

Rested(l) ==
  /\ Goto(l, "rest")
  /\ sample' = [sample EXCEPT ![l] = None] /\ cmd' = [cmd EXCEPT ![l] = 0]

\* safe_state: a write that is lost is not noticed.
Safe == \/ torque' = 0 /\ UNCHANGED faults
        \/ Fault /\ UNCHANGED torque

\* read_state and observe.  A position out of the limits latches, as do a fault the
\* device reports, a lost connection and a state that is too old.
Look(l) ==
  /\ tick[l] = "rest" /\ ~stopping /\ Goto(l, "gate")
  /\ \/ /\ sample' = [sample EXCEPT ![l] = pose]
        /\ lastPose' = IF lastTarget = None THEN pose ELSE None
        /\ \/ pose \notin Lo .. Hi /\ Latch({}) /\ UNCHANGED faults
           \/ pose \in Lo .. Hi /\ UNCHANGED <<stop, flight, faults>>
           \/ pose \in Lo .. Hi /\ Latch({}) /\ Fault
     \/ Fault /\ UNCHANGED <<sample, lastPose, stop, flight>>  \* a reading that is not a number
  /\ UNCHANGED <<lastTarget, target, loop, cmd, agent, device, vetted>>

\* read_state raises: estop, safe_state.
LookFails(l) ==
  /\ tick[l] = "rest" /\ ~stopping /\ Rested(l)
  /\ Latch({l}) /\ Fault /\ torque' = 0
  /\ UNCHANGED <<lastTarget, lastPose, target, loop, agent, pose, vetted>>

\* Fault variant: a latched loop leaves the device as it is.
HaltIdly(l) ==
  /\ tick[l] = "gate" /\ stop /\ Rested(l)
  /\ UNCHANGED <<supervisor, target, loop, agent, device, faults, ghosts>>

\* `if stopped`: the safe state, and no command.
Halt(l) ==
  /\ tick[l] = "gate" /\ stop /\ Rested(l) /\ Safe
  /\ UNCHANGED <<supervisor, target, loop, agent, pose, ghosts>>

\* _command looks whether there is a target ...
Pass(l) ==
  /\ tick[l] = "gate" /\ ~stop /\ Goto(l, IF target = None THEN "slack" ELSE "aim")
  /\ UNCHANGED <<supervisor, target, loop, sample, cmd, agent, device, faults, ghosts>>

Toward(x, y) == IF x < y THEN 1 ELSE IF x > y THEN -1 ELSE 0

Ready(l, u) == Goto(l, "send") /\ cmd' = [cmd EXCEPT ![l] = u] /\ UNCHANGED sample

\* Fault variant: the command is not submitted again.
AimUnjudged(l) ==
  /\ tick[l] = "aim" /\ target # None
  /\ IF sample[l] = None THEN Rested(l)
     ELSE Ready(l, Toward(sample[l], target))
  /\ UNCHANGED <<supervisor, target, loop, agent, device, faults, ghosts>>

\* ... and reads it once more; submit looks at the latch once more.
Aim(l) ==
  /\ tick[l] = "aim" /\ target # None
  /\ IF stop \/ sample[l] = None THEN Rested(l)
     ELSE Ready(l, Toward(sample[l], target))
  /\ UNCHANGED <<supervisor, target, loop, agent, device, faults, ghosts>>

\* A hold came in between: zip(None) raises, and nothing catches it in _run.
Collapse(l) ==
  /\ tick[l] = "aim" /\ target = None
  /\ tick' = [tick EXCEPT ![l] = "dead"] /\ sample' = [sample EXCEPT ![l] = None]
  /\ UNCHANGED <<supervisor, target, loop, cmd, agent, device, faults, ghosts>>

\* No target: IDLE is submitted and sent.
Slack(l) ==
  /\ tick[l] = "slack"
  /\ IF stop THEN Rested(l) ELSE Ready(l, 0)
  /\ UNCHANGED <<supervisor, target, loop, agent, device, faults, ghosts>>

Send(l) ==
  /\ tick[l] = "send" /\ Rested(l)
  /\ torque' = cmd[l] /\ flight' = flight \ {l}
  /\ UNCHANGED <<supervisor, target, loop, agent, pose, faults, vetted>>

\* send raises: estop, safe_state.
SendFails(l) ==
  /\ tick[l] = "send" /\ Rested(l)
  /\ Latch({l}) /\ Fault /\ torque' = 0
  /\ UNCHANGED <<lastTarget, lastPose, target, loop, agent, pose, vetted>>

Quit(l) ==
  /\ tick[l] = "rest" /\ stopping /\ Goto(l, "off")
  /\ UNCHANGED <<supervisor, target, loop, sample, cmd, agent, device, faults, ghosts>>

Tick(l) == Look(l) \/ LookFails(l) \/ Halt(l) \/ Pass(l) \/ Aim(l) \/ Slack(l)
             \/ Send(l) \/ SendFails(l) \/ Quit(l) \/ Collapse(l)

-----------------------------------------------------------------------------
\* start and stop of the loop, and the robot.

StartLoop(l) ==
  /\ thread = {} /\ tick[l] = "off" /\ thread' = {l} /\ stopping' = FALSE /\ Goto(l, "rest")
  /\ \A k \in Loops : stopping => tick[k] \in {"off", "dead"}   \* the join has returned
  /\ UNCHANGED <<supervisor, target, sample, cmd, agent, device, faults, ghosts>>

\* The join timed out: the event is cleared before the old thread has seen it.
StartBeside(l) ==
  /\ thread = {} /\ tick[l] = "off" /\ thread' = {l} /\ stopping' = FALSE /\ Goto(l, "rest")
  /\ stopping /\ Fault
  /\ UNCHANGED <<supervisor, target, sample, cmd, agent, device, ghosts>>

StopLoop ==
  /\ thread # {} /\ thread' = {} /\ stopping' = TRUE
  /\ UNCHANGED <<supervisor, target, step, agent, device, faults, ghosts>>

\* The joint follows its torque; without one it sags, or is pushed.
Drift ==
  /\ pose' \in Poses \cap (IF torque = 0 THEN {pose - 1, pose + 1} ELSE {pose + torque})
  /\ UNCHANGED <<supervisor, target, loop, step, agent, torque, faults, ghosts>>

Next ==
  \/ \E a \in Agents : Move(a) \/ Assign(a) \/ Hold(a) \/ Estop(a) \/ Reset(a)
  \/ \E l \in Loops : Tick(l) \/ StartLoop(l) \/ StartBeside(l)
  \/ StopLoop \/ Drift

\* A loop thread goes on.
Fairness == \A l \in Loops : WF_vars(Tick(l))
Spec == Init /\ [][Next]_vars /\ Fairness

-----------------------------------------------------------------------------
\* reflex.py:146-168, safety.py:117: a tick that passed the last look at the latch
\* may still send, but once, and no torque is let through after the stop, whichever
\* of the loop, an agent and the observer came first.
StopBinds == stop => Loaded \subseteq flight

\* reflex.py:146-151: under a latched stop the device loses its torque, unless the
\* latch is reset or the loop is stopped or has died.
Alive(l) == tick[l] \notin {"off", "dead"} /\ ~stopping
StopHolds == \A l \in Loops : stop /\ Alive(l) ~> torque = 0 \/ ~stop \/ ~Alive(l)

\* safety.py:14-15, 244: "a reset is not a resumption of motion".
ResetIsNoMotion == [][vetted \/ torque' \in {torque, 0}]_vars
=============================================================================
