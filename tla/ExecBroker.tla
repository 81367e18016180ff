----------------------------- MODULE ExecBroker -----------------------------
(***************************************************************************)
(* The broker that runs commands (execution/broker.py): its list of        *)
(* processes, the cap that evicts the oldest, the time limit with its two  *)
(* signals, and shutdown, between threads that share one broker.  A thread *)
(* has one process at a time and execute waits for it, so a process is     *)
(* named after its thread.                                                 *)
(*                                                                         *)
(* The sandbox around it (execution/sandbox.py, agent.py) is a part of its *)
(* own: the tier of isolation that is resolved from the environment, the   *)
(* specification and what the host can do, and the copy a command runs in. *)
(***************************************************************************)
EXTENDS Integers, Sequences, FiniteSets, SequencesExt

CONSTANTS Users,         \* threads that execute commands
          MaxProcesses,  \* budget.max_processes
          MaxHeirs       \* commands that leave a descendant behind (bound)

VARIABLES
  active,  \* _active, the oldest first
  at,      \* in execute: "idle", "started", "waiting", "grace" (5 s), "killed"
  alive,   \* processes that run
  deaf,    \* those that ignore SIGTERM
  termed,  \* those that have got one
  heir,    \* a descendant has the pipe open
  heirs,   \* so far
  doomed   \* what shutdown is waiting for

broker == <<active, at, doomed>>
system == <<alive, deaf, termed, heir, heirs>>
execVars == <<broker, system>>

Init ==
  /\ active = <<>> /\ at = [u \in Users |-> "idle"]
  /\ alive = {} /\ deaf = {} /\ termed = {} /\ heir = {} /\ heirs = 0 /\ doomed = {}

-----------------------------------------------------------------------------
Goto(u, p) == at' = [at EXCEPT ![u] = p]

\* terminate() asks first whether the process still runs.
Signalled(us) == termed \cup (us \cap alive)

\* Popen.  A command that cannot be started changes nothing.
Execute(u, isDeaf) ==
  /\ at[u] = "idle" /\ Goto(u, "started") /\ alive' = alive \cup {u}
  /\ deaf' = IF isDeaf THEN deaf \cup {u} ELSE deaf
  /\ UNCHANGED <<active, doomed, termed, heir, heirs>>

\* The oldest goes when the cap is reached, be it one that has ended already.
Track(u) ==
  /\ at[u] = "started" /\ Goto(u, "waiting")
  /\ IF Cardinality(ToSet(active) \cap alive) >= MaxProcesses
     THEN /\ active' = Append(Tail(active), u)
          /\ termed' = Signalled({Head(active)})
     ELSE active' = Append(active, u) /\ UNCHANGED termed
  /\ UNCHANGED <<doomed, alive, deaf, heir, heirs>>

\* communicate() returns at the end of the pipe, not of the process alone.
Returned(u) ==
  /\ u \notin alive \cup heir /\ Goto(u, "idle")
  /\ active' = SelectSeq(active, LAMBDA p : p # u)   \* _untrack
  /\ doomed' = doomed \ {u} /\ termed' = termed \ {u} /\ deaf' = deaf \ {u}
  /\ UNCHANGED <<alive, heir, heirs>>

Return(u) == at[u] \in {"waiting", "grace", "killed"} /\ Returned(u)

TimeOut(u) ==
  /\ at[u] = "waiting" /\ Goto(u, "grace") /\ termed' = Signalled({u})
  /\ UNCHANGED <<active, doomed, alive, deaf, heir, heirs>>

\* Fault variant: the second communicate() is all there is.
KillNever(u) ==
  /\ at[u] = "grace" /\ Goto(u, "killed")
  /\ UNCHANGED <<active, doomed, system>>

\* kill(); the communicate() that follows has no time limit.
Kill(u) ==
  /\ at[u] = "grace" /\ Goto(u, "killed") /\ alive' = alive \ {u}
  /\ UNCHANGED <<active, doomed, deaf, termed, heir, heirs>>

-----------------------------------------------------------------------------
Shutdown ==
  /\ doomed = {} /\ active # <<>> /\ doomed' = ToSet(active)
  /\ termed' = Signalled(ToSet(active))
  /\ UNCHANGED <<active, at, alive, deaf, heir, heirs>>

ShutdownWaits(u) ==
  /\ u \in doomed \ alive /\ doomed' = doomed \ {u} /\ UNCHANGED <<active, at, system>>

ShutdownKills(u) ==
  /\ u \in doomed \cap alive /\ doomed' = doomed \ {u} /\ alive' = alive \ {u}
  /\ UNCHANGED <<active, at, deaf, termed, heir, heirs>>

\* The operating system.
Exit(u) ==
  /\ u \in alive /\ alive' = alive \ {u} /\ UNCHANGED <<broker, deaf, termed, heir, heirs>>

Fork(u) ==
  /\ u \in alive \ heir /\ heirs < MaxHeirs
  /\ heir' = heir \cup {u} /\ heirs' = heirs + 1 /\ UNCHANGED <<broker, alive, deaf, termed>>

HeirEnds(u) ==
  /\ u \in heir /\ heir' = heir \ {u} /\ UNCHANGED <<broker, alive, deaf, termed, heirs>>

Next ==
  \/ \E u \in Users :
       \/ \E isDeaf \in BOOLEAN : Execute(u, isDeaf)
       \/ Track(u) \/ Return(u) \/ TimeOut(u) \/ Kill(u)
       \/ ShutdownWaits(u) \/ ShutdownKills(u)
       \/ Exit(u) \/ Fork(u) \/ HeirEnds(u)
  \/ Shutdown

\* A thread that executes is scheduled and its timers fire.
Fairness == \A u \in Users : WF_execVars(Track(u) \/ Return(u) \/ TimeOut(u) \/ Kill(u))
Spec == Init /\ [][Next]_execVars /\ Fairness

-----------------------------------------------------------------------------
\* broker.py:9-10, "killed after its time, so that a command that loops does not keep
\* the thread": with a process that ignores SIGTERM, evictions by other threads and a
\* shutdown, execute returns, unless a descendant of the command has the pipe open.
ExecutionEnds == \A u \in Users : at[u] # "idle" ~> at[u] = "idle" \/ u \in heir

\* Without that exception, as the comment says it.
ExecuteReturns == \A u \in Users : at[u] # "idle" ~> at[u] = "idle"

\* Whatever the broker has forgotten is waited for by the thread that started it.
NoneForgotten == \A u \in alive : u \in ToSet(active) \/ at[u] # "idle"

\* broker.py:80, "the most processes that are active at the same time".
ProcessCap == Cardinality(alive) =< MaxProcesses

-----------------------------------------------------------------------------
(* The sandbox *)

VARIABLES
  declared,   \* WARDEN_SANDBOX_ISOLATION and WARDEN_SANDBOX_REQUIRE_KERNEL
  spec,       \* SandboxSpec, or None for the default one
  host,       \* is there a prefix to isolate with, and does it work?
  wavered,    \* (observed) a probe failed where another did not
  reported,   \* extra["sandbox_isolation"], or None
  tier,       \* the broker's, None before it is there, "refused" when there is none
  box,        \* what each thread has asked to run, and how far it is
  dirs,       \* the temporary directories there are, each of a thread
  spoilt      \* (observed) threads in whose directory a descendant went on writing

sandboxVars == <<declared, spec, host, wavered, reported, tier, box, dirs, spoilt>>

Isolations == {"auto", "kernel", "semantic"}
Idle == [at |-> "idle"]

InitSandbox ==
  /\ declared \in [isolation : Isolations \cup {"typo"}, require : BOOLEAN]
  /\ spec \in [isolation : Isolations, root : BOOLEAN, copy : BOOLEAN, net : BOOLEAN]
            \cup {[isolation |-> "default"]}
  /\ host \in {"bare", "denied", "able"} /\ wavered = FALSE
  /\ reported = "none" /\ tier = "none" /\ box = [u \in Users |-> Idle] /\ dirs = {} /\ spoilt = {}

\* The default reads the environment (augment_catalog).
Spec0 ==
  IF spec.isolation # "default" THEN spec
  ELSE [isolation |-> declared.isolation, root |-> TRUE, copy |-> TRUE, net |-> FALSE]

\* _probe_namespace fails as well when it is not answered in ten seconds.
_probe_namespace == IF host = "able" THEN BOOLEAN ELSE {FALSE}

\* detect_isolation_tier: without a prefix there is nothing to probe.
detect_isolation_tier(works) == IF host # "bare" /\ works THEN "kernel" ELSE "semantic"

\* "refused" stands for the exceptions.
isolation_tier_from_env(works) ==
  LET detected == detect_isolation_tier(works)
      demanded == declared.isolation = "kernel" \/ declared.require
  IN CASE declared.isolation = "typo" -> "refused"
       [] declared.isolation # "typo" /\ demanded -> IF detected = "kernel" THEN "kernel" ELSE "refused"
       [] ~demanded /\ declared.isolation = "semantic" -> "semantic"
       [] OTHER -> detected

resolve_isolation_tier(isolation, works) ==
  LET detected == detect_isolation_tier(works)
  IN CASE isolation = "auto" -> detected
       [] isolation = "kernel" -> IF detected = "kernel" THEN "kernel" ELSE "refused"
       [] isolation = "semantic" -> "semantic"

\* Each of the two halves probes for itself.
resolve_enforced_isolation(isolation, works, again) ==
  LET env == isolation_tier_from_env(works)
      own == resolve_isolation_tier(isolation, again)
  IN CASE env = "refused" -> "refused"
       [] env # "refused" /\ isolation = "auto" -> env
       [] OTHER -> IF own = "semantic" THEN env ELSE own

\* augment_catalog: what is reported is resolved before the broker resolves it anew.
augment_catalog ==
  /\ tier = "none"
  /\ \E p, q, r \in _probe_namespace :
       LET first == isolation_tier_from_env(p) IN
       /\ wavered' = ~(p = q /\ q = r)
       /\ tier' = IF first = "refused" THEN "refused"
                  ELSE resolve_enforced_isolation(Spec0.isolation, q, r)
       /\ reported' = IF tier' = "refused" THEN "none" ELSE first
  /\ UNCHANGED <<declared, spec, host, box, dirs, spoilt>>

Running == tier \in {"kernel", "semantic"}

\* A line cannot be split, has no words, or some; it may look as if it used the network; a
\* workspace may be asked for.
Commands == [line : {"bad", "blank", "words"}, net : BOOLEAN, input : {"none", "within", "outside"}]

\* The tool shell.run tells the model of a line it cannot use, without the broker.
shell_run(c) == c.line = "words"

\* execute: the network policy, then the root of the workspace.
Admitted(c) ==
  /\ Spec0.net \/ ~c.net
  /\ Spec0.copy => c.input = "none" \/ (Spec0.root /\ c.input = "within")

\* A refusal leaves no directory.
Enter(u) ==
  /\ Running /\ box[u].at = "idle"
  /\ \E c \in Commands :
       IF shell_run(c) /\ Admitted(c)
       THEN /\ box' = [box EXCEPT ![u] = [at |-> "copy", asked |-> c]]
            /\ dirs' = IF Spec0.copy THEN dirs \cup {u} ELSE dirs
       ELSE UNCHANGED <<box, dirs>>
  /\ UNCHANGED <<declared, spec, host, wavered, reported, tier, spoilt>>

\* _copy_tree_readonly, and the prefix.
Start(u) ==
  /\ box[u].at = "copy"
  /\ box' = [box EXCEPT ![u] = [at |-> "run", asked |-> @.asked, wrapped |-> tier = "kernel",
                               copied |-> Spec0.copy]]
  /\ UNCHANGED <<declared, spec, host, wavered, reported, tier, dirs, spoilt>>

\* It fails: the directory is not in the `try` yet and is left to the collector.
CopyFails(u) ==
  /\ box[u].at = "copy" /\ Spec0.copy /\ box[u].asked.input = "within"
  /\ box' = [box EXCEPT ![u] = [at |-> "dropped"]]
  /\ UNCHANGED <<declared, spec, host, wavered, reported, tier, dirs, spoilt>>

Collected(u) ==
  /\ box[u].at = "dropped" /\ box' = [box EXCEPT ![u] = Idle] /\ dirs' = dirs \ {u}
  /\ UNCHANGED <<declared, spec, host, wavered, reported, tier, spoilt>>

\* The broker's execute returned or raised: `finally`.  A descendant that still writes may
\* spoil the removal.
Cleanup(u) ==
  /\ box[u].at = "run" /\ box' = [box EXCEPT ![u] = Idle]
  /\ \/ dirs' = dirs \ {u} /\ UNCHANGED spoilt
     \/ u \in dirs /\ spoilt' = spoilt \cup {u} /\ UNCHANGED dirs
  /\ UNCHANGED <<declared, spec, host, wavered, reported, tier>>

Sandbox ==
  \/ augment_catalog
  \/ \E u \in Users : Enter(u) \/ Start(u) \/ CopyFails(u) \/ Collected(u) \/ Cleanup(u)

\* Nothing lowers what the operator, or the caller, demanded: the environment's word holds
\* for every specification, and the other way round (sandbox.py:257-326).
NeverWeaker ==
  /\ Running /\ (declared.isolation = "kernel" \/ declared.require \/ Spec0.isolation = "kernel")
       => tier = "kernel"
  /\ Running => declared.isolation # "typo"

\* What runs is wrapped as was resolved, does not look like the network unless it may, and
\* has its directory until it has ended; nobody else leaves one behind
\* (sandbox.py:329-360, 427-465).
RunsInItsBox ==
  \A u \in Users :
    /\ box[u].at = "run" =>
         /\ box[u].wrapped = (tier = "kernel") /\ (box[u].asked.net => Spec0.net)
         /\ (box[u].copied => u \in dirs /\ box[u].asked.input # "outside")
    /\ box[u].at = "idle" /\ u \notin spoilt => u \notin dirs

\* A kernel tier is not reported without one, if the probes agree (agent.py:464-480).
NotOverstated == ~wavered /\ reported = "kernel" => tier = "kernel"

\* (Refuted.)  agent.py:476, the tier is reported as it is.
ReportedAsIs == Running => reported = tier
=============================================================================
