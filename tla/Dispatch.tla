------------------------------ MODULE Dispatch ------------------------------
(***************************************************************************)
(* Several agents at work for one (multiagent/): a batch of tasks run by a *)
(* thread pool under one time limit, or one after the other (dispatch.py), *)
(* an agent that is a tool of its supervisor, with retries and a           *)
(* substitute (supervisor.py), and what the agents have as tools           *)
(* themselves (registry.py).                                               *)
(***************************************************************************)
EXTENDS Integers, Sequences, FiniteSets, SequencesExt

CONSTANTS Tasks,       \* of the batch: 1 .. their number
          Names,       \* that callers give them; two tasks may have the same
          MaxWorkers,
          Retries,     \* of a call of an agent as a tool
          Specs, Pure, \* tools, and those declared free of side effects
          Cards,       \* of the agents
          MemoryTools  \* that share_memory registers

VARIABLES
  name,     \* of each task
  job,      \* "queued", "running", "done", "failed", "cancelled"
  phase,    \* of run_parallel: "wait", "report", "returned"; of run_sequential: "chain",
            \* "returned", "raised"
  rest,     \* the tasks to be reported, those that wait() found done first
  cut,      \* those it did not
  order,    \* DispatchResult.order, the tasks behind the names
  outputs,  \* what is told under each name, and of which task
  tries,    \* runs of the sub-agent for one call of the tool
  handoff   \* its answer: "", "agent", "substitute", "degraded", "raised"

batch == <<name, job, phase, rest, cut, order, outputs>>
call == <<tries, handoff>>
dispatchVars == <<batch, call>>

Nothing == [told |-> "nothing", by |-> 0]
Ended == {"done", "failed"}

Init ==
  /\ name \in [Tasks -> Names] /\ job = [t \in Tasks |-> "queued"]
  /\ phase \in {"wait", "chain"} /\ rest = <<>> /\ cut = {} /\ order = <<>>
  /\ outputs = [n \in Names |-> Nothing]
  /\ tries = 0 /\ handoff = ""

-----------------------------------------------------------------------------
\* The pool takes the tasks in their order.
StartTask(t) ==
  /\ phase \notin {"chain", "raised"} /\ job[t] = "queued" /\ \A u \in 1 .. t - 1 : job[u] # "queued"
  /\ Cardinality({u \in Tasks : job[u] = "running"}) < MaxWorkers
  /\ job' = [job EXCEPT ![t] = "running"]
  /\ UNCHANGED <<name, phase, rest, cut, order, outputs, call>>

EndTask(t, how) ==
  /\ job[t] = "running" /\ how \in Ended /\ job' = [job EXCEPT ![t] = how]
  /\ UNCHANGED <<name, phase, rest, cut, order, outputs, call>>

\* What was done by then is reported first.
Before(t, u) == (u \in cut' /\ t \notin cut') \/ ((t \in cut' <=> u \in cut') /\ t < u)

\* wait() returns when all are done, or after its time.
Wait ==
  /\ phase = "wait" /\ phase' = "report" /\ cut' = {t \in Tasks : job[t] \notin Ended}
  /\ \E all \in [Tasks -> Tasks] :
       /\ ToSet(all) = Tasks /\ \A i, j \in Tasks : i < j => Before(all[i], all[j])
       /\ rest' = all
  /\ UNCHANGED <<name, job, order, outputs, call>>

\* Fault variant: a task that has ended since is not told as unfinished.
TellLate(t) == IF t \in cut THEN (IF job[t] \in Ended THEN outputs
                                 ELSE [outputs EXCEPT ![name[t]] = [told |-> "unfinished", by |-> t]])
               ELSE [outputs EXCEPT ![name[t]] = [told |-> job[t], by |-> t]]

Tell(t) == [outputs EXCEPT ![name[t]] = [told |-> IF t \in cut THEN "unfinished" ELSE job[t], by |-> t]]

\* cancel() takes a task out of the queue, and leaves one that runs alone.
Report ==
  /\ phase = "report" /\ rest # <<>> /\ rest' = Tail(rest)
  /\ LET t == Head(rest)
     IN /\ order' = Append(order, t) /\ outputs' = Tell(t)
        /\ job' = IF job[t] = "queued" THEN [job EXCEPT ![t] = "cancelled"] ELSE job
  /\ UNCHANGED <<name, phase, cut, call>>

Return ==
  /\ phase = "report" /\ rest = <<>> /\ phase' = "returned"
  /\ UNCHANGED <<name, job, rest, cut, order, outputs, call>>

\* One agent after the other, with what the one before told; an exception ends the chain
\* and takes what was told so far with it.
run_sequential(fails) ==
  LET t == Len(order) + 1
  IN /\ phase = "chain" /\ t \in Tasks
     /\ job' = [job EXCEPT ![t] = IF fails THEN "failed" ELSE "done"]
     /\ phase' = IF fails THEN "raised" ELSE IF t + 1 \in Tasks THEN "chain" ELSE "returned"
     /\ order' = IF fails THEN <<>> ELSE Append(order, t)
     /\ outputs' = IF fails THEN [n \in Names |-> Nothing]
                   ELSE [outputs EXCEPT ![name[t]] = [told |-> "done", by |-> t]]
     /\ UNCHANGED <<name, rest, cut, call>>

-----------------------------------------------------------------------------
\* wrap_agent_as_tool: an agent that raises is asked again, then the substitute is.
Ask(fails) ==
  /\ handoff = "" /\ tries =< Retries /\ tries' = tries + 1
  /\ handoff' = IF fails THEN "" ELSE "agent"
  /\ UNCHANGED batch

Substitute(fails) ==
  /\ handoff = "" /\ tries = Retries + 1 /\ ~fails /\ handoff' = "substitute"
  /\ UNCHANGED <<batch, tries>>

\* There is none, or it raised as well.
Degrade(how) ==
  /\ handoff = "" /\ tries = Retries + 1 /\ how \in {"degraded", "raised"} /\ handoff' = how
  /\ UNCHANGED <<batch, tries>>

Next ==
  \/ \E t \in Tasks : StartTask(t) \/ \E how \in Ended : EndTask(t, how)
  \/ Wait \/ Report \/ Return
  \/ \E fails \in BOOLEAN : run_sequential(fails) \/ Ask(fails) \/ Substitute(fails)
  \/ \E how \in {"degraded", "raised"} : Degrade(how)

Spec == Init /\ [][Next]_dispatchVars

-----------------------------------------------------------------------------
\* dispatch.py:82-110: whatever starts or ends while the batch is reported, each task
\* has been told of once, and a name that only it has tells its outcome, or that it was
\* unfinished when the time was up.
ToldOnce ==
  phase = "returned" =>
    /\ ToSet(order) = Tasks /\ Len(order) = Cardinality(Tasks)
    /\ \A t \in Tasks : (\A u \in Tasks \ {t} : name[u] # name[t]) =>
         /\ outputs[name[t]].by = t
         /\ outputs[name[t]].told = IF t \in cut THEN "unfinished" ELSE job[t]

\* Nothing of the batch is begun after its result has been returned.
NoLateStart == phase = "returned" => \A t \in Tasks : job[t] # "queued"

\* dispatch.py:114-138: a step of a chain is not run before the steps it rests on have
\* ended well.
ChainInOrder ==
  phase \in {"chain", "raised"} =>
    \A t \in Tasks : job[t] # "queued" => \A u \in 1 .. t - 1 : job[u] = "done"

\* dispatch.py:40-42, "each hand-over and its whole output": one output of every task.
OutputOfEach == phase = "returned" => \A t \in Tasks : \E n \in Names : outputs[n].by = t

-----------------------------------------------------------------------------
(* What the agents have *)

VARIABLES
  registered, \* the catalog of the supervisor
  shared      \* that of its agents

InitTeam == registered \in SUBSET Specs /\ shared = {}

\* Fault variant: whatever there is.
readonly_tools_all(exclude) == registered \ exclude

readonly_tools(exclude) == (registered \cap Pure) \ exclude

\* The memory of the supervisor brings tools of its own, whatever their effects.
share_memory(memory) == IF memory THEN MemoryTools ELSE {}

\* The agents' catalog is a copy: what is registered later is not in it.
make_multiagent_tools(memory) ==
  /\ shared' = readonly_tools(Cards) \cup share_memory(memory)
  /\ registered' = registered \cup Cards

Register(t) == registered' = registered \cup {t} /\ UNCHANGED shared

Team == (\E memory \in BOOLEAN : make_multiagent_tools(memory)) \/ \E t \in Specs : Register(t)

\* registry.py:10-14, 44-58: however often it is done, and whatever is registered before and
\* after, an agent has no card of an agent, and nothing with side effects but the tools of
\* the memory.
AgentsBound == shared \subseteq (Pure \cup MemoryTools) \ Cards

\* (Refuted.)  registry.py:10, agents get tools without side effects only.
AgentsReadOnly == shared \subseteq Pure
=============================================================================
