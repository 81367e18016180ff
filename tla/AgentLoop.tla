----------------------------- MODULE AgentLoop -----------------------------
(***************************************************************************)
(* The plain agent loop (loop/loop.py): one user sentence, rounds of model *)
(* calls and tool calls, a policy gate before each call, a guard that      *)
(* scans tool output, a plan that advances with the rounds, a cost meter   *)
(* and a deadline.  Sub-agents and evaluations run it; a loop object       *)
(* serves one run after another and keeps its guard and its meter.         *)
(***************************************************************************)
EXTENDS Integers, Sequences, FiniteSets

CONSTANTS Calls,      \* the signatures (tool and arguments) the model may ask for
          Gated,      \* those of tools in _gated_tools()
          Asks, Denies,  \* those for which some rule of the engine says so, or raises
          MaxIterations,
          Steps,      \* max_steps of the planner that asks the model
          Budget,     \* max_cost_usd, in units of the dearest call
          MaxCost,    \* price of a model call, at most
          Words,      \* what texts are told apart by
          Triggers,   \* per call: words that tell its tool is meant, {} if none is known
          Names,      \* per call: those in the name of the tool
          Goals,      \* per stage of the plan: those in its goal
          RoundSize   \* tool calls of one response, at most (bound)

\* max_steps where nobody gives one: the fallback's, and the limit of a plan's state.
DefaultSteps == 5

VARIABLES
  phase,    \* "idle", before a "model" call, in a "round" of tool calls, or "answer"
  iter,     \* model calls left
  queue,    \* the tool calls of the response still to come
  worked, broke,  \* round_ok, round_failed
  seen,     \* seen_calls: the signatures that succeeded in this run
  usd,      \* the cost meter, which no run resets
  hits,     \* has the guard hits?
  total,          \* PlanState.total: the stages that count, 0 without a plan
  plan, failed,   \* PlanState.current, failed
  executed, \* the calls started in this run
  suspect,  \* has a suspicious output entered the messages of this run?
  said      \* the words in the messages of this run, the plan's apart

round == <<queue, worked, broke>>
run   == <<seen, total, plan, failed, executed, suspect, said>>
vars  == <<phase, iter, round, run, usd, hits>>

TypeOK ==
  /\ phase \in {"idle", "model", "round", "answer"}
  /\ iter \in 0 .. MaxIterations
  /\ queue \in Seq(Calls) /\ Len(queue) =< RoundSize
  /\ {worked, broke, failed, hits, suspect} \subseteq BOOLEAN
  /\ seen \subseteq Calls /\ executed \subseteq Calls /\ said \subseteq Words
  /\ usd \in Nat /\ total \in 0 .. DefaultSteps /\ plan \in 0 .. total

Init ==
  /\ phase = "idle" /\ iter = 0 /\ usd = 0 /\ hits = FALSE
  /\ queue = <<>> /\ worked = FALSE /\ broke = FALSE
  /\ seen = {} /\ total = 0 /\ plan = 0 /\ failed = FALSE /\ executed = {} /\ suspect = FALSE
  /\ said = {}

-----------------------------------------------------------------------------
\* The gate: PolicyEngine.evaluate takes the strictest answer of its rules.

Rank == [allow |-> 0, ask |-> 1, deny |-> 2]
Strictest(V) == CHOOSE v \in V : \A w \in V : Rank[w] =< Rank[v]

Rules(c) == {IF c \in Denies THEN "deny" ELSE "allow", IF c \in Asks THEN "ask" ELSE "allow"}

\* Fault variant: a rule that was bound to another guard.
EscalationNever(c) == "allow"

\* escalate_after_taint, a rule the loop itself adds.
Escalation(c) == IF hits /\ c \in Gated THEN "ask" ELSE "allow"

Verdict(c) == Strictest(Rules(c) \cup {Escalation(c)})

-----------------------------------------------------------------------------
\* The plan: how many stages it has (planner.py).

Least(a, b) == IF a < b THEN a ELSE b

\* The template has four stages.
build_plan(complex, max_steps) == IF complex THEN Least(4, max_steps) ELSE 0

\* The model's answer: its first stages, without those that lack a title or a goal.  An
\* answer that is not what was asked for has none.
_parse_plan_steps(raw) == Cardinality({i \in 1 .. Least(Len(raw), Steps) : raw[i]})

\* The fallback does not pass max_steps on (planner.py:284).
plan_with_model(complex, raw) ==
  IF complex /\ _parse_plan_steps(raw) > 0 THEN _parse_plan_steps(raw)
  ELSE build_plan(complex, DefaultSteps)

Answers == UNION {[1 .. n -> BOOLEAN] : n \in 0 .. Steps + 1}

\* make_plan_state: no planner, or one that raises, is no plan; the state counts so many
\* stages as its own limit lets, which the loop does not set.
make_plan_state ==
  {0} \cup {Least(plan_with_model(c, raw), DefaultSteps) : c \in BOOLEAN, raw \in Answers}

\* planner.py:80-111, 272-333: a complex task has a plan, whatever the model answers, and a
\* simple one has none.  The limit holds for the stages the model gave; the fallback has
\* the template's, also where the limit is lower.
PlansBounded ==
  \A raw \in Answers :
    /\ plan_with_model(FALSE, raw) = 0
    /\ IF _parse_plan_steps(raw) > 0 THEN plan_with_model(TRUE, raw) \in 1 .. Steps
                                     ELSE plan_with_model(TRUE, raw) = 4

\* planner.py:282 says that the number of stages is limited to max_steps.
PlansCapped == \A raw \in Answers : plan_with_model(TRUE, raw) =< Steps

-----------------------------------------------------------------------------
\* The run.

Begin ==
  /\ phase = "idle" /\ phase' = "model" /\ iter' = MaxIterations /\ hits' = FALSE
  /\ total' \in make_plan_state /\ said' \in SUBSET Words
  /\ seen' = {} /\ plan' = 0 /\ failed' = FALSE /\ executed' = {} /\ suspect' = FALSE
  /\ UNCHANGED <<round, usd>>

\* The reply, or an exception.
Leave == phase' = "idle" /\ iter' = 0 /\ queue' = <<>> /\ worked' = FALSE /\ broke' = FALSE

\* What the model may answer: some tool calls, or none.
Response ==
  \E n \in 0 .. RoundSize :
    /\ queue' \in [1 .. n -> Calls]
    /\ phase' = IF n = 0 THEN "answer" ELSE "round"
    /\ iter' = iter - 1 /\ worked' = FALSE /\ broke' = FALSE

\* Bound: a meter that is over the budget is charged no more.
Charge(cost) == (cost > 0 => usd =< Budget) /\ usd' = usd + cost

\* Fault variant: the cost so far is compared, not the cost with this call.
ModelBehind ==
  /\ phase = "model" /\ iter > 0
  /\ \E cost \in 0 .. MaxCost : Charge(cost)
  /\ IF usd > Budget THEN Leave ELSE Response
  /\ UNCHANGED <<run, hits>>

\* The meter is charged and looked at before anything the answer asks for is done.
Model ==
  /\ phase = "model" /\ iter > 0
  /\ \E cost \in 0 .. MaxCost : Charge(cost)
  /\ IF usd' > Budget THEN Leave ELSE Response
  /\ UNCHANGED <<run, hits>>

\* Fault variant: the last round is followed by another.
ExhaustedNever == FALSE /\ UNCHANGED vars

\* RuntimeError after the last round.
Exhausted == phase = "model" /\ iter = 0 /\ Leave /\ UNCHANGED <<run, usd, hits>>

\* A response without tool calls is the reply, or has no content and is asked again.
Reply ==
  /\ phase = "answer"
  /\ \/ Leave
     \/ phase' = "model" /\ UNCHANGED <<iter, round>>
  /\ UNCHANGED <<run, usd, hits>>

\* LoopTimeout: the caller cancelled, or the deadline passed.  A tool that was at
\* work goes on on its thread, unobserved.
Late ==
  /\ phase \in {"model", "round"} /\ Leave
  /\ \/ UNCHANGED executed
     \/ /\ queue # <<>> /\ Verdict(Head(queue)) = "allow"
        /\ executed' = executed \cup {Head(queue)}
  /\ UNCHANGED <<seen, total, plan, failed, suspect, said, usd, hits>>

-----------------------------------------------------------------------------
\* One tool call of the round.

\* PolicyDenied and ApprovalRequired end the run.
Refused ==
  /\ phase = "round" /\ queue # <<>> /\ Verdict(Head(queue)) # "allow"
  /\ Leave /\ UNCHANGED <<run, usd, hits>>

Turn(c) ==
  /\ phase = "round" /\ queue # <<>> /\ c = Head(queue) /\ Verdict(c) = "allow"
  /\ queue' = Tail(queue) /\ UNCHANGED <<phase, iter, total, plan, failed, usd>>

\* Before the call, the loop notes that the model wants it; after it, there is its answer.
Note(c) == said \cup Names[c]
Answer(c) == \E heard \in SUBSET Words : said' = Note(c) \cup heard

Goal == IF plan < total THEN Goals[plan + 1] ELSE {}

\* ToolIntentRouter.relay: a tool of which nothing is known is let through, and one of which
\* a word is in the texts.  (A loop without a router lets all through, one with a reasoner may.)
relay(c, texts) == Triggers[c] # {} /\ Triggers[c] \cap texts = {}

\* Fault variant: the router is asked before the note is written.
intent_hint_first(c) == relay(c, said \cup Goal)

\* All messages are looked at.
intent_hint(c) == relay(c, Note(c) \cup Goal)

\* The intent router answers in the tool's place.
Hint(c) ==
  /\ Turn(c) /\ intent_hint(c) /\ said' = Note(c)
  /\ UNCHANGED <<worked, broke, seen, executed, suspect, hits>>

\* The tool fails; the error text is told to the model and not scanned.
Fail(c) ==
  /\ Turn(c) /\ Answer(c) /\ executed' = executed \cup {c} /\ broke' = TRUE
  /\ UNCHANGED <<worked, seen, suspect, hits>>

\* A signature that succeeded before is no progress: its output is dropped.
Repeat(c) ==
  /\ Turn(c) /\ c \in seen /\ said' = Note(c) /\ executed' = executed \cup {c}
  /\ UNCHANGED <<worked, broke, seen, suspect, hits>>

\* Fault variant: a repeated signature is progress, too.
SucceedAgain(c) ==
  /\ Turn(c) /\ Answer(c)
  /\ executed' = executed \cup {c} /\ seen' = seen \cup {c} /\ worked' = TRUE
  /\ \E bad \in BOOLEAN : suspect' = (suspect \/ bad) /\ hits' = (hits \/ bad)
  /\ UNCHANGED broke

\* It succeeds, or the stability layer answers for it: the guard sees the output.
Succeed(c) ==
  /\ Turn(c) /\ Answer(c) /\ c \notin seen
  /\ executed' = executed \cup {c} /\ seen' = seen \cup {c} /\ worked' = TRUE
  /\ \E bad \in BOOLEAN : suspect' = (suspect \/ bad) /\ hits' = (hits \/ bad)
  /\ UNCHANGED broke

\* The plan: advance stops at the end, mark_failed does nothing there.
Observe ==
  /\ phase = "round" /\ queue = <<>> /\ phase' = "model"
  /\ \/ worked /\ plan' = (IF plan < total THEN plan + 1 ELSE plan) /\ failed' = FALSE
     \/ ~worked /\ broke /\ failed' = (plan < total \/ failed) /\ UNCHANGED plan
     \/ ~worked /\ ~broke /\ UNCHANGED <<plan, failed>>
  /\ UNCHANGED <<iter, round, seen, total, executed, suspect, said, usd, hits>>

Go ==
  \/ Model \/ Exhausted \/ Reply \/ Refused \/ Observe
  \/ \E c \in Calls : Hint(c) \/ Fail(c) \/ Repeat(c) \/ Succeed(c)

Next == Begin \/ Go \/ Late

\* The model and the tools return; whether there is a deadline is up to the caller.
Fairness == WF_vars(Go)
Spec == Init /\ [][Next]_vars /\ Fairness

-----------------------------------------------------------------------------
\* loop.py:181-188, injection.py:170-189: once a suspicious output is among the
\* messages, no gated tool is started in this run.
TaintGates ==
  [][suspect /\ suspect' => executed' \cap Gated = executed \cap Gated]_vars

\* loop.py:254-256: a response that takes the run over its budget has no effect.
BudgetFirst == [][executed' \subseteq executed \/ usd =< Budget]_vars

\* planner.py:134-146, loop.py:326-346: every stage the plan calls done was moved
\* by a signature that had not succeeded before.
PlanEarned == plan =< Cardinality(seen) /\ plan =< total

\* intent.py:115-191, loop.py:263-292: a tool is held back only while nothing in the run
\* has told that it is meant.  The note of the call itself counts: one that has a trigger
\* in its own name is never held back.
HintsDoubt ==
  [][\A c \in Calls :
       Turn(c) /\ c \notin executed' =>
         Triggers[c] # {} /\ Triggers[c] \cap (said \cup said' \cup Names[c]) = {}]_vars

\* What the loop promises between its rounds.
LoopGuards == TaintGates /\ BudgetFirst /\ HintsDoubt /\ []PlanEarned /\ PlansBounded

\* loop.py:243, 372: a run ends, whatever the model asks for.
RunEnds == phase # "idle" ~> phase = "idle"
=============================================================================
