---------------------------- MODULE Tools_proof ----------------------------
(***************************************************************************)
(* The tools, for any number of them, of callers, tasks, files, models and *)
(* rounds.  First the agent loop: the escalation after a suspicious        *)
(* output, the budget, the plan and the intent router keep what the loop   *)
(* promises.  Then, part by part, what the run checks as NothingLost: each *)
(* has an inductive invariant of its own, and a step of the module is a    *)
(* step of one part.  Then the patches, and at last the stability layer.   *)
(***************************************************************************)
EXTENDS MCTools, Sequences, FiniteSetTheorems, WellFoundedInduction, TLAPS

USE LoopAssumption

\* The operators of the module.

\* A call of a gated tool needs a human once the guard has hits, whatever the rules say.
LEMMA TaintAsks == ASSUME NEW c \in Gated, hits PROVE Loop!Verdict(c) # "allow"
<1> DEFINE V == Loop!Rules(c) \cup {"ask"}
<1>1. Loop!Verdict(c) = CHOOSE v \in V : \A w \in V : Loop!Rank[w] =< Loop!Rank[v]
  BY DEF Loop!Verdict, Loop!Strictest, Loop!Escalation
<1>2. \E v \in V : \A w \in V : Loop!Rank[w] =< Loop!Rank[v]
  <2>1. CASE "deny" \in V
    BY <2>1 DEF Loop!Rules, Loop!Rank
  <2>2. CASE "deny" \notin V
    BY <2>2 DEF Loop!Rules, Loop!Rank
  <2> QED
    BY <2>1, <2>2
<1>3. PICK v \in V : v = Loop!Verdict(c) /\ \A w \in V : Loop!Rank[w] =< Loop!Rank[v]
  BY <1>1, <1>2
<1> QED
  BY <1>3 DEF Loop!Rank

\* The loop's Cardinality is that of the theorems on finite sets.
LEMMA SameCount == \A S : Loop!Cardinality(S) = Cardinality(S)
BY DEF Loop!Cardinality, Cardinality

\* The model's answer gives at most so many stages as are allowed.
LEMMA ParsedSteps ==
  ASSUME NEW text \in Loop!Answers
  PROVE  Loop!_parse_plan_steps(text) \in 0 .. Steps
<1> DEFINE n == Loop!Least(Len(text), Steps)
<1>1. Len(text) \in Nat
  BY DEF LoopAssumption, Loop!Answers
<1>2. n \in Nat /\ n =< Steps
  BY <1>1 DEF LoopAssumption, Loop!Least
<1>3. IsFiniteSet(1 .. n) /\ Cardinality(1 .. n) = n
  BY <1>2, FS_Interval
<1>4. /\ IsFiniteSet({i \in 1 .. n : text[i]})
      /\ Cardinality({i \in 1 .. n : text[i]}) =< n
  BY <1>3, FS_Subset
<1>5. Cardinality({i \in 1 .. n : text[i]}) \in Nat
  BY <1>4, FS_CardinalityType
<1> QED
  BY <1>2, <1>4, <1>5, SameCount DEF LoopAssumption, Loop!_parse_plan_steps

\* Whatever the model answers, a complex task has a plan; its state counts at most the stages
\* that are counted where nobody sets a limit.
LEMMA PlanSizes == Loop!PlansBounded /\ Loop!make_plan_state \subseteq 0 .. Loop!DefaultSteps
<1> USE DEF Loop!DefaultSteps
<1>1. Loop!build_plan(TRUE, 5) = 4 /\ Loop!build_plan(FALSE, 5) = 0
  BY DEF Loop!build_plan, Loop!Least
<1>2. ASSUME NEW text \in Loop!Answers
      PROVE  /\ Loop!plan_with_model(FALSE, text) = 0 /\ Loop!plan_with_model(TRUE, text) \in Nat
             /\ IF Loop!_parse_plan_steps(text) > 0
                THEN Loop!plan_with_model(TRUE, text) \in 1 .. Steps
                ELSE Loop!plan_with_model(TRUE, text) = 4
  <2> DEFINE n == Loop!_parse_plan_steps(text)
  <2>1. n \in 0 .. Steps /\ Steps \in Nat
    BY <1>2, ParsedSteps DEF LoopAssumption
  <2>2. Loop!plan_with_model(FALSE, text) = 0
    BY <1>1 DEF Loop!plan_with_model
  <2> DEFINE p == Loop!plan_with_model(TRUE, text)
  <2>3. p = IF n > 0 THEN n ELSE 4
    BY <1>1 DEF Loop!plan_with_model
  <2> HIDE DEF n, p
  <2>4. p \in Nat /\ IF n > 0 THEN p \in 1 .. Steps ELSE p = 4
    BY <2>1, <2>3
  <2> QED
    BY <2>2, <2>4, Zenon DEF n, p
<1>3. Loop!PlansBounded
  BY <1>2, Zenon DEF Loop!PlansBounded
<1>4. ASSUME NEW text \in Loop!Answers, NEW c \in BOOLEAN
      PROVE  Loop!Least(Loop!plan_with_model(c, text), 5) \in 0 .. 5
  <2>1. Loop!plan_with_model(c, text) \in Nat
    <3>1. CASE c = TRUE
      BY <1>2, <3>1
    <3>2. CASE c = FALSE
      <4>1. Loop!plan_with_model(FALSE, text) = 0
        BY <1>2
      <4>2. Loop!plan_with_model(c, text) = Loop!plan_with_model(FALSE, text)
        BY <3>2, Zenon
      <4>3. Loop!plan_with_model(c, text) = 0
        BY <4>1, <4>2, Zenon
      <4> QED
        BY <4>3
    <3> QED
      BY <3>1, <3>2
  <2> QED
    BY <2>1 DEF Loop!Least
<1>5. Loop!make_plan_state \subseteq 0 .. 5
  BY <1>4, 0 \in 0 .. 5 DEF Loop!make_plan_state
<1> QED
  BY <1>3, <1>5

-----------------------------------------------------------------------------
\* The types, numbers and flags apart.
Flags == {worked, broke, failed, hits, suspect} \subseteq BOOLEAN
Numbers ==
  /\ phase \in {"idle", "model", "round", "answer"}
  /\ iter \in 0 .. MaxIterations
  /\ queue \in Seq(Calls) /\ Len(queue) =< RoundSize
  /\ succeeded \subseteq Calls /\ executed \subseteq Calls /\ said \subseteq Words
  /\ usd \in Nat /\ stages \in 0 .. Loop!DefaultSteps /\ plan \in 0 .. stages

\* The loop's types are those of its numbers and of its flags.
LEMMA Typed == Loop!TypeOK <=> Numbers /\ Flags
BY Zenon DEF Loop!TypeOK, Numbers, Flags

\* What holds between the steps of every run: tool calls wait in a round only, which the
\* meter let begin; a suspicious output left a hit; the stages that are done, and the one
\* that this round may complete, are covered by calls that succeeded.
LoopInv ==
  /\ phase # "round" => queue = <<>>
  /\ phase = "round" => usd =< Budget
  /\ suspect => hits
  /\ IsFiniteSet(succeeded) /\ plan =< Cardinality(succeeded)
  /\ phase = "round" /\ worked => plan < Cardinality(succeeded)

\* A loop that was just made.
LEMMA LoopInit == Loop!Init => Loop!TypeOK /\ LoopInv
<1> SUFFICES ASSUME Loop!Init PROVE Loop!TypeOK /\ LoopInv
  OBVIOUS
<1>1. Loop!TypeOK
  <2>1. Numbers
    BY DEF LoopAssumption, Loop!Init, Loop!DefaultSteps, Numbers
  <2>2. Flags
    BY Zenon DEF Loop!Init, Flags
  <2> QED
    BY <2>1, <2>2, Typed
<1>2. LoopInv
  BY FS_EmptySet DEF Loop!Init, LoopInv
<1> QED
  BY <1>1, <1>2

\* The flags are computed from flags.
LEMMA FlagsStep == Flags /\ [Loop!Next]_(Loop!vars) => Flags'
<1> SUFFICES ASSUME Flags, [Loop!Next]_(Loop!vars) PROVE Flags'
  OBVIOUS
<1> USE DEF Flags, Loop!run, Loop!round
<1>1. CASE Loop!Begin
  BY <1>1, Zenon DEF Loop!Begin
<1>2. CASE Loop!Model
  BY <1>2, Zenon DEF Loop!Model, Loop!Leave, Loop!Response
<1>3. CASE Loop!Exhausted \/ Loop!Reply \/ Loop!Refused \/ Loop!Late
  BY <1>3, Zenon DEF Loop!Exhausted, Loop!Reply, Loop!Refused, Loop!Late, Loop!Leave
<1>4. CASE Loop!Observe
  BY <1>4, Zenon DEF Loop!Observe
<1>5. ASSUME NEW c \in Calls, Loop!Hint(c) \/ Loop!Fail(c) \/ Loop!Repeat(c) PROVE Flags'
  BY <1>5, Zenon DEF Loop!Hint, Loop!Fail, Loop!Repeat, Loop!Turn
<1>6. ASSUME NEW c \in Calls, Loop!Succeed(c) PROVE Flags'
  BY <1>6, Zenon DEF Loop!Succeed, Loop!Turn
<1>7. CASE UNCHANGED Loop!vars
  BY <1>7, Zenon DEF Loop!vars
<1> QED
  BY <1>1, <1>2, <1>3, <1>4, <1>5, <1>6, <1>7 DEF Loop!Next, Loop!Go

\* The numbers: the texts of one call are words, and a response is short enough.
LEMMA NumbersStep == Numbers /\ [Loop!Next]_(Loop!vars) => Numbers'
<1> SUFFICES ASSUME Numbers, [Loop!Next]_(Loop!vars) PROVE Numbers'
  OBVIOUS
<1> USE DEF LoopAssumption, Numbers, Loop!run, Loop!round
<1>1. CASE Loop!Begin
  BY <1>1, PlanSizes DEF Loop!Begin
<1>2. CASE Loop!Model
  <2>1. usd' \in Nat
    BY <1>2 DEF Loop!Model, Loop!Charge
  <2>2. CASE Loop!Leave
    BY <1>2, <2>1, <2>2 DEF Loop!Model, Loop!Leave
  <2>3. CASE Loop!Response
    <3>1. queue' \in Seq(Calls) /\ Len(queue') =< RoundSize
      BY <2>3 DEF Loop!Response
    <3> QED
      BY <1>2, <2>1, <2>3, <3>1 DEF Loop!Model, Loop!Response
  <2> QED
    BY <1>2, <2>2, <2>3 DEF Loop!Model
<1>3. CASE Loop!Leave /\ UNCHANGED <<Loop!run, usd>>
  BY <1>3 DEF Loop!Leave
<1>4. CASE Loop!Exhausted \/ Loop!Reply \/ Loop!Refused
  BY <1>3, <1>4 DEF Loop!Exhausted, Loop!Reply, Loop!Refused
<1>5. CASE Loop!Late
  BY <1>5 DEF Loop!Late, Loop!Leave
<1>6. CASE Loop!Observe
  BY <1>6 DEF Loop!Observe
<1>7. ASSUME NEW c \in Calls, Loop!Turn(c)
      PROVE  /\ queue' \in Seq(Calls) /\ Len(queue') =< RoundSize /\ Loop!Note(c) \subseteq Words
             /\ Loop!Answer(c) => said' \subseteq Words
  BY <1>7 DEF Loop!Turn, Loop!Note, Loop!Answer
<1>8. ASSUME NEW c \in Calls, Loop!Hint(c) \/ Loop!Fail(c) \/ Loop!Repeat(c) \/ Loop!Succeed(c) PROVE Numbers'
  <2>1. CASE Loop!Hint(c) \/ Loop!Repeat(c)
    BY <1>7, <2>1 DEF Loop!Hint, Loop!Repeat, Loop!Turn
  <2>2. CASE Loop!Fail(c) \/ Loop!Succeed(c)
    BY <1>7, <2>2 DEF Loop!Fail, Loop!Succeed, Loop!Turn
  <2> QED
    BY <1>8, <2>1, <2>2
<1>9. CASE UNCHANGED Loop!vars
  BY <1>9 DEF Loop!vars
<1> QED
  BY <1>1, <1>2, <1>4, <1>5, <1>6, <1>8, <1>9 DEF Loop!Next, Loop!Go

\* Every step of the loop keeps its types.
LEMMA LoopTypesStep == Loop!TypeOK /\ [Loop!Next]_(Loop!vars) => Loop!TypeOK'
<1>1. Loop!TypeOK' <=> Numbers' /\ Flags'
  BY Zenon DEF Loop!TypeOK, Numbers, Flags
<1> QED
  BY <1>1, Typed, FlagsStep, NumbersStep

\* A call that succeeds for the first time pays for one stage.
LEMMA LoopStep == Loop!TypeOK /\ LoopInv /\ [Loop!Next]_(Loop!vars) => LoopInv'
<1> SUFFICES ASSUME Loop!TypeOK, LoopInv, [Loop!Next]_(Loop!vars) PROVE LoopInv'
  OBVIOUS
<1> USE DEF LoopAssumption, Loop!TypeOK, LoopInv, Loop!run, Loop!round
<1>0. Cardinality(succeeded) \in Nat
  BY FS_CardinalityType
<1>1. CASE Loop!Begin
  BY <1>1, FS_EmptySet DEF Loop!Begin
<1>2. CASE Loop!Model
  <2>1. usd' \in Nat
    BY <1>2 DEF Loop!Model, Loop!Charge
  <2>2. CASE usd' > Budget
    BY <1>2, <2>2 DEF Loop!Model, Loop!Leave
  <2>3. CASE usd' =< Budget
    <3>1. PICK n \in 0 .. RoundSize :
             /\ queue' \in [1 .. n -> Calls] /\ phase' = IF n = 0 THEN "answer" ELSE "round"
             /\ worked' = FALSE
      BY <1>2, <2>1, <2>3 DEF Loop!Model, Loop!Response
    <3>2. n = 0 => queue' = <<>>
      BY <3>1
    <3> QED
      BY <1>2, <2>3, <3>1, <3>2 DEF Loop!Model
  <2> QED
    BY <2>1, <2>2, <2>3
<1>3. CASE Loop!Exhausted \/ Loop!Reply \/ Loop!Refused \/ Loop!Late
  BY <1>3 DEF Loop!Exhausted, Loop!Reply, Loop!Refused, Loop!Late, Loop!Leave
<1>4. CASE Loop!Observe
  BY <1>0, <1>4 DEF Loop!Observe
<1>5. ASSUME NEW c \in Calls, Loop!Hint(c) \/ Loop!Fail(c) \/ Loop!Repeat(c) PROVE LoopInv'
  BY <1>5 DEF Loop!Hint, Loop!Fail, Loop!Repeat, Loop!Turn
<1>6. ASSUME NEW c \in Calls, Loop!Succeed(c) PROVE LoopInv'
  <2>1. IsFiniteSet(succeeded') /\ Cardinality(succeeded') = Cardinality(succeeded) + 1
    BY <1>6, FS_AddElement DEF Loop!Succeed
  <2> QED
    BY <1>0, <1>6, <2>1 DEF Loop!Succeed, Loop!Turn
<1>7. CASE UNCHANGED Loop!vars
  BY <1>7 DEF Loop!vars
<1> QED
  BY <1>1, <1>2, <1>3, <1>4, <1>5, <1>6, <1>7 DEF Loop!Next, Loop!Go

\* Every variable keeps its type: the meter counts, and rounds are short.
THEOREM LoopTypes == Loop!Spec => []Loop!TypeOK
BY LoopInit, LoopTypesStep, PTL DEF Loop!Spec

\* Every behaviour keeps the invariant.
LEMMA LoopAlways == Loop!Spec => [](Loop!TypeOK /\ LoopInv)
<1>1. Loop!TypeOK /\ LoopInv /\ [Loop!Next]_(Loop!vars) => Loop!TypeOK' /\ LoopInv'
  BY LoopTypesStep, LoopStep
<1> QED
  BY <1>1, LoopInit, PTL DEF Loop!Spec

-----------------------------------------------------------------------------
\* Which steps start a tool: those that take a call the policy allows from the queue, and
\* a run that is over time while one was at work.
LEMMA Started ==
  ASSUME Loop!TypeOK, LoopInv, Loop!Next
  PROVE  \/ executed' = executed
         \/ executed' = {} /\ ~suspect'
         \/ /\ phase = "round"
            /\ \E c \in Calls : executed' = executed \cup {c} /\ Loop!Verdict(c) = "allow"
<1> USE DEF Loop!run, Loop!round
<1>1. CASE Loop!Begin
  BY <1>1 DEF Loop!Begin
<1>2. CASE Loop!Model \/ Loop!Exhausted \/ Loop!Reply \/ Loop!Refused \/ Loop!Observe
  BY <1>2 DEF Loop!Model, Loop!Exhausted, Loop!Reply, Loop!Refused, Loop!Observe
<1>3. CASE Loop!Late
  BY <1>3 DEF Loop!Late, LoopInv, Loop!TypeOK
<1>4. ASSUME NEW c \in Calls, Loop!Hint(c) PROVE executed' = executed
  BY <1>4 DEF Loop!Hint
<1>5. ASSUME NEW c \in Calls, Loop!Fail(c) \/ Loop!Repeat(c) \/ Loop!Succeed(c)
      PROVE  phase = "round" /\ executed' = executed \cup {c} /\ Loop!Verdict(c) = "allow"
  BY <1>5 DEF Loop!Fail, Loop!Repeat, Loop!Succeed, Loop!Turn
<1> QED
  BY <1>1, <1>2, <1>3, <1>4, <1>5 DEF Loop!Next, Loop!Go

\* Once a suspicious output is among the messages, no gated tool is started in the run,
\* whatever the rules of the engine say of it (loop.py:181-188).
LEMMA TaintStep ==
  ASSUME Loop!TypeOK, LoopInv, Loop!Next, suspect, suspect'
  PROVE  executed' \cap Gated = executed \cap Gated
<1>1. hits
  BY DEF LoopInv
<1>2. ASSUME NEW c \in Calls, executed' = executed \cup {c}, Loop!Verdict(c) = "allow"
      PROVE  executed' \cap Gated = executed \cap Gated
  BY <1>1, <1>2, TaintAsks
<1> QED
  BY <1>2, Started

\* What is started was asked for by a response within the budget (loop.py:254-256).
LEMMA BudgetStep ==
  ASSUME Loop!TypeOK, LoopInv, Loop!Next
  PROVE  executed' \subseteq executed \/ usd =< Budget
BY Started DEF LoopInv

\* A call that leaves the queue of a round and is not started was answered by the intent
\* router, which looks at all there is (intent.py:115-191).
LEMMA HintStep ==
  ASSUME Loop!TypeOK, LoopInv, Loop!Next, NEW c \in Calls, Loop!Turn(c), c \notin executed'
  PROVE  Triggers[c] # {} /\ Triggers[c] \cap (said \cup said' \cup Names[c]) = {}
<1>1. phase = "round" /\ phase' = "round" /\ c = Head(queue)
  BY DEF Loop!Turn
<1>2. PICK d \in Calls : Loop!Hint(d) \/ Loop!Fail(d) \/ Loop!Repeat(d) \/ Loop!Succeed(d)
  BY <1>1 DEF Loop!Next, Loop!Go, Loop!Begin, Loop!Model, Loop!Exhausted, Loop!Reply, Loop!Refused, Loop!Observe, Loop!Late, Loop!Leave
<1>3. d = c
  BY <1>1, <1>2 DEF Loop!Hint, Loop!Fail, Loop!Repeat, Loop!Succeed, Loop!Turn
<1>4. Loop!Hint(c)
  BY <1>2, <1>3 DEF Loop!Fail, Loop!Repeat, Loop!Succeed
<1> QED
  BY <1>4 DEF Loop!Hint, Loop!intent_hint, Loop!relay, Loop!Note

\* A step of the other parts is none of the loop's.
LEMMA LoopSteps == ToolsNext \/ UNCHANGED toolsVars => [Loop!Next]_(Loop!vars)
<1>1. UNCHANGED loopVars => UNCHANGED Loop!vars
  BY DEF loopVars, Loop!vars, Loop!round, Loop!run
<1>2. UNCHANGED toolsVars => UNCHANGED loopVars
  BY DEF toolsVars
<1> QED
  BY <1>1, <1>2, Zenon DEF ToolsNext

\* What the loop promises between its rounds holds for any tools, rules, budget and plan.
THEOREM LoopKeepsItsGuards == ToolsSpec => LoopGuards
<1>0. Loop!TypeOK /\ LoopInv /\ [ToolsNext]_toolsVars => Loop!TypeOK' /\ LoopInv'
  BY LoopSteps, LoopTypesStep, LoopStep
<1>1. Loop!TypeOK /\ LoopInv /\ [ToolsNext]_toolsVars =>
        [suspect /\ suspect' => executed' \cap Gated = executed \cap Gated]_(Loop!vars)
  BY LoopSteps, TaintStep
<1>2. Loop!TypeOK /\ LoopInv /\ [ToolsNext]_toolsVars =>
        [executed' \subseteq executed \/ usd =< Budget]_(Loop!vars)
  BY LoopSteps, BudgetStep
<1>3. Loop!TypeOK /\ LoopInv /\ [ToolsNext]_toolsVars =>
        [\A c \in Calls :
           Loop!Turn(c) /\ c \notin executed' =>
             Triggers[c] # {} /\ Triggers[c] \cap (said \cup said' \cup Names[c]) = {}]_(Loop!vars)
  BY LoopSteps, HintStep
<1>4. Loop!TypeOK /\ LoopInv => Loop!PlanEarned
  BY SameCount DEF LoopInv, Loop!TypeOK, Loop!PlanEarned, LoopAssumption
<1>5. Loop!PlansBounded
  BY PlanSizes
<1>6. ToolsInit => Loop!TypeOK /\ LoopInv
  BY LoopInit DEF ToolsInit
<1> QED
  BY <1>0, <1>1, <1>2, <1>3, <1>4, <1>5, <1>6, PTL
     DEF ToolsSpec, LoopGuards, Loop!LoopGuards, Loop!TaintGates, Loop!BudgetFirst, Loop!HintsDoubt

-----------------------------------------------------------------------------
HIDE LoopAssumption

\* Commands: a thread that executes nothing has no process.
ExecInv == DOMAIN at = Callers /\ alive \subseteq Callers /\ \A u \in alive : at[u] # "idle"

\* It holds at the start.
LEMMA ExecInit == Exec!Init => ExecInv
BY DEF Exec!Init, ExecInv

\* A step of a command, of its process or of the shutdown keeps the table of processes.
LEMMA ExecStep == ExecInv /\ [Exec!Next]_execVars => ExecInv'
<1> SUFFICES ASSUME ExecInv, [Exec!Next]_execVars PROVE ExecInv'
  OBVIOUS
<1> USE DEF ExecInv, Exec!Goto
<1>1. ASSUME NEW u \in Callers, \E isDeaf \in BOOLEAN : Exec!Execute(u, isDeaf) PROVE ExecInv'
  BY <1>1 DEF Exec!Execute
<1>2. ASSUME NEW u \in Callers, Exec!Track(u) \/ Exec!Return(u) PROVE ExecInv'
  BY <1>2 DEF Exec!Track, Exec!Return, Exec!Returned
<1>3. ASSUME NEW u \in Callers, Exec!TimeOut(u) \/ Exec!Kill(u) PROVE ExecInv'
  BY <1>3 DEF Exec!TimeOut, Exec!Kill
<1>4. ASSUME NEW u \in Callers, Exec!ShutdownWaits(u) \/ Exec!ShutdownKills(u) PROVE ExecInv'
  BY <1>4 DEF Exec!ShutdownWaits, Exec!ShutdownKills, Exec!system
<1>5. ASSUME NEW u \in Callers, Exec!Exit(u) \/ Exec!Fork(u) \/ Exec!HeirEnds(u) PROVE ExecInv'
  BY <1>5 DEF Exec!Exit, Exec!Fork, Exec!HeirEnds, Exec!broker
<1>6. CASE Exec!Shutdown
  BY <1>6 DEF Exec!Shutdown
<1>7. CASE UNCHANGED execVars
  BY <1>7 DEF execVars
<1> QED
  BY <1>1, <1>2, <1>3, <1>4, <1>5, <1>6, <1>7 DEF Exec!Next

-----------------------------------------------------------------------------
\* The sandbox: what it was resolved to is no weaker than any word that was given, and a
\* directory is of a thread that uses it, or spoilt.
Words0 == Exec!Isolations \cup {"typo"}
TierInv ==
  /\ declared.isolation \in Words0 /\ spec.isolation \in Exec!Isolations \cup {"default"}
  /\ tier \in {"none", "refused", "kernel", "semantic"}
  /\ Exec!NeverWeaker
  /\ tier = "none" => reported = "none"
  /\ Exec!NotOverstated
BoxInv ==
  /\ DOMAIN box = Callers
  /\ \A u \in Callers : box[u].at \in {"idle", "copy", "run", "dropped"}
  /\ \A u \in Callers : box[u].at \in {"copy", "run"} =>
       /\ Exec!Running /\ (box[u].asked.net => Exec!Spec0.net)
       /\ Exec!Spec0.copy => u \in dirs /\ box[u].asked.input # "outside"
  /\ \A u \in Callers : box[u].at = "run" =>
       (box[u].wrapped = (tier = "kernel")) /\ (box[u].copied => Exec!Spec0.copy)
  /\ \A u \in Callers : box[u].at = "idle" /\ u \in dirs => u \in spoilt

\* It holds at the start.
LEMMA SandboxInit == Exec!InitSandbox => TierInv /\ BoxInv
<1> SUFFICES ASSUME Exec!InitSandbox PROVE TierInv /\ BoxInv
  OBVIOUS
<1>1. TierInv
  BY DEF Exec!InitSandbox, Exec!Spec0, Exec!Isolations, Words0, TierInv, Exec!NeverWeaker, Exec!NotOverstated, Exec!Running
<1>2. BoxInv
  BY DEF Exec!InitSandbox, BoxInv, Exec!Idle
<1> QED
  BY <1>1, <1>2

\* Whatever each probe finds, both halves bow to the stronger word.
LEMMA TierIsKept ==
  ASSUME NEW p, NEW q, NEW r, declared.isolation \in Words0, spec.isolation \in Exec!Isolations \cup {"default"}
  PROVE  LET first == Exec!isolation_tier_from_env(p)
             t == IF first = "refused" THEN "refused"
                  ELSE Exec!resolve_enforced_isolation(Exec!Spec0.isolation, q, r)
         IN  /\ first \in {"refused", "kernel", "semantic"}
             /\ t \in {"refused", "kernel", "semantic"}
             /\ t # "refused" => declared.isolation # "typo"
             /\ t # "refused" /\ (declared.isolation = "kernel" \/ declared.require
                                  \/ Exec!Spec0.isolation = "kernel") => t = "kernel"
             /\ p = q /\ q = r /\ t # "refused" /\ first = "kernel" => t = "kernel"
<1> DEFINE i == Exec!Spec0.isolation
<1>1. ASSUME NEW w
      PROVE  /\ Exec!detect_isolation_tier(w) \in {"kernel", "semantic"}
             /\ Exec!isolation_tier_from_env(w) \in {"refused", "kernel", "semantic"}
             /\ Exec!isolation_tier_from_env(w) # "refused" => declared.isolation # "typo"
             /\ Exec!isolation_tier_from_env(w) # "refused" /\ (declared.isolation = "kernel" \/ declared.require)
                  => Exec!isolation_tier_from_env(w) = "kernel"
             /\ Exec!isolation_tier_from_env(w) = "kernel" => Exec!detect_isolation_tier(w) = "kernel"
  <2> DEFINE d == Exec!detect_isolation_tier(w)
             e == Exec!isolation_tier_from_env(w)
             demanded == declared.isolation = "kernel" \/ declared.require
  <2>1. d \in {"kernel", "semantic"}
    BY DEF Exec!detect_isolation_tier
  <2>2. CASE declared.isolation = "typo"
    <3>1. e = "refused"
      BY <2>2 DEF Exec!isolation_tier_from_env
    <3> QED
      BY <2>1, <3>1
  <2>3. CASE declared.isolation # "typo" /\ demanded
    <3>1. e = IF d = "kernel" THEN "kernel" ELSE "refused"
      BY <2>3 DEF Exec!isolation_tier_from_env
    <3> QED
      BY <2>1, <2>3, <3>1
  <2>4. CASE declared.isolation # "typo" /\ ~demanded
    <3>1. e = IF declared.isolation = "semantic" THEN "semantic" ELSE d
      BY <2>4 DEF Exec!isolation_tier_from_env
    <3> QED
      BY <2>1, <2>4, <3>1
  <2> QED
    BY <2>2, <2>3, <2>4
<1>2. ASSUME NEW w, i \in Exec!Isolations
      PROVE  /\ Exec!resolve_isolation_tier(i, w) \in {"refused", "kernel", "semantic"}
             /\ i = "kernel" => Exec!resolve_isolation_tier(i, w) # "semantic"
             /\ Exec!detect_isolation_tier(w) = "kernel" => Exec!resolve_isolation_tier(i, w) # "refused"
  BY <1>1, <1>2 DEF Exec!resolve_isolation_tier, Exec!Isolations
<1>3. /\ i = "typo" => i = declared.isolation
      /\ i \in Words0
  BY DEF Exec!Spec0, Exec!Isolations, Words0
<1> QED
  BY <1>1, <1>2, <1>3 DEF Exec!resolve_enforced_isolation, Exec!Isolations, Words0

\* A step of the sandbox keeps the tier and the boxes.
LEMMA SandboxStep == TierInv /\ BoxInv /\ [Exec!Sandbox]_sandboxVars => TierInv' /\ BoxInv'
<1> SUFFICES ASSUME TierInv, BoxInv, [Exec!Sandbox]_sandboxVars PROVE TierInv' /\ BoxInv'
  OBVIOUS
<1>1. CASE Exec!augment_catalog
  <2>1. PICK p \in Exec!_probe_namespace, q \in Exec!_probe_namespace, r \in Exec!_probe_namespace :
          LET first == Exec!isolation_tier_from_env(p) IN
          /\ wavered' = ~(p = q /\ q = r)
          /\ tier' = IF first = "refused" THEN "refused"
                     ELSE Exec!resolve_enforced_isolation(Exec!Spec0.isolation, q, r)
          /\ reported' = IF tier' = "refused" THEN "none" ELSE first
    BY <1>1 DEF Exec!augment_catalog
  <2>2. /\ tier = "none" /\ UNCHANGED <<declared, spec, host, box, dirs, spoilt>>
        /\ Exec!Spec0' = Exec!Spec0
    BY <1>1 DEF Exec!augment_catalog, Exec!Spec0
  <2>3. declared.isolation \in Words0 /\ spec.isolation \in Exec!Isolations \cup {"default"}
    BY DEF TierInv
  <2>4. TierInv'
    BY <2>1, <2>2, <2>3, TierIsKept DEF TierInv, Exec!NeverWeaker, Exec!NotOverstated, Exec!Running
  <2>5. ~Exec!Running
    BY <2>2 DEF Exec!Running
  <2>6. BoxInv'
    BY <2>2, <2>5 DEF BoxInv
  <2> QED
    BY <2>4, <2>6
<1>2. ASSUME UNCHANGED <<declared, spec, host, wavered, reported, tier>>
      PROVE  /\ Exec!Spec0' = Exec!Spec0 /\ (Exec!Running' <=> Exec!Running) /\ TierInv'
  BY <1>2 DEF TierInv, Exec!NeverWeaker, Exec!NotOverstated, Exec!Running, Exec!Spec0
<1>3. ASSUME NEW u \in Callers, Exec!Enter(u) PROVE TierInv' /\ BoxInv'
  <2>1. /\ UNCHANGED <<declared, spec, host, wavered, reported, tier, spoilt>>
        /\ Exec!Running /\ box[u].at = "idle"
    BY <1>3 DEF Exec!Enter
  <2>2. CASE UNCHANGED <<box, dirs>>
    BY <1>2, <2>1, <2>2 DEF BoxInv
  <2>3. ASSUME NEW c \in Exec!Commands, Exec!shell_run(c), Exec!Admitted(c),
               box' = [box EXCEPT ![u] = [at |-> "copy", asked |-> c]],
               dirs' = IF Exec!Spec0.copy THEN dirs \cup {u} ELSE dirs
        PROVE  BoxInv'
    <3>1. /\ c.net => Exec!Spec0.net
          /\ Exec!Spec0.copy => c.input # "outside"
      BY <2>3 DEF Exec!Admitted
    <3> QED
      BY <1>2, <2>1, <2>3, <3>1 DEF BoxInv
  <2> QED
    BY <1>2, <1>3, <2>1, <2>2, <2>3 DEF Exec!Enter
<1>4. ASSUME NEW u \in Callers, Exec!Start(u) PROVE TierInv' /\ BoxInv'
  <2>1. UNCHANGED <<declared, spec, host, wavered, reported, tier, dirs, spoilt>>
    BY <1>4 DEF Exec!Start
  <2> QED
    BY <1>2, <1>4, <2>1 DEF BoxInv, Exec!Start
<1>5. ASSUME NEW u \in Callers, Exec!CopyFails(u) \/ Exec!Collected(u) PROVE TierInv' /\ BoxInv'
  <2>1. UNCHANGED <<declared, spec, host, wavered, reported, tier, spoilt>>
    BY <1>5 DEF Exec!CopyFails, Exec!Collected
  <2> QED
    BY <1>2, <1>5, <2>1 DEF BoxInv, Exec!CopyFails, Exec!Collected, Exec!Idle
<1>6. ASSUME NEW u \in Callers, Exec!Cleanup(u) PROVE TierInv' /\ BoxInv'
  <2>1. UNCHANGED <<declared, spec, host, wavered, reported, tier>>
    BY <1>6 DEF Exec!Cleanup
  <2> QED
    BY <1>2, <1>6, <2>1 DEF BoxInv, Exec!Cleanup, Exec!Idle
<1>7. CASE UNCHANGED sandboxVars
  BY <1>2, <1>7 DEF sandboxVars, BoxInv
<1> QED
  BY <1>1, <1>3, <1>4, <1>5, <1>6, <1>7 DEF Exec!Sandbox

\* What the two invariants say of a command.
LEMMA BoxedIsSafe == TierInv /\ BoxInv => Exec!NeverWeaker /\ Exec!RunsInItsBox /\ Exec!NotOverstated
BY DEF TierInv, BoxInv, Exec!RunsInItsBox

-----------------------------------------------------------------------------
\* A team: what the agents have was free of side effects, or is of the memory.  The tools
\* of the memory are no agents.
LEMMA TeamStep ==
  ASSUME MemoryTools \cap Cards = {}, Batch!AgentsBound, [Batch!Team]_teamVars
  PROVE  Batch!AgentsBound'
BY DEF Batch!AgentsBound, Batch!Team, Batch!make_multiagent_tools, Batch!readonly_tools,
       Batch!share_memory, Batch!Register, teamVars

-----------------------------------------------------------------------------
\* A page: what was kept of what was sent, and that the address it is about to connect to
\* was judged.
Links(l) ==
  /\ l \in Seq([ip : Public, judged : SUBSET Public]) /\ Len(l) \in Nat
  /\ \A i \in 1 .. Len(l) : l[i].ip \in l[i].judged
FetchInv ==
  /\ DOMAIN page = {"step", "url", "hops", "ip", "judged", "kept", "cut", "status", "tell"}
  /\ page.step \in {"idle", "guard", "follow", "dial", "read", "told"}
  /\ page.hops \in 0 .. MaxRedirects + 1 /\ page.kept \in Nat /\ cached \in Nat
  /\ page.kept =< MaxBytes /\ (page.cut <=> page.kept < cached)
  /\ page.step # "told" => page.kept = cached
  /\ page.step = "dial" => page.hops =< MaxRedirects /\ page.ip \in page.judged /\ page.judged \subseteq Public
  /\ page.step \notin {"read", "told"} => Len(linked) = page.hops
  /\ page.step \in {"read", "told"} => Len(linked) =< MaxRedirects + 1
  /\ Links(linked)

\* It holds at the start.
LEMMA FetchInit == Outside!InitFetch => FetchInv
<1> SUFFICES ASSUME Outside!InitFetch PROVE FetchInv
  OBVIOUS
<1>1. linked = <<>> /\ Len(linked) = 0 /\ linked \in Seq([ip : Public, judged : SUBSET Public])
  BY DEF Outside!InitFetch
<1> QED
  BY <1>1, OutsideAssumption DEF Outside!InitFetch, FetchInv, Links

\* A fetch that ends has been cut only if its last chunk was.
LEMMA Telling ==
  ASSUME FetchInv, NEW what, page' = Outside!Told(what), cached' = cached, Links(linked'), Len(linked') =< MaxRedirects + 1
  PROVE  FetchInv'
<1>1. /\ DOMAIN page' = DOMAIN page /\ page'.step = "told" /\ page'.hops = page.hops
      /\ page'.kept = page.kept /\ page'.cut = page.cut
  BY DEF FetchInv, Outside!Told
<1> QED
  BY <1>1 DEF FetchInv

\* So has one that goes on not been.
GoesOn(step) ==
  /\ DOMAIN page' = DOMAIN page /\ page'.step = step /\ page'.kept = page.kept /\ page'.cut = page.cut

\* A fetch that goes on keeps its invariant when its next step is what it says.
LEMMA GoingOn ==
  ASSUME FetchInv, NEW step \in {"guard", "follow", "dial", "read"}, GoesOn(step), page.step # "told",
         cached' = cached, page'.hops \in 0 .. MaxRedirects + 1,
         step = "dial" => page'.hops =< MaxRedirects /\ page'.ip \in page'.judged /\ page'.judged \subseteq Public,
         Links(linked'),
         IF step = "read" THEN Len(linked') =< MaxRedirects + 1 ELSE Len(linked') = page'.hops
  PROVE  FetchInv'
<1>1. (page'.cut <=> page'.kept < cached') /\ page'.kept = cached'
  BY DEF FetchInv, GoesOn
<1> QED
  BY <1>1 DEF FetchInv, GoesOn

\* A step of a fetch keeps what it connects to and what it has read.
LEMMA FetchStep == FetchInv /\ [Outside!Fetch]_fetchVars => FetchInv'
<1> SUFFICES ASSUME FetchInv, [Outside!Fetch]_fetchVars PROVE FetchInv'
  OBVIOUS
<1> USE OutsideAssumption
<1>0. /\ DOMAIN page = {"step", "url", "hops", "ip", "judged", "kept", "cut", "status", "tell"}
      /\ page.hops \in 0 .. MaxRedirects + 1 /\ Len(linked) \in Nat /\ Links(linked)
      /\ page.step \notin {"read", "told"} => Len(linked) = page.hops
      /\ Len(linked) =< MaxRedirects + 1
  BY DEF FetchInv, Links
<1>1. ASSUME NEW url \in Urls, NEW ips \in SUBSET Addresses, Outside!fetch_tool(url, ips) PROVE FetchInv'
  <2>1. /\ page.step = "idle" /\ UNCHANGED <<online, linked, cached>>
        /\ \/ page' = [page EXCEPT !.step = "guard", !.url = url]
           \/ \E what : page' = Outside!Told(what)
    BY <1>1 DEF Outside!fetch_tool
  <2>2. CASE page' = [page EXCEPT !.step = "guard", !.url = url]
    BY <1>0, <2>1, <2>2 DEF FetchInv
  <2>3. ASSUME NEW what, page' = Outside!Told(what) PROVE FetchInv'
    BY <1>0, <2>1, <2>3, Telling
  <2> QED
    BY <2>1, <2>2, <2>3
<1>2. CASE Outside!Guard
  <2>1. page.step = "guard" /\ UNCHANGED <<online, linked, cached>>
    BY <1>2 DEF Outside!Guard
  <2>2. CASE page' = [page EXCEPT !.step = "follow"]
    <3>1. GoesOn("follow")
      BY <1>0, <2>1, <2>2 DEF GoesOn
    <3> QED
      BY <1>0, <2>1, <2>2, <3>1, GoingOn
  <2> QED
    BY <1>0, <1>2, <2>1, <2>2, Telling DEF Outside!Guard
<1>3. ASSUME NEW ips \in SUBSET Addresses, Outside!_follow(ips) PROVE FetchInv'
  <2>1. page.step = "follow" /\ UNCHANGED <<online, linked, cached>>
    BY <1>3 DEF Outside!_follow
  <2>2. ASSUME NEW ip \in ips, page' = [page EXCEPT !.step = "dial", !.ip = ip, !.judged = ips],
               ips \subseteq Public, ~(page.hops > MaxRedirects)
        PROVE  FetchInv'
    <3>1. GoesOn("dial")
      BY <1>0, <2>1, <2>2 DEF GoesOn
    <3> QED
      BY <1>0, <2>1, <2>2, <3>1, GoingOn
  <2>3. ASSUME NEW what, page' = Outside!Told(what) PROVE FetchInv'
    BY <1>0, <2>1, <2>3, Telling
  <2> QED
    BY <1>3, <2>2, <2>3 DEF Outside!_follow, Outside!resolve_for_connection, Outside!_is_public_ip
<1>4. CASE Outside!_fetch_once
  <2>1. PICK e : e = [ip |-> page.ip, judged |-> page.judged]
    OBVIOUS
  <2>0. page.step = "dial" /\ page.hops =< MaxRedirects /\ Len(linked) = page.hops
    BY <1>4 DEF Outside!_fetch_once, FetchInv
  <2>2. e \in [ip : Public, judged : SUBSET Public] /\ e.ip \in e.judged
    BY <1>4, <2>1 DEF Outside!_fetch_once, FetchInv
  <2>3. /\ linked' = Append(linked, e) /\ cached' = cached
    BY <1>4, <2>1 DEF Outside!_fetch_once, Outside!_pin_to_validated_ip
  <2>4. Links(linked') /\ Len(linked') = Len(linked) + 1
    BY <1>0, <2>2, <2>3 DEF Links
  <2>5. ASSUME NEW what, page' = Outside!Told(what) PROVE FetchInv'
    BY <2>0, <2>3, <2>4, <2>5, Telling
  <2>6. ASSUME NEW url \in Urls, page' = [page EXCEPT !.step = "follow", !.url = url, !.hops = @ + 1]
        PROVE  FetchInv'
    <3>1. GoesOn("follow")
      BY <1>0, <2>0, <2>6 DEF GoesOn
    <3> QED
      BY <1>0, <2>0, <2>3, <2>4, <2>6, <3>1, GoingOn
  <2>7. CASE page' = [Outside!Told("page") EXCEPT !.status = "redirect"]
    <3>1. /\ DOMAIN page' = DOMAIN page /\ page'.step = "told" /\ page'.hops = page.hops
          /\ page'.kept = page.kept /\ page'.cut = page.cut
      BY <1>0, <2>7 DEF Outside!Told
    <3> QED
      BY <2>0, <2>3, <2>4, <3>1 DEF FetchInv
  <2>8. CASE page' = [page EXCEPT !.step = "read", !.status = "ok"]
    <3>1. GoesOn("read")
      BY <1>0, <2>0, <2>8 DEF GoesOn
    <3> QED
      BY <1>0, <2>0, <2>3, <2>4, <2>8, <3>1, GoingOn
  <2> QED
    BY <1>4, <2>5, <2>6, <2>7, <2>8 DEF Outside!_fetch_once
<1>5. CASE Outside!iter_bytes
  <2>0. page.step = "read" /\ UNCHANGED <<online, linked>>
    BY <1>5 DEF Outside!iter_bytes
  <2>1. ASSUME NEW n \in 1 .. MaxChunk, cached' = cached + n,
               LET room == MaxBytes - page.kept IN
               page' = IF n > room THEN [Outside!Told("page") EXCEPT !.kept = @ + room, !.cut = TRUE]
                       ELSE [page EXCEPT !.kept = @ + n]
        PROVE  FetchInv'
    <3>0. page.kept = cached /\ cached \in Nat /\ page.kept =< MaxBytes /\ (page.cut <=> page.kept < cached)
      BY <2>0 DEF FetchInv
    <3>1. CASE n > MaxBytes - page.kept
      <4>1. /\ DOMAIN page' = DOMAIN page /\ page'.step = "told" /\ page'.hops = page.hops
            /\ page'.kept = page.kept + (MaxBytes - page.kept) /\ page'.cut = TRUE
        BY <1>0, <2>1, <3>1 DEF Outside!Told
      <4>2. page'.kept = MaxBytes /\ cached' \in Nat /\ page'.kept < cached'
        BY <2>1, <3>0, <3>1, <4>1
      <4> QED
        BY <1>0, <2>0, <4>1, <4>2 DEF FetchInv
    <3>2. CASE ~(n > MaxBytes - page.kept)
      <4>1. /\ DOMAIN page' = DOMAIN page /\ page'.step = "read" /\ page'.hops = page.hops
            /\ page'.kept = page.kept + n /\ page'.cut = page.cut
        BY <1>0, <2>0, <2>1, <3>2
      <4>2. page'.kept = cached' /\ cached' \in Nat /\ page'.kept =< MaxBytes /\ (page'.cut <=> page'.kept < cached')
        BY <2>1, <3>0, <3>2, <4>1
      <4> QED
        BY <1>0, <2>0, <4>1, <4>2 DEF FetchInv
    <3> QED
      BY <3>1, <3>2
  <2>2. ASSUME NEW what, page' = Outside!Told(what), UNCHANGED cached PROVE FetchInv'
    BY <1>0, <2>0, <2>2, Telling
  <2> QED
    BY <1>5, <2>1, <2>2 DEF Outside!iter_bytes
<1>6. CASE UNCHANGED fetchVars
  BY <1>6 DEF fetchVars, FetchInv
<1> QED
  BY <1>1, <1>2, <1>3, <1>4, <1>5, <1>6 DEF Outside!Fetch

\* What that says of the page.
LEMMA PageIsSound == FetchInv => Outside!ConnectsAsJudged /\ Outside!PageWhole
<1> SUFFICES ASSUME FetchInv PROVE Outside!ConnectsAsJudged /\ Outside!PageWhole
  OBVIOUS
<1>1. Outside!ConnectsAsJudged
  <2>1. Len(linked) =< MaxRedirects + 1
    BY OutsideAssumption DEF FetchInv, Links
  <2>2. \A i \in 1 .. Len(linked) : linked[i].ip \in linked[i].judged /\ linked[i].judged \subseteq Public
    <3> TAKE i \in 1 .. Len(linked)
    <3>0. Links(linked)
      BY DEF FetchInv
    <3>2. PICK S : S = [ip : Public, judged : SUBSET Public]
      OBVIOUS
    <3>3. linked \in Seq(S) /\ linked[i].ip \in linked[i].judged
      BY <3>0, <3>2 DEF Links
    <3>4. linked[i] \in S
      BY <3>3
    <3>1. linked[i] \in [ip : Public, judged : SUBSET Public] /\ linked[i].ip \in linked[i].judged
      BY <3>2, <3>3, <3>4
    <3> QED
      BY <3>1
  <2> QED
    BY <2>1, <2>2 DEF Outside!ConnectsAsJudged
<1>2. Outside!PageWhole
  BY Zenon DEF FetchInv, Outside!PageWhole
<1> QED
  BY <1>1, <1>2

-----------------------------------------------------------------------------
\* Searches: the provider's last error is of the search that asks or tells, unless another
\* meddled.
SearchInv ==
  /\ DOMAIN seeker = Callers
  /\ \A c \in Callers :
       /\ DOMAIN seeker[c] = {"step", "hits", "met", "tell"}
       /\ seeker[c].step \in {"idle", "search", "ask", "tell", "told"}
       /\ seeker[c].step # "told" => seeker[c].tell = nothing
       /\ provider # "http" => seeker[c].step \in {"idle", "tell", "told"}
       /\ c \notin mixed /\ seeker[c].step \in {"ask", "tell"} =>
            /\ seeker[c].step = "ask" => last_error = FALSE
            /\ seeker[c].step = "tell" => seeker[c].met = (IF last_error THEN "error" ELSE seeker[c].met)
                                          /\ seeker[c].met \in {"answer", "samples", "error"}
                                          /\ (seeker[c].met = "error" => last_error)
  /\ provider # "http" => last_error = FALSE

\* It holds at the start.
LEMMA SearchInit == Outside!InitSearch => SearchInv
BY DEF Outside!InitSearch, SearchInv

\* A step of a search keeps what each caller met.
LEMMA SearchStep ==
  SearchInv /\ Outside!SearchTold /\ [Outside!Search]_searchVars => SearchInv' /\ Outside!SearchTold'
<1> SUFFICES ASSUME SearchInv, Outside!SearchTold, [Outside!Search]_searchVars
             PROVE  SearchInv' /\ Outside!SearchTold'
  OBVIOUS
<1> USE OutsideAssumption
<1>1. ASSUME NEW c \in Callers, Outside!search_tool(c) PROVE SearchInv' /\ Outside!SearchTold'
  BY <1>1 DEF Outside!search_tool, SearchInv, Outside!SearchTold
<1>2. ASSUME NEW c \in Callers, Outside!search(c) PROVE SearchInv' /\ Outside!SearchTold'
  BY <1>2 DEF Outside!search, Outside!Touches, SearchInv, Outside!SearchTold
<1>3. ASSUME NEW c \in Callers, Outside!SearchFails(c) PROVE SearchInv' /\ Outside!SearchTold'
  BY <1>3 DEF Outside!SearchFails, Outside!Touches, SearchInv, Outside!SearchTold
<1>4. ASSUME NEW c \in Callers, Outside!_parse(c) PROVE SearchInv' /\ Outside!SearchTold'
  BY <1>4 DEF Outside!_parse, SearchInv, Outside!SearchTold
<1>5. ASSUME NEW c \in Callers, Outside!SearchTells(c) PROVE SearchInv' /\ Outside!SearchTold'
  BY <1>5 DEF Outside!SearchTells, SearchInv, Outside!SearchTold
<1>6. CASE UNCHANGED searchVars
  BY <1>6 DEF searchVars, SearchInv, Outside!SearchTold
<1> QED
  BY <1>1, <1>2, <1>3, <1>4, <1>5, <1>6 DEF Outside!Search

-----------------------------------------------------------------------------
\* Calls of another server: a line in an inbox is not answered yet, and a call that waits in
\* one has not run and waits in no other.
McpCalls ==
  /\ lines \in Nat /\ ops \in Nat
  /\ \A l \in inbox : DOMAIN l = {"line", "kind", "of", "tool", "valid"} /\ l.line \in 1 .. lines /\ l.of \in 0 .. ops
  /\ \A l, m \in inbox : l # m => l.line # m.line /\ (l.kind = "call" /\ m.kind = "call" => l.of # m.of)
McpRuns ==
  /\ ran \in Seq(Nat) /\ \A i \in 1 .. Len(ran) : ran[i] =< ops
  /\ \A i, j \in 1 .. Len(ran) : i # j => ran[i] # ran[j]
  /\ \A l \in inbox, i \in 1 .. Len(ran) : l.kind = "call" => ran[i] # l.of
McpReplies ==
  /\ DOMAIN replies = 1 .. lines /\ replies \in Seq(Seq({"result", "isError", "error"}))
  /\ \A i \in 1 .. lines : Len(replies[i]) =< 1
  /\ \A l \in inbox : replies[l.line] = <<>>
McpTools ==
  /\ imported \cap Dangerous = {}
  /\ op # nothing => DOMAIN op = {"kind", "tool", "valid", "attempt", "line"} /\ op.tool \notin Dangerous
  /\ heard # nothing => heard.tool \notin Dangerous
McpInv == McpCalls /\ McpRuns /\ McpReplies /\ McpTools

\* It holds at the start.
LEMMA McpInit == Outside!InitMcp => McpInv
<1> SUFFICES ASSUME Outside!InitMcp PROVE McpInv
  OBVIOUS
<1>1. ran \in Seq(Nat) /\ Len(ran) = 0 /\ replies \in Seq(Seq({"result", "isError", "error"})) /\ Len(replies) = 0
  BY DEF Outside!InitMcp
<1> QED
  BY <1>1 DEF Outside!InitMcp, McpInv, McpCalls, McpRuns, McpReplies, McpTools

\* A new line, of an operation that is new or lists.
LEMMA NewLine ==
  ASSUME McpInv, NEW new, DOMAIN new = {"line", "kind", "of", "tool", "valid"}, new.line = lines + 1,
         new.of \in 0 .. ops', ops' \in {ops, ops + 1}, new.kind = "call" => new.of = ops + 1,
         lines' = lines + 1, inbox' = inbox \cup {new}, replies' = Append(replies, <<>>), ran' = ran
  PROVE  McpCalls' /\ McpRuns' /\ McpReplies'
<1>0. /\ lines \in Nat /\ ops \in Nat /\ ops' \in Nat /\ ops' >= ops
      /\ \A l \in inbox : l.line \in 1 .. lines /\ l.of \in 0 .. ops
  BY DEF McpInv, McpCalls
<1>a. \A l \in inbox' : l \in inbox \/ l = new
  OBVIOUS
<1>b. new.kind = "call" => ops' = ops + 1 /\ new.of = ops + 1
  BY <1>0
<1>2. McpCalls'
  <2>1. \A l \in inbox : l.line # new.line /\ (new.kind = "call" => l.of # new.of)
    BY <1>0, <1>b
  <2>2. \A l \in inbox' : DOMAIN l = {"line", "kind", "of", "tool", "valid"} /\ l.line \in 1 .. lines' /\ l.of \in 0 .. ops'
    BY <1>0, <1>a DEF McpInv, McpCalls
  <2>3. \A l, m \in inbox' : l # m => l.line # m.line /\ (l.kind = "call" /\ m.kind = "call" => l.of # m.of)
    BY <1>a, <2>1 DEF McpInv, McpCalls
  <2> QED
    BY <1>0, <2>2, <2>3 DEF McpCalls
<1>3. McpRuns'
  <2>1. \A i \in 1 .. Len(ran) : ran[i] \in Nat /\ ran[i] =< ops
    BY DEF McpInv, McpRuns
  <2>2. \A i \in 1 .. Len(ran) : new.kind = "call" => ran[i] # new.of
    BY <1>0, <1>b, <2>1
  <2> QED
    BY <1>0, <1>a, <2>1, <2>2 DEF McpInv, McpRuns
<1>4. McpReplies'
  <2>1. <<>> \in Seq({"result", "isError", "error"}) /\ Len(<<>>) = 0
    OBVIOUS
  <2>2. /\ replies' \in Seq(Seq({"result", "isError", "error"})) /\ DOMAIN replies' = 1 .. lines'
        /\ \A i \in 1 .. lines : replies'[i] = replies[i]
        /\ replies'[lines + 1] = <<>>
    BY <2>1 DEF McpInv, McpReplies, McpCalls
  <2>3. \A i \in 1 .. lines' : Len(replies'[i]) =< 1
    BY <1>0, <2>1, <2>2 DEF McpInv, McpReplies
  <2>4. \A l \in inbox' : replies'[l.line] = <<>>
    BY <1>0, <1>a, <2>2 DEF McpInv, McpReplies
  <2> QED
    BY <2>2, <2>3, <2>4 DEF McpReplies
<1> QED
  BY <1>2, <1>3, <1>4

\* The fields of a line that is written to the server.
LEMMA LineHas ==
  ASSUME NEW kind, NEW of, NEW tool, NEW valid, NEW new, new = Outside!Line(kind, of, tool, valid)
  PROVE  /\ DOMAIN new = {"line", "kind", "of", "tool", "valid"}
         /\ new.line = lines + 1 /\ new.kind = kind /\ new.of = of
BY DEF Outside!Line

\* A step of the client or the server keeps the calls and what answers them.
LEMMA McpStep == McpInv /\ [Outside!Mcp]_mcpVars => McpInv'
<1> SUFFICES ASSUME McpInv, [Outside!Mcp]_mcpVars PROVE McpInv'
  OBVIOUS
<1> USE OutsideAssumption
<1>1. ASSUME NEW kind \in {"list", "call"}, NEW tool, NEW valid, tool \notin Dangerous \/ kind = "call",
             Outside!_run(kind, tool, valid)
      PROVE  McpInv'
  <2>0. PICK new : new = Outside!Line(kind, ops + 1, tool, valid)
    OBVIOUS
  <2>1. McpCalls' /\ McpRuns' /\ McpReplies'
    <3>1. /\ ops' = ops + 1 /\ lines' = lines + 1 /\ replies' = Append(replies, <<>>) /\ ran' = ran
          /\ inbox' = inbox \cup {new} /\ ops + 1 \in 0 .. ops'
      BY <1>1, <2>0 DEF Outside!_run, McpInv, McpCalls
    <3> QED
      BY <2>0, <3>1, LineHas, NewLine
  <2>2. McpTools'
    BY <1>1 DEF Outside!_run, McpInv, McpTools
  <2> QED
    BY <2>1, <2>2 DEF McpInv
<1>2. CASE Outside!McpTimeout
  <2>1. ASSUME op # nothing, lines' = lines + 1, replies' = Append(replies, <<>>),
               inbox' = inbox \cup {Outside!Line("list", ops, op.tool, TRUE)},
               op' = [op EXCEPT !.attempt = @ + 1, !.line = lines + 1], heard' = heard,
               UNCHANGED <<rules, ran, imported, ops>>
        PROVE  McpInv'
    <3>0. ops \in 0 .. ops' /\ ops' \in {ops, ops + 1} /\ ran' = ran
      BY <2>1 DEF McpInv, McpCalls
    <3>2. PICK new : new = Outside!Line("list", ops, op.tool, TRUE)
      OBVIOUS
    <3>3. /\ lines' = lines + 1 /\ replies' = Append(replies, <<>>) /\ inbox' = inbox \cup {new}
      BY <2>1, <3>2
    <3>4. /\ DOMAIN new = {"line", "kind", "of", "tool", "valid"}
          /\ new.line = lines + 1 /\ new.kind = "list" /\ new.of = ops
      BY <3>2 DEF Outside!Line
    <3>1. McpCalls' /\ McpRuns' /\ McpReplies'
      BY <3>0, <3>3, <3>4, NewLine
    <3>5. McpTools'
      BY <2>1 DEF McpInv, McpTools
    <3> QED
      BY <3>1, <3>5 DEF McpInv
  <2>2. ASSUME op # nothing, op' = nothing, heard' = [of |-> ops, tool |-> op.tool, got |-> "error"],
               UNCHANGED <<lines, replies, inbox>>, UNCHANGED <<rules, ran, imported, ops>>
        PROVE  McpInv'
    <3>1. McpCalls' /\ McpRuns' /\ McpReplies'
      BY <2>2 DEF McpInv, McpCalls, McpRuns, McpReplies
    <3>2. McpTools'
      BY <2>2 DEF McpInv, McpTools
    <3> QED
      BY <3>1, <3>2 DEF McpInv
  <2> QED
    BY <1>2, <2>1, <2>2 DEF Outside!McpTimeout
<1>3. ASSUME NEW l \in inbox, Outside!Lost(l) PROVE McpInv'
  BY <1>3 DEF Outside!Lost, McpInv, McpCalls, McpRuns, McpReplies, McpTools
<1>4. ASSUME NEW kind \in {"notification", "unknown"}, Outside!Stray(kind) PROVE McpInv'
  <2>0. 0 \in 0 .. ops' /\ ops' \in {ops, ops + 1}
    BY <1>4 DEF Outside!Stray, McpInv, McpCalls
  <2>1. McpCalls' /\ McpRuns' /\ McpReplies'
    <3>1. /\ lines' = lines + 1 /\ replies' = Append(replies, <<>>) /\ ran' = ran
          /\ inbox' = inbox \cup {Outside!Line(kind, 0, nothing, TRUE)}
      BY <1>4 DEF Outside!Stray
    <3>2. PICK new : new = Outside!Line(kind, 0, nothing, TRUE)
      OBVIOUS
    <3>3. inbox' = inbox \cup {new}
      BY <3>1, <3>2
    <3>4. /\ DOMAIN new = {"line", "kind", "of", "tool", "valid"}
          /\ new.line = lines + 1 /\ new.kind = kind /\ new.of = 0
      BY <3>2 DEF Outside!Line
    <3> QED
      BY <2>0, <3>1, <3>3, <3>4, NewLine
  <2>2. McpTools'
    BY <1>4 DEF Outside!Stray, McpInv, McpTools
  <2> QED
    BY <2>1, <2>2 DEF McpInv
<1>5. ASSUME NEW l \in inbox, Outside!handle(l) PROVE McpInv'
  <2>1. PICK told0 \in {"result", "isError", "error"} :
          replies' = [replies EXCEPT ![l.line] = IF l.kind = "notification" THEN @ ELSE Append(@, told0)]
    BY <1>5 DEF Outside!handle
  <2>2. /\ inbox' = inbox \ {l} /\ UNCHANGED <<rules, op, imported, ops, lines, heard>>
        /\ ran' = ran \/ (l.kind = "call" /\ ran' = Append(ran, l.of))
    BY <1>5 DEF Outside!handle
  <2>3. McpCalls' /\ McpTools'
    BY <2>2 DEF McpInv, McpCalls, McpTools
  <2>4. McpRuns'
    <3>1. CASE ran' = ran
      BY <2>2, <3>1 DEF McpInv, McpRuns
    <3>2. CASE l.kind = "call" /\ ran' = Append(ran, l.of)
      <4>1. l.of \in Nat /\ l.of =< ops /\ \A i \in 1 .. Len(ran) : ran[i] # l.of
        BY <3>2 DEF McpInv, McpCalls, McpRuns
      <4>2. /\ ran' \in Seq(Nat) /\ Len(ran') = Len(ran) + 1 /\ ran'[Len(ran) + 1] = l.of
            /\ \A i \in 1 .. Len(ran) : ran'[i] = ran[i]
        BY <3>2, <4>1 DEF McpInv, McpRuns
      <4>3. \A m \in inbox' : m.kind = "call" => m.of # l.of
        BY <2>2, <3>2 DEF McpInv, McpCalls
      <4>4. \A i, j \in 1 .. Len(ran') : i # j => ran'[i] # ran'[j]
        <5>1. \A i \in 1 .. Len(ran') : i \in 1 .. Len(ran) \/ i = Len(ran) + 1
          BY <4>2 DEF McpInv, McpRuns
        <5> QED
          BY <4>1, <4>2, <5>1 DEF McpInv, McpRuns
      <4>5. \A m \in inbox', i \in 1 .. Len(ran') : m.kind = "call" => ran'[i] # m.of
        <5>1. \A i \in 1 .. Len(ran') : i \in 1 .. Len(ran) \/ i = Len(ran) + 1
          BY <4>2 DEF McpInv, McpRuns
        <5> QED
          BY <2>2, <4>2, <4>3, <5>1 DEF McpInv, McpRuns
      <4>6. \A i \in 1 .. Len(ran') : ran'[i] =< ops
        <5>1. \A i \in 1 .. Len(ran') : i \in 1 .. Len(ran) \/ i = Len(ran) + 1
          BY <4>2 DEF McpInv, McpRuns
        <5> QED
          BY <4>1, <4>2, <5>1 DEF McpInv, McpRuns
      <4> QED
        BY <2>2, <4>2, <4>4, <4>5, <4>6 DEF McpRuns
    <3> QED
      BY <2>2, <3>1, <3>2
  <2>5. McpReplies'
    <3>1. l.line \in 1 .. lines /\ replies[l.line] = <<>>
      BY DEF McpInv, McpCalls, McpReplies
    <3>2. PICK r \in Seq({"result", "isError", "error"}) :
            replies' = [replies EXCEPT ![l.line] = r] /\ Len(r) =< 1
      <4>1. /\ Append(<<>>, told0) \in Seq({"result", "isError", "error"}) /\ Len(Append(<<>>, told0)) =< 1
            /\ <<>> \in Seq({"result", "isError", "error"}) /\ Len(<<>>) =< 1
        OBVIOUS
      <4> QED
        BY <2>1, <3>1, <4>1
    <3>3. \A m \in inbox' : m.line # l.line
      BY <2>2 DEF McpInv, McpCalls
    <3> QED
      BY <2>2, <3>1, <3>2, <3>3 DEF McpInv, McpCalls, McpReplies
  <2> QED
    BY <2>3, <2>4, <2>5 DEF McpInv
<1>6. CASE Outside!import_reviewed
  BY <1>6 DEF Outside!import_reviewed, Outside!review, McpInv, McpCalls, McpRuns, McpReplies, McpTools
<1>7. CASE Outside!McpCall
  BY <1>7 DEF Outside!McpCall, McpInv, McpCalls, McpRuns, McpReplies, McpTools
<1>8. CASE UNCHANGED mcpVars
  BY <1>8 DEF mcpVars, McpInv, McpCalls, McpRuns, McpReplies, McpTools
<1> QED
  BY <1>1, <1>2, <1>3, <1>4, <1>5, <1>6, <1>7, <1>8 DEF Outside!Mcp

\* A call runs once at the most.
LEMMA McpIsSound == McpInv => Outside!McpOnce
<1> SUFFICES ASSUME McpInv PROVE Outside!McpOnce
  OBVIOUS
<1>1. Len(replies) = lines
  BY DEF McpInv, McpReplies, McpCalls
<1> QED
  BY <1>1 DEF McpInv, McpRuns, McpReplies, McpTools, Outside!McpOnce

-----------------------------------------------------------------------------
\* Packages: what a card was bound to is the newest of those that were there, and what was
\* shown was judged by the tools that were there.
SkillInv ==
  /\ DOMAIN versions = Aliases /\ DOMAIN bound = Aliases
  /\ Outside!SkillGated

\* The version that is taken as the latest is newer than the others.
LEMMA NewestVersion ==
  ASSUME NEW a \in Aliases, Outside!Loaded(a) # {}, <<>> \notin Outside!Loaded(a)
  PROVE  \A v \in Outside!Loaded(a) \ {Outside!_latest_version(a)} : Outside!Newer(Outside!_latest_version(a), v)
<1>1. Outside!Loaded(a) \subseteq {<<1, 9>>, <<1, 10>>}
  BY DEF Outside!Loaded, Outside!Versions
<1>2. Outside!Newer(<<1, 10>>, <<1, 9>>)
  BY DEF Outside!Newer
<1>3. \E v \in Outside!Loaded(a) : \A w \in Outside!Loaded(a) \ {v} : Outside!Newer(v, w)
  BY <1>1, <1>2
<1> QED
  BY <1>3 DEF Outside!_latest_version

\* A step of the registry or of a load keeps the cards gated.
LEMMA SkillStep == SkillInv /\ [Outside!Skill]_skillVars => SkillInv'
<1> SUFFICES ASSUME SkillInv, [Outside!Skill]_skillVars PROVE SkillInv'
  OBVIOUS
<1> USE OutsideAssumption
<1>1. ASSUME NEW a \in Aliases, NEW v \in Outside!Versions, NEW n \in Titles, NEW trusted \in BOOLEAN,
             NEW requires \in SUBSET Needs, Outside!load_skill(a, v, n, trusted, requires)
      PROVE  SkillInv'
  BY <1>1 DEF Outside!load_skill, SkillInv, Outside!SkillGated
<1>2. ASSUME NEW a \in Aliases, Outside!skill_activation_tool(a) PROVE SkillInv'
  <2>1. /\ Outside!Loaded(a) # {} /\ UNCHANGED <<versions, tools, loads, shown>>
        /\ bound' = [bound EXCEPT ![a] = [of |-> Outside!Loaded(a), version |-> Outside!_latest_version(a)]]
    BY <1>2 DEF Outside!skill_activation_tool
  <2>2. /\ bound'[a].of = Outside!Loaded(a) /\ bound'[a].version = Outside!_latest_version(a)
        /\ DOMAIN bound' = Aliases /\ \A b \in Aliases \ {a} : bound'[b] = bound[b]
    BY <2>1 DEF SkillInv
  <2>3. ASSUME NEW b \in Aliases, bound'[b] # nothing, <<>> \notin bound'[b].of
        PROVE  \A v \in bound'[b].of \ {bound'[b].version} : Outside!Newer(bound'[b].version, v)
    BY <2>1, <2>2, <2>3, NewestVersion DEF SkillInv, Outside!SkillGated
  <2> QED
    BY <2>1, <2>2, <2>3 DEF SkillInv, Outside!SkillGated
<1>3. ASSUME NEW t \in Needs, Outside!RegisterTool(t) PROVE SkillInv'
  BY <1>3 DEF Outside!RegisterTool, SkillInv, Outside!SkillGated
<1>4. ASSUME NEW n \in Titles, Outside!activate(n) PROVE SkillInv'
  BY <1>4 DEF Outside!activate, Outside!missing_requires, SkillInv, Outside!SkillGated
<1>5. CASE UNCHANGED skillVars
  BY <1>5 DEF skillVars, SkillInv, Outside!SkillGated
<1> QED
  BY <1>1, <1>2, <1>3, <1>4, <1>5 DEF Outside!Skill

\* It holds at the start.
LEMMA SkillInit == Outside!InitSkill => SkillInv
BY DEF Outside!InitSkill, SkillInv, Outside!SkillGated
-----------------------------------------------------------------------------
\* Leases: an identifier is of one task that issues it, which has not stored it before the
\* purge; what was revoked is not there.
LeaseTypes ==
  /\ now \in Nat
  /\ DOMAIN task = Borrowers /\ DOMAIN answer = Borrowers /\ DOMAIN lease = Leases
  /\ \A l \in Leases : lease[l] # nothing => lease[l] \in Nat
  /\ \A p \in Borrowers : task[p] # nothing =>
       /\ DOMAIN task[p] = {"op", "step", "lease", "since", "until", "late"}
       /\ task[p].lease \in Leases /\ task[p].since \in Nat /\ task[p].since =< now
Issues(p) == task[p] # nothing /\ task[p].op = "issue" /\ task[p].step \in {"load", "save"}
Issued ==
  \A p \in Borrowers : Issues(p) =>
    /\ lease[task[p].lease] = nothing /\ task[p].lease \notin withdrawn
    /\ \A q \in Borrowers \ {p} : Issues(q) => task[q].lease # task[p].lease
Withdrawn == \A l \in withdrawn : l \in Leases /\ lease[l] = nothing
Gets ==
  \A p \in Borrowers : task[p] # nothing /\ task[p].op = "get" =>
    /\ task[p].step = "load" /\ task[p].late => task[p].lease \in withdrawn
    /\ task[p].step = "credential" => task[p].since < task[p].until /\ ~task[p].late
LeaseInv == LeaseTypes /\ Issued /\ Withdrawn /\ Gets /\ Choice!LentInTime

\* It holds at the start.
LEMMA LeaseInit == Choice!InitLeases => LeaseInv
BY DEF Choice!InitLeases, LeaseInv, LeaseTypes, Issues, Issued, Withdrawn, Gets, Choice!LentInTime

\* A step of a task that stays with its lease and keeps the leases.
LEMMA LeaseStep == LeaseInv /\ [Choice!Lend]_(Choice!leaseVars) => LeaseInv'
<1> SUFFICES ASSUME LeaseInv, [Choice!Lend]_(Choice!leaseVars) PROVE LeaseInv'
  OBVIOUS
<1> USE LeaseAssumption
<1>1. ASSUME NEW p \in Borrowers, NEW l \in Leases, NEW o \in {"issue", "get"}, Choice!Begin(p, o, l) PROVE LeaseInv'
  <2>0. PICK late : late = (l \in withdrawn)
    OBVIOUS
  <2>1. PICK t : t = [op |-> o, step |-> "load", lease |-> l, since |-> now, until |-> nothing, late |-> l \in withdrawn]
    OBVIOUS
  <2>2. /\ DOMAIN t = {"op", "step", "lease", "since", "until", "late"} /\ t.op = o /\ t.step = "load"
        /\ t.lease = l /\ t.since = now /\ (t.late => l \in withdrawn)
    BY <2>1
  <2>3. /\ task[p] = nothing /\ task' = [task EXCEPT ![p] = t] /\ answer' = [answer EXCEPT ![p] = nothing]
        /\ UNCHANGED <<now, credential, lease, withdrawn>>
        /\ o = "issue" => /\ lease[l] = nothing /\ l \notin withdrawn
                          /\ \A q \in Borrowers : task[q] # nothing => task[q].lease # l
    BY <1>1, <2>1 DEF Choice!Begin
  <2>4. LeaseTypes'
    BY <2>2, <2>3 DEF LeaseInv, LeaseTypes
  <2>5. Issued' /\ Withdrawn'
    BY <2>2, <2>3 DEF LeaseInv, LeaseTypes, Issued, Issues, Withdrawn
  <2>6. Gets' /\ Choice!LentInTime'
    BY <2>2, <2>3 DEF LeaseInv, LeaseTypes, Gets, Choice!LentInTime
  <2> QED
    BY <2>4, <2>5, <2>6 DEF LeaseInv
<1>2. ASSUME NEW p \in Borrowers, Choice!issue(p) PROVE LeaseInv'
  <2>0. UNCHANGED <<now, credential, withdrawn, answer>> /\ task[p] # nothing /\ task[p].op = "issue"
    BY <1>2 DEF Choice!issue, Choice!In
  <2>1. CASE Choice!In(p, "issue", "load")
    <3>1. /\ UNCHANGED lease /\ task[p].step = "load"
          /\ task' = [task EXCEPT ![p] = nothing] \/ task' = [task EXCEPT ![p].step = "save", ![p].since = now]
      BY <1>2, <2>1 DEF Choice!issue, Choice!In, Choice!End
    <3>2. LeaseTypes'
      BY <2>0, <3>1 DEF LeaseInv, LeaseTypes
    <3>3. Issued' /\ Withdrawn'
      BY <2>0, <3>1 DEF LeaseInv, LeaseTypes, Issued, Issues, Withdrawn
    <3>4. Gets' /\ Choice!LentInTime'
      BY <2>0, <3>1 DEF LeaseInv, LeaseTypes, Gets, Choice!LentInTime
    <3> QED
      BY <3>2, <3>3, <3>4 DEF LeaseInv
  <2>2. CASE Choice!In(p, "issue", "save")
    <3>1. /\ lease' = [lease EXCEPT ![task[p].lease] = task[p].since + TTL] /\ task[p].step = "save"
          /\ task' = [task EXCEPT ![p].step = "purge"]
      BY <1>2, <2>2 DEF Choice!issue, Choice!In, Choice!Then, Choice!save_credential_lease
    <3>2. LeaseTypes'
      BY <2>0, <3>1 DEF LeaseInv, LeaseTypes
    <3>3. Issued' /\ Withdrawn'
      BY <2>0, <3>1 DEF LeaseInv, LeaseTypes, Issued, Issues, Withdrawn
    <3>4. Gets' /\ Choice!LentInTime'
      BY <2>0, <3>1 DEF LeaseInv, LeaseTypes, Gets, Choice!LentInTime
    <3> QED
      BY <3>2, <3>3, <3>4 DEF LeaseInv
  <2>3. CASE Choice!In(p, "issue", "purge")
    <3>1. /\ \A l \in Leases : lease'[l] \in {nothing, lease[l]}
          /\ DOMAIN lease' = Leases /\ task' = [task EXCEPT ![p] = nothing]
      BY <1>2, <2>3 DEF Choice!issue, Choice!In, Choice!End, Choice!purge_expired_credential_leases
    <3>2. LeaseTypes'
      BY <2>0, <3>1 DEF LeaseInv, LeaseTypes
    <3>3. Issued' /\ Withdrawn'
      BY <2>0, <3>1 DEF LeaseInv, LeaseTypes, Issued, Issues, Withdrawn
    <3>4. Gets' /\ Choice!LentInTime'
      BY <2>0, <3>1 DEF LeaseInv, LeaseTypes, Gets, Choice!LentInTime
    <3> QED
      BY <3>2, <3>3, <3>4 DEF LeaseInv
  <2> QED
    BY <1>2, <2>1, <2>2, <2>3 DEF Choice!issue
<1>3. ASSUME NEW p \in Borrowers, Choice!lease_get(p) PROVE LeaseInv'
  <2>0. UNCHANGED <<now, credential, withdrawn>> /\ task[p] # nothing /\ task[p].op = "get"
    BY <1>3 DEF Choice!lease_get, Choice!In
  <2>1. CASE Choice!In(p, "get", "load")
    <3>1. /\ UNCHANGED <<lease, answer>> /\ task[p].step = "load"
          /\ IF lease[task[p].lease] = nothing THEN task' = [task EXCEPT ![p] = nothing]
             ELSE task' = [task EXCEPT ![p].until = lease[task[p].lease],
                                       ![p].step = IF lease[task[p].lease] <= now THEN "drop" ELSE "credential"]
      BY <1>3, <2>1 DEF Choice!lease_get, Choice!In, Choice!End
    <3>2. LeaseTypes'
      BY <2>0, <3>1 DEF LeaseInv, LeaseTypes
    <3>3. Issued' /\ Withdrawn'
      BY <2>0, <3>1 DEF LeaseInv, LeaseTypes, Issued, Issues, Withdrawn
    <3>4. Gets' /\ Choice!LentInTime'
      BY <2>0, <3>1 DEF LeaseInv, LeaseTypes, Withdrawn, Gets, Choice!LentInTime
    <3> QED
      BY <3>2, <3>3, <3>4 DEF LeaseInv
  <2>2. CASE Choice!In(p, "get", "credential")
    <3>1. /\ UNCHANGED lease /\ task[p].step = "credential"
          /\ \/ task' = [task EXCEPT ![p].step = "drop"] /\ UNCHANGED answer
             \/ answer' = [answer EXCEPT ![p] = task[p]] /\ task' = [task EXCEPT ![p] = nothing]
      BY <1>3, <2>2 DEF Choice!lease_get, Choice!In, Choice!End, Choice!Then
    <3>2. LeaseTypes'
      BY <2>0, <3>1 DEF LeaseInv, LeaseTypes
    <3>3. Issued' /\ Withdrawn'
      BY <2>0, <3>1 DEF LeaseInv, LeaseTypes, Issued, Issues, Withdrawn
    <3>4. Gets' /\ Choice!LentInTime'
      BY <2>0, <3>1 DEF LeaseInv, LeaseTypes, Gets, Choice!LentInTime
    <3> QED
      BY <3>2, <3>3, <3>4 DEF LeaseInv
  <2>3. CASE Choice!In(p, "get", "drop")
    <3>1. /\ lease' = [lease EXCEPT ![task[p].lease] = nothing] /\ UNCHANGED answer
          /\ task' = [task EXCEPT ![p] = nothing]
      BY <1>3, <2>3 DEF Choice!lease_get, Choice!In, Choice!End, Choice!delete_credential_lease
    <3>2. LeaseTypes'
      BY <2>0, <3>1 DEF LeaseInv, LeaseTypes
    <3>3. Issued' /\ Withdrawn'
      BY <2>0, <3>1 DEF LeaseInv, LeaseTypes, Issued, Issues, Withdrawn
    <3>4. Gets' /\ Choice!LentInTime'
      BY <2>0, <3>1 DEF LeaseInv, LeaseTypes, Gets, Choice!LentInTime
    <3> QED
      BY <3>2, <3>3, <3>4 DEF LeaseInv
  <2> QED
    BY <1>3, <2>1, <2>2, <2>3 DEF Choice!lease_get
<1>4. ASSUME NEW l \in Leases, Choice!revoke(l) PROVE LeaseInv'
  BY <1>4 DEF Choice!revoke, Choice!delete_credential_lease, LeaseInv, LeaseTypes, Issued, Issues, Withdrawn,
              Gets, Choice!LentInTime
<1>5. ASSUME NEW k, Choice!Credential(k) PROVE LeaseInv'
  BY <1>5 DEF Choice!Credential, LeaseInv, LeaseTypes, Issued, Issues, Withdrawn, Gets, Choice!LentInTime
<1>6. CASE Choice!Tick
  BY <1>6 DEF Choice!Tick, LeaseInv, LeaseTypes, Issued, Issues, Withdrawn, Gets, Choice!LentInTime
<1>7. CASE UNCHANGED Choice!leaseVars
  BY <1>7 DEF Choice!leaseVars, LeaseInv, LeaseTypes, Issued, Issues, Withdrawn, Gets, Choice!LentInTime
<1> QED
  BY <1>1, <1>2, <1>3, <1>4, <1>5, <1>6, <1>7 DEF Choice!Lend

-----------------------------------------------------------------------------
\* Chats: of each call the fragments so far have been put together.
ClientTypes ==
  /\ DOMAIN chat = Callers /\ DOMAIN meant = Callers /\ DOMAIN sent = Callers
  /\ DOMAIN acc = Callers /\ DOMAIN reply = Callers
Fragments ==
  \A c \in Callers :
    /\ DOMAIN sent[c] = DOMAIN meant[c] /\ DOMAIN acc[c] = DOMAIN meant[c]
    /\ \A i \in DOMAIN meant[c] :
         /\ sent[c][i] \in 0 .. Parts /\ DOMAIN acc[c][i] = {"name", "args"}
         /\ acc[c][i].args = [k \in 1 .. sent[c][i] |-> k]
         /\ sent[c][i] > 0 => acc[c][i].name = Client!Api(meant[c][i])
ClientInv == ClientTypes /\ Fragments /\ Client!CallsAssembled

\* It holds at the start.
LEMMA ClientInit == Client!Init => ClientInv
BY DEF Client!Init, ClientInv, ClientTypes, Fragments, Client!CallsAssembled

\* The provider's name of a tool tells the tool, and comes back to it.
LEMMA NameTells == \A t : Client!Api(t)[1] = t /\ Client!Unmapped(Client!Api(t))[1] = t
BY DEF Client!Api, Client!Unmapped

\* A fragment, a call that is put together or a new request keeps the fragments.
LEMMA ClientStep == ClientInv /\ [Client!Next]_clientVars => ClientInv'
<1> SUFFICES ASSUME ClientInv, [Client!Next]_clientVars PROVE ClientInv'
  OBVIOUS
<1> USE ClientAssumption
<1>1. ASSUME NEW c \in Callers, NEW ts \in SUBSET Tools, Client!Send(c, ts) PROVE ClientInv'
  <2>1. PICK n \in 0 .. MaxCalls : \E calls \in [1 .. n -> ts] :
          /\ meant' = [meant EXCEPT ![c] = calls]
          /\ sent' = [sent EXCEPT ![c] = [i \in 1 .. n |-> 0]]
          /\ acc' = [acc EXCEPT ![c] = [i \in 1 .. n |-> Client!Nothing]]
    BY <1>1 DEF Client!Send
  <2>2. chat' = [chat EXCEPT ![c] = "sent"] /\ reply' = [reply EXCEPT ![c] = <<>>]
    BY <1>1 DEF Client!Send
  <2>3. <<>> = [k \in 1 .. 0 |-> k]
    OBVIOUS
  <2>4. ClientTypes'
    BY <2>1, <2>2 DEF ClientInv, ClientTypes
  <2>5. Fragments'
    BY <2>1, <2>3 DEF ClientInv, ClientTypes, Fragments, Client!Nothing
  <2>6. Client!CallsAssembled'
    BY <2>1, <2>2 DEF ClientInv, ClientTypes, Client!CallsAssembled
  <2> QED
    BY <2>4, <2>5, <2>6 DEF ClientInv
<1>2. ASSUME NEW c \in Callers, NEW i \in 1 .. MaxCalls, Client!Fragment(c, i) PROVE ClientInv'
  <2>1. /\ chat[c] = "sent" /\ i \in DOMAIN meant[c] /\ sent[c][i] < Parts
        /\ sent' = [sent EXCEPT ![c][i] = @ + 1] /\ UNCHANGED <<chat, unmap, meant, reply>>
    BY <1>2 DEF Client!Fragment
  <2>2. PICK e : e = Client!Arrived(acc[c][i], meant[c][i], sent[c][i] + 1)
    OBVIOUS
  <2>3. acc' = [acc EXCEPT ![c][i] = e]
    BY <1>2, <2>2 DEF Client!Fragment
  <2>4. sent[c][i] \in Nat /\ acc[c][i].args = [k \in 1 .. sent[c][i] |-> k]
    BY <2>1 DEF ClientInv, Fragments
  <2>5. Append([k \in 1 .. sent[c][i] |-> k], sent[c][i] + 1) = [k \in 1 .. sent[c][i] + 1 |-> k]
    BY <2>4
  <2>6. DOMAIN e = {"name", "args"} /\ e.name = Client!Api(meant[c][i]) /\ e.args = [k \in 1 .. sent[c][i] + 1 |-> k]
    BY <2>2, <2>4, <2>5 DEF Client!Arrived
  <2>7. ClientTypes'
    BY <2>1, <2>3 DEF ClientInv, ClientTypes
  <2>8. Fragments'
    <3> SUFFICES ASSUME NEW d \in Callers
                 PROVE  /\ DOMAIN sent'[d] = DOMAIN meant[d] /\ DOMAIN acc'[d] = DOMAIN meant[d]
                        /\ \A j \in DOMAIN meant[d] :
                             /\ sent'[d][j] \in 0 .. Parts /\ DOMAIN acc'[d][j] = {"name", "args"}
                             /\ acc'[d][j].args = [k \in 1 .. sent'[d][j] |-> k]
                             /\ sent'[d][j] > 0 => acc'[d][j].name = Client!Api(meant[d][j])
      BY <2>1 DEF Fragments
    <3>1. CASE d # c
      <4>1. sent'[d] = sent[d] /\ acc'[d] = acc[d]
        BY <2>1, <2>3, <3>1 DEF ClientInv, ClientTypes
      <4> QED
        BY <4>1 DEF ClientInv, Fragments
    <3>2. CASE d = c
      <4>1. /\ DOMAIN sent'[c] = DOMAIN meant[c] /\ DOMAIN acc'[c] = DOMAIN meant[c]
            /\ sent'[c][i] = sent[c][i] + 1 /\ acc'[c][i] = e
            /\ \A j \in DOMAIN meant[c] \ {i} : sent'[c][j] = sent[c][j] /\ acc'[c][j] = acc[c][j]
        BY <2>1, <2>3 DEF ClientInv, ClientTypes, Fragments
      <4>2. \A j \in DOMAIN meant[c] \ {i} :
              /\ sent'[c][j] \in 0 .. Parts /\ DOMAIN acc'[c][j] = {"name", "args"}
              /\ acc'[c][j].args = [k \in 1 .. sent'[c][j] |-> k]
              /\ sent'[c][j] > 0 => acc'[c][j].name = Client!Api(meant[c][j])
        BY <4>1 DEF ClientInv, Fragments
      <4>3. sent'[c][i] \in 0 .. Parts
        BY <2>1, <2>4, <4>1
      <4> QED
        BY <2>6, <3>2, <4>1, <4>2, <4>3
    <3> QED
      BY <3>1, <3>2
  <2>9. Client!CallsAssembled'
    BY <2>1 DEF ClientInv, Client!CallsAssembled
  <2> QED
    BY <2>7, <2>8, <2>9 DEF ClientInv
<1>3. ASSUME NEW c \in Callers, NEW calls, Client!Respond(c, calls), DOMAIN calls = DOMAIN meant[c],
             \A i \in DOMAIN meant[c] : /\ DOMAIN calls[i] = {"name", "args"} /\ calls[i].args = Client!All
                                        /\ calls[i].name = Client!Api(meant[c][i])
      PROVE  ClientInv'
  <2>1. /\ chat' = [chat EXCEPT ![c] = "done"] /\ UNCHANGED <<unmap, meant, sent, acc>>
        /\ reply' = [reply EXCEPT ![c] = [i \in DOMAIN calls |-> [calls[i] EXCEPT !.name = Client!Unmapped(@)]]]
    BY <1>3 DEF Client!Respond
  <2>2. ClientTypes' /\ Fragments'
    BY <2>1 DEF ClientInv, ClientTypes, Fragments
  <2>3. DOMAIN reply'[c] = DOMAIN meant[c]
    BY <1>3, <2>1 DEF ClientInv, ClientTypes
  <2>4. ASSUME NEW i \in DOMAIN meant[c]
        PROVE  reply'[c][i].args = Client!All /\ reply'[c][i].name[1] = meant[c][i]
    <3>1. reply'[c][i] = [calls[i] EXCEPT !.name = Client!Unmapped(@)]
      BY <1>3, <2>1 DEF ClientInv, ClientTypes
    <3>2. reply'[c][i].args = Client!All /\ reply'[c][i].name = Client!Unmapped(Client!Api(meant[c][i]))
      BY <1>3, <3>1
    <3> QED
      BY <3>2, NameTells
  <2>5. Client!CallsAssembled'
    BY <2>1, <2>3, <2>4 DEF ClientInv, ClientTypes, Client!CallsAssembled
  <2> QED
    BY <2>2, <2>5 DEF ClientInv
<1>4. ASSUME NEW c \in Callers, Client!StreamEnds(c) PROVE ClientInv'
  <2>1. /\ \A i \in DOMAIN meant[c] : sent[c][i] = Parts
        /\ Client!Respond(c, acc[c]) /\ Parts > 0
    BY <1>4 DEF Client!StreamEnds
  <2>2. DOMAIN acc[c] = DOMAIN meant[c]
    BY DEF ClientInv, Fragments
  <2>3. \A i \in DOMAIN meant[c] :
          /\ DOMAIN acc[c][i] = {"name", "args"} /\ acc[c][i].args = Client!All
          /\ acc[c][i].name = Client!Api(meant[c][i])
    BY <2>1 DEF ClientInv, Fragments, Client!All
  <2> QED
    BY <1>3, <2>1, <2>2, <2>3
<1>5. ASSUME NEW c \in Callers, Client!AnswerAtOnce(c) PROVE ClientInv'
  BY <1>3, <1>5 DEF Client!AnswerAtOnce
<1>6. ASSUME NEW c \in Callers, Client!CallFails(c) PROVE ClientInv'
  BY <1>6 DEF Client!CallFails, ClientInv, ClientTypes, Fragments, Client!CallsAssembled
<1>7. CASE UNCHANGED clientVars
  BY <1>7 DEF clientVars, ClientInv, ClientTypes, Fragments, Client!CallsAssembled
<1> QED
  BY <1>1, <1>2, <1>4, <1>5, <1>6, <1>7 DEF Client!Next
-----------------------------------------------------------------------------
\* A batch: what is reported and what is to be reported are the tasks; a task that was not
\* cut off has ended, and what was told of it under a name of its own is its outcome.
Tasks == 1 .. NTasks
Alone(t) == \A u \in Tasks \ {t} : name[u] # name[t]
ToldOf(t) ==
  /\ job[t] # "queued"
  /\ Alone(t) => /\ outputs[name[t]].by = t
                 /\ outputs[name[t]].told = IF t \in cut THEN "unfinished" ELSE job[t]
BatchTypes ==
  /\ name \in [Tasks -> TaskNames] /\ DOMAIN job = Tasks /\ DOMAIN outputs = TaskNames
  /\ stage \in {"wait", "report", "returned", "chain", "raised"}
  /\ order \in Seq(Tasks) /\ rest \in Seq(Tasks) /\ Len(order) \in Nat /\ Len(rest) \in Nat
  /\ stage \in {"wait", "chain", "raised"} => rest = <<>> /\ cut = {}
  /\ stage \in {"wait", "raised"} => order = <<>>
  /\ stage = "returned" => rest = <<>>
Reporting ==
  stage \in {"report", "returned"} =>
    /\ Len(order) + Len(rest) = NTasks
    /\ \A t \in Tasks : (\E i \in 1 .. Len(order) : order[i] = t) \/ (\E i \in 1 .. Len(rest) : rest[i] = t)
    /\ \A t \in Tasks \ cut : job[t] \in {"done", "failed"}
    /\ \A t \in Tasks : (\E i \in 1 .. Len(order) : order[i] = t) => ToldOf(t)
Chained ==
  stage = "chain" =>
    /\ Len(order) =< NTasks /\ \A i \in 1 .. Len(order) : order[i] = i
    /\ \A t \in Tasks : IF t =< Len(order) THEN job[t] = "done" /\ ToldOf(t) ELSE job[t] = "queued"
Raised ==
  stage = "raised" => \A t \in Tasks : /\ job[t] # "running"
                                       /\ job[t] # "queued" => \A u \in 1 .. t - 1 : job[u] = "done"
BatchInv == BatchTypes /\ Reporting /\ Chained /\ Raised

\* It holds at the start.
LEMMA BatchInit == Batch!Init => BatchInv
<1> SUFFICES ASSUME Batch!Init PROVE BatchInv
  OBVIOUS
<1>1. <<>> \in Seq(Tasks) /\ Len(<<>>) = 0
  OBVIOUS
<1>2. /\ order = <<>> /\ rest = <<>> /\ cut = {} /\ stage \in {"wait", "chain"} /\ job = [t \in Tasks |-> "queued"]
      /\ name \in [Tasks -> TaskNames] /\ DOMAIN outputs = TaskNames
  BY DEF Batch!Init, Tasks
<1>3. Len(order) = 0 /\ 1 .. 0 = {} /\ 0 =< NTasks
  BY <1>1, <1>2, BatchAssumption
<1>4. \A t \in Tasks : job[t] = "queued" /\ ~(t =< Len(order))
  BY <1>2, <1>3 DEF Tasks
<1>5. Chained
  BY <1>3, <1>4 DEF Chained
<1> QED
  BY <1>1, <1>2, <1>3, <1>4, <1>5 DEF BatchInv, BatchTypes, Reporting, Raised

\* A step of the batch or of a thread keeps its table, its reports and the chain.
LEMMA BatchStep == BatchInv /\ [Batch!Next]_batchVars => BatchInv'
<1> SUFFICES ASSUME BatchInv, [Batch!Next]_batchVars PROVE BatchInv'
  OBVIOUS
<1> USE BatchAssumption
<1>1. ASSUME NEW t \in Tasks, UNCHANGED <<name, stage, rest, cut, order, outputs>>,
             job[t] \in {"queued", "running"}, stage \notin {"chain", "raised"} \/ job[t] = "running",
             NEW how \in {"running", "done", "failed"}, job' = [job EXCEPT ![t] = how]
      PROVE  BatchInv'
  <2>1. BatchTypes'
    BY <1>1 DEF BatchInv, BatchTypes
  <2>2. Reporting'
    <3> SUFFICES ASSUME stage \in {"report", "returned"} PROVE Reporting'
      BY <1>1 DEF Reporting
    <3>1. t \in cut
      BY <1>1 DEF BatchInv, Reporting
    <3>2. \A u \in Tasks : (\E i \in 1 .. Len(order) : order[i] = u) => ToldOf(u)'
      BY <1>1, <3>1 DEF BatchInv, BatchTypes, Reporting, ToldOf, Alone
    <3> QED
      BY <1>1, <3>1, <3>2 DEF BatchInv, BatchTypes, Reporting
  <2>3. Chained' /\ Raised'
    BY <1>1 DEF BatchInv, Chained, Raised
  <2> QED
    BY <2>1, <2>2, <2>3 DEF BatchInv
<1>2. ASSUME NEW t \in Tasks, Batch!StartTask(t) \/ \E how \in Batch!Ended : Batch!EndTask(t, how) PROVE BatchInv'
  BY <1>1, <1>2 DEF Batch!StartTask, Batch!EndTask, Batch!Ended
<1>3. CASE Batch!Wait
  <2>1. PICK all \in [Tasks -> Tasks] : Batch!ToSet(all) = Tasks /\ rest' = all
    BY <1>3 DEF Batch!Wait, Tasks
  <2>2. /\ stage = "wait" /\ stage' = "report" /\ UNCHANGED <<name, job, order, outputs>>
        /\ cut' = {t \in Tasks : job[t] \notin {"done", "failed"}}
    BY <1>3 DEF Batch!Wait, Batch!Ended, Tasks
  <2>3. rest' \in Seq(Tasks) /\ Len(rest') = NTasks /\ \A t \in Tasks : \E i \in 1 .. Len(rest') : rest'[i] = t
    <3>1. all \in Seq(Tasks) /\ DOMAIN all = 1 .. NTasks
      BY <2>1 DEF Tasks
    <3>2. Len(all) = NTasks
      BY <3>1
    <3>3. \A t \in Tasks : \E i \in 1 .. NTasks : all[i] = t
      BY <2>1, <3>1 DEF Batch!ToSet
    <3> QED
      BY <2>1, <3>1, <3>2, <3>3
  <2>4. order = <<>> /\ Len(order) = 0
    BY <2>2 DEF BatchInv, BatchTypes
  <2>5. BatchTypes'
    BY <2>2, <2>3, <2>4 DEF BatchInv, BatchTypes
  <2>6. Reporting'
    BY <2>2, <2>3, <2>4 DEF Reporting
  <2>7. Chained' /\ Raised'
    BY <2>2 DEF Chained, Raised
  <2> QED
    BY <2>5, <2>6, <2>7 DEF BatchInv
<1>4. CASE Batch!Report
  <2>1. PICK t : t = Head(rest)
    OBVIOUS
  <2>2. /\ stage = "report" /\ rest # <<>> /\ rest' = Tail(rest) /\ order' = Append(order, t)
        /\ outputs' = [outputs EXCEPT ![name[t]] = [told |-> IF t \in cut THEN "unfinished" ELSE job[t], by |-> t]]
        /\ job' = IF job[t] = "queued" THEN [job EXCEPT ![t] = "cancelled"] ELSE job
        /\ UNCHANGED <<name, stage, cut>>
    BY <1>4, <2>1 DEF Batch!Report, Batch!Tell
  <2>3. /\ t \in Tasks /\ rest[1] = t /\ rest' \in Seq(Tasks) /\ Len(rest') = Len(rest) - 1 /\ Len(rest') \in Nat
        /\ \A i \in 1 .. Len(rest) : i # 1 => i - 1 \in 1 .. Len(rest') /\ rest'[i - 1] = rest[i]
    BY <2>1, <2>2 DEF BatchInv, BatchTypes
  <2>4. /\ order' \in Seq(Tasks) /\ Len(order') = Len(order) + 1 /\ order'[Len(order) + 1] = t
        /\ \A i \in 1 .. Len(order) : order'[i] = order[i]
    BY <2>2, <2>3 DEF BatchInv, BatchTypes
  <2>5. BatchTypes'
    BY <2>2, <2>3, <2>4 DEF BatchInv, BatchTypes
  <2>6. \A u \in Tasks : (\E i \in 1 .. Len(order') : order'[i] = u) \/ (\E i \in 1 .. Len(rest') : rest'[i] = u)
    <3> SUFFICES ASSUME NEW u \in Tasks
                 PROVE  (\E i \in 1 .. Len(order') : order'[i] = u) \/ (\E i \in 1 .. Len(rest') : rest'[i] = u)
      OBVIOUS
    <3>1. CASE \E i \in 1 .. Len(order) : order[i] = u
      BY <2>4, <3>1 DEF BatchInv, BatchTypes
    <3>2. ASSUME NEW i \in 1 .. Len(rest), rest[i] = u
          PROVE  (\E j \in 1 .. Len(order') : order'[j] = u) \/ (\E j \in 1 .. Len(rest') : rest'[j] = u)
      <4>1. CASE i = 1
        <5>1. Len(order) + 1 \in 1 .. Len(order')
          BY <2>4 DEF BatchInv, BatchTypes
        <5> QED
          BY <2>3, <2>4, <3>2, <4>1, <5>1
      <4>2. CASE i # 1
        BY <2>3, <3>2, <4>2
      <4> QED
        BY <4>1, <4>2
    <3> QED
      BY <2>2, <3>1, <3>2 DEF BatchInv, Reporting
  <2>7. \A u \in Tasks \ cut : job'[u] \in {"done", "failed"}
    BY <2>2, <2>3 DEF BatchInv, BatchTypes, Reporting
  <2>8. ToldOf(t)'
    <3>1. name[t] \in TaskNames /\ DOMAIN outputs = TaskNames
      BY <2>3 DEF BatchInv, BatchTypes
    <3>2. outputs'[name[t]].by = t /\ outputs'[name[t]].told = IF t \in cut THEN "unfinished" ELSE job[t]
      BY <2>2, <3>1
    <3>3. job'[t] # "queued" /\ (t \notin cut => job'[t] = job[t])
      BY <2>2, <2>3 DEF BatchInv, BatchTypes, Reporting
    <3> QED
      BY <2>2, <3>2, <3>3 DEF ToldOf
  <2>9. ASSUME NEW u \in Tasks, u # t, ToldOf(u) PROVE ToldOf(u)'
    <3>1. name[u] \in TaskNames /\ (Alone(u) => name[u] # name[t])
      BY <2>3, <2>9 DEF BatchInv, BatchTypes, Alone
    <3>2. job'[u] = job[u] /\ (Alone(u)' <=> Alone(u))
      BY <2>2, <2>9 DEF Alone
    <3>3. name[u] # name[t] => outputs'[name[u]] = outputs[name[u]]
      BY <2>2, <3>1 DEF BatchInv, BatchTypes
    <3> QED
      BY <2>2, <2>9, <3>1, <3>2, <3>3 DEF ToldOf
  <2>10. ASSUME NEW u \in Tasks, \E i \in 1 .. Len(order') : order'[i] = u PROVE ToldOf(u)'
    <3>1. CASE u = t
      BY <2>8, <3>1
    <3>2. CASE u # t
      <4>1. \E i \in 1 .. Len(order) : order[i] = u
        BY <2>4, <2>10, <3>2 DEF BatchInv, BatchTypes
      <4>2. ToldOf(u)
        BY <2>2, <4>1 DEF BatchInv, Reporting
      <4> QED
        BY <2>9, <3>2, <4>2
    <3> QED
      BY <3>1, <3>2
  <2>11. Reporting'
    <3>1. Len(order') + Len(rest') = NTasks
      <4>1. Len(order) + Len(rest) = NTasks /\ Len(order) \in Nat /\ Len(rest) \in Nat
        BY <2>2 DEF BatchInv, BatchTypes, Reporting
      <4>2. Len(rest') = Len(rest) - 1 /\ Len(order') = Len(order) + 1
        BY <2>3, <2>4
      <4>3. \A m, n \in Nat : m + n = NTasks => (m + 1) + (n - 1) = NTasks
        OBVIOUS
      <4> QED
        BY <4>1, <4>2, <4>3
    <3>2. \A u \in Tasks : (\E i \in 1 .. Len(order') : order'[i] = u) => ToldOf(u)'
      BY <2>10
    <3>3. \A u \in Tasks \ cut' : job'[u] \in {"done", "failed"}
      BY <2>2, <2>7
    <3> QED
      BY <2>6, <3>1, <3>2, <3>3 DEF Reporting
  <2>12. Chained' /\ Raised'
    BY <2>2 DEF Chained, Raised
  <2> QED
    BY <2>5, <2>11, <2>12 DEF BatchInv
<1>5. CASE Batch!Return
  <2>1. /\ stage = "report" /\ rest = <<>> /\ stage' = "returned" /\ UNCHANGED <<name, job, rest, cut, order, outputs>>
    BY <1>5 DEF Batch!Return
  <2> QED
    BY <2>1 DEF BatchInv, BatchTypes, Reporting, Chained, Raised, ToldOf, Alone
<1>6. ASSUME NEW bad \in BOOLEAN, Batch!run_sequential(bad) PROVE BatchInv'
  <2>1. PICK t : t = Len(order) + 1
    OBVIOUS
  <2>2. /\ stage = "chain" /\ t \in Tasks /\ UNCHANGED <<name, rest, cut>> /\ rest = <<>> /\ cut = {}
        /\ t = Len(order) + 1 /\ Len(order) \in Nat /\ order \in Seq(Tasks)
    BY <1>6, <2>1 DEF Batch!run_sequential, BatchInv, BatchTypes, Tasks
  <2>3. \A u \in Tasks : /\ u < t => job[u] = "done" /\ ToldOf(u)
                         /\ ~(u < t) => job[u] = "queued"
    BY <2>2 DEF BatchInv, Chained, Tasks
  <2>4. CASE bad
    <3>1. /\ stage' = "raised" /\ order' = <<>> /\ outputs' = [n \in TaskNames |-> Batch!Nothing]
          /\ job' = [job EXCEPT ![t] = "failed"]
      BY <1>6, <2>1, <2>4 DEF Batch!run_sequential
    <3>2. BatchTypes'
      BY <2>2, <3>1 DEF BatchInv, BatchTypes
    <3>3. Raised'
      <4>1. \A u \in Tasks : u # t => job'[u] = job[u]
        BY <2>2, <3>1 DEF BatchInv, BatchTypes
      <4>2. job'[t] = "failed"
        BY <2>2, <3>1 DEF BatchInv, BatchTypes
      <4> SUFFICES ASSUME NEW u \in Tasks
                   PROVE  job'[u] # "running" /\ (job'[u] # "queued" => \A v \in 1 .. u - 1 : job'[v] = "done")
        BY DEF Raised
      <4>3. job'[u] # "queued" => u =< t
        BY <2>2, <2>3, <4>1 DEF Tasks
      <4>4. \A v \in 1 .. u - 1 : v \in Tasks /\ v < u
        BY DEF Tasks
      <4>5. u =< t => \A v \in 1 .. u - 1 : v < t /\ v # t
        BY <2>2 DEF Tasks
      <4> QED
        BY <2>3, <4>1, <4>2, <4>3, <4>4, <4>5
    <3> QED
      BY <3>1, <3>2, <3>3 DEF BatchInv, Reporting, Chained
  <2>5. CASE ~bad
    <3>1. /\ stage' = IF t + 1 \in Tasks THEN "chain" ELSE "returned"
          /\ order' = Append(order, t) /\ job' = [job EXCEPT ![t] = "done"]
          /\ outputs' = [outputs EXCEPT ![name[t]] = [told |-> "done", by |-> t]]
      BY <1>6, <2>1, <2>5 DEF Batch!run_sequential, Tasks
    <3>2. /\ order' \in Seq(Tasks) /\ Len(order') = t /\ order'[t] = t
          /\ \A i \in 1 .. Len(order) : order'[i] = order[i]
      BY <2>2, <3>1
    <3>3. BatchTypes'
      BY <2>2, <3>1, <3>2 DEF BatchInv, BatchTypes
    <3>4. \A i \in 1 .. t : order'[i] = i
      BY <2>2, <3>2 DEF BatchInv, Chained
    <3>5. \A u \in Tasks : u # t => job'[u] = job[u]
      BY <2>2, <3>1 DEF BatchInv, BatchTypes
    <3>6. job'[t] = "done" /\ name[t] \in TaskNames /\ outputs'[name[t]] = [told |-> "done", by |-> t]
      BY <2>2, <3>1 DEF BatchInv, BatchTypes
    <3>7. ToldOf(t)'
      BY <2>2, <3>6 DEF ToldOf
    <3>8. ASSUME NEW u \in Tasks, u < t PROVE ToldOf(u)' /\ job'[u] = "done"
      <4>1. ToldOf(u) /\ u # t /\ job[u] = "done" /\ job'[u] = "done"
        BY <2>3, <3>5, <3>8 DEF Tasks
      <4>2. (Alone(u)' <=> Alone(u)) /\ (Alone(u) => name[u] # name[t])
        BY <2>2, <4>1 DEF Alone
      <4>3. name[u] # name[t] => outputs'[name[u]] = outputs[name[u]]
        BY <3>1 DEF BatchInv, BatchTypes
      <4> QED
        BY <2>2, <4>1, <4>2, <4>3 DEF ToldOf
    <3>9. Chained'
      BY <2>2, <2>3, <3>2, <3>4, <3>5, <3>6, <3>7, <3>8 DEF Chained, Tasks
    <3>10. Reporting'
      <4> SUFFICES ASSUME t + 1 \notin Tasks PROVE Reporting'
        BY <3>1 DEF Reporting
      <4>1. t = NTasks /\ Len(rest') = 0
        BY <2>2 DEF Tasks
      <4>2. \A u \in Tasks : u \in 1 .. Len(order') /\ order'[u] = u /\ (u = t \/ u < t)
        BY <3>2, <3>4, <4>1 DEF Tasks
      <4>3. \A u \in Tasks : job'[u] = "done" /\ ToldOf(u)'
        BY <3>6, <3>7, <3>8, <4>2
      <4> QED
        BY <3>2, <4>1, <4>2, <4>3 DEF Reporting
    <3> QED
      BY <3>1, <3>3, <3>9, <3>10 DEF BatchInv, Raised
  <2> QED
    BY <2>4, <2>5
<1>7. ASSUME UNCHANGED <<name, job, stage, rest, cut, order, outputs>> PROVE BatchInv'
  BY <1>7 DEF BatchInv, BatchTypes, Reporting, Chained, Raised, ToldOf, Alone
<1> QED
  BY <1>2, <1>3, <1>4, <1>5, <1>6, <1>7
     DEF Batch!Next, Tasks, batchVars, Batch!batch, Batch!Ask, Batch!Substitute, Batch!Degrade

\* A part and the model count sets alike.
LEMMA BatchCounts == \A S : Batch!Cardinality(S) = Cardinality(S)
  BY DEF Batch!Cardinality, Cardinality

\* What the invariant says of the batch.
LEMMA BatchIsSound == BatchInv => Batch!ToldOnce /\ Batch!NoLateStart /\ Batch!ChainInOrder
<1> SUFFICES ASSUME BatchInv PROVE Batch!ToldOnce /\ Batch!NoLateStart /\ Batch!ChainInOrder
  OBVIOUS
<1>1. Batch!Cardinality(Tasks) = NTasks
  BY BatchAssumption, BatchCounts, FS_Interval, SMTT(30) DEF Tasks
<1>2. ASSUME stage = "returned" PROVE Batch!ToldOnce /\ Batch!NoLateStart
  <2>1. Len(order) = NTasks /\ order \in Seq(Tasks) /\ DOMAIN order = 1 .. Len(order)
    BY <1>2, BatchAssumption DEF BatchInv, BatchTypes, Reporting
  <2>2. \A t \in Tasks : (\E i \in DOMAIN order : order[i] = t) /\ ToldOf(t)
    BY <1>2, <2>1 DEF BatchInv, BatchTypes, Reporting
  <2>3. Batch!ToSet(order) = Tasks
    BY <2>1, <2>2 DEF Batch!ToSet
  <2>4. \A t \in Tasks : job[t] # "queued" /\ (Alone(t) => /\ outputs[name[t]].by = t
                       /\ outputs[name[t]].told = IF t \in cut THEN "unfinished" ELSE job[t])
    BY <2>2 DEF ToldOf
  <2> QED
    BY <1>1, <2>1, <2>3, <2>4 DEF Batch!ToldOnce, Batch!NoLateStart, Alone, Tasks
<1>3. ASSUME stage = "chain" PROVE Batch!ChainInOrder
  BY <1>3, BatchAssumption DEF BatchInv, BatchTypes, Chained, Batch!ChainInOrder, Tasks
<1>4. ASSUME stage = "raised" PROVE Batch!ChainInOrder
  BY <1>4 DEF BatchInv, Raised, Batch!ChainInOrder, Tasks
<1>5. stage # "returned" => Batch!ToldOnce /\ Batch!NoLateStart
  BY DEF Batch!ToldOnce, Batch!NoLateStart
<1>6. stage \notin {"chain", "raised"} => Batch!ChainInOrder
  BY DEF Batch!ChainInOrder
<1> QED
  BY <1>2, <1>3, <1>4, <1>5, <1>6
-----------------------------------------------------------------------------
\* The choice of models.  What drives a session is of its owner or of the deployment.
SeatsInv ==
  /\ default.by = Deployment
  /\ DOMAIN choice = Callers /\ \A u \in Callers : choice[u] # nothing => choice[u].by = u
  /\ owner \in [Runs -> Callers \cup {nothing}]
  /\ DOMAIN seats = Runs
  /\ \A r \in Runs : seats[r] # nothing =>
       /\ seats[r] = [owner |-> seats[r].owner, model |-> seats[r].model]
       /\ seats[r].owner \in {owner[r], nothing} /\ seats[r].model.by \in {seats[r].owner, Deployment}

\* A credential has a key; one of a user's is what the user was told of, and one that is about
\* to be written again is what was read, as long as no two selections overlap.
Secrets == Keys \cup {Given, nothing}
Places == Endpoints \cup {nothing}
Credentials == [key : Secrets, url : Places]
Demands == [kind : {"select", "probe"}, by : Callers, body : Choice!Bodies,
            at : {"key", "endpoint", "store", "switch", "probe"}, key : Secrets, url : Places]
VaultTypes ==
  /\ vault \in [Callers \cup {Deployment} -> [Models -> Credentials \cup {nothing}]]
  /\ vault[Deployment]["custom"] \in {nothing} \cup {[key |-> Given, url |-> w] : w \in Endpoints}
  /\ \A s \in Callers \cup {Deployment}, i \in Models :
       vault[s][i] # nothing => i # "fake" /\ vault[s][i].key # nothing
  /\ demand \in [Choice!Requests -> Demands \cup {nothing}]
  /\ told \in [Callers -> [Models -> Keys \cup {nothing}]] /\ crossed \in [Callers -> SUBSET Models]
  /\ latest \in [Callers -> [Models -> Secrets]]
Has(u, i) == vault[u][i] # nothing \/ vault[Deployment][i] # nothing
Selects(o) == demand[o] # nothing /\ demand[o].kind = "select"
Clear(u, i) == i \notin crossed[u]
Serves(o) ==
  LET d == demand[o] IN
  d # nothing =>
    /\ d.at \in {"store", "switch"} => d.kind = "select"
    /\ d.at # "key" =>
         /\ d.body.key # nothing => d.key = d.body.key
         /\ d.body.id # "fake" => d.key # nothing /\ (d.body.key = nothing => Has(d.by, d.body.id))
         /\ Selects(o) /\ d.body.key = nothing /\ Clear(d.by, d.body.id) /\ told[d.by][d.body.id] # nothing
              => d.key = told[d.by][d.body.id]
    /\ d.at = "switch" /\ d.body.key # nothing /\ Clear(d.by, d.body.id) =>
         vault[d.by][d.body.id] # nothing /\ vault[d.by][d.body.id].key = d.key
OneAtATime ==
  \A o, p \in Choice!Requests :
    o # p /\ Selects(o) /\ Selects(p) /\ demand[o].by = demand[p].by /\ demand[o].body.id = demand[p].body.id
      => ~Clear(demand[o].by, demand[o].body.id)
Probed == \A u \in Callers, i \in Models : latest[u][i] # nothing /\ i # "fake" => Has(u, i)
VaultInv == VaultTypes /\ (\A o \in Choice!Requests : Serves(o)) /\ OneAtATime /\ Choice!ImportKept /\ Probed

\* It holds at the start.
LEMMA ModelsInit == Choice!Init => SeatsInv /\ VaultInv
<1> SUFFICES ASSUME Choice!Init PROVE SeatsInv /\ VaultInv
  OBVIOUS
<1> USE ModelAssumption
<1>1. SeatsInv
  BY DEF Choice!Init, SeatsInv, Choice!Configured, Choice!Model
<1>2. VaultTypes
  <2>1. \/ default = [id |-> "fake", key |-> nothing, url |-> nothing, by |-> Deployment]
        \/ \E w \in Endpoints : default = [id |-> "custom", key |-> Given, url |-> w, by |-> Deployment]
    BY DEF Choice!Init, Choice!Configured, Choice!Model
  <2>2. PICK C : C = [key |-> default.key, url |-> default.url]
    OBVIOUS
  <2>3. default.id # "fake" => /\ default.id = "custom" /\ C \in Credentials /\ C.key = Given
                               /\ \E w \in Endpoints : C = [key |-> Given, url |-> w]
    BY <2>1, <2>2 DEF Credentials, Secrets, Places
  <2>4. vault = [s \in Callers \cup {Deployment} |-> [i \in Models |->
           IF s = Deployment /\ i = default.id /\ i # "fake" THEN C ELSE nothing]]
    BY <2>2 DEF Choice!Init, Choice!Scopes
  <2>5. vault \in [Callers \cup {Deployment} -> [Models -> Credentials \cup {nothing}]]
    BY <2>3, <2>4
  <2>6. \A s \in Callers \cup {Deployment}, i \in Models :
          vault[s][i] = IF s = Deployment /\ i = default.id /\ i # "fake" THEN C ELSE nothing
    BY <2>4
  <2>7. /\ demand \in [Choice!Requests -> Demands \cup {nothing}]
        /\ told \in [Callers -> [Models -> Keys \cup {nothing}]] /\ crossed \in [Callers -> SUBSET Models]
        /\ latest \in [Callers -> [Models -> Secrets]]
    BY DEF Choice!Init, Secrets
  <2> QED
    BY <2>3, <2>5, <2>6, <2>7 DEF VaultTypes
<1>3. /\ \A o \in Choice!Requests : demand[o] = nothing
      /\ \A u \in Callers, i \in Models : told[u][i] = nothing /\ latest[u][i] = nothing
  BY DEF Choice!Init
<1> QED
  BY <1>1, <1>2, <1>3 DEF VaultInv, Serves, OneAtATime, Selects, Choice!ImportKept, Probed

\* A model that is set for a user or for the deployment leaves each run with the one of
\* its user.
LEMMA SetModel ==
  ASSUME SeatsInv, NEW m, NEW u \in Callers \cup {nothing}, Choice!set_model(m, u), UNCHANGED owner,
         m.by = IF u = nothing THEN Deployment ELSE u
  PROVE  SeatsInv'
<1> USE ModelAssumption
<1>1. CASE u = nothing
  <2>1. /\ default' = m /\ choice' = choice
        /\ seats' = [r \in Runs |-> IF seats[r] # nothing THEN [seats[r] EXCEPT !.model = m] ELSE seats[r]]
    BY <1>1 DEF Choice!set_model
  <2>2. ASSUME NEW r \in Runs, seats[r] # nothing
        PROVE  seats'[r] = [owner |-> seats[r].owner, model |-> m]
    BY <2>1, <2>2 DEF SeatsInv
  <2>3. \A r \in Runs : seats[r] = nothing => seats'[r] = nothing
    BY <2>1
  <2>4. DOMAIN seats' = Runs
    BY <2>1
  <2> QED
    BY <1>1, <2>1, <2>2, <2>3, <2>4 DEF SeatsInv
<1>2. CASE u # nothing
  <2>1. /\ default' = default /\ choice' = [choice EXCEPT ![u] = m]
        /\ seats' = [r \in Runs |-> IF seats[r] # nothing /\ seats[r].owner = u
                                    THEN [seats[r] EXCEPT !.model = m] ELSE seats[r]]
    BY <1>2 DEF Choice!set_model
  <2>2. ASSUME NEW r \in Runs, seats[r] # nothing, seats[r].owner = u
        PROVE  seats'[r] = [owner |-> u, model |-> m]
    BY <2>1, <2>2 DEF SeatsInv
  <2>3. \A r \in Runs : ~(seats[r] # nothing /\ seats[r].owner = u) => seats'[r] = seats[r]
    BY <2>1
  <2>4. DOMAIN seats' = Runs /\ DOMAIN choice' = Callers /\ choice'[u] = m
        /\ \A v \in Callers : v # u => choice'[v] = choice[v]
    BY <1>2, <2>1 DEF SeatsInv
  <2> QED
    BY <1>2, <2>1, <2>2, <2>3, <2>4 DEF SeatsInv
<1> QED
  BY <1>1, <1>2

\* What get() makes of a stored session, or of none.
LEMMA Found ==
  ASSUME SeatsInv, NEW r \in Runs
  PROVE  /\ Choice!get(r) = [owner |-> Choice!get(r).owner, model |-> Choice!get(r).model]
         /\ Choice!get(r).owner \in {owner[r], nothing}
         /\ Choice!get(r).model.by \in {Choice!get(r).owner, Deployment}
<1> USE ModelAssumption
<1>1. CASE seats[r] = nothing
  <2>1. Choice!get(r) = [owner |-> owner[r], model |-> default]
    BY <1>1 DEF Choice!get
  <2> QED
    BY <2>1 DEF SeatsInv
<1>2. CASE seats[r] # nothing
  <2>1. Choice!get(r) = [owner |-> seats[r].owner, model |-> Choice!model_for(seats[r].owner)]
    BY <1>2 DEF Choice!get, SeatsInv
  <2>2. seats[r].owner \in Callers \cup {nothing} /\ seats[r].owner \in {owner[r], nothing}
    BY <1>2 DEF SeatsInv
  <2>3. Choice!model_for(seats[r].owner).by \in {seats[r].owner, Deployment}
    BY <2>2 DEF Choice!model_for, SeatsInv
  <2> QED
    BY <2>1, <2>2, <2>3
<1> QED
  BY <1>1, <1>2

\* A session of a run is put into the cache, or taken out of it.
LEMMA Seated ==
  ASSUME SeatsInv, NEW r \in Runs, NEW s, NEW u \in Callers \cup {nothing},
         seats' = [seats EXCEPT ![r] = s], owner' = [owner EXCEPT ![r] = u], UNCHANGED <<default, choice>>,
         s # nothing => s = [owner |-> s.owner, model |-> s.model] /\ s.owner \in {u, nothing}
                        /\ s.model.by \in {s.owner, Deployment}
  PROVE  SeatsInv'
<1>1. seats'[r] = s /\ owner'[r] = u /\ DOMAIN seats' = Runs /\ DOMAIN owner' = Runs
      /\ \A q \in Runs : q # r => seats'[q] = seats[q] /\ owner'[q] = owner[q]
  BY DEF SeatsInv
<1> QED
  BY <1>1 DEF SeatsInv

\* A step of a request or a restart leaves the runs on the models of their users.
LEMMA SeatsStep == SeatsInv /\ VaultInv /\ Choice!Next => SeatsInv'
<1> SUFFICES ASSUME SeatsInv, VaultInv, Choice!Next PROVE SeatsInv'
  OBVIOUS
<1> USE ModelAssumption
<1>1. ASSUME UNCHANGED <<default, choice, owner, seats>> PROVE SeatsInv'
  BY <1>1 DEF SeatsInv
<1>2. ASSUME NEW o \in Choice!Requests, Choice!Switch(o) PROVE SeatsInv'
  <2>1. PICK b, u, m : /\ b = demand[o].body /\ u = demand[o].by
                       /\ m = Choice!Model(b.id, demand[o].key, demand[o].url, IF b.deployment THEN Deployment ELSE u)
    OBVIOUS
  <2>2. Choice!set_model(m, IF b.deployment THEN nothing ELSE u) /\ owner' = owner /\ demand[o] # nothing
    BY <1>2, <2>1 DEF Choice!Switch, Choice!At
  <2>3. u \in Callers
    BY <2>1, <2>2 DEF VaultInv, VaultTypes, Demands
  <2>4. m.by = IF b.deployment THEN Deployment ELSE u
    BY <2>1 DEF Choice!Model
  <2>5. PICK to : to = IF b.deployment THEN nothing ELSE u
    OBVIOUS
  <2>6. to \in Callers \cup {nothing} /\ m.by = IF to = nothing THEN Deployment ELSE to
    BY <2>3, <2>4, <2>5
  <2> QED
    BY <2>2, <2>5, <2>6, SetModel
<1>3. ASSUME NEW r \in Runs, NEW u \in Callers, Choice!Chat(u, r) PROVE SeatsInv'
  <2>1. PICK g : g = Choice!get(r)
    OBVIOUS
  <2>2. g = [owner |-> g.owner, model |-> g.model] /\ g.model.by \in {g.owner, Deployment}
    BY <2>1, Found
  <2>3. PICK h : h = [owner |-> u, model |-> g.model]
    OBVIOUS
  <2>4. h = [g EXCEPT !.owner = u] /\ h.owner = u
    BY <2>2, <2>3
  <2>5. Choice!apply_owner_model(h) = [owner |-> u, model |-> Choice!model_for(u)]
    BY <2>3, <2>4 DEF Choice!apply_owner_model
  <2>6. PICK s : s = IF g.owner = nothing THEN Choice!apply_owner_model(h) ELSE g
    OBVIOUS
  <2>7. /\ s.owner = u /\ seats' = [seats EXCEPT ![r] = s] /\ owner' = [owner EXCEPT ![r] = u]
        /\ UNCHANGED <<default, choice>>
    BY <1>3, <2>1, <2>4, <2>6 DEF Choice!Chat
  <2>8. Choice!model_for(u).by \in {u, Deployment}
    BY DEF Choice!model_for, SeatsInv
  <2>9. s = [owner |-> s.owner, model |-> s.model] /\ s.model.by \in {s.owner, Deployment}
    BY <2>2, <2>5, <2>6, <2>8
  <2> QED
    BY <2>7, <2>9, Seated
<1>4. ASSUME NEW r \in Runs, Choice!Get(r) PROVE SeatsInv'
  <2>1. /\ seats' = [seats EXCEPT ![r] = Choice!get(r)] /\ owner' = [owner EXCEPT ![r] = owner[r]]
        /\ UNCHANGED <<default, choice>> /\ owner[r] \in Callers \cup {nothing}
    BY <1>4 DEF Choice!Get, SeatsInv
  <2> QED
    BY <2>1, Found, Seated
<1>5. ASSUME NEW r \in Runs, NEW u \in Callers, Choice!create_run(u, r) PROVE SeatsInv'
  <2>1. PICK g : g = Choice!get(r)
    OBVIOUS
  <2>2. /\ g = [owner |-> g.owner, model |-> g.model] /\ g.model.by \in {g.owner, Deployment}
        /\ g.owner = nothing
    BY <1>5, <2>1, Found DEF Choice!create_run
  <2>3. PICK s : s = [owner |-> u, model |-> g.model]
    OBVIOUS
  <2>4. s = [g EXCEPT !.owner = u] /\ s.owner = u /\ s.model = g.model
    BY <2>2, <2>3
  <2>5. g.model.by = Deployment
    <3>1. CASE seats[r] = nothing
      BY <1>5, <2>1, <3>1 DEF Choice!get, SeatsInv
    <3>2. CASE seats[r] # nothing
      <4>1. g = [owner |-> seats[r].owner, model |-> Choice!model_for(seats[r].owner)]
        BY <2>1, <3>2 DEF Choice!get, SeatsInv
      <4> QED
        BY <2>2, <4>1 DEF Choice!model_for, SeatsInv
    <3> QED
      BY <3>1, <3>2
  <2>6. /\ seats' = [seats EXCEPT ![r] = s] /\ owner' = [owner EXCEPT ![r] = u] /\ UNCHANGED <<default, choice>>
    BY <1>5, <2>1, <2>4 DEF Choice!create_run
  <2> QED
    BY <2>3, <2>4, <2>5, <2>6, Seated
<1>6. ASSUME NEW r \in Runs, Choice!Evict(r) \/ Choice!delete_run(r) PROVE SeatsInv'
  <2>1. PICK u \in Callers \cup {nothing} :
          /\ seats' = [seats EXCEPT ![r] = nothing] /\ owner' = [owner EXCEPT ![r] = u] /\ UNCHANGED <<default, choice>>
    <3>1. CASE Choice!Evict(r)
      <4>1. owner' = [owner EXCEPT ![r] = owner[r]] /\ owner[r] \in Callers \cup {nothing}
        BY <3>1 DEF Choice!Evict, SeatsInv
      <4> QED
        BY <3>1, <4>1 DEF Choice!Evict
    <3>2. CASE Choice!delete_run(r)
      BY <3>2 DEF Choice!delete_run
    <3> QED
      BY <1>6, <3>1, <3>2
  <2> QED
    BY <2>1, Seated
<1>7. CASE Choice!Restart
  <2>1. \E m \in Choice!Configured : IF vault[Deployment]["custom"] = nothing THEN m.id = "fake"
                                     ELSE [key |-> m.key, url |-> m.url] = vault[Deployment]["custom"]
    <3>1. CASE vault[Deployment]["custom"] = nothing
      <4>1. PICK m : m = [id |-> "fake", key |-> nothing, url |-> nothing, by |-> Deployment]
        OBVIOUS
      <4>2. m \in Choice!Configured /\ m.id = "fake"
        BY <4>1 DEF Choice!Configured, Choice!Model
      <4> QED
        BY <3>1, <4>2
    <3>2. ASSUME NEW w \in Endpoints, vault[Deployment]["custom"] = [key |-> Given, url |-> w],
                 vault[Deployment]["custom"] # nothing
          PROVE  \E m \in Choice!Configured : [key |-> m.key, url |-> m.url] = vault[Deployment]["custom"]
      <4>1. PICK m : m = [id |-> "custom", key |-> Given, url |-> w, by |-> Deployment]
        OBVIOUS
      <4>2. m \in Choice!Configured /\ m.key = Given /\ m.url = w
        BY <4>1 DEF Choice!Configured, Choice!Model
      <4> QED
        BY <3>2, <4>2
    <3> QED
      BY <3>1, <3>2 DEF VaultInv, VaultTypes
  <2>2. default' \in Choice!Configured
    BY <1>7, <2>1 DEF Choice!Restart
  <2>3. default'.by = Deployment
    BY <2>2 DEF Choice!Configured, Choice!Model
  <2> QED
    BY <1>7, <2>3 DEF Choice!Restart, SeatsInv
<1>8. ASSUME NEW o \in Choice!Requests,
             \/ \E u \in Callers, kind \in {"select", "probe"}, b \in Choice!Bodies : Choice!Ask(o, u, kind, b)
             \/ Choice!ReadKey(o) \/ Choice!Resolve(o) \/ Choice!Register(o) \/ Choice!Probe(o)
      PROVE  SeatsInv'
  BY <1>1, <1>8 DEF Choice!Ask, Choice!ReadKey, Choice!Resolve, Choice!Register, Choice!Probe, Choice!process
<1> QED
  BY <1>2, <1>3, <1>4, <1>5, <1>6, <1>7, <1>8 DEF Choice!Next

\* So a chosen model drives the runs of its user.
LEMMA DrivesOwn == SeatsInv => Choice!OwnModel
BY Found DEF SeatsInv, Choice!OwnModel

\* What is known of a request that is under way.
LEMMA Demanded ==
  ASSUME VaultInv, NEW o \in Choice!Requests, demand[o] # nothing
  PROVE  /\ demand[o] \in Demands /\ demand[o].by \in Callers /\ demand[o].body \in Choice!Bodies
         /\ demand[o].body.id \in Models /\ demand[o].body.key \in Keys \cup {nothing}
         /\ demand[o].body.url \in Places /\ demand[o].key \in Secrets /\ demand[o].url \in Places
         /\ demand[o].body.key # nothing => demand[o].body.id # "fake"
         /\ demand[o].body.url # nothing => demand[o].body.id = "custom"
         /\ Serves(o)
BY DEF VaultInv, VaultTypes, Demands, Choice!Bodies, Places

\* A request goes on, or is answered, with nothing stored.
LEMMA OneStep ==
  ASSUME VaultInv, NEW o \in Choice!Requests, NEW d \in Demands \cup {nothing}, demand[o] # nothing,
         demand' = [demand EXCEPT ![o] = d], UNCHANGED <<vault, told, crossed, latest>>,
         d # nothing => d.kind = demand[o].kind /\ d.by = demand[o].by /\ d.body = demand[o].body,
         Serves(o)'
  PROVE  VaultInv'
<1>1. demand'[o] = d /\ \A p \in Choice!Requests : p # o => demand'[p] = demand[p]
  BY DEF VaultInv, VaultTypes
<1>2. VaultTypes'
  BY DEF VaultInv, VaultTypes
<1>3. \A p \in Choice!Requests : Serves(p)'
  <2> SUFFICES ASSUME NEW p \in Choice!Requests, p # o PROVE Serves(p)'
    OBVIOUS
  <2> QED
    BY <1>1 DEF VaultInv, Serves, Selects, Has, Clear
<1>4. OneAtATime'
  BY <1>1 DEF VaultInv, OneAtATime, Selects, Clear
<1>5. Choice!ImportKept' /\ Probed'
  BY DEF VaultInv, Choice!ImportKept, Probed, Has
<1> QED
  BY <1>2, <1>3, <1>4, <1>5 DEF VaultInv

\* One's own key is found before the deployment's.
LEMMA Registered ==
  ASSUME VaultInv, NEW u \in Callers, NEW i \in Models
  PROVE  /\ Choice!_scopes(u, i) # {} <=> Has(u, i)
         /\ vault[u][i] # nothing => Choice!_registered_model_key(u, i) = vault[u][i].key
         /\ Choice!_registered_model_key(u, i) # nothing <=> Has(u, i)
         /\ Choice!_registered_model_key(u, i) \in Secrets
<1> USE ModelAssumption
<1>1. CASE vault[u][i] # nothing
  <2>1. u \in Choice!_scopes(u, i) /\ Choice!_first(u, Choice!_scopes(u, i)) = u
    BY <1>1 DEF Choice!_scopes, Choice!_first
  <2>2. Choice!_registered_model_key(u, i) = vault[u][i].key
    BY <2>1 DEF Choice!_registered_model_key
  <2>3. vault[u][i].key # nothing /\ vault[u][i].key \in Secrets
    BY <1>1 DEF VaultInv, VaultTypes, Credentials
  <2> QED
    BY <1>1, <2>1, <2>2, <2>3 DEF Has
<1>2. CASE vault[u][i] = nothing /\ vault[Deployment][i] # nothing
  <2>1. Choice!_scopes(u, i) = {Deployment} /\ Choice!_first(u, Choice!_scopes(u, i)) = Deployment
    BY <1>2 DEF Choice!_scopes, Choice!_first
  <2>2. Choice!_registered_model_key(u, i) = vault[Deployment][i].key
    BY <2>1 DEF Choice!_registered_model_key
  <2>3. vault[Deployment][i].key # nothing /\ vault[Deployment][i].key \in Secrets
    BY <1>2 DEF VaultInv, VaultTypes, Credentials
  <2> QED
    BY <1>2, <2>1, <2>2, <2>3 DEF Has
<1>3. CASE vault[u][i] = nothing /\ vault[Deployment][i] = nothing
  <2>1. Choice!_scopes(u, i) = {}
    BY <1>3 DEF Choice!_scopes
  <2> QED
    BY <1>3, <2>1 DEF Choice!_registered_model_key, Has, Secrets
<1> QED
  BY <1>1, <1>2, <1>3

\* An address that is resolved is one of those given.
LEMMA Placed ==
  ASSUME VaultInv, NEW u \in Callers, NEW i \in Models, NEW w \in Places
  PROVE  Choice!_resolve_endpoint(u, i, w) \in Places
<1>1. PICK S : S = {s \in Choice!_scopes(u, "custom") : vault[s]["custom"].url # nothing}
  OBVIOUS
<1>2. S = {} \/ Choice!_first(u, S) \in S
  BY <1>1 DEF Choice!_scopes, Choice!_first
<1>3. \A s \in S : s \in Callers \cup {Deployment} /\ vault[s]["custom"] # nothing
  BY <1>1 DEF Choice!_scopes
<1>4. \A s \in S : vault[s]["custom"].url \in Places
  BY <1>3, ModelAssumption DEF VaultInv, VaultTypes, Credentials
<1>5. Choice!_custom_endpoint_or_none(u) = IF S = {} THEN nothing ELSE vault[Choice!_first(u, S)]["custom"].url
  BY <1>1 DEF Choice!_custom_endpoint_or_none
<1>6. Choice!_custom_endpoint_or_none(u) \in Places
  BY <1>2, <1>4, <1>5 DEF Places
<1> QED
  BY <1>6 DEF Choice!_resolve_endpoint, Places

\* A step of a request or a restart keeps the keys, the imports and the list.
LEMMA VaultStep == VaultInv /\ Choice!Next => VaultInv'
<1> SUFFICES ASSUME VaultInv, Choice!Next PROVE VaultInv'
  OBVIOUS
<1> USE ModelAssumption
<1>1. ASSUME UNCHANGED <<vault, demand, told, crossed, latest>> PROVE VaultInv'
  BY <1>1 DEF VaultInv, VaultTypes, Serves, OneAtATime, Selects, Clear, Has, Choice!ImportKept, Probed
<1>2. ASSUME NEW o \in Choice!Requests, NEW u \in Callers, NEW kind \in {"select", "probe"}, NEW b \in Choice!Bodies,
             Choice!Ask(o, u, kind, b)
      PROVE  VaultInv'
  <2>1. PICK d : d = [kind |-> kind, by |-> u, body |-> b, at |-> "key", key |-> nothing, url |-> nothing]
    OBVIOUS
  <2>2. d \in Demands /\ d.kind = kind /\ d.by = u /\ d.body = b /\ d.at = "key" /\ b.id \in Models
    BY <2>1 DEF Demands, Secrets, Places, Choice!Bodies
  <2>3. /\ demand' = [demand EXCEPT ![o] = d] /\ UNCHANGED <<vault, told, latest>>
        /\ crossed' = IF kind = "select" /\ Choice!Busy(u, b.id) # {}
                      THEN [crossed EXCEPT ![u] = @ \cup {b.id}] ELSE crossed
    BY <1>2, <2>1 DEF Choice!Ask, Choice!process
  <2>4. crossed' \in [Callers -> SUBSET Models] /\ \A v \in Callers : crossed[v] \subseteq crossed'[v]
    BY <2>2, <2>3 DEF VaultInv, VaultTypes
  <2>5. demand'[o] = d /\ \A p \in Choice!Requests : p # o => demand'[p] = demand[p]
    BY <2>3 DEF VaultInv, VaultTypes
  <2>6. VaultTypes'
    BY <2>2, <2>3, <2>4 DEF VaultInv, VaultTypes
  <2>7. \A p \in Choice!Requests : Serves(p)'
    <3>1. Serves(o)'
      BY <2>2, <2>5 DEF Serves
    <3>2. ASSUME NEW p \in Choice!Requests, p # o PROVE Serves(p)'
      <4>1. demand'[p] = demand[p] /\ (demand[p] # nothing => demand[p].by \in Callers)
        BY <2>5, <3>2, Demanded
      <4> QED
        BY <2>3, <2>4, <4>1 DEF VaultInv, Serves, Selects, Has, Clear
    <3> QED
      BY <3>1, <3>2
  <2>8. OneAtATime'
    <3>1. ASSUME NEW p \in Choice!Requests, p # o, kind = "select", Selects(p), demand[p].by = u, demand[p].body.id = b.id
          PROVE  b.id \in crossed'[u]
      <4>1. p \in Choice!Busy(u, b.id)
        BY <3>1 DEF Choice!Busy, Selects
      <4> QED
        BY <2>2, <2>3, <3>1, <4>1 DEF VaultInv, VaultTypes
    <3>2. \A p \in Choice!Requests : p # o => (Selects(p)' <=> Selects(p))
      BY <2>5 DEF Selects
    <3>3. Selects(o)' => kind = "select"
      BY <2>2, <2>5 DEF Selects
    <3> SUFFICES ASSUME NEW p \in Choice!Requests, NEW q \in Choice!Requests, p # q, Selects(p)', Selects(q)',
                        demand'[p].by = demand'[q].by, demand'[p].body.id = demand'[q].body.id
                 PROVE  demand'[p].body.id \in crossed'[demand'[p].by]
      BY DEF OneAtATime, Clear
    <3>4. CASE p = o
      BY <2>2, <2>5, <3>1, <3>2, <3>3, <3>4
    <3>5. CASE q = o
      BY <2>2, <2>5, <3>1, <3>2, <3>3, <3>5
    <3>6. CASE p # o /\ q # o
      <4>1. demand[p].by \in Callers /\ Selects(p) /\ Selects(q) /\ demand'[p] = demand[p] /\ demand'[q] = demand[q]
        BY <2>5, <3>2, <3>6, Demanded DEF Selects
      <4>2. demand[p].body.id \in crossed[demand[p].by]
        BY <4>1 DEF VaultInv, OneAtATime, Clear
      <4> QED
        BY <2>4, <4>1, <4>2
    <3> QED
      BY <3>4, <3>5, <3>6
  <2>9. Choice!ImportKept' /\ Probed'
    BY <2>3, <2>4 DEF VaultInv, Choice!ImportKept, Probed, Has
  <2> QED
    BY <2>6, <2>7, <2>8, <2>9 DEF VaultInv
<1>3. ASSUME NEW o \in Choice!Requests, Choice!ReadKey(o) PROVE VaultInv'
  <2>1. PICK b, u, i, key : /\ b = demand[o].body /\ u = demand[o].by /\ i = b.id
                            /\ key = IF b.key # nothing THEN b.key ELSE Choice!_registered_model_key(u, i)
    OBVIOUS
  <2>2. /\ demand[o] # nothing /\ demand[o].at = "key" /\ UNCHANGED <<vault, told, crossed, latest>>
        /\ IF Choice!model_catalog[i].needs_key /\ key = nothing THEN demand' = [demand EXCEPT ![o] = nothing]
           ELSE demand' = [demand EXCEPT ![o].key = key, ![o].at = "endpoint"]
    BY <1>3, <2>1 DEF Choice!ReadKey, Choice!At, Choice!Refuse, Choice!process
  <2>3. u \in Callers /\ b \in Choice!Bodies /\ i \in Models /\ b.key \in Keys \cup {nothing} /\ demand[o] \in Demands
        /\ (b.key # nothing => i # "fake")
    BY <2>1, <2>2, Demanded
  <2>4. CASE Choice!model_catalog[i].needs_key /\ key = nothing
    <3>1. demand' = [demand EXCEPT ![o] = nothing] /\ demand'[o] = nothing
      BY <2>2, <2>4 DEF VaultInv, VaultTypes
    <3>2. Serves(o)'
      BY <3>1 DEF Serves
    <3> QED
      BY <2>2, <3>1, <3>2, OneStep
  <2>5. CASE ~(Choice!model_catalog[i].needs_key /\ key = nothing)
    <3>1. PICK d : d = [kind |-> demand[o].kind, by |-> u, body |-> b, at |-> "endpoint", key |-> key, url |-> demand[o].url]
      OBVIOUS
    <3>2. /\ d.kind = demand[o].kind /\ d.by = u /\ d.body = b /\ d.at = "endpoint" /\ d.key = key
      BY <3>1
    <3>3. key \in Secrets
      BY <2>1, <2>3, Registered DEF Secrets
    <3>4. d \in Demands
      BY <2>3, <3>1, <3>3 DEF Demands
    <3>5. demand' = [demand EXCEPT ![o] = d]
      <4>1. [demand EXCEPT ![o].key = key, ![o].at = "endpoint"] = [demand EXCEPT ![o] = [demand[o] EXCEPT !.key = key, !.at = "endpoint"]]
        BY DEF VaultInv, VaultTypes
      <4>2. [demand[o] EXCEPT !.key = key, !.at = "endpoint"] = d
        <5>1. PICK f : f = [demand[o] EXCEPT !.key = key]
          OBVIOUS
        <5>2. f = [kind |-> demand[o].kind, by |-> u, body |-> b, at |-> demand[o].at,
                   key |-> key, url |-> demand[o].url]
          BY <2>1, <2>3, <5>1 DEF Demands
        <5>3. [f EXCEPT !.at = "endpoint"] = d
          BY <3>1, <5>2
        <5> QED
          BY <5>1, <5>3
      <4> QED
        BY <2>2, <2>5, <4>1, <4>2
    <3>6. demand'[o] = d
      BY <3>5 DEF VaultInv, VaultTypes
    <3>7. i # "fake" => key # nothing
      BY <2>3, <2>5 DEF Choice!model_catalog
    <3>8. b.key = nothing => key = Choice!_registered_model_key(u, i)
      BY <2>1
    <3>9. b.key # nothing => key = b.key
      BY <2>1
    <3>10. i # "fake" /\ b.key = nothing => Has(u, i)
      BY <2>3, <3>7, <3>8, Registered
    <3>11. b.key = nothing /\ Clear(u, i) /\ told[u][i] # nothing => key = told[u][i]
      <4>1. Clear(u, i) /\ told[u][i] # nothing => vault[u][i] # nothing /\ vault[u][i].key = told[u][i]
        BY <2>3 DEF VaultInv, Choice!ImportKept, Clear
      <4> QED
        BY <2>3, <3>8, <4>1, Registered
    <3>12. (Has(u, i)' <=> Has(u, i)) /\ (Clear(u, i)' <=> Clear(u, i)) /\ told' = told
      BY <2>2 DEF Has, Clear
    <3>13. Serves(o)'
      BY <2>1, <3>2, <3>6, <3>7, <3>9, <3>10, <3>11, <3>12 DEF Serves, Selects
    <3> QED
      BY <2>1, <2>2, <3>2, <3>4, <3>5, <3>13, OneStep
  <2> QED
    BY <2>4, <2>5
<1>4. ASSUME NEW o \in Choice!Requests, Choice!Resolve(o) PROVE VaultInv'
  <2>1. PICK b, u, i, url : /\ b = demand[o].body /\ u = demand[o].by /\ i = b.id
                            /\ url = Choice!_resolve_endpoint(u, i, b.url)
    OBVIOUS
  <2>2. /\ demand[o] # nothing /\ demand[o].at = "endpoint" /\ UNCHANGED <<vault, told, crossed, latest>>
        /\ \/ demand' = [demand EXCEPT ![o] = nothing]
           \/ demand[o].kind = "select" /\ demand' = [demand EXCEPT ![o].url = url, ![o].at = "store"]
           \/ demand[o].kind = "probe" /\ demand' = [demand EXCEPT ![o].url = url, ![o].at = "probe"]
    BY <1>4, <2>1 DEF Choice!Resolve, Choice!At, Choice!Refuse, Choice!process
  <2>3. u \in Callers /\ i \in Models /\ b.url \in Places /\ demand[o] \in Demands /\ url \in Places
    BY <2>1, <2>2, Demanded, Placed
  <2>4. CASE demand' = [demand EXCEPT ![o] = nothing]
    <3>1. demand'[o] = nothing
      BY <2>4 DEF VaultInv, VaultTypes
    <3>2. Serves(o)'
      BY <3>1 DEF Serves
    <3> QED
      BY <2>2, <2>4, <3>2, OneStep
  <2>5. ASSUME NEW step \in {"store", "probe"}, demand' = [demand EXCEPT ![o].url = url, ![o].at = step],
               step = "store" => demand[o].kind = "select"
        PROVE  VaultInv'
    <3>1. PICK d : d = [kind |-> demand[o].kind, by |-> u, body |-> b, at |-> step, key |-> demand[o].key, url |-> url]
      OBVIOUS
    <3>2. /\ d.kind = demand[o].kind /\ d.by = u /\ d.body = b /\ d.at = step /\ d.key = demand[o].key
      BY <3>1
    <3>3. d \in Demands
      BY <2>1, <2>3, <3>1 DEF Demands
    <3>4. demand' = [demand EXCEPT ![o] = d]
      <4>1. [demand EXCEPT ![o].url = url, ![o].at = step] = [demand EXCEPT ![o] = [demand[o] EXCEPT !.url = url, !.at = step]]
        BY DEF VaultInv, VaultTypes
      <4>2. [demand[o] EXCEPT !.url = url, !.at = step] = d
        <5>1. PICK f : f = [demand[o] EXCEPT !.url = url]
          OBVIOUS
        <5>2. f = [kind |-> demand[o].kind, by |-> u, body |-> b, at |-> demand[o].at,
                   key |-> demand[o].key, url |-> url]
          BY <2>1, <2>3, <5>1 DEF Demands
        <5>3. [f EXCEPT !.at = step] = d
          BY <3>1, <5>2
        <5> QED
          BY <5>1, <5>3
      <4> QED
        BY <2>5, <4>1, <4>2
    <3>5. demand'[o] = d
      BY <3>4 DEF VaultInv, VaultTypes
    <3>6. Serves(o)
      BY <2>2, Demanded
    <3>7. (Has(u, i)' <=> Has(u, i)) /\ (Clear(u, i)' <=> Clear(u, i)) /\ told' = told
      BY <2>2 DEF Has, Clear
    <3>8. /\ b.key # nothing => d.key = b.key
          /\ i # "fake" => d.key # nothing /\ (b.key = nothing => Has(u, i))
          /\ d.kind = "select" /\ b.key = nothing /\ Clear(u, i) /\ told[u][i] # nothing => d.key = told[u][i]
      BY <2>1, <2>2, <3>2, <3>6 DEF Serves, Selects
    <3>9. Serves(o)'
      BY <2>1, <2>5, <3>2, <3>5, <3>7, <3>8 DEF Serves, Selects
    <3> QED
      BY <2>1, <2>2, <3>2, <3>3, <3>4, <3>9, OneStep
  <2> QED
    BY <2>2, <2>4, <2>5
<1>5. ASSUME NEW o \in Choice!Requests, Choice!Register(o) PROVE VaultInv'
  <2>1. PICK b, u, i : b = demand[o].body /\ u = demand[o].by /\ i = b.id
    OBVIOUS
  <2>2. PICK c : c = [key |-> demand[o].key, url |-> demand[o].url]
    OBVIOUS
  <2>3. /\ demand[o] # nothing /\ demand[o].at = "store" /\ demand' = [demand EXCEPT ![o].at = "switch"]
        /\ UNCHANGED <<crossed, latest>>
        /\ vault' = IF b.key # nothing \/ (i = "custom" /\ b.url # nothing)
                    THEN [vault EXCEPT ![u][i] = c] ELSE vault
        /\ told' = IF b.key # nothing THEN [told EXCEPT ![u][i] = nothing] ELSE told
    BY <1>5, <2>1, <2>2 DEF Choice!Register, Choice!At, Choice!Goes, Choice!process
  <2>4. /\ u \in Callers /\ i \in Models /\ b.key \in Keys \cup {nothing} /\ demand[o] \in Demands
        /\ demand[o].key \in Secrets /\ demand[o].url \in Places /\ (b.key # nothing => i # "fake") /\ Serves(o)
    BY <2>1, <2>3, Demanded
  <2>5. c \in Credentials /\ c # nothing /\ c.key = demand[o].key
    BY <2>2, <2>4 DEF Credentials, Secrets, Places
  <2>6. /\ demand[o].kind = "select" /\ Selects(o)
        /\ b.key # nothing => c.key = b.key
        /\ i # "fake" => c.key # nothing /\ (b.key = nothing => Has(u, i))
        /\ b.key = nothing /\ Clear(u, i) /\ told[u][i] # nothing => c.key = told[u][i]
    BY <2>1, <2>3, <2>4, <2>5 DEF Serves, Selects
  <2>7. PICK d : d = [kind |-> demand[o].kind, by |-> u, body |-> b, at |-> "switch", key |-> demand[o].key,
                      url |-> demand[o].url]
    OBVIOUS
  <2>8. d.kind = "select" /\ d.by = u /\ d.body = b /\ d.at = "switch" /\ d.key = c.key /\ d \in Demands
    BY <2>1, <2>4, <2>5, <2>6, <2>7 DEF Demands
  <2>9. demand' = [demand EXCEPT ![o] = d]
    <3>1. [demand EXCEPT ![o].at = "switch"] = [demand EXCEPT ![o] = [demand[o] EXCEPT !.at = "switch"]]
      BY DEF VaultInv, VaultTypes
    <3>2. demand[o] = [kind |-> demand[o].kind, by |-> u, body |-> b, at |-> demand[o].at,
                       key |-> demand[o].key, url |-> demand[o].url]
      BY <2>1, <2>4 DEF Demands
    <3>3. [demand[o] EXCEPT !.at = "switch"] = d
      BY <2>7, <3>2
    <3> QED
      BY <2>3, <3>1, <3>3
  <2>10. demand'[o] = d /\ \A p \in Choice!Requests : p # o => demand'[p] = demand[p]
    BY <2>9 DEF VaultInv, VaultTypes
  <2>11. /\ vault' \in [Callers \cup {Deployment} -> [Models -> Credentials \cup {nothing}]]
         /\ \A s \in Callers \cup {Deployment}, j \in Models : s # u \/ j # i => vault'[s][j] = vault[s][j]
         /\ vault'[u][i] \in {c, vault[u][i]} /\ (b.key # nothing => vault'[u][i] = c)
         /\ vault'[u][i] = c => i # "fake" \/ vault[u][i] = c
    BY <2>3, <2>4, <2>5 DEF VaultInv, VaultTypes
  <2>12. \A s \in Callers, j \in Models : Has(s, j) => Has(s, j)'
    BY <2>5, <2>11 DEF Has
  <2>13. /\ told' \in [Callers -> [Models -> Keys \cup {nothing}]]
         /\ \A s \in Callers, j \in Models : s # u \/ j # i => told'[s][j] = told[s][j]
         /\ told'[u][i] = IF b.key # nothing THEN nothing ELSE told[u][i]
    BY <2>3, <2>4 DEF VaultInv, VaultTypes
  <2>14. VaultTypes'
    <3>1. \A s \in Callers \cup {Deployment}, j \in Models :
            vault'[s][j] # nothing => j # "fake" /\ vault'[s][j].key # nothing
      BY <2>4, <2>5, <2>6, <2>11 DEF VaultInv, VaultTypes
    <3>2. vault'[Deployment]["custom"] = vault[Deployment]["custom"]
      BY <2>4, <2>11
    <3>3. demand' \in [Choice!Requests -> Demands \cup {nothing}]
      BY <2>8, <2>9 DEF VaultInv, VaultTypes
    <3> QED
      BY <2>3, <2>11, <2>13, <3>1, <3>2, <3>3 DEF VaultInv, VaultTypes
  <2>15. \A p \in Choice!Requests : Serves(p)'
    <3>1. Serves(o)'
      <4>1. i # "fake" /\ b.key = nothing => Has(u, i)'
        BY <2>4, <2>6, <2>12
      <4>2. Clear(u, i)' => Clear(u, i)
        BY <2>3 DEF Clear
      <4>3. /\ b.key # nothing => d.key = b.key
            /\ i # "fake" => d.key # nothing /\ (b.key = nothing => Has(u, i)')
            /\ b.key = nothing /\ Clear(u, i)' /\ told'[u][i] # nothing => d.key = told'[u][i]
            /\ b.key # nothing => vault'[u][i] # nothing /\ vault'[u][i].key = d.key
        BY <2>5, <2>6, <2>8, <2>11, <2>13, <4>1, <4>2
      <4> QED
        BY <2>1, <2>8, <2>10, <4>3 DEF Serves, Selects
    <3>2. ASSUME NEW p \in Choice!Requests, p # o PROVE Serves(p)'
      <4>1. demand'[p] = demand[p]
        BY <2>10, <3>2
      <4> SUFFICES ASSUME demand[p] # nothing PROVE Serves(p)'
        BY <4>1 DEF Serves
      <4>2. PICK v, j : v = demand[p].by /\ j = demand[p].body.id
        OBVIOUS
      <4>3. v \in Callers /\ j \in Models /\ Serves(p)
        BY <4>2, Demanded
      <4>4. (Has(v, j) => Has(v, j)') /\ (Clear(v, j)' <=> Clear(v, j))
        BY <2>3, <2>12, <4>3 DEF Clear
      <4>5. Selects(p) /\ Clear(v, j) => v # u \/ j # i
        BY <2>1, <2>6, <3>2, <4>2 DEF VaultInv, OneAtATime, Clear
      <4>6. v # u \/ j # i => vault'[v][j] = vault[v][j] /\ told'[v][j] = told[v][j]
        BY <2>11, <2>13, <4>3
      <4>7. demand[p].at = "switch" => Selects(p)
        BY <4>3 DEF Serves, Selects
      <4> QED
        BY <4>1, <4>2, <4>3, <4>4, <4>5, <4>6, <4>7 DEF Serves, Selects
    <3> QED
      BY <3>1, <3>2
  <2>16. OneAtATime'
    <3>1. ASSUME NEW p \in Choice!Requests, Selects(p)'
          PROVE  Selects(p) /\ demand'[p].by = demand[p].by /\ demand'[p].body = demand[p].body
      BY <2>1, <2>6, <2>8, <2>10, <3>1 DEF Selects
    <3> SUFFICES ASSUME NEW p \in Choice!Requests, NEW q \in Choice!Requests, p # q, Selects(p)', Selects(q)',
                        demand'[p].by = demand'[q].by, demand'[p].body.id = demand'[q].body.id
                 PROVE  demand'[p].body.id \in crossed'[demand'[p].by]
      BY DEF OneAtATime, Clear
    <3> QED
      BY <2>3, <3>1 DEF VaultInv, OneAtATime, Clear
  <2>17. Choice!ImportKept'
    <3> SUFFICES ASSUME NEW v \in Callers, NEW j \in Models, told'[v][j] # nothing, j \notin crossed'[v]
                 PROVE  vault'[v][j] # nothing /\ vault'[v][j].key = told'[v][j]
      BY DEF Choice!ImportKept
    <3>1. told'[v][j] = told[v][j] /\ vault[v][j] # nothing /\ vault[v][j].key = told[v][j] /\ Clear(v, j)
      BY <2>3, <2>13 DEF VaultInv, Choice!ImportKept, Clear
    <3> QED
      BY <2>5, <2>6, <2>11, <2>13, <3>1
  <2>18. Probed'
    BY <2>3, <2>12 DEF VaultInv, Probed
  <2> QED
    BY <2>14, <2>15, <2>16, <2>17, <2>18 DEF VaultInv
<1>6. ASSUME NEW o \in Choice!Requests, Choice!Switch(o) PROVE VaultInv'
  <2>1. PICK b, u, i : b = demand[o].body /\ u = demand[o].by /\ i = b.id
    OBVIOUS
  <2>2. /\ demand[o] # nothing /\ demand[o].at = "switch" /\ demand' = [demand EXCEPT ![o] = nothing]
        /\ UNCHANGED <<vault, crossed, latest>>
        /\ told' = IF b.key # nothing THEN [told EXCEPT ![u][i] = b.key] ELSE told
    BY <1>6, <2>1 DEF Choice!Switch, Choice!At, Choice!Refuse
  <2>3. /\ u \in Callers /\ i \in Models /\ b.key \in Keys \cup {nothing} /\ demand[o] \in Demands /\ Serves(o)
    BY <2>1, <2>2, Demanded
  <2>4. /\ Selects(o)
        /\ b.key # nothing /\ Clear(u, i) => vault[u][i] # nothing /\ vault[u][i].key = b.key
    BY <2>1, <2>2, <2>3 DEF Serves, Selects
  <2>5. demand'[o] = nothing /\ \A p \in Choice!Requests : p # o => demand'[p] = demand[p]
    BY <2>2 DEF VaultInv, VaultTypes
  <2>6. /\ told' \in [Callers -> [Models -> Keys \cup {nothing}]]
        /\ \A s \in Callers, j \in Models : s # u \/ j # i => told'[s][j] = told[s][j]
        /\ told'[u][i] = IF b.key # nothing THEN b.key ELSE told[u][i]
    BY <2>2, <2>3 DEF VaultInv, VaultTypes
  <2>7. VaultTypes'
    BY <2>2, <2>6 DEF VaultInv, VaultTypes
  <2>8. \A p \in Choice!Requests : Serves(p)'
    <3> SUFFICES ASSUME NEW p \in Choice!Requests, p # o, demand[p] # nothing PROVE Serves(p)'
      BY <2>5 DEF Serves
    <3>1. demand'[p] = demand[p] /\ Serves(p)
      BY <2>5, Demanded
    <3>2. PICK v, j : v = demand[p].by /\ j = demand[p].body.id
      OBVIOUS
    <3>3. v \in Callers /\ j \in Models
      BY <3>2, Demanded
    <3>4. (Has(v, j)' <=> Has(v, j)) /\ (Clear(v, j)' <=> Clear(v, j)) /\ vault' = vault
      BY <2>2 DEF Has, Clear
    <3>5. Selects(p) /\ Clear(v, j) => told'[v][j] = told[v][j]
      BY <2>1, <2>4, <2>6, <3>2, <3>3 DEF VaultInv, OneAtATime, Clear
    <3> QED
      BY <3>1, <3>2, <3>4, <3>5 DEF Serves, Selects
  <2>9. OneAtATime'
    BY <2>2, <2>5 DEF VaultInv, OneAtATime, Selects, Clear
  <2>10. Choice!ImportKept'
    <3> SUFFICES ASSUME NEW v \in Callers, NEW j \in Models, told'[v][j] # nothing, j \notin crossed'[v]
                 PROVE  vault'[v][j] # nothing /\ vault'[v][j].key = told'[v][j]
      BY DEF Choice!ImportKept
    <3> QED
      BY <2>2, <2>4, <2>6 DEF VaultInv, Choice!ImportKept, Clear
  <2>11. Probed'
    BY <2>2 DEF VaultInv, Probed, Has
  <2> QED
    BY <2>7, <2>8, <2>9, <2>10, <2>11 DEF VaultInv
<1>7. ASSUME NEW o \in Choice!Requests, Choice!Probe(o) PROVE VaultInv'
  <2>1. PICK b, u, i : b = demand[o].body /\ u = demand[o].by /\ i = b.id
    OBVIOUS
  <2>2. /\ demand[o] # nothing /\ demand[o].at = "probe" /\ demand' = [demand EXCEPT ![o] = nothing]
        /\ UNCHANGED <<vault, told, crossed>>
        /\ latest' = IF b.key # nothing THEN latest ELSE [latest EXCEPT ![u][i] = demand[o].key]
    BY <1>7, <2>1 DEF Choice!Probe, Choice!At, Choice!Refuse
  <2>3. /\ u \in Callers /\ i \in Models /\ demand[o].key \in Secrets /\ Serves(o)
    BY <2>1, <2>2, Demanded
  <2>4. b.key = nothing /\ i # "fake" => Has(u, i)
    BY <2>1, <2>2, <2>3 DEF Serves
  <2>5. demand'[o] = nothing /\ \A p \in Choice!Requests : p # o => demand'[p] = demand[p]
    BY <2>2 DEF VaultInv, VaultTypes
  <2>6. /\ latest' \in [Callers -> [Models -> Secrets]]
        /\ \A s \in Callers, j \in Models : s # u \/ j # i \/ b.key # nothing => latest'[s][j] = latest[s][j]
    BY <2>2, <2>3 DEF VaultInv, VaultTypes
  <2>7. VaultTypes'
    BY <2>2, <2>6 DEF VaultInv, VaultTypes
  <2>8. (\A p \in Choice!Requests : Serves(p)') /\ OneAtATime' /\ Choice!ImportKept'
    BY <2>2, <2>5 DEF VaultInv, Serves, OneAtATime, Selects, Clear, Has, Choice!ImportKept
  <2>9. Probed'
    BY <2>2, <2>4, <2>6 DEF VaultInv, Probed, Has
  <2> QED
    BY <2>7, <2>8, <2>9 DEF VaultInv
<1>9. CASE Choice!Restart
  <2>1. /\ UNCHANGED <<vault, told, crossed>> /\ \A o \in Choice!Requests : demand'[o] = nothing
        /\ demand' \in [Choice!Requests -> Demands \cup {nothing}]
        /\ latest' \in [Callers -> [Models -> Secrets]] /\ \A u \in Callers, i \in Models : latest'[u][i] = nothing
    BY <1>9 DEF Choice!Restart, Secrets
  <2>2. VaultTypes'
    BY <2>1 DEF VaultInv, VaultTypes
  <2> QED
    BY <2>1, <2>2 DEF VaultInv, Serves, OneAtATime, Selects, Choice!ImportKept, Probed
<1>10. ASSUME NEW r \in Runs, \/ \E u \in Callers : Choice!Chat(u, r) \/ Choice!create_run(u, r)
                             \/ Choice!Get(r) \/ Choice!Evict(r) \/ Choice!delete_run(r)
       PROVE  VaultInv'
  BY <1>1, <1>10 DEF Choice!Chat, Choice!create_run, Choice!Get, Choice!Evict, Choice!delete_run
<1> QED
  BY <1>2, <1>3, <1>4, <1>5, <1>6, <1>7, <1>9, <1>10 DEF Choice!Next

\* So the list tells whose key it is.
LEMMA ListsTrue == VaultInv => Choice!ListTells
<1> SUFFICES ASSUME VaultInv, NEW u \in Callers, NEW i \in Models
             PROVE  /\ Choice!models_view(u)[i].configured <=>
                         /\ Choice!model_catalog[i].needs_key => Choice!_registered_model_key(u, i) # nothing
                         /\ Choice!model_catalog[i].needs_endpoint => Choice!_resolve_endpoint(u, i, nothing) # nothing
                    /\ Choice!models_view(u)[i].last_probe # nothing /\ Choice!model_catalog[i].needs_key
                         => Choice!_scopes(u, i) # {}
  BY DEF Choice!ListTells
<1>1. /\ Choice!models_view(u)[i].configured <=> (Choice!model_catalog[i].needs_key =>
           Choice!_scopes(u, i) # {} /\ (Choice!model_catalog[i].needs_endpoint =>
                                          Choice!_custom_endpoint_or_none(u) # nothing))
      /\ Choice!models_view(u)[i].last_probe = latest[u][i]
  BY DEF Choice!models_view
<1>2. /\ Choice!model_catalog[i].needs_key <=> i # "fake"
      /\ Choice!model_catalog[i].needs_endpoint <=> i = "custom"
  BY ModelAssumption DEF Choice!model_catalog
<1>3. i = "custom" => Choice!_resolve_endpoint(u, i, nothing) = Choice!_custom_endpoint_or_none(u)
  BY <1>2 DEF Choice!_resolve_endpoint
<1>4. latest[u][i] # nothing /\ i # "fake" => Has(u, i)
  BY DEF VaultInv, Probed
<1> QED
  BY <1>1, <1>2, <1>3, <1>4, Registered
-----------------------------------------------------------------------------
\* The check of mutants.  A file that is not what people wrote has a note and a backup.
Noted(i) ==
  /\ manifest = <<[rel |-> Mutants!Rel(i), bak |-> i, sha |-> Mutants!Mutated(wanted[Mutants!Rel(i)], i)]>>
  /\ bak[i] = wanted[Mutants!Rel(i)]
Else(i) == \A f \in Sources \ {Mutants!Rel(i)} : file[f] = wanted[f]
Torn(i) == \/ file[Mutants!Rel(i)] = Mutants!Mutated(wanted[Mutants!Rel(i)], i)
           \/ file[Mutants!Rel(i)].case = 0
MutantTypes ==
  /\ DOMAIN bak = DOMAIN CASES /\ case \in Nat \ {0}
  /\ file = [f \in Sources |-> file[f]] /\ wanted = [f \in Sources |-> wanted[f]]
  /\ \A f \in Sources : "case" \in DOMAIN wanted[f] /\ wanted[f].case = 0
Safe == file = wanted \/ \E i \in DOMAIN CASES : Noted(i) /\ Else(i) /\ Torn(i)
Known ==
  \/ manifest = <<>> \/ manifest = <<Mutants!Unreadable>>
  \/ \E i \in DOMAIN CASES : /\ manifest = <<[rel |-> Mutants!Rel(i), bak |-> i, sha |-> Mutants!Note.sha]>>
                             /\ Mutants!Note.sha.case = i
Working ==
  /\ point \in {"unlink", "sweep", "case", "save", "note", "hold", "mutate", "unnote", "judge", "report"}
       => file = wanted
  /\ point \in {"save", "note", "hold", "mutate", "test", "pop", "back", "handback"}
       => case \in DOMAIN CASES /\ raw = wanted[Mutants!Rel(case)]
  /\ point = "note" => bak[case] = raw
  /\ point \in {"hold", "mutate", "test", "pop", "back", "handback"} => Noted(case)
  /\ point \in {"test", "pop", "back", "handback"} => Else(case) /\ Torn(case)
  /\ point = "settle" => \E i \in DOMAIN CASES : Noted(i) /\ Else(i)
  /\ PENDING # nothing => point \in {"mutate", "test", "pop"}
  /\ point \in {"mutate", "test", "pop"} => PENDING = Mutants!Rel(case)
MutantInv == MutantTypes /\ Safe /\ Known /\ Working

\* A case is of a source file.
LEMMA OfSource == ASSUME NEW i \in DOMAIN CASES PROVE Mutants!Rel(i) \in Sources /\ i # 0
<1>1. PICK S : S = [expect : {"kill", "equiv"}, rel : Sources, test : 1 .. NTests]
  OBVIOUS
<1>2. CASES \in Seq(S)
  BY <1>1, MutantAssumption DEF Mutants!Entry
<1>3. CASES[i] \in S /\ i # 0
  BY <1>2
<1> QED
  BY <1>1, <1>3 DEF Mutants!Rel

\* A text that is mutated names its case; one that is cut short keeps it.
LEMMA Marked ==
  ASSUME NEW t, "case" \in DOMAIN t
  PROVE  /\ \A i : Mutants!Mutated(t, i).case = i
         /\ Mutants!Cut(t).case = t.case
BY DEF Mutants!Mutated, Mutants!Cut

\* It holds at the start.
LEMMA MutantInit == Mutants!Init => MutantInv
<1> SUFFICES ASSUME Mutants!Init PROVE MutantInv
  OBVIOUS
<1>1. /\ file = [f \in Sources |-> Mutants!Text(0)] /\ wanted = file /\ bak = [i \in DOMAIN CASES |-> nothing]
      /\ manifest = <<>> /\ point = "idle" /\ PENDING = nothing /\ case = 1
  BY DEF Mutants!Init, Mutants!NoBackups
<1>2. "case" \in DOMAIN Mutants!Text(0) /\ Mutants!Text(0).case = 0
  BY DEF Mutants!Text
<1>3. MutantTypes
  BY <1>1, <1>2 DEF MutantTypes
<1> QED
  BY <1>1, <1>3 DEF MutantInv, Safe, Known, Working

\* What is whole is safe, and so is a file that has its note.
LEMMA StaysSafe ==
  ASSUME MutantTypes, NEW i \in DOMAIN CASES, Noted(i), Else(i)
  PROVE  Known /\ (Torn(i) => Safe)
<1>1. /\ Mutants!Note.sha.case = i /\ manifest = <<[rel |-> Mutants!Rel(i), bak |-> i, sha |-> Mutants!Note.sha]>>
  <2>1. PICK m : m = Mutants!Mutated(wanted[Mutants!Rel(i)], i)
    OBVIOUS
  <2>2. Mutants!Note.sha = m
    BY <2>1 DEF Noted, Mutants!Note
  <2>3. m.case = i
    BY <2>1, OfSource, Marked DEF MutantTypes
  <2> QED
    BY <2>1, <2>3, <2>2 DEF Noted
<1> QED
  BY <1>1 DEF Known, Safe

\* The file of a case is written back.
LEMMA WrittenBack ==
  ASSUME MutantTypes, NEW i \in DOMAIN CASES, Else(i),
         file' = [file EXCEPT ![Mutants!Rel(i)] = wanted[Mutants!Rel(i)]], UNCHANGED wanted
  PROVE  file' = wanted'
<1>1. \A f \in Sources : file'[f] = wanted[f]
  BY OfSource DEF MutantTypes, Else
<1>2. file' = [f \in Sources |-> file'[f]]
  BY DEF MutantTypes
<1> QED
  BY <1>1, <1>2 DEF MutantTypes

\* A write to the file of a case was cut.
LEMMA WriteCut ==
  ASSUME MutantTypes, NEW i \in DOMAIN CASES, Noted(i), Else(i), NEW t, t.case = 0,
         file' = [file EXCEPT ![Mutants!Rel(i)] = t], UNCHANGED <<wanted, bak, manifest, case>>
  PROVE  MutantTypes' /\ Safe' /\ Known'
<1>1. MutantTypes' /\ Noted(i)' /\ Else(i)' /\ Torn(i)'
  BY OfSource DEF MutantTypes, Noted, Else, Torn
<1>2. Known
  BY StaysSafe
<1>3. Known'
  BY <1>2 DEF Known, Mutants!Note
<1> QED
  BY <1>1, <1>3 DEF Safe

\* Nothing is written to what people wrote, while the file is whole.
LEMMA Untouched ==
  ASSUME MutantInv, UNCHANGED <<file, wanted>>, file = wanted, DOMAIN bak' = DOMAIN bak, case' \in Nat \ {0}
  PROVE  MutantTypes' /\ Safe'
BY DEF MutantInv, MutantTypes, Safe

\* What is not what people wrote is in a backup.
LEMMA Recovers ==
  ASSUME MutantTypes, Safe, NEW f \in Sources
  PROVE  file[f] = wanted[f] \/ Mutants!InBackup(f)
<1> SUFFICES ASSUME NEW i \in DOMAIN CASES, Noted(i), Else(i), file[f] # wanted[f] PROVE Mutants!InBackup(f)
  BY DEF Safe
<1>1. f = Mutants!Rel(i) /\ bak[i] = wanted[f] /\ wanted[f].case = 0 /\ "case" \in DOMAIN wanted[f]
  BY DEF MutantTypes, Noted, Else
<1> QED
  BY <1>1 DEF Mutants!InBackup

\* The check starts: it settles what it finds, or takes its first case.
LEMMA Starting ==
  MutantInv /\ (\E argv \in {"run", "restore"} : Mutants!main(argv)) => MutantInv'
<1> SUFFICES ASSUME MutantInv, NEW argv \in {"run", "restore"}, Mutants!main(argv) PROVE MutantInv'
  OBVIOUS
<1>1. /\ point = "idle" /\ UNCHANGED <<file, wanted, bak, manifest, raw, PENDING>> /\ PENDING = nothing
      /\ case' = 1
      /\ \/ point' = "settle" /\ Mutants!Settles
         \/ point' = "case" /\ manifest = <<>>
         \/ point' = "idle"
  <2>1. /\ point = "idle" /\ UNCHANGED <<file, wanted, bak, manifest, raw, PENDING>> /\ case' = 1
        /\ point' = CASE Mutants!Settles -> "settle"
                      [] manifest = <<>> -> IF argv = "run" THEN "case" ELSE "idle"
                      [] OTHER -> "idle"
    BY DEF Mutants!main, Mutants!disk
  <2>2. PENDING = nothing
    BY <2>1 DEF MutantInv, Working
  <2>3. Mutants!Settles => manifest # <<>>
    BY DEF Mutants!Settles
  <2> QED
    BY <2>1, <2>2, <2>3
<1>2. MutantTypes' /\ Safe' /\ Known'
  BY <1>1 DEF MutantInv, MutantTypes, Safe, Known, Noted, Else, Torn, Mutants!Note
<1>3. manifest = <<>> => file = wanted
  <2>1. ASSUME NEW i \in DOMAIN CASES, Noted(i) PROVE manifest # <<>>
    BY <2>1 DEF Noted
  <2> QED
    BY <2>1 DEF MutantInv, Safe
<1>4. Mutants!Settles => \E i \in DOMAIN CASES : Noted(i) /\ Else(i)
  <2> SUFFICES ASSUME Mutants!Settles, file = wanted PROVE FALSE
    BY DEF MutantInv, Safe
  <2>1. PICK i \in DOMAIN CASES : /\ manifest = <<[rel |-> Mutants!Rel(i), bak |-> i, sha |-> Mutants!Note.sha]>>
                                  /\ Mutants!Note.sha.case = i
    BY DEF MutantInv, Known, Mutants!Settles
  <2>2. Mutants!Note.rel = Mutants!Rel(i)
    BY <2>1 DEF Mutants!Note
  <2>3. file[Mutants!Rel(i)].case = i
    BY <2>1, <2>2 DEF Mutants!Settles
  <2> QED
    BY <2>3, OfSource DEF MutantInv, MutantTypes
<1> QED
  BY <1>1, <1>2, <1>3, <1>4 DEF MutantInv, Working, Noted, Else

\* It settles what an earlier one left.
LEMMA Settling == MutantInv /\ Mutants!Settle => MutantInv'
<1> SUFFICES ASSUME MutantInv, Mutants!Settle PROVE MutantInv'
  OBVIOUS
<1>1. UNCHANGED <<wanted, raw, PENDING, case>>
  BY DEF Mutants!Settle
<1>2. ASSUME point = "settle", point' = "unlink", UNCHANGED <<bak, manifest>>,
             file' = [file EXCEPT ![Mutants!Note.rel] = bak[Mutants!Note.bak]]
      PROVE  MutantInv'
  <2>1. PICK i \in DOMAIN CASES : Noted(i) /\ Else(i)
    BY <1>2 DEF MutantInv, Working
  <2>2. Mutants!Note.rel = Mutants!Rel(i) /\ bak[Mutants!Note.bak] = wanted[Mutants!Rel(i)]
    BY <2>1 DEF Noted, Mutants!Note
  <2>3. file' = wanted'
    BY <1>1, <1>2, <2>1, <2>2, WrittenBack DEF MutantInv
  <2>4. MutantTypes' /\ Safe'
    BY <1>1, <1>2, <2>3 DEF MutantInv, MutantTypes, Safe
  <2>5. Known'
    BY <1>2 DEF MutantInv, Known, Mutants!Note
  <2>6. Working'
    BY <1>1, <1>2, <2>3 DEF MutantInv, Working
  <2> QED
    BY <2>4, <2>5, <2>6 DEF MutantInv
<1>3. ASSUME point \in {"unlink", "sweep"}, point' \in {"sweep", "case", "report", "idle"},
             manifest' = manifest \/ manifest' = <<>>, DOMAIN bak' = DOMAIN bak, UNCHANGED file
      PROVE  MutantInv'
  <2>1. file = wanted
    BY <1>3 DEF MutantInv, Working
  <2>2. MutantTypes' /\ Safe'
    BY <1>1, <1>3, <2>1, Untouched DEF MutantInv, MutantTypes
  <2>3. Known'
    BY <1>3 DEF MutantInv, Known, Mutants!Note
  <2>4. Working'
    BY <1>1, <1>3, <2>1 DEF MutantInv, Working
  <2> QED
    BY <2>2, <2>3, <2>4 DEF MutantInv
<1>4. CASE Mutants!_settle_previous_run /\ UNCHANGED manifest
  <2>1. CASE point = "settle"
    BY <1>2, <1>4, <2>1 DEF Mutants!_settle_previous_run
  <2>2. CASE point # "settle"
    BY <1>3, <1>4, <2>2 DEF Mutants!_settle_previous_run, MutantInv, MutantTypes
  <2> QED
    BY <2>1, <2>2
<1>5. CASE Mutants!_clear_backups /\ UNCHANGED file
  <2>1. /\ point = "sweep" /\ point' \in {"sweep", "case", "report", "idle"}
        /\ manifest' = manifest \/ manifest' = <<>>
        /\ DOMAIN bak' = DOMAIN bak
    BY <1>5 DEF Mutants!_clear_backups, MutantInv, MutantTypes
  <2> QED
    BY <1>3, <1>5, <2>1
<1> QED
  BY <1>4, <1>5 DEF Mutants!Settle

\* A number of a case that is looked at.
LEMMA Cased == ASSUME NEW i \in Nat \ {0}, i =< Len(CASES) PROVE i \in DOMAIN CASES
BY MutantAssumption

\* After the write of a case's text every file is what people wrote.
LEMMA PutInPlace ==
  ASSUME MutantInv, point \in {"back", "handback"}, point' \in {"unnote", "idle"},
         file' = [file EXCEPT ![Mutants!Rel(case)] = raw],
         UNCHANGED <<wanted, bak, manifest, case, raw, PENDING>>
  PROVE  MutantInv'
<1>1. case \in DOMAIN CASES /\ raw = wanted[Mutants!Rel(case)] /\ Else(case) /\ PENDING = nothing
  BY DEF MutantInv, Working
<1>2. file' = wanted'
  BY <1>1, WrittenBack DEF MutantInv
<1>3. MutantTypes' /\ Safe'
  BY <1>2 DEF MutantInv, MutantTypes, Safe
<1>4. Known' /\ Working'
  BY <1>1, <1>2 DEF MutantInv, Known, Working, Mutants!Note
<1> QED
  BY <1>3, <1>4 DEF MutantInv

\* It ends while a file may have been cut.
LEMMA LeftAlone ==
  ASSUME MutantInv, point' = "idle", PENDING' = nothing, UNCHANGED <<wanted, bak, manifest, case, raw>>,
         \/ file' = file
         \/ point \in {"mutate", "back", "handback"} /\ file' = [file EXCEPT ![Mutants!Rel(case)] = Mutants!Cut(raw)]
  PROVE  MutantInv'
<1>1. CASE file' = file
  BY <1>1 DEF MutantInv, MutantTypes, Safe, Known, Working, Noted, Else, Torn, Mutants!Note
<1>2. CASE /\ point \in {"mutate", "back", "handback"}
           /\ file' = [file EXCEPT ![Mutants!Rel(case)] = Mutants!Cut(raw)]
  <2>1. case \in DOMAIN CASES /\ raw = wanted[Mutants!Rel(case)] /\ Noted(case) /\ Else(case)
    BY <1>2, OfSource DEF MutantInv, Working, Else
  <2>2. PICK t : t = Mutants!Cut(raw)
    OBVIOUS
  <2>3. t.case = 0
    BY <2>1, <2>2, OfSource, Marked DEF MutantInv, MutantTypes
  <2>4. MutantTypes' /\ Safe' /\ Known'
    BY <1>2, <2>1, <2>2, <2>3, WriteCut DEF MutantInv
  <2> QED
    BY <2>4 DEF MutantInv, Working
<1> QED
  BY <1>1, <1>2

\* The steps of a case.
LEMMA Casing == MutantInv /\ Mutants!Case => MutantInv'
<1> SUFFICES ASSUME MutantInv, Mutants!Case PROVE MutantInv'
  OBVIOUS
<1>1. CASE Mutants!Read
  <2>1. /\ point = "case" /\ point' \in {"save", "case"} /\ UNCHANGED <<file, wanted, bak, manifest, PENDING>>
        /\ case' \in {case, case + 1} /\ case =< Len(CASES)
        /\ point' = "save" => case' = case /\ raw' = file[Mutants!Rel(case)]
    BY <1>1 DEF Mutants!Read, Mutants!disk
  <2>2. file = wanted /\ PENDING = nothing
    BY <2>1 DEF MutantInv, Working
  <2>3. case \in DOMAIN CASES
    BY <2>1, Cased DEF MutantInv, MutantTypes
  <2>4. MutantTypes' /\ Safe'
    BY <2>1, <2>2, Untouched DEF MutantInv, MutantTypes
  <2>5. Known'
    BY <2>1 DEF MutantInv, Known, Mutants!Note
  <2>6. Working'
    BY <2>1, <2>2, <2>3 DEF Working, Mutants!Rel
  <2> QED
    BY <2>4, <2>5, <2>6 DEF MutantInv
<1>2. CASE Mutants!Save
  <2>1. /\ point = "save" /\ point' = "note" /\ UNCHANGED <<file, wanted, manifest, case, raw, PENDING>>
        /\ bak' = [bak EXCEPT ![case] = raw]
    BY <1>2 DEF Mutants!Save
  <2>2. file = wanted /\ PENDING = nothing /\ case \in DOMAIN CASES /\ raw = wanted[Mutants!Rel(case)]
    BY <2>1 DEF MutantInv, Working
  <2>3. DOMAIN bak' = DOMAIN bak /\ bak'[case] = raw
    BY <2>1, <2>2 DEF MutantInv, MutantTypes
  <2>4. MutantTypes' /\ Safe'
    BY <2>1, <2>2, <2>3, Untouched DEF MutantInv, MutantTypes
  <2>5. Known'
    BY <2>1 DEF MutantInv, Known, Mutants!Note
  <2>6. Working'
    BY <2>1, <2>2, <2>3 DEF Working, Mutants!Rel
  <2> QED
    BY <2>4, <2>5, <2>6 DEF MutantInv
<1>3. CASE Mutants!_write_manifest
  <2>1. /\ point = "note" /\ point' = "hold" /\ UNCHANGED <<file, wanted, bak, case, raw, PENDING>>
        /\ manifest' = <<[rel |-> Mutants!Rel(case), bak |-> case, sha |-> Mutants!Mutated(raw, case)]>>
    BY <1>3 DEF Mutants!_write_manifest
  <2>2. /\ file = wanted /\ PENDING = nothing /\ case \in DOMAIN CASES /\ raw = wanted[Mutants!Rel(case)]
        /\ bak[case] = raw
    BY <2>1 DEF MutantInv, Working
  <2>3. MutantTypes' /\ Safe'
    BY <2>1, <2>2, Untouched DEF MutantInv, MutantTypes
  <2>4. Noted(case)' /\ Else(case)'
    BY <2>1, <2>2 DEF Noted, Else, Mutants!Rel
  <2>5. Known'
    <3>1. PICK m : m = Mutants!Mutated(raw, case)
      OBVIOUS
    <3>2. m.case = case
      BY <2>2, <3>1, OfSource, Marked DEF MutantInv, MutantTypes
    <3>3. manifest' = <<[rel |-> Mutants!Rel(case), bak |-> case, sha |-> m]>>
      BY <2>1, <3>1
    <3>4. Mutants!Note' = [rel |-> Mutants!Rel(case), bak |-> case, sha |-> m]
      BY <3>3 DEF Mutants!Note
    <3>5. Mutants!Note'.sha = m
      BY <3>4
    <3> QED
      BY <2>2, <3>2, <3>3, <3>5 DEF Known, Mutants!Rel
  <2>6. Working'
    BY <2>1, <2>2, <2>4 DEF Working, Mutants!Rel
  <2> QED
    BY <2>3, <2>5, <2>6 DEF MutantInv
<1>4. CASE Mutants!Hold
  <2>1. /\ point = "hold" /\ point' = "mutate" /\ UNCHANGED <<file, wanted, bak, manifest, case, raw>>
        /\ PENDING' = Mutants!Rel(case)
    BY <1>4 DEF Mutants!Hold, Mutants!disk
  <2>2. file = wanted /\ case \in DOMAIN CASES /\ raw = wanted[Mutants!Rel(case)] /\ Noted(case)
    BY <2>1 DEF MutantInv, Working
  <2>3. MutantTypes' /\ Safe'
    BY <2>1, <2>2, Untouched DEF MutantInv, MutantTypes
  <2>4. Known'
    BY <2>1 DEF MutantInv, Known, Mutants!Note
  <2>5. Working'
    BY <2>1, <2>2 DEF Working, Mutants!Rel, Noted
  <2> QED
    BY <2>3, <2>4, <2>5 DEF MutantInv
<1>5. CASE Mutants!Mutate
  <2>1. /\ point = "mutate" /\ point' = "test" /\ UNCHANGED <<wanted, bak, manifest, case, raw, PENDING>>
        /\ file' = [file EXCEPT ![Mutants!Rel(case)] = Mutants!Mutated(raw, case)]
    BY <1>5 DEF Mutants!Mutate
  <2>2. /\ file = wanted /\ PENDING = Mutants!Rel(case) /\ case \in DOMAIN CASES
        /\ raw = wanted[Mutants!Rel(case)] /\ Noted(case)
    BY <2>1 DEF MutantInv, Working
  <2>3. MutantTypes'
    BY <2>1 DEF MutantInv, MutantTypes
  <2>4. Noted(case)' /\ Else(case)' /\ Torn(case)'
    BY <2>1, <2>2, OfSource DEF MutantInv, MutantTypes, Noted, Else, Torn, Mutants!Rel
  <2>5. Safe'
    BY <2>1, <2>2, <2>4 DEF Safe
  <2>6. Known'
    BY <2>1 DEF MutantInv, Known, Mutants!Note
  <2>7. Working'
    BY <2>1, <2>2, <2>4 DEF Working, Mutants!Rel
  <2> QED
    BY <2>3, <2>5, <2>6, <2>7 DEF MutantInv
<1>6. CASE Mutants!Test
  <2>1. point = "test" /\ point' = "pop" /\ UNCHANGED <<file, wanted, bak, manifest, case, raw, PENDING>>
    BY <1>6 DEF Mutants!Test, Mutants!disk
  <2>2. MutantTypes' /\ Safe' /\ Known'
    BY <2>1 DEF MutantInv, MutantTypes, Safe, Known, Noted, Else, Torn, Mutants!Note
  <2>3. Working'
    BY <2>1 DEF MutantInv, Working, Noted, Else, Torn, Mutants!Rel
  <2> QED
    BY <2>2, <2>3 DEF MutantInv
<1>7. CASE Mutants!PutBack
  <2>1. UNCHANGED <<wanted, bak, manifest, case, raw>> /\ Mutants!_put_back
    BY <1>7 DEF Mutants!PutBack
  <2>2. CASE point = "pop"
    <3>1. case \in DOMAIN CASES /\ PENDING = Mutants!Rel(case)
      BY <2>2 DEF MutantInv, Working
    <3>2. PENDING' = nothing /\ point' = "back" /\ UNCHANGED file
      BY <2>1, <2>2, <3>1, OfSource, MutantAssumption DEF Mutants!_put_back
    <3>3. MutantTypes' /\ Safe' /\ Known'
      BY <2>1, <3>2 DEF MutantInv, MutantTypes, Safe, Known, Noted, Else, Torn, Mutants!Note
    <3>4. Working'
      BY <2>1, <2>2, <3>2 DEF MutantInv, Working, Noted, Else, Torn, Mutants!Rel
    <3> QED
      BY <3>3, <3>4 DEF MutantInv
  <2>3. CASE point = "back"
    <3>1. point' = "unnote" /\ file' = [file EXCEPT ![Mutants!Rel(case)] = raw] /\ UNCHANGED PENDING
      BY <2>1, <2>3 DEF Mutants!_put_back
    <3> QED
      BY <2>1, <2>3, <3>1, PutInPlace
  <2> QED
    BY <2>1, <2>2, <2>3 DEF Mutants!_put_back
<1>8. CASE Mutants!Unnote
  <2>1. /\ point = "unnote" /\ point' \in {"judge", "idle"} /\ manifest' = <<>>
        /\ UNCHANGED <<file, wanted, bak, case, raw, PENDING>>
    BY <1>8 DEF Mutants!Unnote
  <2>2. file = wanted /\ PENDING = nothing
    BY <2>1 DEF MutantInv, Working
  <2>3. MutantTypes' /\ Safe'
    BY <2>1, <2>2, Untouched DEF MutantInv, MutantTypes
  <2>4. Known' /\ Working'
    BY <2>1, <2>2 DEF Known, Working
  <2> QED
    BY <2>3, <2>4 DEF MutantInv
<1>9. CASE Mutants!Judge
  <2>1. /\ point = "judge" /\ point' = "case" /\ case' = case + 1
        /\ UNCHANGED <<file, wanted, bak, manifest, raw, PENDING>>
    BY <1>9 DEF Mutants!Judge, Mutants!disk
  <2>2. file = wanted /\ PENDING = nothing
    BY <2>1 DEF MutantInv, Working
  <2>3. MutantTypes' /\ Safe'
    BY <2>1, <2>2, Untouched DEF MutantInv, MutantTypes
  <2>4. Known' /\ Working'
    BY <2>1, <2>2 DEF MutantInv, Known, Working, Mutants!Note
  <2> QED
    BY <2>3, <2>4 DEF MutantInv
<1> QED
  BY <1>1, <1>2, <1>3, <1>4, <1>5, <1>6, <1>7, <1>8, <1>9 DEF Mutants!Case

\* It is interrupted or killed at whatever line.
LEMMA Interrupting == MutantInv /\ Mutants!Interrupt => MutantInv'
<1> SUFFICES ASSUME MutantInv, Mutants!Interrupt PROVE MutantInv'
  OBVIOUS
<1>1. CASE Mutants!_on_signal
  <2>1. UNCHANGED <<wanted, bak, manifest, case, raw>>
    BY <1>1 DEF Mutants!_on_signal
  <2>2. CASE PENDING # nothing
    <3>1. /\ point \in {"mutate", "test", "pop"} /\ PENDING' = nothing /\ point' = "handback"
          /\ \/ file' = file
             \/ point = "mutate" /\ file' = [file EXCEPT ![Mutants!Rel(case)] = Mutants!Cut(raw)]
      BY <1>1, <2>2 DEF Mutants!_on_signal, MutantInv, Working
    <3>2. /\ case \in DOMAIN CASES /\ raw = wanted[Mutants!Rel(case)] /\ Noted(case)
          /\ point # "mutate" => Else(case) /\ Torn(case)
          /\ point = "mutate" => file = wanted
      BY <3>1 DEF MutantInv, Working
    <3>3. raw.case = 0 /\ Mutants!Cut(raw).case = 0
      BY <3>2, OfSource, Marked DEF MutantInv, MutantTypes
    <3>4. Else(case) /\ Torn(case)
      BY <3>1, <3>2, <3>3, OfSource DEF Else, Torn
    <3>5. MutantTypes' /\ Safe' /\ Known' /\ Noted(case)' /\ Else(case)' /\ Torn(case)'
      <4>1. CASE file' = file
        BY <2>1, <3>2, <3>4, <4>1 DEF MutantInv, MutantTypes, Safe, Known, Noted, Else, Torn, Mutants!Note, Mutants!Rel
      <4>2. CASE file' = [file EXCEPT ![Mutants!Rel(case)] = Mutants!Cut(raw)]
        <5>1. PICK t : t = Mutants!Cut(raw)
          OBVIOUS
        <5>2. MutantTypes' /\ Safe' /\ Known'
          BY <2>1, <3>2, <3>3, <3>4, <4>2, <5>1, WriteCut DEF MutantInv
        <5> QED
          BY <2>1, <3>2, <3>3, <3>4, <4>2, <5>2, OfSource DEF MutantInv, MutantTypes, Noted, Else, Torn, Mutants!Rel
      <4> QED
        BY <3>1, <4>1, <4>2
    <3> QED
      BY <2>1, <3>1, <3>2, <3>5 DEF MutantInv, Working, Mutants!Rel
  <2>3. CASE PENDING = nothing
    <3>1. /\ point' = "idle" /\ PENDING' = nothing
          /\ \/ file' = file
             \/ point = "back" /\ file' = [file EXCEPT ![Mutants!Rel(case)] = Mutants!Cut(raw)]
      BY <1>1, <2>3 DEF Mutants!_on_signal
    <3> QED
      BY <2>1, <3>1, LeftAlone
  <2> QED
    BY <2>2, <2>3
<1>2. CASE Mutants!HandBack
  <2>1. /\ point = "handback" /\ point' \in {"unnote", "idle"} /\ file' = [file EXCEPT ![Mutants!Rel(case)] = raw]
        /\ UNCHANGED <<wanted, bak, manifest, case, raw, PENDING>>
    BY <1>2 DEF Mutants!HandBack
  <2> QED
    BY <2>1, PutInPlace
<1>3. CASE Mutants!Kill
  <2>1. /\ point' = "idle" /\ PENDING' = nothing /\ UNCHANGED <<wanted, case, raw>>
        /\ \/ file' = file
           \/ point \in {"mutate", "back", "handback"} /\ file' = [file EXCEPT ![Mutants!Rel(case)] = Mutants!Cut(raw)]
           \/ /\ point = "settle"
              /\ file' = [file EXCEPT ![Mutants!Note.rel] = Mutants!Cut(bak[Mutants!Note.bak])]
        /\ bak' = bak \/ (point = "save" /\ bak' = [bak EXCEPT ![case] = Mutants!Cut(raw)])
        /\ manifest' = manifest \/ (point \in {"note", "unnote"} /\ manifest' = <<Mutants!Unreadable>>)
    BY <1>3 DEF Mutants!Kill
  <2>2. CASE point \in {"save", "note", "unnote"}
    <3>1. file = wanted /\ file' = file /\ DOMAIN bak' = DOMAIN bak
          /\ (manifest' = manifest \/ manifest' = <<Mutants!Unreadable>>)
      BY <2>1, <2>2 DEF MutantInv, Working, MutantTypes
    <3>2. MutantTypes' /\ Safe'
      BY <2>1, <3>1, Untouched DEF MutantInv, MutantTypes
    <3>3. Known' /\ Working'
      BY <2>1, <3>1 DEF MutantInv, Known, Working, Mutants!Note
    <3> QED
      BY <3>2, <3>3 DEF MutantInv
  <2>3. CASE /\ point = "settle"
             /\ file' = [file EXCEPT ![Mutants!Note.rel] = Mutants!Cut(bak[Mutants!Note.bak])]
    <3>1. PICK i \in DOMAIN CASES : Noted(i) /\ Else(i)
      BY <2>3 DEF MutantInv, Working
    <3>2. PICK t : t = Mutants!Cut(wanted[Mutants!Rel(i)])
      OBVIOUS
    <3>3. t.case = 0
      BY <3>1, <3>2, OfSource, Marked DEF MutantInv, MutantTypes
    <3>4. Mutants!Note.rel = Mutants!Rel(i) /\ bak[Mutants!Note.bak] = wanted[Mutants!Rel(i)]
      BY <3>1 DEF Noted, Mutants!Note
    <3>5. file' = [file EXCEPT ![Mutants!Rel(i)] = t] /\ UNCHANGED <<bak, manifest>>
      BY <2>1, <2>3, <3>2, <3>4
    <3>6. MutantTypes' /\ Safe' /\ Known'
      BY <2>1, <3>1, <3>3, <3>5, WriteCut DEF MutantInv
    <3> QED
      BY <2>1, <3>6 DEF MutantInv, Working
  <2>4. CASE /\ point \notin {"save", "note", "unnote"}
             /\ \/ file' = file
                \/ /\ point \in {"mutate", "back", "handback"}
                   /\ file' = [file EXCEPT ![Mutants!Rel(case)] = Mutants!Cut(raw)]
    <3>1. UNCHANGED <<bak, manifest>>
      BY <2>1, <2>4
    <3> QED
      BY <2>1, <2>4, <3>1, LeftAlone
  <2> QED
    BY <2>1, <2>2, <2>3, <2>4
<1> QED
  BY <1>1, <1>2, <1>3 DEF Mutants!Interrupt

\* Every step of the check, of an editor and of a hand keeps the text somewhere.
LEMMA MutantStep ==
  MutantInv /\ (Mutants!Next \/ UNCHANGED <<file, wanted, bak, manifest, point, case, raw, PENDING>>) => MutantInv'
<1> SUFFICES ASSUME MutantInv,
                    Mutants!Next \/ UNCHANGED <<file, wanted, bak, manifest, point, case, raw, PENDING>>
             PROVE  MutantInv'
  OBVIOUS
<1>1. CASE UNCHANGED <<file, wanted, bak, manifest, point, case, raw, PENDING>>
  BY <1>1 DEF MutantInv, MutantTypes, Safe, Known, Working, Noted, Else, Torn, Mutants!Note
<1>2. CASE Mutants!Finish \/ Mutants!Report
  <2>1. /\ point \in {"case", "report"} /\ point' \in {"sweep", "idle"}
        /\ UNCHANGED <<file, wanted, bak, manifest, case, raw, PENDING>>
    BY <1>2 DEF Mutants!Finish, Mutants!Report, Mutants!disk
  <2>2. file = wanted /\ PENDING = nothing
    BY <2>1 DEF MutantInv, Working
  <2> QED
    BY <2>1, <2>2 DEF MutantInv, MutantTypes, Safe, Known, Working, Mutants!Note
<1>3. ASSUME NEW f \in Sources, Mutants!Edit(f) PROVE MutantInv'
  <2>1. PICK t : t = Mutants!Text(edits + 1)
    OBVIOUS
  <2>2. /\ point = "idle" /\ wanted' = [wanted EXCEPT ![f] = t] /\ file' = [file EXCEPT ![f] = t]
        /\ UNCHANGED <<bak, manifest, point, case, raw, PENDING>>
    BY <1>3, <2>1 DEF Mutants!Edit, Mutants!proc
  <2>3. "case" \in DOMAIN t /\ t.case = 0
    BY <2>1 DEF Mutants!Text
  <2>4. MutantTypes'
    BY <2>2, <2>3 DEF MutantInv, MutantTypes
  <2>5. Safe'
    <3>1. CASE file = wanted
      BY <2>2, <3>1 DEF Safe
    <3>2. ASSUME NEW i \in DOMAIN CASES, Noted(i), Else(i), Torn(i) PROVE Safe'
      <4>1. CASE f = Mutants!Rel(i)
        <5>1. \A g \in Sources : file'[g] = wanted'[g]
          BY <2>2, <3>2, <4>1 DEF MutantInv, MutantTypes, Else
        <5> QED
          BY <2>4, <5>1 DEF MutantTypes, Safe
      <4>2. CASE f # Mutants!Rel(i)
        <5>1. Noted(i)' /\ Else(i)' /\ Torn(i)'
          BY <2>2, <3>2, <4>2, OfSource DEF MutantInv, MutantTypes, Noted, Else, Torn
        <5> QED
          BY <3>2, <5>1 DEF Safe
      <4> QED
        BY <4>1, <4>2
    <3> QED
      BY <3>1, <3>2 DEF MutantInv, Safe
  <2>6. Known'
    BY <2>2 DEF MutantInv, Known, Mutants!Note
  <2>7. Working'
    BY <2>2 DEF MutantInv, Working
  <2> QED
    BY <2>4, <2>5, <2>6, <2>7 DEF MutantInv
<1>4. CASE Mutants!ByHand
  <2>1. /\ point = "idle" /\ file' = [f \in Sources |-> IF Mutants!InBackup(f) THEN wanted[f] ELSE file[f]]
        /\ bak' = [i \in DOMAIN CASES |-> nothing] /\ manifest' = <<>>
        /\ UNCHANGED <<wanted, point, case, raw, PENDING>>
    BY <1>4 DEF Mutants!ByHand, Mutants!proc, Mutants!NoBackups
  <2>2. \A f \in Sources : file'[f] = wanted[f]
    BY <2>1, Recovers DEF MutantInv, MutantTypes
  <2>3. MutantTypes' /\ file' = wanted'
    BY <2>1, <2>2 DEF MutantInv, MutantTypes
  <2>4. Safe' /\ Known' /\ Working'
    BY <2>1, <2>3 DEF MutantInv, Safe, Known, Working
  <2> QED
    BY <2>3, <2>4 DEF MutantInv
<1> QED
  BY <1>1, <1>2, <1>3, <1>4, Starting, Settling, Casing, Interrupting DEF Mutants!Next

\* So a text is never lost, and a case runs on whole sources.
LEMMA MutantsAreSound == MutantInv => Mutants!TextKept /\ Mutants!RunsOnWhole
<1> SUFFICES ASSUME MutantInv PROVE Mutants!TextKept /\ Mutants!RunsOnWhole
  OBVIOUS
<1>1. Mutants!RunsOnWhole
  BY DEF MutantInv, Working, Mutants!RunsOnWhole
<1>2. ASSUME NEW f \in Sources, file[f].case # 0
      PROVE  manifest # <<>> /\ Mutants!Note.rel = f /\ Mutants!Note.sha = file[f]
  <2>1. file # wanted
    BY <1>2 DEF MutantInv, MutantTypes
  <2>2. PICK i \in DOMAIN CASES : Noted(i) /\ Else(i) /\ Torn(i)
    BY <2>1 DEF MutantInv, Safe
  <2>3. f = Mutants!Rel(i) /\ file[f] = Mutants!Mutated(wanted[f], i)
    BY <1>2, <2>2 DEF MutantInv, MutantTypes, Else, Torn
  <2>4. PICK m : m = Mutants!Mutated(wanted[f], i)
    OBVIOUS
  <2> QED
    BY <2>2, <2>3, <2>4 DEF Noted, Mutants!Note
<1> QED
  BY <1>1, <1>2, Recovers DEF MutantInv, Mutants!TextKept
-----------------------------------------------------------------------------
\* The tests of a shard.
LEMMA LinesCount == \A S : Mutants!Cardinality(S) = Cardinality(S)
BY DEF Mutants!Cardinality, Cardinality

\* A set of numbers has a least one.
LEMMA SmallestOf ==
  ASSUME NEW S \in SUBSET Nat, S # {}
  PROVE  \E m \in S : \A n \in S : m =< n
<1> DEFINE Less == OpToRel(<, Nat)
<1>1. IsWellFoundedOn(Less, Nat)
  BY NatLessThanWellFounded
<1>2. PICK m \in S : \A n \in S : <<n, m>> \notin Less
  BY <1>1, WFMin, Zenon
<1>3. \A k, n \in Nat : <<k, n>> \in Less <=> k < n
  BY DEF OpToRel
<1>4. \A n \in S : ~(n < m)
  BY <1>2, <1>3
<1> HIDE DEF Less
<1>5. \A n \in S : m =< n
  BY <1>4
<1> QED
  BY <1>5

ShardInv ==
  /\ cover \in [1 .. NTests -> SUBSET Lines] /\ chosen \in Seq(1 .. NTests)
  /\ \A i \in DOMAIN chosen : \E l \in cover[chosen[i]] : \A j \in 1 .. i - 1 : l \notin cover[chosen[j]]

\* It holds at the start.
LEMMA ShardInit == Mutants!Init => ShardInv
<1> SUFFICES ASSUME Mutants!Init PROVE ShardInv
  OBVIOUS
<1>1. cover \in [1 .. NTests -> SUBSET Lines] /\ chosen = <<>>
  BY DEF Mutants!Init, Mutants!load_coverage_lines
<1>2. chosen \in Seq(1 .. NTests) /\ DOMAIN chosen = {}
  BY <1>1
<1> QED
  BY <1>1, <1>2 DEF ShardInv

\* What the lines of a test add.
LEMMA Gains ==
  ASSUME ShardInv, NEW t \in 1 .. NTests
  PROVE  /\ Mutants!Gain(t) \in 0 .. Cardinality(Lines) /\ Cardinality(Lines) \in Nat
         /\ Mutants!Gain(t) > 0 <=> \E l \in cover[t] : l \notin Mutants!Done(Mutants!Chosen)
<1>1. PICK S : S = cover[t] \ Mutants!Done(Mutants!Chosen)
  OBVIOUS
<1>2. S \subseteq Lines /\ IsFiniteSet(S) /\ Cardinality(S) =< Cardinality(Lines)
  BY <1>1, MutantAssumption, FS_Subset DEF ShardInv
<1>3. Mutants!Gain(t) = Cardinality(S)
  BY <1>1, LinesCount DEF Mutants!Gain
<1>4. Cardinality(S) \in Nat /\ Cardinality(Lines) \in Nat /\ (Cardinality(S) = 0 <=> S = {})
  BY <1>2, MutantAssumption, FS_CardinalityType, FS_EmptySet
<1>5. Cardinality(S) > 0 <=> S # {}
  BY <1>4
<1> QED
  BY <1>1, <1>2, <1>3, <1>4, <1>5

\* A step of the suggestion adds a test that covers what no other does.
LEMMA ShardStep == ShardInv /\ (Mutants!suggest_tests \/ UNCHANGED <<cover, chosen>>) => ShardInv'
<1> SUFFICES ASSUME ShardInv, NEW t \in 1 .. NTests, Mutants!Best(t), chosen' = Append(chosen, t), UNCHANGED cover
             PROVE  ShardInv'
  BY DEF Mutants!suggest_tests, ShardInv
<1>1. PICK l \in cover[t] : l \notin Mutants!Done(Mutants!Chosen)
  BY Gains DEF Mutants!Best
<1>2. \A j \in DOMAIN chosen : l \notin cover[chosen[j]]
  BY <1>1 DEF Mutants!Done, Mutants!Chosen
<1>3. /\ chosen' \in Seq(1 .. NTests) /\ Len(chosen') = Len(chosen) + 1 /\ chosen'[Len(chosen) + 1] = t
      /\ Len(chosen) \in Nat /\ DOMAIN chosen = 1 .. Len(chosen) /\ DOMAIN chosen' = 1 .. Len(chosen')
      /\ \A i \in DOMAIN chosen : chosen'[i] = chosen[i]
  BY DEF ShardInv
<1>4. ASSUME NEW i \in DOMAIN chosen', i \in DOMAIN chosen
      PROVE  \E k \in cover'[chosen'[i]] : \A j \in 1 .. i - 1 : k \notin cover'[chosen'[j]]
  <2>1. \A j \in 1 .. i - 1 : j \in DOMAIN chosen
    BY <1>3, <1>4
  <2> QED
    BY <1>3, <1>4, <2>1 DEF ShardInv
<1>5. ASSUME NEW i \in DOMAIN chosen', i \notin DOMAIN chosen
      PROVE  \E k \in cover'[chosen'[i]] : \A j \in 1 .. i - 1 : k \notin cover'[chosen'[j]]
  <2>1. i = Len(chosen) + 1 /\ \A j \in 1 .. i - 1 : j \in DOMAIN chosen
    BY <1>3, <1>5
  <2> QED
    BY <1>1, <1>2, <1>3, <2>1
<1> QED
  BY <1>3, <1>4, <1>5 DEF ShardInv

\* Of the tests that are left, the one that adds most is the next: there is one while a
\* line is left.
LEMMA SomeBest ==
  ASSUME ShardInv, NEW l \in Mutants!Done(1 .. NTests), l \notin Mutants!Done(Mutants!Chosen)
  PROVE  \E t \in 1 .. NTests : Mutants!Best(t)
<1> DEFINE Left == (1 .. NTests) \ Mutants!Chosen
           Gain(t) == Mutants!Gain(t)
           Misses == {Cardinality(Lines) - Gain(t) : t \in Left}
<1>1. PICK t0 \in Left : l \in cover[t0]
  BY DEF Mutants!Done
<1>2. Gain(t0) > 0
  BY <1>1, Gains
<1>3. \A t \in Left : Gain(t) \in Nat /\ Cardinality(Lines) \in Nat /\ Cardinality(Lines) - Gain(t) \in Nat
  BY Gains
<1> HIDE DEF Gain
<1>4. Misses \in SUBSET Nat /\ Misses # {}
  BY <1>1, <1>3
<1>5. PICK m \in Misses : \A n \in Misses : m =< n
  BY <1>4, SmallestOf, Zenon
<1>6. PICK t1 \in Left : m = Cardinality(Lines) - Gain(t1)
  BY <1>5
<1>7. \A t \in Left : Gain(t) =< Gain(t1)
  <2> SUFFICES ASSUME NEW t \in Left PROVE Gain(t) =< Gain(t1)
    OBVIOUS
  <2>1. Cardinality(Lines) - Gain(t1) =< Cardinality(Lines) - Gain(t)
    BY <1>5, <1>6
  <2> QED
    BY <1>3, <1>6, <2>1
<1> DEFINE Top == {t \in Left : Gain(t) = Gain(t1)}
<1>8. Top \in SUBSET Nat /\ Top # {}
  BY <1>6
<1>9. PICK t2 \in Top : \A n \in Top : t2 =< n
  BY <1>8, SmallestOf, Zenon
<1>10. Gain(t2) > 0
  BY <1>1, <1>2, <1>3, <1>6, <1>7, <1>9
<1>11. \A u \in Left : Gain(u) < Gain(t2) \/ (Gain(u) = Gain(t2) /\ t2 =< u)
  BY <1>3, <1>6, <1>7, <1>9
<1> QED
  BY <1>9, <1>10, <1>11 DEF Mutants!Best, Gain

\* So the suggestion covers what the tests do.
LEMMA ShardIsSound == ShardInv => Mutants!SuggestionCovers
<1> SUFFICES ASSUME ShardInv PROVE Mutants!SuggestionCovers
  OBVIOUS
<1>1. ASSUME \A t \in 1 .. NTests : ~Mutants!Best(t) PROVE Mutants!check_tests(Mutants!Chosen) = {}
  BY <1>1, SomeBest DEF Mutants!check_tests
<1>2. ASSUME NEW i \in DOMAIN chosen
      PROVE  cover[chosen[i]] \ Mutants!Done({chosen[j] : j \in 1 .. i - 1}) # {}
  BY <1>2 DEF ShardInv, Mutants!Done
<1> QED
  BY <1>1, <1>2 DEF Mutants!SuggestionCovers
-----------------------------------------------------------------------------
\* A step is one of the part that runs: the others stay as they are.
LEMMA PartSteps ==
  ASSUME ToolsNext \/ UNCHANGED toolsVars
  PROVE  /\ [Exec!Next]_execVars /\ [Exec!Sandbox]_sandboxVars
         /\ [Batch!Next]_batchVars /\ [Batch!Team]_teamVars /\ [Client!Next]_clientVars
         /\ [Outside!Fetch]_fetchVars /\ [Outside!Search]_searchVars
         /\ [Outside!Mcp]_mcpVars /\ [Outside!Skill]_skillVars
<1>1. CASE ToolsNext
  BY <1>1, Zenon DEF ToolsNext
<1>2. CASE UNCHANGED toolsVars
  BY <1>2, Zenon DEF toolsVars
<1> QED
  BY <1>1, <1>2

\* The same of the two parts that choose models and lend credentials,
LEMMA ChoiceSteps ==
  ASSUME ToolsNext \/ UNCHANGED toolsVars
  PROVE  /\ Choice!Next \/ UNCHANGED <<vault, default, choice, owner, seats, demand, told, crossed, latest>>
         /\ [Choice!Lend]_(Choice!leaseVars)
<1>1. Choice!Choose \/ Choice!LendOnly \/ UNCHANGED choiceVars
  BY Zenon DEF ToolsNext, toolsVars
<1>2. Choice!Choose => Choice!Next /\ UNCHANGED Choice!leaseVars
  BY DEF Choice!Choose
<1>3. Choice!LendOnly => /\ Choice!Lend
                         /\ UNCHANGED <<vault, default, choice, owner, seats, demand, told, crossed, latest>>
  BY DEF Choice!LendOnly, Choice!process
<1>4. UNCHANGED choiceVars => /\ UNCHANGED <<vault, default, choice, owner, seats, demand, told, crossed, latest>>
                              /\ UNCHANGED Choice!leaseVars
  BY DEF choiceVars, Choice!leaseVars
<1> QED
  BY <1>1, <1>2, <1>3, <1>4

\* and of the two parts of the check of mutants.
LEMMA MutantSteps ==
  ASSUME ToolsNext \/ UNCHANGED toolsVars
  PROVE  /\ Mutants!Next \/ UNCHANGED <<file, wanted, bak, manifest, point, case, raw, PENDING>>
         /\ Mutants!suggest_tests \/ UNCHANGED <<cover, chosen>>
<1>1. Mutants!Next \/ Mutants!suggest_tests \/ UNCHANGED mutantVars
  BY Zenon DEF ToolsNext, toolsVars
<1>2. Mutants!Next => UNCHANGED <<cover, chosen>>
  BY DEF Mutants!Next, Mutants!main, Mutants!Settle, Mutants!Case, Mutants!Finish, Mutants!Report,
         Mutants!Interrupt, Mutants!Edit, Mutants!ByHand, Mutants!shardVars
<1>3. Mutants!suggest_tests => UNCHANGED <<file, wanted, bak, manifest, point, case, raw, PENDING>>
  BY DEF Mutants!suggest_tests, Mutants!disk, Mutants!proc
<1>4. UNCHANGED mutantVars => UNCHANGED <<file, wanted, bak, manifest, point, case, raw, PENDING, cover, chosen>>
  BY DEF mutantVars
<1> QED
  BY <1>1, <1>2, <1>3, <1>4

\* Every part keeps its invariant.
PartsInv ==
  /\ ExecInv /\ TierInv /\ BoxInv /\ BatchInv /\ Batch!AgentsBound /\ ClientInv
  /\ SeatsInv /\ VaultInv /\ LeaseInv /\ MutantInv /\ ShardInv
  /\ FetchInv /\ SearchInv /\ Outside!SearchTold /\ McpInv /\ SkillInv

\* They all hold at the start,
LEMMA PartsInit == ToolsInit => PartsInv
<1> SUFFICES ASSUME ToolsInit PROVE PartsInv
  OBVIOUS
<1>1. /\ Exec!Init /\ Exec!InitSandbox /\ Batch!Init /\ Batch!InitTeam /\ Client!Init /\ Choice!Init
      /\ Mutants!Init /\ Outside!InitFetch /\ Outside!InitSearch /\ Outside!InitMcp /\ Outside!InitSkill
  BY DEF ToolsInit
<1>2. Choice!InitLeases
  BY <1>1 DEF Choice!Init
<1>3. Batch!AgentsBound
  BY <1>1 DEF Batch!InitTeam, Batch!AgentsBound
<1>4. Outside!SearchTold
  BY <1>1, OutsideAssumption DEF Outside!InitSearch, Outside!SearchTold
<1> QED
  BY <1>1, <1>2, <1>3, <1>4, ExecInit, SandboxInit, BatchInit, ClientInit, ModelsInit, LeaseInit, MutantInit,
     ShardInit, FetchInit, SearchInit, McpInit, SkillInit DEF PartsInv

\* and a step keeps them all.
LEMMA PartsStep == PartsInv /\ [ToolsNext]_toolsVars => PartsInv'
<1> SUFFICES ASSUME PartsInv, ToolsNext \/ UNCHANGED toolsVars PROVE PartsInv'
  OBVIOUS
<1>1. ExecInv' /\ TierInv' /\ BoxInv'
  BY PartSteps, ExecStep, SandboxStep DEF PartsInv
<1>2. BatchInv' /\ Batch!AgentsBound' /\ ClientInv'
  BY PartSteps, BatchStep, TeamStep, ClientStep, BatchAssumption DEF PartsInv
<1>3. SeatsInv' /\ VaultInv'
  <2>1. CASE Choice!Next
    BY <2>1, SeatsStep, VaultStep DEF PartsInv
  <2>2. CASE UNCHANGED <<vault, default, choice, owner, seats, demand, told, crossed, latest>>
    BY <2>2 DEF PartsInv, SeatsInv, VaultInv, VaultTypes, Serves, OneAtATime, Selects, Clear, Has,
                Choice!ImportKept, Probed
  <2> QED
    BY <2>1, <2>2, ChoiceSteps
<1>4. LeaseInv' /\ MutantInv' /\ ShardInv'
  BY ChoiceSteps, LeaseStep, MutantSteps, MutantStep, ShardStep DEF PartsInv
<1>5. FetchInv' /\ SearchInv' /\ Outside!SearchTold' /\ McpInv' /\ SkillInv'
  BY PartSteps, FetchStep, SearchStep, McpStep, SkillStep DEF PartsInv
<1> QED
  BY <1>1, <1>2, <1>3, <1>4, <1>5 DEF PartsInv

\* Nothing of what several threads, processes and requests do at a time is lost, told
\* twice or of another: the table of commands, the sandbox, batches and teams of agents,
\* the fragments of an answer, keys, models and leases, the check of mutants and its
\* shards, pages, searches, other servers' tools and skills (the lines of NothingLost).
THEOREM NothingIsLost == ToolsSpec => []NothingLost
<1>1. PartsInv => NothingLost
  <2> SUFFICES ASSUME PartsInv PROVE NothingLost
    OBVIOUS
  <2>1. Exec!NoneForgotten
    BY DEF PartsInv, ExecInv, Exec!NoneForgotten
  <2>2. /\ Exec!NeverWeaker /\ Exec!RunsInItsBox /\ Exec!NotOverstated
        /\ Batch!ToldOnce /\ Batch!NoLateStart /\ Batch!ChainInOrder /\ Batch!AgentsBound
    BY BoxedIsSafe, BatchIsSound DEF PartsInv
  <2>3. Client!CallsAssembled /\ Choice!LentInTime
    BY DEF PartsInv, ClientInv, LeaseInv
  <2>4. Choice!OwnModel /\ Choice!ImportKept /\ Choice!ListTells
    BY DrivesOwn, ListsTrue DEF PartsInv, VaultInv
  <2>5. Mutants!TextKept /\ Mutants!RunsOnWhole /\ Mutants!SuggestionCovers
    BY MutantsAreSound, ShardIsSound DEF PartsInv
  <2>6. /\ Outside!ConnectsAsJudged /\ Outside!PageWhole /\ Outside!SearchTold /\ Outside!McpOnce
        /\ Outside!SkillGated
    BY PageIsSound, McpIsSound DEF PartsInv, SkillInv
  <2> QED
    BY <2>1, <2>2, <2>3, <2>4, <2>5, <2>6, Zenon DEF NothingLost
<1> QED
  BY <1>1, PartsInit, PartsStep, PTL DEF ToolsSpec

-----------------------------------------------------------------------------
(***************************************************************************)
(* Induction and recursion over numbers, stated for sets and functions.    *)
(***************************************************************************)
\* A set of numbers has a least one.
LEMMA LeastOf == ASSUME NEW T \in SUBSET Nat, T # {} PROVE \E m \in T : \A l \in T : m =< l
<1> DEFINE R == {ss \in Nat \X Nat : ss[1] < ss[2]}
<1>1. IsWellFoundedOn(R, Nat)
  BY NatLessThanWellFounded DEF OpToRel
<1> HIDE DEF R
<1>2. PICK m \in T : \A l \in T : <<l, m>> \notin R
  BY <1>1, WFMin
<1>3. \A l \in T : l \in Nat /\ ~(l < m)
  BY <1>2 DEF R
<1>4. \A l \in T : m =< l
  <2> TAKE l \in T
  <2>1. m \in Nat /\ l \in Nat /\ ~(l < m)
    BY <1>3
  <2> QED
    BY ONLY <2>1
<1> QED
  BY <1>4

\* A set with zero and with the successor of each of its members is that of all numbers.
LEMMA Induction == ASSUME NEW T \in SUBSET Nat, 0 \in T, \A n \in T : n + 1 \in T PROVE T = Nat
<1> SUFFICES ASSUME Nat \ T # {} PROVE FALSE
  OBVIOUS
<1>1. PICK m \in Nat \ T : \A l \in Nat \ T : m =< l
  BY LeastOf
<1>2. m # 0 /\ m - 1 \in Nat /\ m - 1 \in T
  BY <1>1
<1> QED
  BY <1>1, <1>2

\* What is computed element by element exists.
RuleOn(A, N) == [(1 .. N) \X A -> A]
Run(g, A, N, origin, rule) ==
  g \in [0 .. N -> A] /\ g[0] = origin /\ \A n \in 1 .. N : g[n] = rule[<<n, g[n - 1]>>]

\* A value for each number up to N, made by a rule from the one before it, exists.
LEMMA Recursion ==
  ASSUME NEW A, NEW N, N \in Nat, NEW origin, origin \in A, NEW rule, rule \in RuleOn(A, N)
  PROVE  \E g : Run(g, A, N, origin, rule)
<1>0. rule \in [(1 .. N) \X A -> A]
  BY DEF RuleOn
<1> DEFINE Upto(k, g) == /\ g \in [0 .. k -> A] /\ g[0] = origin
                         /\ \A n \in 1 .. k : g[n] = rule[<<n, g[n - 1]>>]
           T == {k \in Nat : k =< N => \E g : Upto(k, g)}
<1>1. 0 \in T
  <2>1. Upto(0, [n \in 0 .. 0 |-> origin])
    OBVIOUS
  <2> QED
    BY <2>1
<1>2. ASSUME NEW k \in T PROVE k + 1 \in T
  <2> SUFFICES ASSUME k + 1 =< N PROVE \E h : Upto(k + 1, h)
    <3> HIDE DEF Upto
    <3> QED
      OBVIOUS
  <2>1. PICK g : Upto(k, g)
    <3> HIDE DEF Upto
    <3> QED
      OBVIOUS
  <2> DEFINE h == [n \in 0 .. k + 1 |-> IF n = k + 1 THEN rule[<<n, g[n - 1]>>] ELSE g[n]]
  <2>2. k + 1 \in 1 .. N /\ g[k] \in A
    BY <2>1
  <2>3. rule[<<k + 1, g[k]>>] \in A
    BY <1>0, <2>2
  <2>4. h \in [0 .. k + 1 -> A]
    BY <2>1, <2>3
  <2>5. h[0] = origin
    BY <2>1
  <2>6. \A n \in 1 .. k + 1 : h[n] = rule[<<n, h[n - 1]>>]
    <3> TAKE n \in 1 .. k + 1
    <3>1. n - 1 \in 0 .. k /\ h[n - 1] = g[n - 1]
      OBVIOUS
    <3>2. h[n] = rule[<<n, g[n - 1]>>]
      BY <2>1
    <3> QED
      BY <3>1, <3>2
  <2>7. Upto(k + 1, h)
    BY <2>4, <2>5, <2>6
  <2> QED
    BY <2>7
<1>3. T = Nat
  <2> HIDE DEF T
  <2> QED
    BY <1>1, <1>2, Induction DEF T
<1>4. PICK g : Upto(N, g)
  <2> HIDE DEF Upto
  <2>1. N \in T
    BY <1>3
  <2> QED
    BY <2>1
<1> QED
  BY <1>4 DEF Run

-----------------------------------------------------------------------------
(***************************************************************************)
(* Patches.  What a hunk says of its old side is the text at its place, so *)
(* that line after line the gate copies what the new side says, and hunk   *)
(* after hunk it is where the last one ended.                              *)
(***************************************************************************)
Lined == Seq(Patch!HunkLine)

\* The texts of the body that are not gone, line after line.
SideRun(t, body, gone) ==
  /\ t \in [0 .. Len(body) -> Seq(Texts)] /\ t[0] = <<>>
  /\ \A n \in 1 .. Len(body) :
       t[n] = IF body[n].kind = gone THEN t[n - 1] ELSE Append(t[n - 1], body[n].text)
  /\ Patch!Side(body, gone) = t[Len(body)]

\* The lines of a body have texts.
LEMMA TextsOf ==
  ASSUME NEW body \in Lined
  PROVE  Len(body) \in Nat /\ \A n \in 1 .. Len(body) : body[n] \in Patch!HunkLine /\ body[n].text \in Texts
<1>1. \A n \in 1 .. Len(body) : body[n] \in Patch!HunkLine
  BY DEF Lined
<1>2. Len(body) \in Nat
  BY DEF Lined
<1> QED
  BY <1>1, <1>2 DEF Patch!HunkLine

\* A side of a body is made line after line.
LEMMA SideRuns == ASSUME NEW body \in Lined, NEW gone PROVE \E t : SideRun(t, body, gone)
<1> DEFINE A == Seq(Texts)
           N == Len(body)
           rule == [e \in (1 .. N) \X A |->
                      IF body[e[1]].kind = gone THEN e[2] ELSE Append(e[2], body[e[1]].text)]
           Def(h) == [n \in 0 .. N |->
                        IF n = 0 THEN <<>>
                        ELSE IF body[n].kind = gone THEN h[n - 1] ELSE Append(h[n - 1], body[n].text)]
           t == CHOOSE h : h = Def(h)
<1>0. N \in Nat /\ <<>> \in A /\ \A n \in 1 .. N : body[n].text \in Texts
  BY TextsOf
<1>1. rule \in RuleOn(A, N)
  <2>1. \A n \in 1 .. N, s \in A : Append(s, body[n].text) \in A
    BY <1>0
  <2> HIDE DEF A, N
  <2> QED
    BY <2>1 DEF RuleOn
<1> HIDE DEF A, N
<1>2. PICK g : Run(g, A, N, <<>>, rule)
  <2> HIDE DEF rule
  <2> QED
    BY <1>0, <1>1, Recursion
<1>3. g = Def(g)
  <2>1. /\ g \in [0 .. N -> A] /\ g[0] = <<>>
        /\ \A n \in 1 .. N : g[n] = rule[<<n, g[n - 1]>>]
    BY <1>2 DEF Run
  <2>2. ASSUME NEW n \in 1 .. N
        PROVE  g[n] = IF body[n].kind = gone THEN g[n - 1] ELSE Append(g[n - 1], body[n].text)
    <3>1. <<n, g[n - 1]>> \in (1 .. N) \X A
      BY <1>0, <2>1
    <3> QED
      BY <2>1, <3>1
  <2> HIDE DEF rule
  <2>3. \A n \in 0 .. N : g[n] = IF n = 0 THEN <<>>
                                ELSE IF body[n].kind = gone THEN g[n - 1] ELSE Append(g[n - 1], body[n].text)
    <3> TAKE n \in 0 .. N
    <3>1. n = 0 \/ n \in 1 .. N
      BY <1>0
    <3> QED
      BY <2>1, <2>2, <3>1
  <2>4. g = [n \in 0 .. N |-> g[n]]
    BY <2>1
  <2> QED
    BY <2>3, <2>4
<1>4. t = Def(t)
  <2> HIDE DEF Def
  <2> QED
    BY <1>3
<1>5. Patch!Side(body, gone) = t[N]
  BY DEF Patch!Side, N
<1> HIDE DEF t, rule
<1>6. /\ t[0] = <<>> /\ t = [n \in 0 .. N |-> t[n]]
      /\ \A n \in 1 .. N : t[n] = IF body[n].kind = gone THEN t[n - 1] ELSE Append(t[n - 1], body[n].text)
  <2>1. t = [n \in 0 .. N |->
               IF n = 0 THEN <<>>
               ELSE IF body[n].kind = gone THEN t[n - 1] ELSE Append(t[n - 1], body[n].text)]
    BY <1>4
  <2> HIDE DEF Def
  <2>2. t = [n \in 0 .. N |-> t[n]] /\ 0 \in 0 .. N
    BY ONLY <1>0, <2>1
  <2>3. \A n \in 1 .. N : n \in 0 .. N /\ n # 0
    OBVIOUS
  <2>4. t[0] = <<>>
    BY ONLY <2>1, <2>2
  <2>5. ASSUME NEW n \in 1 .. N
        PROVE  t[n] = IF body[n].kind = gone THEN t[n - 1] ELSE Append(t[n - 1], body[n].text)
    BY ONLY <2>1, <2>3
  <2> QED
    BY <2>2, <2>4, <2>5
<1> DEFINE T == {n \in Nat : n =< N => t[n] \in A}
<1>7. 0 \in T
  BY <1>0, <1>6
<1>8. ASSUME NEW n \in T PROVE n + 1 \in T
  <2> SUFFICES ASSUME n + 1 =< N PROVE t[n + 1] \in A
    OBVIOUS
  <2>1. n + 1 \in 1 .. N /\ t[n] \in A /\ (n + 1) - 1 = n
    BY <1>0
  <2>2. t[n + 1] = IF body[n + 1].kind = gone THEN t[n] ELSE Append(t[n], body[n + 1].text)
    BY <1>6, <2>1
  <2>3. body[n + 1].text \in Texts
    BY <1>0, <2>1
  <2>4. Append(t[n], body[n + 1].text) \in A
    BY <2>1, <2>3 DEF A
  <2> QED
    BY <2>1, <2>2, <2>4
<1>9. T = Nat
  <2> HIDE DEF T
  <2> QED
    BY <1>7, <1>8, Induction DEF T
<1>10. t \in [0 .. N -> A]
  <2>1. \A n \in 0 .. N : t[n] \in A
    BY <1>9
  <2> QED
    BY <1>6, <2>1
<1> QED
  BY <1>5, <1>6, <1>10 DEF SideRun, A, N

\* What has been copied is the beginning of the side.
Begins(s, u) == Len(s) =< Len(u) /\ \A i \in 1 .. Len(s) : u[i] = s[i]

\* The side of the first lines is the beginning of the side.
LEMMA SideGrows ==
  ASSUME NEW body \in Lined, NEW gone, NEW t, SideRun(t, body, gone)
  PROVE  \A n \in 0 .. Len(body) : Begins(t[n], Patch!Side(body, gone))
<1> DEFINE N == Len(body)
           T == {m \in Nat : m =< N => \A n \in 0 .. m : Begins(t[n], t[m])}
<1>0. /\ N \in Nat /\ t \in [0 .. N -> Seq(Texts)] /\ Patch!Side(body, gone) = t[N]
      /\ \A n \in 1 .. N : body[n].text \in Texts
      /\ \A n \in 1 .. N : t[n] = IF body[n].kind = gone THEN t[n - 1] ELSE Append(t[n - 1], body[n].text)
  BY TextsOf DEF SideRun
<1> HIDE DEF N
<1>1. 0 \in T
  BY <1>0 DEF Begins
<1>2. ASSUME NEW m \in T PROVE m + 1 \in T
  <2> SUFFICES ASSUME m + 1 =< N, NEW n \in 0 .. m + 1 PROVE Begins(t[n], t[m + 1])
    OBVIOUS
  <2>1. /\ m + 1 \in 1 .. N /\ (m + 1) - 1 = m /\ t[m] \in Seq(Texts) /\ t[m + 1] \in Seq(Texts)
        /\ \A k \in 0 .. m : Begins(t[k], t[m]) /\ t[k] \in Seq(Texts)
    BY <1>0
  <2>2. CASE n = m + 1
    BY <2>1, <2>2 DEF Begins
  <2>3. CASE n # m + 1
    <3>1. n \in 0 .. m
      BY <2>3
    <3>2. t[m + 1] = t[m] \/ (t[m + 1] = Append(t[m], body[m + 1].text) /\ body[m + 1].text \in Texts)
      BY <1>0, <2>1
    <3>3. Begins(t[m], t[m + 1])
      BY <2>1, <3>2 DEF Begins
    <3>4. Begins(t[n], t[m]) /\ t[n] \in Seq(Texts)
      BY <2>1, <3>1
    <3> QED
      BY <2>1, <3>3, <3>4 DEF Begins
  <2> QED
    BY <2>2, <2>3
<1>3. T = Nat
  <2> HIDE DEF T
  <2> QED
    BY <1>1, <1>2, Induction DEF T
<1> QED
  BY <1>0, <1>3 DEF N

Acc == [out : Seq(Texts), pos : Nat, fits : BOOLEAN]

\* A sequence with one more text.
LEMMA Longer ==
  ASSUME NEW s \in Seq(Texts), NEW e \in Texts
  PROVE  Append(s, e) \in Seq(Texts) /\ Len(Append(s, e)) = Len(s) + 1 /\ Append(s, e)[Len(s) + 1] = e
OBVIOUS

\* The gate appends a line to the new text and changes nothing else.
LEMMA OutGrows ==
  ASSUME NEW s \in Acc, NEW e
  PROVE  [s EXCEPT !.out = Append(@, e)] = [out |-> Append(s.out, e), pos |-> s.pos, fits |-> s.fits]
BY DEF Acc

\* What one line of a hunk does to the new text and to the place in the old one.
LEMMA TakeIs ==
  ASSUME NEW from \in Acc, NEW ln \in Patch!HunkLine, NEW old \in Seq(Texts)
  PROVE  /\ Patch!Take(from, ln, old) \in Acc
         /\ ln.kind = "+" => Patch!Take(from, ln, old)
                               = [out |-> Append(from.out, ln.text), pos |-> from.pos, fits |-> from.fits]
         /\ ln.kind = "-" => Patch!Take(from, ln, old)
                               = [out |-> from.out, pos |-> from.pos + 1, fits |-> from.fits]
         /\ ln.kind = " " /\ from.pos < Len(old)
              => Patch!Take(from, ln, old)
                   = [out |-> Append(from.out, old[from.pos + 1]), pos |-> from.pos + 1, fits |-> from.fits]
         /\ ln.kind \in {" ", "+", "-"} /\ ln.text \in Texts
<1> DEFINE o == from.out
           p == from.pos
           b == from.fits
           t == ln.text
           k == ln.kind
<1>1. /\ o \in Seq(Texts) /\ p \in Nat /\ b \in BOOLEAN
      /\ from = [out |-> o, pos |-> p, fits |-> b]
  BY DEF Acc
<1>2. k \in {" ", "+", "-"} /\ t \in Texts
  BY DEF Patch!HunkLine
<1> DEFINE plus == [out |-> Append(o, t), pos |-> p, fits |-> b]
           less == [out |-> o, pos |-> p + 1, fits |-> b]
           same == [out |-> Append(o, old[p + 1]), pos |-> p + 1, fits |-> b]
<1>3. Patch!Take(from, ln, old)
        = CASE k = "+" -> [from EXCEPT !.out = Append(@, t)]
            [] k = "-" -> [from EXCEPT !.pos = @ + 1]
            [] OTHER -> IF p < Len(old)
                        THEN same
                        ELSE [from EXCEPT !.out = Append(@, t)]
  BY DEF Patch!Take
<1>4. [from EXCEPT !.out = Append(@, t)] = plus
  BY OutGrows
<1>5. [from EXCEPT !.pos = @ + 1] = less
  BY DEF Acc
<1> HIDE DEF o, p, b, t, k
<1>6. p < Len(old) => old[p + 1] \in Texts
  <2> SUFFICES ASSUME p < Len(old) PROVE old[p + 1] \in Texts
    OBVIOUS
  <2>1. p + 1 \in 1 .. Len(old)
    BY <1>1
  <2> QED
    BY <2>1
<1>7. plus \in Acc /\ less \in Acc /\ (p < Len(old) => same \in Acc)
  <2>1. Append(o, t) \in Seq(Texts) /\ (p < Len(old) => Append(o, old[p + 1]) \in Seq(Texts))
    BY <1>1, <1>2, <1>6, Longer
  <2>2. p + 1 \in Nat
    BY <1>1
  <2> QED
    BY <1>1, <2>1, <2>2 DEF Acc
<1> HIDE DEF plus, less, same
<1>8. /\ k = "+" => Patch!Take(from, ln, old) = plus
      /\ k = "-" => Patch!Take(from, ln, old) = less
      /\ k = " " /\ p < Len(old) => Patch!Take(from, ln, old) = same
      /\ k = " " /\ ~(p < Len(old)) => Patch!Take(from, ln, old) = plus
  BY <1>3, <1>4, <1>5
<1>9. Patch!Take(from, ln, old) \in Acc
  BY <1>2, <1>7, <1>8
<1> QED
  BY <1>2, <1>8, <1>9 DEF plus, less, same, o, p, b, t, k

TakenRun(u, from, body, old) ==
  /\ u \in [0 .. Len(body) -> Acc] /\ u[0] = from
  /\ \A n \in 1 .. Len(body) : u[n] = Patch!Take(u[n - 1], body[n], old)
  /\ Patch!Taken(from, body, old) = u[Len(body)]

\* The lines of a hunk are taken one after the other.
LEMMA TakenRuns ==
  ASSUME NEW from \in Acc, NEW body \in Lined, NEW old \in Seq(Texts)
  PROVE  \E u : TakenRun(u, from, body, old)
<1> DEFINE N == Len(body)
           rule == [e \in (1 .. N) \X Acc |-> Patch!Take(e[2], body[e[1]], old)]
           Def(h) == [n \in 0 .. N |-> IF n = 0 THEN from ELSE Patch!Take(h[n - 1], body[n], old)]
           u == CHOOSE h : h = Def(h)
<1>0. N \in Nat /\ \A n \in 1 .. N : body[n] \in Patch!HunkLine
  BY TextsOf
<1>1. rule \in RuleOn(Acc, N)
  <2> HIDE DEF N
  <2>1. \A n \in 1 .. N, s \in Acc : Patch!Take(s, body[n], old) \in Acc
    BY <1>0, TakeIs
  <2> QED
    BY <2>1 DEF RuleOn
<1> HIDE DEF N
<1>2. PICK g : Run(g, Acc, N, from, rule)
  <2> HIDE DEF rule
  <2> QED
    BY <1>0, <1>1, Recursion
<1>3. g = Def(g)
  <2>1. /\ g \in [0 .. N -> Acc] /\ g[0] = from
        /\ \A n \in 1 .. N : g[n] = rule[<<n, g[n - 1]>>]
    BY <1>2 DEF Run
  <2>2. ASSUME NEW n \in 1 .. N PROVE g[n] = Patch!Take(g[n - 1], body[n], old)
    <3>1. <<n, g[n - 1]>> \in (1 .. N) \X Acc
      BY <1>0, <2>1
    <3> QED
      BY <2>1, <3>1
  <2> HIDE DEF rule
  <2>3. \A n \in 0 .. N : g[n] = IF n = 0 THEN from ELSE Patch!Take(g[n - 1], body[n], old)
    <3> TAKE n \in 0 .. N
    <3>1. n = 0 \/ n \in 1 .. N
      BY <1>0
    <3> QED
      BY <2>1, <2>2, <3>1
  <2>4. g = [n \in 0 .. N |-> g[n]]
    BY <2>1
  <2> QED
    BY <2>3, <2>4
<1>4. u = Def(u)
  <2> HIDE DEF Def
  <2> QED
    BY <1>3
<1>5. Patch!Taken(from, body, old) = u[N]
  BY DEF Patch!Taken, N
<1> HIDE DEF u, rule
<1>6. /\ u[0] = from /\ u = [n \in 0 .. N |-> u[n]]
      /\ \A n \in 1 .. N : u[n] = Patch!Take(u[n - 1], body[n], old)
  <2>1. u = [n \in 0 .. N |-> IF n = 0 THEN from ELSE Patch!Take(u[n - 1], body[n], old)]
    BY <1>4
  <2> HIDE DEF Def
  <2>2. u = [n \in 0 .. N |-> u[n]] /\ 0 \in 0 .. N
    BY ONLY <1>0, <2>1
  <2>3. \A n \in 1 .. N : n \in 0 .. N /\ n # 0
    OBVIOUS
  <2>4. u[0] = from
    BY ONLY <2>1, <2>2
  <2>5. ASSUME NEW n \in 1 .. N PROVE u[n] = Patch!Take(u[n - 1], body[n], old)
    BY ONLY <2>1, <2>3
  <2> QED
    BY <2>2, <2>4, <2>5
<1> DEFINE T == {n \in Nat : n =< N => u[n] \in Acc}
<1>7. 0 \in T
  BY <1>0, <1>6
<1>8. ASSUME NEW n \in T PROVE n + 1 \in T
  <2> SUFFICES ASSUME n + 1 =< N PROVE u[n + 1] \in Acc
    OBVIOUS
  <2>1. n + 1 \in 1 .. N /\ u[n] \in Acc /\ (n + 1) - 1 = n
    BY <1>0
  <2>2. u[n + 1] = Patch!Take(u[n], body[n + 1], old)
    BY <1>6, <2>1
  <2> QED
    BY <1>0, <2>1, <2>2, TakeIs
<1>9. T = Nat
  <2> HIDE DEF T
  <2> QED
    BY <1>7, <1>8, Induction DEF T
<1>10. u \in [0 .. N -> Acc]
  <2>1. \A n \in 0 .. N : u[n] \in Acc
    BY <1>9
  <2> QED
    BY <1>6, <2>1
<1> QED
  BY <1>5, <1>6, <1>10 DEF TakenRun, N

\* Appending to the second of two texts is appending to both.
LEMMA Joins ==
  ASSUME NEW s \in Seq(Texts), NEW r \in Seq(Texts), NEW e \in Texts
  PROVE  s \o r \in Seq(Texts) /\ Append(s \o r, e) = s \o Append(r, e) /\ s \o <<>> = s
OBVIOUS

\* The lines of a hunk whose old side is the text that follows.
LEMMA HunkTaken ==
  ASSUME NEW from \in Acc, NEW body \in Lined, NEW old \in Seq(Texts),
         from.pos + Len(Patch!Side(body, "+")) =< Len(old),
         \A i \in 1 .. Len(Patch!Side(body, "+")) : Patch!Side(body, "+")[i] = old[from.pos + i]
  PROVE  /\ Patch!Side(body, "+") \in Seq(Texts) /\ Patch!Side(body, "-") \in Seq(Texts)
         /\ Patch!Taken(from, body, old)
              = [out |-> from.out \o Patch!Side(body, "-"),
                 pos |-> from.pos + Len(Patch!Side(body, "+")), fits |-> from.fits]
<1> DEFINE N == Len(body)
           o == Patch!Side(body, "+")
<1>1. PICK p : SideRun(p, body, "+")
  BY SideRuns
<1>2. PICK r : SideRun(r, body, "-")
  BY SideRuns
<1>3. PICK u : TakenRun(u, from, body, old)
  BY TakenRuns
<1>4. /\ N \in Nat /\ from.out \in Seq(Texts) /\ from.pos \in Nat /\ Len(old) \in Nat
      /\ \A n \in 1 .. N : body[n] \in Patch!HunkLine
  BY TextsOf DEF Acc
<1>5. \A n \in 0 .. N : /\ p[n] \in Seq(Texts) /\ Len(p[n]) \in Nat
                        /\ Len(p[n]) =< Len(o) /\ \A i \in 1 .. Len(p[n]) : o[i] = p[n][i]
  <2>1. \A n \in 0 .. N : Begins(p[n], o)
    BY <1>1, SideGrows
  <2>2. \A n \in 0 .. N : p[n] \in Seq(Texts)
    BY <1>1 DEF SideRun
  <2> HIDE DEF o, N
  <2> QED
    BY <2>1, <2>2 DEF Begins
<1>6. o \in Seq(Texts) /\ Patch!Side(body, "-") \in Seq(Texts) /\ p[N] = o /\ r[N] = Patch!Side(body, "-")
  BY <1>1, <1>2, <1>4 DEF SideRun
<1> HIDE DEF o, N
<1> DEFINE Good(n) == u[n] = [out |-> from.out \o r[n], pos |-> from.pos + Len(p[n]), fits |-> from.fits]
           T == {n \in Nat : n =< N => Good(n)}
<1>7. 0 \in T
  <2>1. u[0] = from /\ r[0] = <<>> /\ p[0] = <<>>
    BY <1>1, <1>2, <1>3 DEF SideRun, TakenRun
  <2>2. from = [out |-> from.out, pos |-> from.pos, fits |-> from.fits]
    BY DEF Acc
  <2>3. from.out \o <<>> = from.out /\ from.pos + Len(<<>>) = from.pos
    BY <1>4
  <2>4. Good(0)
    BY <2>1, <2>2, <2>3
  <2> QED
    BY <2>4
<1>8. ASSUME NEW n \in T PROVE n + 1 \in T
  <2> SUFFICES ASSUME n + 1 =< N PROVE Good(n + 1)
    OBVIOUS
  <2> DEFINE ln == body[n + 1]
             a == [out |-> from.out \o r[n], pos |-> from.pos + Len(p[n]), fits |-> from.fits]
  <2>1. /\ n + 1 \in 1 .. N /\ n \in 0 .. N /\ (n + 1) - 1 = n /\ u[n] = a /\ n + 1 \in 0 .. N
    BY <1>4
  <2>2. ln \in Patch!HunkLine
    BY <1>4, <2>1
  <2>3. /\ u[n + 1] = Patch!Take(a, ln, old) /\ a \in Acc
        /\ p[n + 1] = (IF ln.kind = "+" THEN p[n] ELSE Append(p[n], ln.text))
        /\ r[n + 1] = (IF ln.kind = "-" THEN r[n] ELSE Append(r[n], ln.text))
        /\ r[n] \in Seq(Texts) /\ p[n] \in Seq(Texts)
    BY <1>1, <1>2, <1>3, <2>1 DEF SideRun, TakenRun, N
  <2> HIDE DEF ln
  <2>4. ln.kind \in {" ", "+", "-"} /\ ln.text \in Texts
    BY <2>2 DEF Patch!HunkLine
  <2>5. Append(from.out \o r[n], ln.text) = from.out \o Append(r[n], ln.text)
    BY <1>4, <2>3, <2>4, Joins
  <2>6. Len(Append(p[n], ln.text)) = Len(p[n]) + 1 /\ Append(p[n], ln.text)[Len(p[n]) + 1] = ln.text
    BY <2>3, <2>4, Longer
  <2>7. a.out = from.out \o r[n] /\ a.pos = from.pos + Len(p[n]) /\ a.fits = from.fits
    OBVIOUS
  <2> HIDE DEF a
  <2>8. CASE ln.kind = "+"
    <3>1. Patch!Take(a, ln, old) = [out |-> Append(a.out, ln.text), pos |-> a.pos, fits |-> a.fits]
      BY <2>2, <2>3, <2>8, TakeIs
    <3> QED
      BY <2>3, <2>5, <2>7, <2>8, <3>1
  <2>9. CASE ln.kind = "-"
    <3>1. Patch!Take(a, ln, old) = [out |-> a.out, pos |-> a.pos + 1, fits |-> a.fits]
      BY <2>2, <2>3, <2>9, TakeIs
    <3>2. from.pos + Len(p[n]) + 1 = from.pos + (Len(p[n]) + 1)
      BY <1>4, <1>5, <2>1
    <3> QED
      BY <2>3, <2>6, <2>7, <2>9, <3>1, <3>2
  <2>10. CASE ln.kind = " "
    <3>1. Len(p[n]) \in Nat /\ Len(p[n]) + 1 =< Len(o) /\ Len(o) \in Nat /\ o[Len(p[n]) + 1] = ln.text
      <4>1. p[n + 1] = Append(p[n], ln.text)
        BY <2>3, <2>10
      <4>2. Len(p[n + 1]) =< Len(o) /\ Len(p[n + 1]) = Len(p[n]) + 1 /\ Len(p[n]) \in Nat
            /\ \A i \in 1 .. Len(p[n + 1]) : o[i] = p[n + 1][i]
        BY <1>5, <2>1, <2>6, <4>1
      <4>3. Len(p[n]) + 1 \in 1 .. Len(p[n + 1])
        BY <4>2
      <4>4. p[n + 1][Len(p[n]) + 1] = ln.text
        BY <2>6, <4>1
      <4>5. o[Len(p[n]) + 1] = p[n + 1][Len(p[n]) + 1]
        BY ONLY <4>2, <4>3
      <4>6. Len(o) \in Nat
        BY <1>6
      <4> QED
        BY <4>2, <4>4, <4>5, <4>6
    <3>2. a.pos < Len(old) /\ old[a.pos + 1] = ln.text
      <4>1. Len(p[n]) + 1 \in 1 .. Len(o)
        BY <3>1
      <4>2. o[Len(p[n]) + 1] = old[from.pos + (Len(p[n]) + 1)]
        BY <4>1 DEF o
      <4>3. from.pos + (Len(p[n]) + 1) = (from.pos + Len(p[n])) + 1
        BY <1>4, <3>1
      <4>4. from.pos + Len(o) =< Len(old)
        BY DEF o
      <4> QED
        BY <1>4, <2>7, <3>1, <4>2, <4>3, <4>4
    <3>3. Patch!Take(a, ln, old) = [out |-> Append(a.out, ln.text), pos |-> a.pos + 1, fits |-> a.fits]
      <4>1. Patch!Take(a, ln, old) = [out |-> Append(a.out, old[a.pos + 1]), pos |-> a.pos + 1, fits |-> a.fits]
        BY <2>2, <2>3, <2>10, <3>2, TakeIs
      <4> QED
        BY <3>2, <4>1
    <3>4. from.pos + Len(p[n]) + 1 = from.pos + (Len(p[n]) + 1)
      BY <1>4, <3>1
    <3> QED
      BY <2>3, <2>5, <2>6, <2>7, <2>10, <3>3, <3>4
  <2> QED
    BY <2>4, <2>8, <2>9, <2>10
<1>9. T = Nat
  <2> HIDE DEF Good
  <2> QED
    BY <1>7, <1>8, Induction
<1>10. Good(N)
  <2> HIDE DEF Good
  <2> QED
    BY <1>4, <1>9
<1>11. Patch!Taken(from, body, old) = u[N]
  BY <1>3 DEF TakenRun, N
<1> QED
  BY <1>6, <1>10, <1>11 DEF o

\* A part of a text, which may be empty.
LEMMA PartIs ==
  ASSUME NEW s \in Seq(Texts), NEW a \in Nat, NEW b \in Nat, 1 =< a, b =< Len(s)
  PROVE  /\ SubSeq(s, a, b) \in Seq(Texts)
         /\ a =< b + 1 => Len(SubSeq(s, a, b)) = b - a + 1
         /\ \A i \in 1 .. Len(SubSeq(s, a, b)) : SubSeq(s, a, b)[i] = s[a + i - 1]
<1>1. Len(s) \in Nat
  OBVIOUS
<1>2. \A i \in a .. b : s[i] \in Texts
  OBVIOUS
<1> QED
  BY <1>1, <1>2

\* The smaller and the greater of two numbers.
LEMMA LeastOfTwo ==
  ASSUME NEW a \in Int, NEW b \in Int, a =< b
  PROVE  Patch!Min({a, b}) = a /\ Patch!Max({a, b}) = b
<1>1. PICK c \in {a, b} : c = Patch!Min({a, b}) /\ \A d \in {a, b} : c =< d
  BY DEF Patch!Min
<1>2. PICK g \in {a, b} : g = Patch!Max({a, b}) /\ \A d \in {a, b} : d =< g
  BY DEF Patch!Max
<1> QED
  BY <1>1, <1>2

\* The hunks of a file in the order of their places, each with the text at its place.
Hunk == [start : Nat, lines : Lined]
InPlace(hunks, old) ==
  /\ hunks \in Seq(Hunk)
  /\ \A i \in 1 .. Len(hunks) :
       /\ hunks[i].start > (IF i = 1 THEN 0 ELSE Patch!End(hunks[i - 1]))
       /\ Patch!End(hunks[i]) =< Len(old) + 1
       /\ Patch!OldSide(hunks[i]) = SubSeq(old, hunks[i].start, Patch!End(hunks[i]) - 1)

\* The sides of a hunk are texts, and it ends behind its old one.
LEMMA SidesAreTexts ==
  ASSUME NEW h \in Hunk
  PROVE  /\ h.lines \in Lined /\ h.start \in Nat
         /\ Patch!OldSide(h) \in Seq(Texts) /\ Patch!NewSide(h) \in Seq(Texts)
         /\ Patch!End(h) = h.start + Len(Patch!OldSide(h)) /\ Patch!End(h) \in Nat
<1>1. h.lines \in Lined /\ h.start \in Nat
  BY DEF Hunk
<1>2. \A gone : Patch!Side(h.lines, gone) \in Seq(Texts)
  <2> TAKE gone
  <2>1. PICK t : SideRun(t, h.lines, gone)
    BY <1>1, SideRuns
  <2>2. Len(h.lines) \in Nat
    BY <1>1, TextsOf
  <2> QED
    BY <2>1, <2>2 DEF SideRun
<1>3. Patch!OldSide(h) \in Seq(Texts) /\ Patch!NewSide(h) \in Seq(Texts)
  BY <1>2 DEF Patch!OldSide, Patch!NewSide
<1>4. Len(Patch!OldSide(h)) \in Nat
  BY <1>3
<1> QED
  BY <1>1, <1>3, <1>4 DEF Patch!End

\* Where the hunk before ended is where the gate is, and this hunk is behind it.
LEMMA PlacesOf ==
  ASSUME NEW old \in Seq(Texts), NEW hunks, InPlace(hunks, old), NEW n \in 1 .. Len(hunks)
  PROVE  /\ Len(hunks) \in Nat /\ hunks[n] \in Hunk
         /\ Patch!Before(hunks, n) \in Nat /\ 1 =< Patch!Before(hunks, n)
         /\ Patch!Before(hunks, n) =< hunks[n].start
         /\ hunks[n].start \in Nat /\ 1 =< hunks[n].start /\ hunks[n].start - 1 =< Len(old)
         /\ Patch!End(hunks[n]) = hunks[n].start + Len(Patch!OldSide(hunks[n]))
         /\ Patch!End(hunks[n]) - 1 =< Len(old)
         /\ Patch!Before(hunks, n + 1) = Patch!End(hunks[n])
         /\ Patch!OldSide(hunks[n]) \in Seq(Texts) /\ Patch!NewSide(hunks[n]) \in Seq(Texts)
<1>1. /\ Len(hunks) \in Nat /\ \A i \in 1 .. Len(hunks) : hunks[i] \in Hunk
  BY DEF InPlace
<1>2. Len(old) \in Nat
  OBVIOUS
<1>3. /\ hunks[n].start \in Nat /\ Patch!End(hunks[n]) = hunks[n].start + Len(Patch!OldSide(hunks[n]))
      /\ Patch!End(hunks[n]) \in Nat
      /\ Patch!OldSide(hunks[n]) \in Seq(Texts) /\ Patch!NewSide(hunks[n]) \in Seq(Texts)
  BY <1>1, SidesAreTexts
<1>4. /\ hunks[n].start > (IF n = 1 THEN 0 ELSE Patch!End(hunks[n - 1]))
      /\ Patch!End(hunks[n]) =< Len(old) + 1
  BY DEF InPlace
<1>5. Len(Patch!OldSide(hunks[n])) \in Nat
  BY <1>3
<1>6. Patch!Before(hunks, n + 1) = Patch!End(hunks[n])
  BY <1>1 DEF Patch!Before
<1>7. /\ Patch!Before(hunks, n) \in Nat /\ 1 =< Patch!Before(hunks, n)
      /\ Patch!Before(hunks, n) =< hunks[n].start
  <2>1. CASE n = 1
    BY <1>3, <1>4, <2>1 DEF Patch!Before
  <2>2. CASE n # 1
    <3>1. n - 1 \in 1 .. Len(hunks)
      BY <1>1, <2>2
    <3>2. /\ hunks[n - 1].start > (IF n - 1 = 1 THEN 0 ELSE Patch!End(hunks[(n - 1) - 1]))
      BY <3>1 DEF InPlace
    <3>3. hunks[n - 1].start \in Nat /\ Patch!End(hunks[n - 1]) \in Nat
          /\ Patch!OldSide(hunks[n - 1]) \in Seq(Texts)
          /\ Patch!End(hunks[n - 1]) = hunks[n - 1].start + Len(Patch!OldSide(hunks[n - 1]))
      BY <1>1, <3>1, SidesAreTexts
    <3>4. 1 =< hunks[n - 1].start
      <4>1. CASE n - 1 = 1
        BY <3>2, <3>3, <4>1
      <4>2. CASE n - 1 # 1
        <5>1. Patch!End(hunks[(n - 1) - 1]) \in Nat
          <6>1. (n - 1) - 1 \in 1 .. Len(hunks)
            BY <1>1, <3>1, <4>2
          <6> QED
            BY <1>1, <6>1, SidesAreTexts
        <5> QED
          BY <3>2, <3>3, <4>2, <5>1
      <4> QED
        BY <4>1, <4>2
    <3>5. Len(Patch!OldSide(hunks[n - 1])) \in Nat
      BY <3>3
    <3>6. Patch!Before(hunks, n) = Patch!End(hunks[n - 1])
      BY <2>2 DEF Patch!Before
    <3> QED
      BY <1>3, <1>4, <2>2, <3>3, <3>4, <3>5, <3>6
  <2> QED
    BY <2>1, <2>2
<1> QED
  BY <1>1, <1>2, <1>3, <1>4, <1>5, <1>6, <1>7

\* One hunk: what lies before it is copied, and then its new side.
LEMMA HunkFits ==
  ASSUME NEW old \in Seq(Texts), NEW hunks, InPlace(hunks, old), NEW n \in 1 .. Len(hunks),
         Patch!Parsed(hunks[n]) = hunks[n],
         NEW from \in Acc, from.pos = Patch!Before(hunks, n) - 1, from.fits
  PROVE  /\ SubSeq(old, Patch!Before(hunks, n), hunks[n].start - 1) \in Seq(Texts)
         /\ Patch!Taken(Patch!Reached(from, hunks[n], old), Patch!Parsed(hunks[n]).lines, old)
              = [out  |-> (from.out \o SubSeq(old, Patch!Before(hunks, n), hunks[n].start - 1))
                            \o Patch!NewSide(hunks[n]),
                 pos  |-> Patch!Before(hunks, n + 1) - 1, fits |-> TRUE]
<1> DEFINE h == hunks[n]
           a == Patch!Before(hunks, n)
           gap == SubSeq(old, a, h.start - 1)
           there == Patch!Reached(from, h, old)
           o == Patch!OldSide(h)
<1>1. /\ h \in Hunk /\ a \in Nat /\ 1 =< a /\ a =< h.start /\ h.start \in Nat /\ 1 =< h.start
      /\ h.start - 1 =< Len(old) /\ Patch!End(h) = h.start + Len(o) /\ Patch!End(h) - 1 =< Len(old)
      /\ Patch!Before(hunks, n + 1) = Patch!End(h)
      /\ o \in Seq(Texts) /\ Patch!NewSide(h) \in Seq(Texts)
  BY PlacesOf
<1>2. /\ h.lines \in Lined /\ from.out \in Seq(Texts) /\ from.pos = a - 1
  BY <1>1, SidesAreTexts DEF Acc
<1>3. o = SubSeq(old, h.start, Patch!End(h) - 1)
  BY DEF InPlace
<1>4. from.fits = TRUE
  BY DEF Acc
<1>5. Patch!Parsed(h) = h
  OBVIOUS
<1>6. Len(old) \in Nat
  OBVIOUS
<1> HIDE DEF h, a, o
<1>7. gap \in Seq(Texts)
  <2>1. h.start - 1 \in Nat
    BY <1>1
  <2> QED
    BY <1>1, <2>1, PartIs
<1>8. there = [out |-> from.out \o gap, pos |-> h.start - 1, fits |-> TRUE]
  <2>1. Patch!Min({h.start - 1, Len(old)}) = h.start - 1 /\ Patch!Max({a - 1, h.start - 1}) = h.start - 1
    <3>1. h.start - 1 \in Int /\ a - 1 \in Int /\ Len(old) \in Int /\ a - 1 =< h.start - 1
      BY <1>1, <1>6
    <3>2. Patch!Min({h.start - 1, Len(old)}) = h.start - 1
      BY <1>1, <3>1, LeastOfTwo
    <3>3. Patch!Max({a - 1, h.start - 1}) = h.start - 1
      BY <3>1, LeastOfTwo
    <3> QED
      BY <3>2, <3>3
  <2>2. (a - 1) + 1 = a
    BY <1>1
  <2>3. there = [out  |-> from.out \o SubSeq(old, from.pos + 1, Patch!Min({h.start - 1, Len(old)})),
                 pos  |-> Patch!Max({from.pos, h.start - 1}),
                 fits |-> from.fits /\ (from.pos >= h.start - 1 \/ h.start - 1 =< Len(old))]
    BY DEF Patch!Reached
  <2>4. (from.fits /\ (from.pos >= h.start - 1 \/ h.start - 1 =< Len(old))) = TRUE
    BY <1>1, <1>4
  <2> HIDE DEF there
  <2> QED
    BY <1>2, <2>1, <2>2, <2>3, <2>4
<1>9. there \in Acc /\ there.pos = h.start - 1 /\ there.out = from.out \o gap /\ there.fits = TRUE
  <2>1. from.out \o gap \in Seq(Texts)
    BY <1>2, <1>7
  <2>2. h.start - 1 \in Nat
    BY <1>1
  <2> HIDE DEF there, gap
  <2> QED
    BY <1>8, <2>1, <2>2 DEF Acc
<1> HIDE DEF there
<1>10. /\ Patch!Side(h.lines, "+") = o /\ Patch!Side(h.lines, "-") = Patch!NewSide(h)
  BY DEF o, Patch!OldSide, Patch!NewSide
<1>11. there.pos + Len(o) =< Len(old)
  <2>1. Len(o) \in Nat
    BY <1>1
  <2> QED
    BY <1>1, <1>6, <1>9, <2>1
<1>12. \A i \in 1 .. Len(o) : o[i] = old[there.pos + i]
  <2>1. Patch!End(h) - 1 \in Nat /\ Len(o) \in Nat
    BY <1>1
  <2>2. \A i \in 1 .. Len(o) : o[i] = old[h.start + i - 1]
    <3> DEFINE mine == SubSeq(old, h.start, Patch!End(h) - 1)
    <3>1. \A i \in 1 .. Len(mine) : mine[i] = old[h.start + i - 1]
      BY <1>1, <2>1, PartIs
    <3> HIDE DEF mine
    <3>2. o = mine
      BY <1>3 DEF mine
    <3> QED
      BY <3>1, <3>2
  <2>3. \A i \in 1 .. Len(o) : h.start + i - 1 = (h.start - 1) + i
    BY <1>1
  <2> QED
    BY <1>9, <2>2, <2>3
<1>13. Patch!Taken(there, h.lines, old)
         = [out |-> there.out \o Patch!NewSide(h), pos |-> there.pos + Len(o), fits |-> there.fits]
  BY <1>2, <1>9, <1>10, <1>11, <1>12, HunkTaken
<1>14. there.pos + Len(o) = Patch!Before(hunks, n + 1) - 1
  <2>1. Len(o) \in Nat
    BY <1>1
  <2> QED
    BY <1>1, <1>9, <2>1
<1>15. Patch!Taken(Patch!Reached(from, h, old), Patch!Parsed(h).lines, old)
         = [out |-> (from.out \o gap) \o Patch!NewSide(h), pos |-> Patch!Before(hunks, n + 1) - 1, fits |-> TRUE]
  BY <1>5, <1>9, <1>13, <1>14 DEF there
<1> QED
  BY <1>7, <1>15 DEF h, a

\* The new text before the rest of the file, hunk after hunk.
PieceRun(w, hunks, old) ==
  /\ w \in [0 .. Len(hunks) -> Seq(Texts)] /\ w[0] = <<>>
  /\ \A n \in 1 .. Len(hunks) :
       w[n] = w[n - 1] \o SubSeq(old, Patch!Before(hunks, n), hunks[n].start - 1) \o Patch!NewSide(hunks[n])

\* What lies between two hunks is text, and so is what replaces it.
LEMMA GapsAreTexts ==
  ASSUME NEW old \in Seq(Texts), NEW hunks, InPlace(hunks, old)
  PROVE  /\ Len(hunks) \in Nat
         /\ \A n \in 1 .. Len(hunks) :
              /\ SubSeq(old, Patch!Before(hunks, n), hunks[n].start - 1) \in Seq(Texts)
              /\ Patch!NewSide(hunks[n]) \in Seq(Texts)
<1>1. Len(hunks) \in Nat
  BY DEF InPlace
<1>2. ASSUME NEW n \in 1 .. Len(hunks)
      PROVE  /\ SubSeq(old, Patch!Before(hunks, n), hunks[n].start - 1) \in Seq(Texts)
             /\ Patch!NewSide(hunks[n]) \in Seq(Texts)
  <2> DEFINE a == Patch!Before(hunks, n)
             b == hunks[n].start
  <2>1. /\ a \in Nat /\ 1 =< a /\ b \in Nat /\ 1 =< b /\ b - 1 =< Len(old)
        /\ Patch!NewSide(hunks[n]) \in Seq(Texts)
    BY PlacesOf
  <2> HIDE DEF a, b
  <2>2. b - 1 \in Nat
    BY <2>1
  <2>3. SubSeq(old, a, b - 1) \in Seq(Texts)
    BY <2>1, <2>2, PartIs
  <2> QED
    BY <2>1, <2>3 DEF a, b
<1> QED
  BY <1>1, <1>2

\* A diff that deletes the file, or has no hunks, says so of it.
LEMMA Says ==
  ASSUME NEW hunks, NEW of
  PROVE  /\ hunks = Patch!Deleted => Patch!Meaning(hunks, of) = Patch!None
         /\ hunks = <<>> /\ hunks # Patch!Deleted => Patch!Meaning(hunks, of) = of
<1> DEFINE old == Patch!Kept(of)
           w == CHOOSE h : h = [n \in 0 .. Len(hunks) |->
                  IF n = 0 THEN <<>>
                  ELSE h[n - 1] \o SubSeq(old, Patch!Before(hunks, n), hunks[n].start - 1)
                         \o Patch!NewSide(hunks[n])]
           whole == w[Len(hunks)] \o SubSeq(old, Patch!Before(hunks, Len(hunks) + 1), Len(old))
<1>1. Patch!Meaning(hunks, of)
        = CASE hunks = Patch!Deleted -> Patch!None [] hunks = <<>> -> of [] OTHER -> whole
  BY DEF Patch!Meaning
<1> DEFINE spoken == Patch!Meaning(hunks, of)
           bare == Patch!None
           gone == Patch!Deleted
<1>2. spoken = CASE hunks = gone -> bare [] hunks = <<>> -> of [] OTHER -> whole
  BY <1>1
<1>3. <<>> # gone
  BY DEF Patch!Deleted
<1> HIDE DEF whole, spoken, bare, gone
<1>4. hunks = gone => spoken = bare
  BY ONLY <1>2, <1>3
<1>5. hunks = <<>> /\ hunks # gone => spoken = of
  BY ONLY <1>2
<1> QED
  BY <1>4, <1>5 DEF spoken, bare, gone

\* What a diff says of a file is made hunk after hunk.
LEMMA PieceRuns ==
  ASSUME NEW hunks, hunks # <<>>, hunks # Patch!Deleted,
         NEW of, Patch!Kept(of) \in Seq(Texts), InPlace(hunks, Patch!Kept(of))
  PROVE  \E w : /\ PieceRun(w, hunks, Patch!Kept(of))
                /\ Patch!Meaning(hunks, of)
                     = w[Len(hunks)] \o SubSeq(Patch!Kept(of), Patch!Before(hunks, Len(hunks) + 1),
                                              Len(Patch!Kept(of)))
<1> DEFINE old == Patch!Kept(of)
           A == Seq(Texts)
           N == Len(hunks)
           gap(n) == SubSeq(old, Patch!Before(hunks, n), hunks[n].start - 1)
           rule == [e \in (1 .. N) \X A |-> e[2] \o gap(e[1]) \o Patch!NewSide(hunks[e[1]])]
           Def(h) == [n \in 0 .. N |->
                        IF n = 0 THEN <<>> ELSE h[n - 1] \o gap(n) \o Patch!NewSide(hunks[n])]
           w == CHOOSE h : h = Def(h)
<1>0. /\ N \in Nat /\ <<>> \in A
      /\ \A n \in 1 .. N : gap(n) \in A /\ Patch!NewSide(hunks[n]) \in A
  BY GapsAreTexts
<1>1. Patch!Meaning(hunks, of) = w[N] \o SubSeq(old, Patch!Before(hunks, N + 1), Len(old))
  BY DEF Patch!Meaning
<1> HIDE DEF old, N, gap
<1>2. rule \in RuleOn(A, N)
  <2>1. \A n \in 1 .. N, s \in A : s \o gap(n) \o Patch!NewSide(hunks[n]) \in A
    BY <1>0
  <2> HIDE DEF A
  <2> QED
    BY <2>1 DEF RuleOn
<1> HIDE DEF A
<1>3. PICK g : Run(g, A, N, <<>>, rule)
  <2> HIDE DEF rule
  <2> QED
    BY <1>0, <1>2, Recursion
<1>4. g = Def(g)
  <2>1. /\ g \in [0 .. N -> A] /\ g[0] = <<>>
        /\ \A n \in 1 .. N : g[n] = rule[<<n, g[n - 1]>>]
    BY <1>3 DEF Run
  <2>2. ASSUME NEW n \in 1 .. N PROVE g[n] = g[n - 1] \o gap(n) \o Patch!NewSide(hunks[n])
    <3>1. <<n, g[n - 1]>> \in (1 .. N) \X A
      BY <1>0, <2>1
    <3> QED
      BY <2>1, <3>1
  <2> HIDE DEF rule
  <2>3. \A n \in 0 .. N : g[n] = IF n = 0 THEN <<>> ELSE g[n - 1] \o gap(n) \o Patch!NewSide(hunks[n])
    <3> TAKE n \in 0 .. N
    <3>1. n = 0 \/ n \in 1 .. N
      BY <1>0
    <3> QED
      BY <2>1, <2>2, <3>1
  <2>4. g = [n \in 0 .. N |-> g[n]]
    BY <2>1
  <2> QED
    BY <2>3, <2>4
<1>5. w = Def(w)
  <2> HIDE DEF Def
  <2> QED
    BY <1>4
<1> HIDE DEF w, rule
<1>6. /\ w[0] = <<>> /\ w = [n \in 0 .. N |-> w[n]]
      /\ \A n \in 1 .. N : w[n] = w[n - 1] \o gap(n) \o Patch!NewSide(hunks[n])
  <2>1. w = [n \in 0 .. N |-> IF n = 0 THEN <<>> ELSE w[n - 1] \o gap(n) \o Patch!NewSide(hunks[n])]
    BY <1>5
  <2> HIDE DEF Def
  <2>2. w = [n \in 0 .. N |-> w[n]] /\ 0 \in 0 .. N
    BY ONLY <1>0, <2>1
  <2>3. \A n \in 1 .. N : n \in 0 .. N /\ n # 0
    OBVIOUS
  <2>4. w[0] = <<>>
    BY ONLY <2>1, <2>2
  <2>5. ASSUME NEW n \in 1 .. N PROVE w[n] = w[n - 1] \o gap(n) \o Patch!NewSide(hunks[n])
    BY ONLY <2>1, <2>3
  <2> QED
    BY <2>2, <2>4, <2>5
<1> DEFINE T == {n \in Nat : n =< N => w[n] \in A}
<1>7. 0 \in T
  BY <1>0, <1>6
<1>8. ASSUME NEW n \in T PROVE n + 1 \in T
  <2> SUFFICES ASSUME n + 1 =< N PROVE w[n + 1] \in A
    OBVIOUS
  <2>1. n + 1 \in 1 .. N /\ w[n] \in A /\ (n + 1) - 1 = n
    BY <1>0
  <2>2. w[n + 1] = w[n] \o gap(n + 1) \o Patch!NewSide(hunks[n + 1])
    BY <1>6, <2>1
  <2>3. gap(n + 1) \in A /\ Patch!NewSide(hunks[n + 1]) \in A
    BY <1>0, <2>1
  <2> QED
    BY <2>1, <2>2, <2>3 DEF A
<1>9. T = Nat
  <2> HIDE DEF T
  <2> QED
    BY <1>7, <1>8, Induction DEF T
<1>10. w \in [0 .. N -> A]
  <2>1. \A n \in 0 .. N : w[n] \in A
    BY <1>9
  <2> QED
    BY <1>6, <2>1
<1>11. PieceRun(w, hunks, old)
  BY <1>6, <1>10 DEF PieceRun, N, A, gap
<1> QED
  BY <1>11, <1>1 DEF old, N

\* The rest of the text once the hunks are done.
LEMMA RestIsKept ==
  ASSUME NEW s \in Acc, NEW r
  PROVE  [s EXCEPT !.out = @ \o r] = [out |-> s.out \o r, pos |-> s.pos, fits |-> s.fits]
BY DEF Acc

\* The gate, hunk after hunk, copies what lies between the hunks and their new sides.
LEMMA FileApplied ==
  ASSUME NEW old \in Seq(Texts), NEW hunks, InPlace(hunks, old),
         \A i \in 1 .. Len(hunks) : Patch!Parsed(hunks[i]) = hunks[i],
         NEW w, PieceRun(w, hunks, old)
  PROVE  /\ Patch!ApplyFile(hunks, old).fits = TRUE
         /\ Patch!ApplyFile(hunks, old).out
              = w[Len(hunks)] \o SubSeq(old, Patch!Before(hunks, Len(hunks) + 1), Len(old))
<1> DEFINE N == Len(hunks)
           Step(s, n) == Patch!Taken(Patch!Reached(s, hunks[n], old), Patch!Parsed(hunks[n]).lines, old)
           Upto(n) == [out |-> w[n], pos |-> Patch!Before(hunks, n + 1) - 1, fits |-> TRUE]
           Def(h) == [n \in 0 .. N |-> IF n = 0 THEN Patch!Start ELSE Step(h[n - 1], n)]
           g == [n \in 0 .. N |-> Upto(n)]
           u == CHOOSE h : h = Def(h)
<1>1. Patch!ApplyFile(hunks, old)
        = [u[N] EXCEPT !.out = @ \o SubSeq(old, u[N].pos + 1, Len(old))]
  BY DEF Patch!ApplyFile
<1>2. /\ N \in Nat /\ w \in [0 .. N -> Seq(Texts)] /\ w[0] = <<>>
      /\ \A n \in 1 .. N :
           w[n] = (w[n - 1] \o SubSeq(old, Patch!Before(hunks, n), hunks[n].start - 1)) \o Patch!NewSide(hunks[n])
  BY GapsAreTexts DEF PieceRun
<1> HIDE DEF N
<1>3. Upto(0) = Patch!Start
  <2>1. Patch!Before(hunks, 0 + 1) = 1
    BY DEF Patch!Before
  <2>2. Patch!Before(hunks, 0 + 1) - 1 = 0 /\ w[0] = <<>>
    BY <1>2, <2>1
  <2> QED
    BY <2>2 DEF Patch!Start
<1>4. ASSUME NEW n \in 0 .. N PROVE Patch!Before(hunks, n + 1) \in Nat /\ 1 =< Patch!Before(hunks, n + 1)
  <2>1. CASE n = 0
    BY <2>1 DEF Patch!Before
  <2>2. CASE n # 0
    <3>1. n \in 1 .. Len(hunks)
      BY <1>2, <2>2 DEF N
    <3>2. /\ Patch!Before(hunks, n + 1) = Patch!End(hunks[n]) /\ hunks[n].start \in Nat /\ 1 =< hunks[n].start
          /\ Patch!End(hunks[n]) = hunks[n].start + Len(Patch!OldSide(hunks[n]))
          /\ Patch!OldSide(hunks[n]) \in Seq(Texts)
      BY <3>1, PlacesOf
    <3>3. Len(Patch!OldSide(hunks[n])) \in Nat
      BY <3>2
    <3> QED
      BY <3>2, <3>3
  <2> QED
    BY <2>1, <2>2
<1>5. ASSUME NEW n \in 0 .. N PROVE Upto(n) \in Acc /\ Upto(n).fits /\ Upto(n).pos = Patch!Before(hunks, n + 1) - 1
                                    /\ Upto(n).out = w[n]
  <2>1. w[n] \in Seq(Texts)
    BY <1>2
  <2>2. Patch!Before(hunks, n + 1) - 1 \in Nat
    BY <1>4
  <2> QED
    BY <2>1, <2>2 DEF Acc
<1>6. ASSUME NEW n \in 1 .. N PROVE Step(Upto(n - 1), n) = Upto(n)
  <2> DEFINE from == Upto(n - 1)
  <2>1. n - 1 \in 0 .. N /\ (n - 1) + 1 = n /\ n \in 1 .. Len(hunks)
    BY <1>2 DEF N
  <2>2. from \in Acc /\ from.fits /\ from.pos = Patch!Before(hunks, n) - 1 /\ from.out = w[n - 1]
    <3> HIDE DEF Upto
    <3> QED
      BY <1>5, <2>1
  <2>3. Patch!Parsed(hunks[n]) = hunks[n]
    BY <2>1
  <2> HIDE DEF from
  <2>4. Step(from, n)
          = [out  |-> (from.out \o SubSeq(old, Patch!Before(hunks, n), hunks[n].start - 1))
                        \o Patch!NewSide(hunks[n]),
             pos  |-> Patch!Before(hunks, n + 1) - 1, fits |-> TRUE]
    BY <2>1, <2>2, <2>3, HunkFits
  <2>5. (from.out \o SubSeq(old, Patch!Before(hunks, n), hunks[n].start - 1)) \o Patch!NewSide(hunks[n]) = w[n]
    BY <1>2, <2>2
  <2>6. Step(from, n) = Upto(n)
    <3> HIDE DEF Step
    <3> QED
      BY <2>4, <2>5
  <2> HIDE DEF Step, Upto
  <2> QED
    BY <2>6 DEF from
<1> HIDE DEF Upto, Step
<1>7. g = Def(g)
  <2>1. ASSUME NEW n \in 0 .. N PROVE g[n] = IF n = 0 THEN Patch!Start ELSE Step(g[n - 1], n)
    <3>1. CASE n = 0
      BY <1>3, <3>1
    <3>2. CASE n # 0
      <4>1. n \in 1 .. N /\ n - 1 \in 0 .. N
        BY <1>2, <3>2
      <4>2. g[n] = Upto(n) /\ g[n - 1] = Upto(n - 1)
        BY <4>1
      <4> HIDE DEF g
      <4> QED
        BY <1>6, <3>2, <4>1, <4>2
    <3> QED
      BY <3>1, <3>2
  <2>2. g = [n \in 0 .. N |-> g[n]]
    OBVIOUS
  <2> HIDE DEF g
  <2> QED
    BY <2>1, <2>2
<1>8. u = Def(u)
  <2> HIDE DEF Def, g
  <2> QED
    BY <1>7
<1> HIDE DEF u, g
<1>9. u[0] = Patch!Start /\ \A n \in 1 .. N : u[n] = Step(u[n - 1], n)
  <2>1. u = [n \in 0 .. N |-> IF n = 0 THEN Patch!Start ELSE Step(u[n - 1], n)]
    BY <1>8
  <2> HIDE DEF Def
  <2>2. 0 \in 0 .. N /\ \A n \in 1 .. N : n \in 0 .. N /\ n # 0
    BY <1>2
  <2>3. u[0] = Patch!Start
    BY ONLY <2>1, <2>2
  <2>4. ASSUME NEW n \in 1 .. N PROVE u[n] = Step(u[n - 1], n)
    BY ONLY <2>1, <2>2
  <2> QED
    BY <2>3, <2>4
<1> DEFINE T == {n \in Nat : n =< N => u[n] = Upto(n)}
<1>10. 0 \in T
  BY <1>3, <1>9
<1>11. ASSUME NEW n \in T PROVE n + 1 \in T
  <2> SUFFICES ASSUME n + 1 =< N PROVE u[n + 1] = Upto(n + 1)
    OBVIOUS
  <2>1. n + 1 \in 1 .. N /\ u[n] = Upto(n) /\ (n + 1) - 1 = n
    BY <1>2
  <2> QED
    BY <1>6, <1>9, <2>1
<1>12. T = Nat
  <2> HIDE DEF T
  <2> QED
    BY <1>10, <1>11, Induction DEF T
<1>13. u[N] = Upto(N) /\ N \in 0 .. N
  <2>1. N \in T
    BY <1>2, <1>12
  <2>2. N =< N /\ N \in 0 .. N
    BY <1>2
  <2> QED
    BY <2>1, <2>2
<1>14. u[N] \in Acc /\ u[N].fits = TRUE /\ u[N].pos + 1 = Patch!Before(hunks, N + 1) /\ u[N].out = w[N]
  <2>1. u[N] \in Acc /\ u[N].fits /\ u[N].pos = Patch!Before(hunks, N + 1) - 1 /\ u[N].out = w[N]
    BY <1>5, <1>13
  <2>2. Patch!Before(hunks, N + 1) \in Nat
    BY <1>4, <1>13
  <2>3. u[N].fits \in BOOLEAN
    BY <2>1 DEF Acc
  <2> QED
    BY <2>1, <2>2, <2>3
<1>15. Patch!ApplyFile(hunks, old)
         = [out |-> u[N].out \o SubSeq(old, u[N].pos + 1, Len(old)), pos |-> u[N].pos, fits |-> u[N].fits]
  BY <1>1, <1>14, RestIsKept
<1>16. Patch!ApplyFile(hunks, old)
         = [out |-> w[N] \o SubSeq(old, Patch!Before(hunks, N + 1), Len(old)), pos |-> u[N].pos, fits |-> TRUE]
  BY <1>14, <1>15
<1> DEFINE whole == w[N] \o SubSeq(old, Patch!Before(hunks, N + 1), Len(old))
           made == Patch!ApplyFile(hunks, old)
<1>17. made = [out |-> whole, pos |-> u[N].pos, fits |-> TRUE]
  BY <1>16
<1> HIDE DEF whole, made
<1>18. made.fits = TRUE /\ made.out = whole
  BY ONLY <1>17
<1> QED
  BY <1>18 DEF N, whole, made

\* What the gate makes of a file whose diff is in place is what the diff says of it.
LEMMA FileIsPatched ==
  ASSUME NEW hunks, hunks # <<>>, hunks # Patch!Deleted,
         NEW of, Patch!Kept(of) \in Seq(Texts), InPlace(hunks, Patch!Kept(of)),
         \A i \in 1 .. Len(hunks) : Patch!Parsed(hunks[i]) = hunks[i]
  PROVE  Patch!ApplyFile(hunks, Patch!Kept(of)).out = Patch!Meaning(hunks, of)
<1> DEFINE old == Patch!Kept(of)
<1>1. PICK w : /\ PieceRun(w, hunks, old)
               /\ Patch!Meaning(hunks, of)
                    = w[Len(hunks)] \o SubSeq(old, Patch!Before(hunks, Len(hunks) + 1), Len(old))
  BY PieceRuns
<1> HIDE DEF old
<1>2. Patch!ApplyFile(hunks, old).out
        = w[Len(hunks)] \o SubSeq(old, Patch!Before(hunks, Len(hunks) + 1), Len(old))
  BY <1>1, FileApplied DEF old
<1> QED
  BY <1>1, <1>2 DEF old

\* The author's hunks are at their places; while nobody edits, the files the gate has
\* passed are what the diff says and the others what the commit says.
PatchTypes ==
  /\ base \in [Patch!Indices -> {Patch!None} \cup Patch!Contents]
  /\ DOMAIN diff = Patch!Indices /\ DOMAIN tree = Patch!Indices
  /\ next \in 0 .. Files + 2
  /\ result = "OK" => next = Files + 1
Meant == \A f \in Patch!Indices : diff[f] = Patch!Deleted \/ InPlace(diff[f], Patch!Kept(base[f]))
Passed(f) == f < next => (Patch!Plain(f) => tree[f] = Patch!Patched(f))
Awaits(f) == ~(f < next) => tree[f] = base[f]
PatchInv ==
  /\ PatchTypes /\ Meant
  /\ edited = {} /\ next =< Files + 1 => \A f \in Patch!Indices : Passed(f) /\ Awaits(f)

\* The assumed sizes one by one.
LEMMA PatchSizes == Files \in Nat /\ MaxLines \in Nat /\ MaxSize \in Nat
BY PatchAssumption

\* No hunk at all is in place in any file.
LEMMA NoHunk == ASSUME NEW old PROVE InPlace(<<>>, old) /\ <<>> # Patch!Deleted
BY DEF InPlace, Patch!Deleted

\* At the start no file has a hunk and the tree is the commit's.
LEMMA PatchInit == Patch!Init => PatchInv
<1> SUFFICES ASSUME Patch!Init PROVE PatchInv
  OBVIOUS
<1>1. /\ base \in [Patch!Indices -> {Patch!None} \cup Patch!Contents]
      /\ diff = [f \in Patch!Indices |-> <<>>] /\ tree = base /\ next = 0 /\ result # "OK"
  BY Zenon DEF Patch!Init
<1>2. PatchTypes
  <2>1. next \in 0 .. Files + 2
    BY <1>1, PatchSizes
  <2>2. DOMAIN tree = Patch!Indices
    BY <1>1
  <2>3. DOMAIN diff = Patch!Indices
    BY <1>1
  <2>4. result = "OK" => next = Files + 1
    BY <1>1
  <2> QED
    BY <1>1, <2>1, <2>2, <2>3, <2>4 DEF PatchTypes
<1>3. Meant
  BY <1>1, NoHunk DEF Meant
<1>4. \A f \in Patch!Indices : ~(f < 0)
  BY PatchSizes DEF Patch!Indices
<1>5. \A f \in Patch!Indices : Passed(f) /\ Awaits(f)
  BY <1>1, <1>4 DEF Passed, Awaits
<1> QED
  BY <1>2, <1>3, <1>5 DEF PatchInv

\* A file of the commit, or none, is text.
LEMMA BaseIsText ==
  ASSUME PatchTypes, NEW f \in Patch!Indices
  PROVE  Patch!Kept(base[f]) \in Seq(Texts)
<1>1. CASE base[f] = Patch!None
  BY <1>1 DEF Patch!Kept
<1>2. CASE base[f] # Patch!None
  <2>1. base[f] \in Patch!Contents
    BY <1>2 DEF PatchTypes
  <2>2. PICK n \in 1 .. MaxLines : base[f] \in [1 .. n -> Texts]
    BY <2>1 DEF Patch!Contents
  <2>3. n \in Nat
    BY PatchSizes
  <2> QED
    BY <1>2, <2>2, <2>3 DEF Patch!Kept
<1> QED
  BY <1>1, <1>2

\* The author adds a hunk behind the others.
LEMMA HunkAdded ==
  ASSUME NEW old \in Seq(Texts), NEW hunks, InPlace(hunks, old), NEW h \in Hunk,
         h.start > (IF hunks = <<>> THEN 0 ELSE Patch!End(Patch!Last(hunks))),
         Patch!End(h) =< Len(old) + 1,
         Patch!OldSide(h) = SubSeq(old, h.start, Patch!End(h) - 1)
  PROVE  InPlace(Append(hunks, h), old)
<1> DEFINE N == Len(hunks)
           more == Append(hunks, h)
<1>1. hunks \in Seq(Hunk) /\ N \in Nat
  BY DEF InPlace
<1>2. /\ more \in Seq(Hunk) /\ Len(more) = N + 1 /\ more[N + 1] = h
      /\ \A i \in 1 .. N : more[i] = hunks[i]
  BY <1>1
<1>3. N # 0 => hunks # <<>> /\ Patch!Last(hunks) = hunks[N]
  BY DEF Patch!Last
<1>4. N = 0 => hunks = <<>>
  BY <1>1
<1> HIDE DEF more
<1>5. ASSUME NEW i \in 1 .. N + 1
      PROVE  /\ more[i].start > (IF i = 1 THEN 0 ELSE Patch!End(more[i - 1]))
             /\ Patch!End(more[i]) =< Len(old) + 1
             /\ Patch!OldSide(more[i]) = SubSeq(old, more[i].start, Patch!End(more[i]) - 1)
  <2>1. CASE i \in 1 .. N
    <3>1. more[i] = hunks[i] /\ (i # 1 => more[i - 1] = hunks[i - 1])
      <4>1. i # 1 => i - 1 \in 1 .. N
        BY <1>1, <2>1
      <4> QED
        BY <1>2, <2>1, <4>1
    <3>2. /\ hunks[i].start > (IF i = 1 THEN 0 ELSE Patch!End(hunks[i - 1]))
          /\ Patch!End(hunks[i]) =< Len(old) + 1
          /\ Patch!OldSide(hunks[i]) = SubSeq(old, hunks[i].start, Patch!End(hunks[i]) - 1)
      BY <2>1 DEF InPlace
    <3> QED
      BY <3>1, <3>2
  <2>2. CASE i = N + 1
    <3>1. more[i] = h
      BY <1>2, <2>2
    <3>2. CASE i = 1
      <4>1. hunks = <<>>
        BY <1>1, <1>4, <2>2, <3>2
      <4> QED
        BY <3>1, <3>2, <4>1
    <3>3. CASE i # 1
      <4>1. i - 1 = N /\ N # 0 /\ N \in 1 .. N
        BY <1>1, <2>2, <3>3
      <4>2. more[i - 1] = Patch!Last(hunks) /\ hunks # <<>>
        BY <1>2, <1>3, <4>1
      <4> QED
        BY <3>1, <3>3, <4>2
    <3> QED
      BY <3>2, <3>3
  <2> QED
    BY <1>1, <2>1, <2>2
<1>6. InPlace(more, old)
  BY <1>2, <1>5 DEF InPlace
<1> QED
  BY <1>6 DEF more

\* The author adds a hunk while the gate has not begun.
LEMMA AuthorStep ==
  ASSUME PatchInv, NEW f \in Patch!Indices, NEW start \in 1 .. MaxLines + 1, NEW n \in 1 .. MaxSize,
         NEW body \in [1 .. n -> Patch!HunkLine], Patch!AddHunk(f, start, body)
  PROVE  PatchInv'
<1> DEFINE h == [start |-> start, lines |-> body]
           old == Patch!Kept(base[f])
<1>1. PatchTypes /\ Meant
  BY DEF PatchInv
<1>2. /\ next = 0 /\ diff[f] # Patch!Deleted
      /\ h.start > (IF diff[f] = <<>> THEN 0 ELSE Patch!End(Patch!Last(diff[f])))
      /\ Patch!End(h) =< Len(old) + 1 /\ Patch!OldSide(h) = SubSeq(old, h.start, Patch!End(h) - 1)
      /\ diff' = [diff EXCEPT ![f] = Append(@, h)]
      /\ UNCHANGED <<base, tree, head, edited, next, result>>
  BY DEF Patch!AddHunk
<1>3. h \in Hunk
  <2>1. start \in Nat /\ n \in Nat
    BY PatchSizes
  <2>2. body \in Lined
    BY <2>1 DEF Lined
  <2> QED
    BY <2>1, <2>2 DEF Hunk
<1>4. old \in Seq(Texts)
  BY <1>1, BaseIsText
<1>5. InPlace(diff[f], old)
  BY <1>1, <1>2 DEF Meant
<1> HIDE DEF h, old
<1>6. InPlace(Append(diff[f], h), old)
  BY <1>2, <1>3, <1>4, <1>5, HunkAdded
<1>7. PatchTypes'
  BY <1>1, <1>2 DEF PatchTypes
<1>8. Meant'
  <2> SUFFICES ASSUME NEW g \in Patch!Indices
               PROVE  diff'[g] = Patch!Deleted \/ InPlace(diff'[g], Patch!Kept(base[g]))
    BY <1>2 DEF Meant
  <2>1. CASE g = f
    <3>1. diff'[g] = Append(diff[f], h)
      BY <1>1, <1>2, <2>1 DEF PatchTypes
    <3> QED
      BY <1>6, <2>1, <3>1 DEF old
  <2>2. CASE g # f
    <3>1. diff'[g] = diff[g]
      BY <1>1, <1>2, <2>2 DEF PatchTypes
    <3> QED
      BY <1>1, <3>1 DEF Meant
  <2> QED
    BY <2>1, <2>2
<1>9. ASSUME edited = {} PROVE \A g \in Patch!Indices : Passed(g)' /\ Awaits(g)'
  <2>1. \A g \in Patch!Indices : ~(g < 0) /\ Awaits(g)
    BY <1>2, <1>9, PatchSizes DEF PatchInv, Patch!Indices
  <2> QED
    BY <1>2, <2>1 DEF Passed, Awaits
<1> QED
  BY <1>2, <1>7, <1>8, <1>9 DEF PatchInv

\* The author deletes a file.
LEMMA DeleteStep ==
  ASSUME PatchInv, NEW f \in Patch!Indices, Patch!Delete(f)
  PROVE  PatchInv'
<1>1. PatchTypes /\ Meant
  BY DEF PatchInv
<1>2. /\ next = 0 /\ diff' = [diff EXCEPT ![f] = Patch!Deleted]
      /\ UNCHANGED <<base, tree, head, edited, next, result>>
  BY DEF Patch!Delete
<1>3. PatchTypes'
  BY <1>1, <1>2 DEF PatchTypes
<1>4. Meant'
  <2>1. \A g \in Patch!Indices : diff'[g] = Patch!Deleted \/ diff'[g] = diff[g]
    BY <1>1, <1>2 DEF PatchTypes
  <2> QED
    BY <1>1, <1>2, <2>1 DEF Meant
<1>5. ASSUME edited = {} PROVE \A g \in Patch!Indices : Passed(g)' /\ Awaits(g)'
  <2>1. \A g \in Patch!Indices : ~(g < 0) /\ Awaits(g)
    BY <1>2, <1>5, PatchSizes DEF PatchInv, Patch!Indices
  <2> QED
    BY <1>2, <2>1 DEF Passed, Awaits
<1> QED
  BY <1>2, <1>3, <1>4, <1>5 DEF PatchInv

\* A file the gate does not touch stays where it was with it.
LEMMA NotReached ==
  ASSUME NEW g \in Patch!Indices, Passed(g), Awaits(g), next \in Patch!Indices, g # next,
         UNCHANGED <<base, diff>>, next' = next + 1, tree'[g] = tree[g]
  PROVE  Passed(g)' /\ Awaits(g)'
<1>1. g \in Nat /\ next \in Nat
  BY PatchSizes DEF Patch!Indices
<1>2. (g < next') <=> (g < next)
  BY <1>1
<1>3. Patch!Patched(g)' = Patch!Patched(g) /\ (Patch!Plain(g)' <=> Patch!Plain(g))
  BY DEF Patch!Patched, Patch!Plain
<1>4. CASE g < next
  BY <1>2, <1>3, <1>4 DEF Passed, Awaits
<1>5. CASE ~(g < next)
  BY <1>2, <1>5 DEF Passed, Awaits
<1> QED
  BY <1>4, <1>5

\* The gate applies one file, or ends in a conflict.
LEMMA GateStep == PatchInv /\ Patch!ApplyNext => PatchInv'
<1> SUFFICES ASSUME PatchInv, Patch!ApplyNext PROVE PatchInv'
  OBVIOUS
<1> DEFINE f == next
           new == Patch!ApplyFile(diff[f], Patch!Kept(tree[f]))
<1>1. PatchTypes /\ Meant
  BY DEF PatchInv
<1>2. /\ f \in Patch!Indices /\ UNCHANGED <<base, diff, head, edited>>
      /\ CASE diff[f] = <<>> -> tree' = tree /\ next' = next + 1 /\ UNCHANGED result
           [] diff[f] = Patch!Deleted -> /\ tree' = [tree EXCEPT ![f] = Patch!None]
                                         /\ next' = next + 1 /\ UNCHANGED result
           [] diff[f] \notin {<<>>, Patch!Deleted} /\ new.fits ->
                                         /\ tree' = [tree EXCEPT ![f] = new.out]
                                         /\ next' = next + 1 /\ UNCHANGED result
           [] OTHER -> /\ next' = Files + 2 /\ result' = "PATCH_CONFLICT" /\ UNCHANGED tree
  BY DEF Patch!ApplyNext, Patch!commit
<1> HIDE DEF new
<1>3. \/ diff[f] = <<>> /\ tree' = tree /\ next' = next + 1 /\ UNCHANGED result
      \/ /\ diff[f] = Patch!Deleted /\ tree' = [tree EXCEPT ![f] = Patch!None]
         /\ next' = next + 1 /\ UNCHANGED result
      \/ /\ diff[f] # <<>> /\ diff[f] # Patch!Deleted /\ tree' = [tree EXCEPT ![f] = new.out]
         /\ next' = next + 1 /\ UNCHANGED result
      \/ next' = Files + 2 /\ result' = "PATCH_CONFLICT" /\ UNCHANGED tree
  BY <1>2, NoHunk
<1>4. Files \in Nat /\ f \in 1 .. Files /\ next = f
  BY <1>2, PatchSizes DEF Patch!Indices
<1>5. Meant'
  BY <1>1, <1>2 DEF Meant
<1>6. result # "OK"
  BY <1>1, <1>4 DEF PatchTypes
<1>7. PatchTypes'
  <2>1. next' \in 0 .. Files + 2 /\ DOMAIN tree' = Patch!Indices /\ result' # "OK"
    BY <1>1, <1>3, <1>4, <1>6 DEF PatchTypes
  <2> QED
    BY <1>1, <1>2, <2>1 DEF PatchTypes
<1>8. ASSUME edited = {}, next' =< Files + 1, NEW g \in Patch!Indices
      PROVE  Passed(g)' /\ Awaits(g)'
  <2>1. next' = next + 1
    BY <1>3, <1>4, <1>8
  <2>2. \A k \in Patch!Indices : Passed(k) /\ Awaits(k)
    BY <1>4, <1>8 DEF PatchInv
  <2>3. CASE g # f
    <3>1. tree'[g] = tree[g]
      BY <1>1, <1>3, <2>3 DEF PatchTypes
    <3> QED
      BY <1>2, <2>1, <2>2, <2>3, <3>1, NotReached
  <2>4. CASE g = f
    <3>1. tree[f] = base[f]
      BY <1>2, <1>4, <2>2 DEF Awaits
    <3>2. ASSUME Patch!Plain(f) PROVE tree'[f] = Patch!Patched(f)
      <4>1. CASE diff[f] = <<>>
        <5>1. tree'[f] = base[f]
          BY <1>3, <1>4, <2>1, <3>1, <4>1, NoHunk
        <5>2. Patch!Meaning(<<>>, base[f]) = base[f]
          BY NoHunk, Says
        <5> QED
          BY <4>1, <5>1, <5>2 DEF Patch!Patched
      <4>2. CASE diff[f] = Patch!Deleted
        <5>1. tree'[f] = Patch!None
          BY <1>1, <1>2, <1>3, <1>4, <2>1, <4>2, <1>8, NoHunk DEF PatchTypes
        <5>2. Patch!Meaning(diff[f], base[f]) = Patch!None
          BY <4>2, Says
        <5> QED
          BY <4>2, <5>1, <5>2 DEF Patch!Patched
      <4>3. CASE diff[f] # <<>> /\ diff[f] # Patch!Deleted
        <5>1. tree'[f] = new.out
          BY <1>1, <1>2, <1>3, <1>4, <1>8, <4>3 DEF PatchTypes
        <5>2. InPlace(diff[f], Patch!Kept(base[f])) /\ Patch!Kept(base[f]) \in Seq(Texts)
          BY <1>1, <1>2, <4>3, BaseIsText DEF Meant
        <5>3. \A i \in 1 .. Len(diff[f]) : Patch!Parsed(diff[f][i]) = diff[f][i]
          <6>1. \A h \in Patch!ToSet(diff[f]) : Patch!Parsed(h) = h
            BY <3>2, <4>3 DEF Patch!Plain
          <6>2. diff[f] \in Seq(Hunk)
            BY <5>2 DEF InPlace
          <6>3. \A i \in 1 .. Len(diff[f]) : diff[f][i] \in Patch!ToSet(diff[f])
            BY <6>2 DEF Patch!ToSet
          <6> QED
            BY <6>1, <6>3
        <5>4. Patch!ApplyFile(diff[f], Patch!Kept(base[f])).out = Patch!Meaning(diff[f], base[f])
          BY <4>3, <5>2, <5>3, FileIsPatched
        <5> QED
          BY <3>1, <5>1, <5>4 DEF new, Patch!Patched
      <4> QED
        BY <4>1, <4>2, <4>3
    <3>3. Patch!Patched(f) = Patch!Meaning(diff'[f], base'[f]) /\ (Patch!Plain(g)' <=> Patch!Plain(f))
      BY <1>2, <2>4 DEF Patch!Patched, Patch!Plain
    <3>4. Passed(g)'
      BY <2>4, <3>2, <3>3 DEF Passed, Patch!Patched
    <3>5. Awaits(g)'
      BY <1>4, <2>1, <2>4 DEF Awaits
    <3> QED
      BY <3>4, <3>5
  <2> QED
    BY <2>3, <2>4
<1> QED
  BY <1>2, <1>5, <1>7, <1>8 DEF PatchInv

\* Every step keeps the invariant, whoever takes it.
LEMMA PatchStep == PatchInv /\ [Patch!Next]_patchVars => PatchInv'
<1> SUFFICES ASSUME PatchInv, [Patch!Next]_patchVars PROVE PatchInv'
  OBVIOUS
<1>1. PatchTypes /\ Meant
  BY DEF PatchInv
<1>2. ASSUME NEW f \in Patch!Indices, NEW start \in 1 .. MaxLines + 1, NEW n \in 1 .. MaxSize,
             NEW body \in [1 .. n -> Patch!HunkLine], Patch!AddHunk(f, start, body)
      PROVE  PatchInv'
  BY <1>2, AuthorStep
<1>3. ASSUME NEW f \in Patch!Indices, Patch!Delete(f) PROVE PatchInv'
  BY <1>3, DeleteStep
<1>4. ASSUME NEW f \in Patch!Indices, Patch!Edit(f) PROVE PatchInv'
  <2>1. /\ edited' = {f} /\ UNCHANGED <<base, diff, next, result>>
        /\ \E new : tree' = [tree EXCEPT ![f] = new]
    BY <1>4 DEF Patch!Edit, Patch!commit
  <2>2. PatchTypes' /\ Meant'
    BY <1>1, <2>1 DEF PatchTypes, Meant
  <2> QED
    BY <2>1, <2>2 DEF PatchInv
<1>5. ASSUME UNCHANGED <<base, diff, tree, edited, next>>, result' = "OK" => next = Files + 1
      PROVE  PatchInv'
  <2>1. PatchTypes' /\ Meant'
    BY <1>1, <1>5 DEF PatchTypes, Meant
  <2>2. \A f \in Patch!Indices : (Passed(f)' <=> Passed(f)) /\ (Awaits(f)' <=> Awaits(f))
    BY <1>5 DEF Passed, Awaits, Patch!Plain, Patch!Patched
  <2> QED
    BY <1>5, <2>1, <2>2 DEF PatchInv
<1>6. CASE Patch!Commit
  BY <1>1, <1>5, <1>6 DEF Patch!Commit, Patch!commit, PatchTypes
<1>7. CASE Patch!Merge
  <2>1. CASE head = "moved"
    BY <1>5, <1>7, <2>1 DEF Patch!Merge, Patch!commit
  <2>2. CASE head # "moved"
    <3>1. /\ next = 0 /\ next' = 1 /\ UNCHANGED <<base, diff, tree, edited, result>> /\ result # "OK"
      BY <1>7, <2>2 DEF Patch!Merge, Patch!commit
    <3>2. PatchTypes'
      <4>1. next' \in 0 .. Files + 2 /\ result' # "OK"
        BY <3>1, PatchSizes
      <4> QED
        BY <1>1, <3>1, <4>1 DEF PatchTypes
    <3>4. Meant'
      BY <1>1, <3>1 DEF Meant
    <3>3. ASSUME edited = {} PROVE \A g \in Patch!Indices : Passed(g)' /\ Awaits(g)'
      <4>1. \A g \in Patch!Indices : ~(g < 0) /\ ~(g < 1)
        BY PatchSizes DEF Patch!Indices
      <4>2. \A g \in Patch!Indices : Awaits(g)
        BY <3>1, <3>3, PatchSizes DEF PatchInv
      <4> QED
        BY <3>1, <4>1, <4>2 DEF Passed, Awaits
    <3> QED
      BY <3>1, <3>2, <3>3, <3>4 DEF PatchInv
  <2> QED
    BY <2>1, <2>2
<1>8. CASE Patch!ApplyNext
  BY <1>8, GateStep
<1>9. CASE Patch!Report
  BY <1>5, <1>9 DEF Patch!Report, Patch!commit
<1>10. CASE UNCHANGED patchVars
  BY <1>1, <1>5, <1>10 DEF patchVars, PatchTypes
<1> QED
  BY <1>2, <1>3, <1>4, <1>6, <1>7, <1>8, <1>9, <1>10 DEF Patch!Next

\* When the gate reports success it has passed every file.
LEMMA PatchIsSound == PatchInv => Patch!AppliedAsPlanned
<1> SUFFICES ASSUME PatchInv, result = "OK", edited = {}, NEW f \in Patch!Indices, Patch!Plain(f)
             PROVE  tree[f] = Patch!Patched(f)
  BY DEF Patch!AppliedAsPlanned
<1>1. next = Files + 1
  BY DEF PatchInv, PatchTypes
<1>2. f < next /\ next =< Files + 1
  BY <1>1, PatchSizes DEF Patch!Indices
<1> QED
  BY <1>2 DEF PatchInv, Passed

\* In a tree as the commit has it, a merge of any number of files, hunks and lines that
\* reports success has made each of them what its diff says, however the author, the
\* gate and the others take turns (git/patch.py:245-277).
THEOREM PatchesApplyAsPlanned == ToolsSpec => []AppliedAsPlanned
<1>1. ToolsInit => PatchInv
  BY PatchInit DEF ToolsInit
<1>2. PatchInv /\ [ToolsNext]_toolsVars => PatchInv'
  <2>1. [ToolsNext]_toolsVars => [Patch!Next]_patchVars
    BY DEF ToolsNext, toolsVars
  <2> QED
    BY <2>1, PatchStep
<1>3. PatchInv => AppliedAsPlanned
  BY PatchIsSound DEF AppliedAsPlanned
<1> QED
  BY <1>1, <1>2, <1>3, PTL DEF ToolsSpec

-----------------------------------------------------------------------------
(***************************************************************************)
(* The stability layer, for any number of callers, any caps and any        *)
(* breaker: the count of stuck threads, its bound, and no second effect of *)
(* a call that may have had one.                                           *)
(***************************************************************************)
\* The assumed sizes one by one.
LEMMA Sizes == /\ IsFiniteSet(Callers) /\ IsFiniteSet(Threads) /\ Threads \subseteq Nat
               /\ MaxStuck \in Nat /\ MaxStuck > 0 /\ MaxAttempts \in Nat /\ MaxAttempts > 0
               /\ Threshold \in Nat /\ 0 \in 0 .. MaxAttempts
BY StabilityAssumption

USE Sizes

\* Where a caller that starts another attempt may stand, and how many it has made.
Tried(c) ==
  /\ pc[c] \in {"idle", "cool"} => tries[c] = 0
  /\ pc[c] = "try" => tries[c] < MaxAttempts

StableTyped == TypeOK /\ \A c \in Callers : Tried(c)

\* At the start no thread runs.
LEMMA TypedInit == Init => StableTyped
<1> SUFFICES ASSUME Init PROVE StableTyped
  OBVIOUS
<1>1. TypeOK
  BY DEF Init, TypeOK, Outcomes
<1>2. ASSUME NEW c \in Callers PROVE Tried(c)
  <2>1. pc[c] = "idle" /\ tries[c] = 0
    BY DEF Init
  <2> QED
    BY <2>1 DEF Tried
<1> QED
  BY <1>1, <1>2 DEF StableTyped

\* What the retry loop decides, in the terms of the proof.
LEMMA Judged ==
  ASSUME TypeOK, NEW c \in Callers, NEW o, NEW n, Judge(c, o, n)
  PROVE  /\ pc' \in [Callers -> {"idle", "cool", "try", "wait", "late", "count", "mark", "reset"}]
         /\ \A d \in Callers : d # c => pc'[d] = pc[d]
         /\ pc'[c] \in {"try", "count", "reset"}
         /\ pc'[c] = "try" => n < MaxAttempts /\ (pure[c] \/ o = "transient")
BY DEF Judge, Goto, Retryable, TypeOK

\* Every step of a caller or a thread keeps the types.
LEMMA TypedStep == StableTyped /\ [Next]_vars => StableTyped'
<1> SUFFICES ASSUME StableTyped, [Next]_vars PROVE StableTyped'
  OBVIOUS
<1> USE DEF StableTyped, TypeOK, Tried, Outcomes, threads, breaker, call
<1>1. CASE Elapse
  BY <1>1 DEF Elapse
<1>2. ASSUME NEW c \in Callers, Call(c) PROVE StableTyped'
  BY <1>2 DEF Call, Goto
<1>3. ASSUME NEW c \in Callers, Continue(c) PROVE StableTyped'
  <2>1. CASE Cool(c)
    BY <2>1 DEF Cool, Goto
  <2>2. CASE Refuse(c)
    <3>1. Judge(c, "permanent", tries[c] + 1)
      BY <2>2 DEF Refuse
    <3> QED
      BY <2>2, <3>1, Judged DEF Refuse
  <2>3. ASSUME NEW t \in Threads, Start(c, t) PROVE StableTyped'
    BY <2>3 DEF Start, Goto
  <2>4. ASSUME NEW t \in Threads, Reap(c, t) PROVE StableTyped'
    <3>1. Judge(c, th[t], tries[c])
      BY <2>4 DEF Reap
    <3> QED
      BY <2>4, <3>1, Judged DEF Reap
  <2>5. ASSUME NEW t \in Threads, TimeOut(c, t) PROVE StableTyped'
    BY <2>5 DEF TimeOut, Goto
  <2>6. ASSUME NEW t \in Threads, Abandon(c, t) PROVE StableTyped'
    <3>1. Judge(c, "timeout", tries[c])
      BY <2>6 DEF Abandon, GiveUp
    <3>2. stuck' \in Nat /\ counted' \subseteq Threads
      <4>1. CASE t \in settled
        BY <2>6, <4>1 DEF Abandon
      <4>2. CASE t \notin settled
        <5>1. counted' = counted \cup {t} /\ stuck' = stuck + 1
          BY <2>6, <4>2 DEF Abandon
        <5> QED
          BY <5>1
      <4> QED
        BY <4>1, <4>2
    <3>3. cur' \in [Callers -> SUBSET Threads]
      BY <2>6 DEF Abandon, GiveUp
    <3>4. UNCHANGED <<th, settled, fails, until, half, pure, tries, began, seen>>
      BY <2>6 DEF Abandon, GiveUp
    <3>5. TypeOK'
      BY <3>1, <3>2, <3>3, <3>4, Judged
    <3> QED
      BY <3>1, <3>4, <3>5, Judged
  <2>7. CASE Count(c)
    <3>1. CASE Threshold = 0
      <4>1. Leave(c) /\ UNCHANGED breaker
        BY <2>7, <3>1 DEF Count
      <4> QED
        BY <4>1 DEF Leave, Goto
    <3>2. CASE Threshold # 0
      <4>1. /\ Goto(c, "mark") /\ half' = FALSE
            /\ UNCHANGED <<threads, pure, tries, began, cur, fails, until>>
            /\ \E n \in {Threshold, fails + 1} : seen' = [seen EXCEPT ![c] = n]
        BY <2>7, <3>2 DEF Count
      <4>2. seen' \in [Callers -> Nat]
        BY <4>1
      <4> QED
        BY <4>1, <4>2 DEF Goto
    <3> QED
      BY <3>1, <3>2
  <2>8. CASE Mark(c)
    BY <2>8 DEF Mark, Leave, Goto
  <2>9. CASE Reset(c)
    BY <2>9 DEF Reset, Leave, Goto
  <2> QED
    BY <1>3, <2>1, <2>2, <2>3, <2>4, <2>5, <2>6, <2>7, <2>8, <2>9 DEF Continue, Attempt
<1>4. ASSUME NEW t \in Threads, Finish(t) PROVE StableTyped'
  BY <1>4 DEF Finish
<1>5. ASSUME NEW t \in Threads, Settle(t) PROVE StableTyped'
  BY <1>5 DEF Settle
<1>6. CASE UNCHANGED vars
  BY <1>6 DEF vars
<1> QED
  BY <1>1, <1>2, <1>3, <1>4, <1>5, <1>6 DEF Next

\* TypeOK is an invariant of the executor.
THEOREM StabilityTypes == Spec => []TypeOK
<1>1. StableTyped => TypeOK
  BY DEF StableTyped
<1> QED
  BY <1>1, TypedInit, TypedStep, PTL DEF Spec

-----------------------------------------------------------------------------
\* A thread belongs to one call, and the one waited for is one of its call's.
Owned ==
  /\ \A c \in Callers : /\ cur[c] \subseteq began[c]
                        /\ \A t, u \in cur[c] : t = u
                        /\ pc[c] \notin {"wait", "late"} => cur[c] = {}
                        /\ pc[c] \in {"idle", "cool"} => began[c] = {}
  /\ \A c, d \in Callers : c # d => began[c] \cap began[d] = {}

\* No thread that has settled, or is waited for, is counted.
Apart == counted \cap settled = {} /\ \A c \in Callers : counted \cap cur[c] = {}

(* At the start no call has a thread: both parts of ownership hold.      *)
LEMMA OwnedInit == Init => Owned /\ Apart
BY DEF Init, Owned, Apart

\* The calls keep their threads apart.
LEMMA OwnedStep == StableTyped /\ Owned /\ [Next]_vars => Owned'
<1> SUFFICES ASSUME StableTyped, Owned, [Next]_vars PROVE Owned'
  OBVIOUS
<1> USE DEF StableTyped, TypeOK, Owned, threads, breaker, call
<1>1. CASE Elapse
  BY <1>1 DEF Elapse
<1>2. ASSUME NEW c \in Callers, Call(c) PROVE Owned'
  BY <1>2 DEF Call, Goto
<1>3. ASSUME NEW c \in Callers, Continue(c) PROVE Owned'
  <2>1. CASE Cool(c)
    BY <2>1 DEF Cool, Goto
  <2>2. CASE Refuse(c)
    <3>1. Judge(c, "permanent", tries[c] + 1)
      BY <2>2 DEF Refuse
    <3> QED
      BY <2>2, <3>1, Judged DEF Refuse
  <2>3. ASSUME NEW t \in Threads, Start(c, t) PROVE Owned'
    <3>1. \A d \in Callers : t \notin began[d]
      BY <2>3 DEF Start, Least, Free
    <3> QED
      BY <2>3, <3>1 DEF Start, Goto
  <2>4. ASSUME NEW t \in Threads, Reap(c, t) PROVE Owned'
    <3>1. Judge(c, th[t], tries[c])
      BY <2>4 DEF Reap
    <3>2. cur' = [cur EXCEPT ![c] = {}]
      BY <2>4 DEF Reap
    <3>3. began'[c] \subseteq began[c] /\ \A d \in Callers : d # c => began'[d] = began[d]
      BY <2>4 DEF Reap
    <3> QED
      BY <3>1, <3>2, <3>3, Judged
  <2>5. ASSUME NEW t \in Threads, TimeOut(c, t) PROVE Owned'
    BY <2>5 DEF TimeOut, Goto
  <2>6. ASSUME NEW t \in Threads, Abandon(c, t) PROVE Owned'
    <3>1. Judge(c, "timeout", tries[c])
      BY <2>6 DEF Abandon, GiveUp
    <3> QED
      BY <2>6, <3>1, Judged DEF Abandon, GiveUp
  <2>7. CASE Leave(c) /\ pc[c] \in {"count", "mark", "reset"}
    BY <2>7 DEF Leave, Goto
  <2>8. CASE Goto(c, "mark") /\ UNCHANGED <<began, cur>> /\ pc[c] = "count"
    BY <2>8 DEF Goto
  <2> QED
    BY <1>3, <2>1, <2>2, <2>3, <2>4, <2>5, <2>6, <2>7, <2>8
    DEF Continue, Attempt, Count, Mark, Reset
<1>4. ASSUME NEW t \in Threads, Finish(t) \/ Settle(t) PROVE Owned'
  BY <1>4 DEF Finish, Settle
<1>5. CASE UNCHANGED vars
  BY <1>5 DEF vars
<1> QED
  BY <1>1, <1>2, <1>3, <1>4, <1>5 DEF Next

\* Only a thread that is given up is counted, and it loses its count when it settles.
LEMMA ApartStep == StableTyped /\ Owned /\ Apart /\ StuckCounted /\ [Next]_vars => Apart' /\ StuckCounted'
<1> SUFFICES ASSUME StableTyped, Owned, Apart, StuckCounted, [Next]_vars PROVE Apart' /\ StuckCounted'
  OBVIOUS
<1> USE DEF StableTyped, TypeOK, Apart, StuckCounted, threads, breaker, call
<1>0. IsFiniteSet(counted)
  BY FS_Subset
<1>1. CASE UNCHANGED <<counted, stuck, settled, cur>>
  BY <1>1
<1>2. ASSUME NEW c \in Callers, NEW t \in Threads, Start(c, t) PROVE Apart' /\ StuckCounted'
  <2>1. t \in settled
    BY <1>2 DEF Start, Least, Free
  <2> QED
    BY <1>2, <2>1 DEF Start
<1>3. ASSUME NEW c \in Callers, NEW t \in Threads, Reap(c, t) PROVE Apart' /\ StuckCounted'
  BY <1>3 DEF Reap
<1>4. ASSUME NEW c \in Callers, NEW t \in Threads, Abandon(c, t) PROVE Apart' /\ StuckCounted'
  <2>1. t \in cur[c] /\ cur' = [cur EXCEPT ![c] = {}] /\ settled' = settled
    BY <1>4 DEF Abandon, GiveUp
  <2>2. CASE t \in settled
    BY <1>4, <2>1, <2>2 DEF Abandon
  <2>3. CASE t \notin settled
    <3>1. counted' = counted \cup {t} /\ stuck' = stuck + 1
      BY <1>4, <2>3 DEF Abandon
    <3>2. t \notin counted /\ \A d \in Callers : d # c => t \notin cur[d]
      BY <2>1 DEF Owned
    <3>3. Cardinality(counted \cup {t}) = Cardinality(counted) + 1
      BY <1>0, <3>2, FS_AddElement
    <3> QED
      BY <2>1, <2>3, <3>1, <3>2, <3>3
  <2> QED
    BY <2>2, <2>3
<1>5. ASSUME NEW t \in Threads, Settle(t) PROVE Apart' /\ StuckCounted'
  <2>1. CASE t \in counted
    <3>1. Cardinality(counted \ {t}) = Cardinality(counted) - 1
      BY <1>0, <2>1, FS_RemoveElement
    <3>2. Cardinality(counted) # 0 /\ Cardinality(counted) \in Nat
      BY <1>0, <2>1, FS_EmptySet, FS_CardinalityType
    <3> QED
      BY <1>5, <2>1, <3>1, <3>2 DEF Settle
  <2>2. CASE t \notin counted
    <3>1. counted \ {t} = counted
      BY <2>2
    <3> QED
      BY <1>5, <2>2, <3>1 DEF Settle
  <2> QED
    BY <2>1, <2>2
<1> QED
  BY <1>1, <1>2, <1>3, <1>4, <1>5
  DEF Next, vars, Elapse, Call, Continue, Attempt, Cool, Count, Mark, Reset, Leave,
      Refuse, TimeOut, Finish

\* A caller that joins Pending has seen the cap unspent; one that adds to the stuck
\* threads leaves Pending.
LEMMA CapStep == StableTyped /\ CapHolds /\ [Next]_vars => CapHolds'
<1> SUFFICES ASSUME StableTyped, CapHolds, [Next]_vars PROVE CapHolds'
  OBVIOUS
<1> USE DEF StableTyped, TypeOK, CapHolds, threads, breaker, call
<1>0. /\ IsFiniteSet(Pending) /\ IsFiniteSet(Pending')
      /\ Cardinality(Pending) \in Nat /\ Cardinality(Pending') \in Nat /\ Cardinality(Callers) \in Nat
  BY FS_Subset, FS_CardinalityType DEF Pending
<1>1. CASE Pending' \subseteq Pending /\ stuck' \in Nat /\ stuck' =< stuck
  <2>1. Cardinality(Pending') =< Cardinality(Pending)
    BY <1>0, <1>1, FS_Subset
  <2> QED
    BY <1>0, <1>1, <2>1
<1>2. ASSUME NEW c \in Callers, NEW t \in Threads, Start(c, t) PROVE CapHolds'
  <2>1. Cardinality(Pending') =< Cardinality(Callers)
    BY FS_Subset DEF Pending
  <2> QED
    BY <1>0, <1>2, <2>1 DEF Start
<1>3. ASSUME NEW c \in Callers, NEW t \in Threads, Abandon(c, t) PROVE CapHolds'
  <2>1. Judge(c, "timeout", tries[c])
    BY <1>3 DEF Abandon, GiveUp
  <2>2. c \in Pending /\ Pending' = Pending \ {c}
    BY <1>3, <2>1, Judged DEF Abandon, GiveUp, Pending
  <2>3. Cardinality(Pending') = Cardinality(Pending) - 1
    BY <1>0, <2>2, FS_RemoveElement
  <2>4. stuck' \in {stuck, stuck + 1}
    <3>1. CASE t \in settled
      BY <1>3, <3>1 DEF Abandon
    <3>2. CASE t \notin settled
      BY <1>3, <3>2 DEF Abandon
    <3> QED
      BY <3>1, <3>2
  <2> QED
    BY <1>0, <2>3, <2>4
<1>4. ASSUME NEW c \in Callers, NEW t \in Threads, Reap(c, t) PROVE CapHolds'
  <2>1. Judge(c, th[t], tries[c])
    BY <1>4 DEF Reap
  <2>2. Pending' \subseteq Pending /\ stuck' = stuck
    BY <1>4, <2>1, Judged DEF Reap, Pending
  <2> QED
    BY <1>1, <2>2
<1>5. ASSUME NEW c \in Callers, Refuse(c) PROVE CapHolds'
  <2>1. Judge(c, "permanent", tries[c] + 1)
    BY <1>5 DEF Refuse
  <2>2. Pending' \subseteq Pending /\ stuck' = stuck
    BY <1>5, <2>1, Judged DEF Refuse, Pending
  <2> QED
    BY <1>1, <2>2
<1>6. ASSUME NEW c \in Callers, NEW t \in Threads, TimeOut(c, t) PROVE CapHolds'
  <2>1. Pending' \subseteq Pending /\ stuck' = stuck
    BY <1>6 DEF TimeOut, Goto, Pending
  <2> QED
    BY <1>1, <2>1
<1>7. ASSUME NEW c \in Callers, NEW l \in {"idle", "cool", "try", "mark"}, Goto(c, l), stuck' = stuck
      PROVE CapHolds'
  <2>1. Pending' \subseteq Pending
    BY <1>7 DEF Goto, Pending
  <2> QED
    BY <1>1, <1>7, <2>1
<1>8. ASSUME NEW c \in Callers, Call(c) \/ Cool(c) \/ Count(c) \/ Mark(c) \/ Reset(c) PROVE CapHolds'
  <2>1. stuck' = stuck /\ \E l \in {"idle", "cool", "try", "mark"} : Goto(c, l)
    BY <1>8 DEF Call, Cool, Count, Mark, Reset, Leave
  <2> QED
    BY <1>7, <2>1
<1>9. CASE Elapse \/ (\E t \in Threads : Finish(t)) \/ UNCHANGED vars
  <2>1. Pending' = Pending /\ stuck' = stuck
    BY <1>9 DEF Elapse, Finish, vars, Pending
  <2> QED
    BY <1>1, <2>1
<1>10. ASSUME NEW t \in Threads, Settle(t) PROVE CapHolds'
  <2>1. Pending' = Pending /\ stuck' \in Nat /\ stuck' =< stuck
    BY <1>10 DEF Settle, Pending
  <2> QED
    BY <1>1, <2>1
<1> QED
  BY <1>2, <1>3, <1>4, <1>5, <1>6, <1>8, <1>9, <1>10 DEF Next, Continue, Attempt

\* The count of stuck threads is exact, and the cap is overrun by no more than the
\* callers that passed it together (tool/stability.py:221-279).
THEOREM StuckThreads == Spec => []ThreadsBounded
<1> DEFINE Inv == StableTyped /\ Owned /\ Apart /\ ThreadsBounded
<1>1. Init => Inv
  <2> SUFFICES ASSUME Init PROVE ThreadsBounded
    BY TypedInit, OwnedInit
  <2>1. stuck = 0 /\ counted = {} /\ Pending = {}
    BY DEF Init, Pending
  <2>2. Cardinality({}) = 0 /\ Cardinality(Callers) \in Nat
    BY FS_EmptySet, FS_CardinalityType
  <2> QED
    BY <2>1, <2>2 DEF ThreadsBounded, StuckCounted, CapHolds
<1>2. Inv /\ [Next]_vars => Inv'
  BY TypedStep, OwnedStep, ApartStep, CapStep DEF ThreadsBounded
<1> QED
  BY <1>1, <1>2, PTL DEF Spec

-----------------------------------------------------------------------------
\* The threads of a call that have had their effect, or may still have it.
Acting(c) == {t \in began[c] : th[t] \in {"run", "ok"}}

\* A call that may have side effects tries again only when no thread may act, and
\* waits for the only one that may.
OneActs ==
  \A c \in Callers : ~pure[c] =>
    /\ pc[c] = "try" => Acting(c) = {}
    /\ pc[c] \in {"wait", "late"} => Acting(c) \subseteq cur[c]
    /\ \A t, u \in Acting(c) : t = u

(* No step lets a second attempt of one call act on the world.           *)
LEMMA OneActsStep == StableTyped /\ Owned /\ OneActs /\ [Next]_vars => OneActs'
<1> SUFFICES ASSUME StableTyped, Owned, OneActs, [Next]_vars PROVE OneActs'
  OBVIOUS
<1> USE DEF StableTyped, TypeOK, OneActs, Acting, threads, breaker, call
<1>1. CASE Elapse
  BY <1>1 DEF Elapse
<1>2. ASSUME NEW c \in Callers, Call(c) PROVE OneActs'
  BY <1>2 DEF Call, Goto, Owned
<1>3. ASSUME NEW c \in Callers, Continue(c) PROVE OneActs'
  <2>1. CASE Cool(c)
    BY <2>1 DEF Cool, Goto, Owned
  <2>2. CASE Refuse(c)
    <3>1. Judge(c, "permanent", tries[c] + 1)
      BY <2>2 DEF Refuse
    <3> QED
      BY <2>2, <3>1, Judged DEF Refuse
  <2>3. ASSUME NEW t \in Threads, Start(c, t) PROVE OneActs'
    <3>1. \A d \in Callers : t \notin began[d]
      BY <2>3 DEF Start, Least, Free
    <3>2. \A d \in Callers : d # c => Acting(d)' = Acting(d)
      BY <2>3, <3>1 DEF Start
    <3>3. ~pure[c] => Acting(c)' \subseteq {t}
      BY <2>3, <3>1 DEF Start
    <3> QED
      BY <2>3, <3>2, <3>3 DEF Start, Goto
  <2>4. ASSUME NEW t \in Threads, Reap(c, t) PROVE OneActs'
    <3>1. Judge(c, th[t], tries[c]) /\ t \in began[c] /\ th[t] # "run" /\ t \in cur[c]
      BY <2>4 DEF Reap, Owned
    <3>2. \A d \in Callers : d # c => Acting(d)' = Acting(d)
      BY <2>4, <3>1 DEF Reap, Owned
    <3>3. CASE th[t] = "ok"
      <4>1. Acting(c)' = Acting(c)
        BY <2>4, <3>1, <3>3 DEF Reap
      <4>2. pc'[c] \in {"reset", "count"}
        BY <3>1, <3>3 DEF Judge, Goto
      <4> QED
        BY <2>4, <3>1, <3>2, <4>1, <4>2, Judged DEF Reap
    <3>4. CASE th[t] # "ok"
      <4>1. Acting(c)' = Acting(c) \ {t}
        BY <2>4, <3>1, <3>4 DEF Reap
      <4>2. ~pure[c] => Acting(c)' = {}
        <5>1. ~pure[c] => Acting(c) \subseteq cur[c]
          BY <2>4 DEF Reap
        <5>2. cur[c] \subseteq {t}
          BY <3>1 DEF Owned
        <5> QED
          BY <4>1, <5>1, <5>2
      <4> QED
        BY <2>4, <3>1, <3>2, <4>2, Judged DEF Reap
    <3> QED
      BY <3>3, <3>4
  <2>5. ASSUME NEW t \in Threads, TimeOut(c, t) PROVE OneActs'
    BY <2>5 DEF TimeOut, Goto
  <2>6. ASSUME NEW t \in Threads, Abandon(c, t) PROVE OneActs'
    <3>1. Judge(c, "timeout", tries[c]) /\ UNCHANGED <<th, began, pure>>
          /\ \A d \in Callers : d # c => cur'[d] = cur[d]
      BY <2>6 DEF Abandon, GiveUp
    <3> QED
      BY <3>1, Judged
  <2>7. CASE Leave(c) /\ pc[c] \in {"count", "mark", "reset"}
    <3>1. \A d \in Callers : d # c => Acting(d)' = Acting(d)
      BY <2>7 DEF Leave, Owned
    <3>2. pure'[c] /\ cur' = cur
      BY <2>7 DEF Leave
    <3>3. \A d \in Callers : d # c => pure'[d] = pure[d] /\ pc'[d] = pc[d]
      BY <2>7 DEF Leave, Goto
    <3>4. ASSUME NEW d \in Callers, d # c, ~pure'[d]
          PROVE  /\ pc'[d] = "try" => Acting(d)' = {}
                 /\ pc'[d] \in {"wait", "late"} => Acting(d)' \subseteq cur'[d]
                 /\ \A t, u \in Acting(d)' : t = u
      <4> HIDE DEF Acting
      <4> QED
        BY <3>1, <3>2, <3>3, <3>4
    <3> QED
      BY <3>2, <3>4
  <2>8. CASE Goto(c, "mark") /\ UNCHANGED <<th, began, cur, pure>>
    BY <2>8 DEF Goto
  <2> QED
    BY <1>3, <2>1, <2>2, <2>3, <2>4, <2>5, <2>6, <2>7, <2>8
    DEF Continue, Attempt, Count, Mark, Reset
<1>4. ASSUME NEW t \in Threads, Finish(t) \/ Settle(t) PROVE OneActs'
  <2>1. \A c \in Callers : Acting(c)' \subseteq Acting(c)
    BY <1>4 DEF Finish, Settle
  <2> QED
    BY <1>4, <2>1 DEF Finish, Settle
<1>5. CASE UNCHANGED vars
  BY <1>5 DEF vars
<1> QED
  BY <1>1, <1>2, <1>3, <1>4, <1>5 DEF Next

\* A set whose members are all equal has at most one.
LEMMA AtMostOne ==
  ASSUME NEW S, \A t, u \in S : t = u
  PROVE  Cardinality(S) =< 1
<1>1. CASE S = {}
  BY <1>1, FS_EmptySet
<1>2. CASE S # {}
  <2>1. PICK t : t \in S
    BY <1>2
  <2>2. S = {t}
    BY <2>1
  <2>3. Cardinality(S) = 1
    BY <2>2, FS_Singleton
  <2> QED
    BY <2>3
<1> QED
  BY <1>1, <1>2

\* However attempts, timeouts and late returns meet, at most one thread of a call with
\* side effects has had its effect or may still have it (tool/stability.py:283-304).
THEOREM EffectsAreSingle == Spec => []NoDoubleEffect
<1> DEFINE Inv == StableTyped /\ Owned /\ OneActs
<1>1. Init => Inv
  BY TypedInit, OwnedInit DEF Init, OneActs, Acting
<1>2. Inv /\ [Next]_vars => Inv'
  BY TypedStep, OwnedStep, OneActsStep
<1>3. Inv => NoDoubleEffect
  <2> SUFFICES ASSUME OneActs, NEW c \in Callers, ~pure[c] PROVE Cardinality(Acting(c)) =< 1
    BY DEF NoDoubleEffect, Acting
  <2> QED
    BY AtMostOne DEF OneActs
<1> QED
  BY <1>1, <1>2, <1>3, PTL DEF Spec
=============================================================================
