------------------------------ MODULE MCTools ------------------------------
(* What the agent acts with, for TLC: the stability layer around a tool, the agent
   loop, commands and their sandbox, a batch of sub-agents, the model client, the choice
   of its model and the leases on credentials, patches, the check that writes mutants into the sources, and
   tools that reach out of the program.  They share no state: a behaviour runs the part
   that it picks at the start. *)
EXTENDS ToolStability, Sequences, TLC

CONSTANTS Calls, Gated, Asks, Denies, MaxIterations, Steps, Budget, MaxCost, Words, Triggers,
          Names, Goals, RoundSize,          \* of the agent loop
          MaxProcesses, MaxHeirs,           \* of the broker
          NTasks, TaskNames, MaxWorkers, Retries, Specs, Pure, Cards, MemoryTools, \* of a batch, a team
          Tools, Dotted, MaxCalls, Parts,   \* of the model client
          Sources, NTests, Lines, CASES, MaxRuns, MaxEdits,    \* of the check of mutants
          Admins, Runs, Endpoints, Keys, Given, Models, Deployment, MaxRequests, MaxRestarts,
          Borrowers, Leases, TTL, MaxTime,  \* of the choice of models and the leases
          Urls, Blocked, Addresses, Public, MaxRedirects, MaxBytes, MaxChunk,
          Remote, Dangerous, MaxOps, Aliases, Titles, Needs, MaxLoads,    \* of what reaches outside
          Files, Texts, Dashed, Crossed, MaxLines, MaxHunks, MaxSize,     \* of a patch
          x, y,                             \* two texts
          nothing                           \* the placeholder

\* What the loop is configured with (loop.py:91-135): numbers, and what the names of the
\* tools say.
ASSUME LoopAssumption ==
  /\ MaxIterations \in Nat /\ Steps \in Nat /\ Budget \in Nat /\ MaxCost \in Nat
  /\ RoundSize \in Nat /\ Names \in [Calls -> SUBSET Words]

\* Of the tools that reach outside: sizes are numbers, the placeholder is no result and no
\* name of a tool.
ASSUME OutsideAssumption ==
  /\ MaxRedirects \in Nat /\ MaxBytes \in Nat /\ MaxChunk \in Nat
  /\ nothing \notin {"none", "failed"} /\ nothing \notin Dangerous

\* A lease has a length; the placeholder is no time.
ASSUME LeaseAssumption == TTL \in Nat /\ nothing \notin Nat

\* A key is no placeholder, and the model that takes an address is in the catalog that is
\* looked at; the deployment is no user of it.
ASSUME ModelAssumption ==
  /\ nothing \notin Callers \cup Keys \cup {Given} /\ Deployment \notin Callers
  /\ "custom" \in Models /\ Models \subseteq {"fake", "openai", "custom"}
  /\ nothing \notin [key : Keys \cup {Given, nothing}, url : Endpoints \cup {nothing}]

\* A batch has a number of tasks; the card of an agent is no tool of the memory.
ASSUME BatchAssumption == NTasks \in Nat /\ MemoryTools \cap Cards = {}

\* A call comes in at least one fragment.
ASSUME ClientAssumption == Parts \in Nat \ {0} /\ MaxCalls \in Nat

\* A patch is of a number of files; its bounds are numbers.
ASSUME PatchAssumption == {Files, MaxLines, MaxHunks, MaxSize} \subseteq Nat

\* Values for TLC, by the names in Tools.cfg: x tells that read is meant, fetch tells of
\* fetch, which is named so, and of shell.
CONSTANTS read, fetch, shell, drop
NamesOf == [c \in {read, fetch, shell, drop} |-> {c} \cap {fetch}]
TriggersOf == read :> {x} @@ fetch :> {fetch} @@ shell :> {fetch} @@ drop :> {}
GoalsOf == <<{}, {x}, {}, {x}>>
CasesOf == <<[expect |-> "kill", rel |-> x, test |-> 1], [expect |-> "equiv", rel |-> y, test |-> 1]>>

VARIABLES
  part,
  phase, iter, queue, worked, broke, succeeded, usd, hits, stages, plan, failed, executed, suspect, said,
  active, at, alive, deaf, termed, heir, heirs, doomed,
  declared, spec, host, wavered, reported, tier, box, dirs, spoilt,
  name, job, stage, rest, cut, order, outputs, runs, handoff, registered, shared,
  chat, unmap, meant, sent, acc, reply,
  base, diff, tree, head, edited, next, result,
  file, wanted, bak, manifest, point, case, goal, raw, PENDING, leave, red, BASELINES, rows,
  evidence, starts, edits, cover, chosen,
  vault, default, choice, owner, seats, demand, probes, latest, asked, reboots, told, crossed,
  now, credential, lease, task, withdrawn, answer,
  online, page, linked, cached,
  provider, last_error, seeker, mixed,
  rules, op, inbox, replies, ran, imported, ops, lines, heard,
  versions, cards, bound, tools, loads, shown

Loop == INSTANCE AgentLoop WITH seen <- succeeded, total <- stages

Exec == INSTANCE ExecBroker WITH Users <- Callers

Batch == INSTANCE Dispatch WITH
  phase <- stage, tries <- runs, Tasks <- 1 .. NTasks, Names <- TaskNames

Client == INSTANCE ModelClient WITH at <- chat, Chats <- Callers

Patch == INSTANCE PatchFile

Mutants == INSTANCE MutantCheck WITH
  at <- point, runs <- starts, Files <- Sources, Tests <- 1 .. NTests, None <- nothing

\* The table of cases is well formed; a shard has finitely many lines to cover.
ASSUME MutantAssumption ==
  /\ CASES \in Seq(Mutants!Entry)
  /\ nothing \notin Sources /\ NTests \in Nat /\ IsFiniteSet(Lines)

Choice == INSTANCE ModelChoice WITH
  row <- owner, sess <- seats, op <- demand, restarts <- reboots, None <- nothing,
  Users <- Callers, Urls <- Endpoints

Outside == INSTANCE OutsideTools WITH None <- nothing

-----------------------------------------------------------------------------
\* A part that does not run stays in one of its initial states.
ToolsInit ==
  /\ part \in {"tool", "loop", "exec", "sandbox", "batch", "team", "client", "patch", "models", "leases",
              "mutants", "shard", "page", "search", "mcp", "skill"}
  /\ Init /\ Loop!Init /\ Exec!Init /\ Client!Init /\ Outside!InitSkill
  /\ Exec!InitSandbox
  /\ (part # "sandbox" =>
        declared = [isolation |-> "auto", require |-> FALSE] /\ spec = [isolation |-> "default"]
        /\ host = "bare")
  /\ Batch!Init /\ (part # "batch" => name = [t \in 1 .. NTasks |-> CHOOSE n \in TaskNames : TRUE] /\ stage = "wait")
  /\ Batch!InitTeam /\ (part # "team" => registered = {})
  /\ Patch!Init /\ (part # "patch" => base = [f \in Patch!Indices |-> Patch!None])
  /\ Mutants!Init /\ (part # "shard" => cover = [t \in 1 .. NTests |-> {}])
  /\ Choice!Init /\ (part # "models" => default.id = "fake")
  /\ part # "leases" => credential = nothing
  /\ Outside!InitFetch /\ (part # "page" => ~online)
  /\ Outside!InitSearch /\ (part # "search" => provider = "http")
  /\ Outside!InitMcp /\ (part # "mcp" => rules = [t \in Remote |-> "ALLOW"])

loopVars == <<phase, iter, queue, worked, broke, succeeded, usd, hits, stages, plan, failed,
              executed, suspect, said>>
execVars == <<active, at, alive, deaf, termed, heir, heirs, doomed>>
sandboxVars == <<declared, spec, host, wavered, reported, tier, box, dirs, spoilt>>
batchVars == <<name, job, stage, rest, cut, order, outputs, runs, handoff>>
teamVars == <<registered, shared>>
clientVars == <<chat, unmap, meant, sent, acc, reply>>
patchVars == <<base, diff, tree, head, edited, next, result>>
mutantVars == <<file, wanted, bak, manifest, point, case, goal, raw, PENDING, leave, red,
                BASELINES, rows, evidence, starts, edits, cover, chosen>>
choiceVars == <<vault, default, choice, owner, seats, demand, probes, latest, asked, reboots, told,
                crossed, now, credential, lease, task, withdrawn, answer>>
fetchVars == <<online, page, linked, cached>>
searchVars == <<provider, last_error, seeker, mixed>>
mcpVars == <<rules, op, inbox, replies, ran, imported, ops, lines, heard>>
skillVars == <<versions, cards, bound, tools, loads, shown>>
toolsVars == <<part, vars, loopVars, execVars, sandboxVars, batchVars, teamVars, clientVars, patchVars,
               mutantVars, choiceVars, fetchVars, searchVars, mcpVars, skillVars>>

ToolsNext ==
  /\ UNCHANGED part
  /\ IF part = "tool" THEN Next ELSE UNCHANGED vars
  /\ IF part = "loop" THEN Loop!Next ELSE UNCHANGED loopVars
  /\ IF part = "exec" THEN Exec!Next ELSE UNCHANGED execVars
  /\ IF part = "sandbox" THEN Exec!Sandbox ELSE UNCHANGED sandboxVars
  /\ IF part = "batch" THEN Batch!Next ELSE UNCHANGED batchVars
  /\ IF part = "team" THEN Batch!Team ELSE UNCHANGED teamVars
  /\ IF part = "client" THEN Client!Next ELSE UNCHANGED clientVars
  /\ IF part = "patch" THEN Patch!Next ELSE UNCHANGED patchVars
  /\ CASE part = "mutants" -> Mutants!Next
       [] part = "shard" -> Mutants!suggest_tests
       [] OTHER -> UNCHANGED mutantVars
  /\ CASE part = "models" -> Choice!Choose
       [] part = "leases" -> Choice!LendOnly
       [] OTHER -> UNCHANGED choiceVars
  /\ IF part = "page" THEN Outside!Fetch ELSE UNCHANGED fetchVars
  /\ IF part = "search" THEN Outside!Search ELSE UNCHANGED searchVars
  /\ IF part = "mcp" THEN Outside!Mcp ELSE UNCHANGED mcpVars
  /\ IF part = "skill" THEN Outside!Skill ELSE UNCHANGED skillVars

\* Only parts with a liveness property have fairness.
ToolsSpec ==
  /\ ToolsInit /\ [][ToolsNext]_toolsVars
  /\ Loop!Fairness /\ Exec!Fairness

-----------------------------------------------------------------------------
\* A run of the loop and a command come to an end: with a model that asks for tools
\* without end and meets failures, and processes that ignore SIGTERM (loop.py:243, 372,
\* broker.py:205-239).
EverythingEnds == Loop!RunEnds /\ Exec!ExecutionEnds

\* What the loop promises between its rounds: a suspicious output gates what follows it, a
\* response over the budget has no effect, a complex task has a plan, which is moved by new
\* successes only, and a tool is held back only while nothing tells that it is meant
\* (loop.py:181-188, 254-256, 326-346, planner.py:80-333, intent.py:115-191).
LoopGuards == Loop!LoopGuards

\* What several threads do at a time is neither lost nor told twice: processes of the
\* broker, tasks of a batch, fragments of tool calls; nor is a source
\* file when the check of mutants is killed, or a line that a shard must cover, or the
\* key of a model whose import was confirmed.  And nothing of it reaches another: a
\* chosen model drives the runs of its user only, a probe with a key of its own is not
\* shown, a credential is lent for its time, and a command runs in the isolation that was
\* demanded, in a directory of its own.  An agent has no agents, and no tools
\* with side effects but the memory's.  What comes from outside is what was
\* judged: a page from the addresses that were admitted, an error of a search not told as
\* "nothing found", a call of another server's tool at most once, instructions of trusted
\* packages only (broker.py:254, sandbox.py:257-465, dispatch.py:82, deepseek.py:231,
\* mutant_check.py:605, mutation_shards.py:657, routes/models.py:135-281,
\* credential/broker.py:122-194, search.py:211-376, mcp/client.py:163, skill.py:177).
NothingLost ==
  CASE part = "exec" -> Exec!NoneForgotten
    [] part = "sandbox" -> Exec!NeverWeaker /\ Exec!RunsInItsBox /\ Exec!NotOverstated
    [] part = "batch" -> Batch!ToldOnce /\ Batch!NoLateStart /\ Batch!ChainInOrder
    [] part = "team" -> Batch!AgentsBound
    [] part = "client" -> Client!CallsAssembled
    [] part = "models" -> Choice!OwnModel /\ Choice!ImportKept /\ Choice!ListTells
    [] part = "leases" -> Choice!LentInTime
    [] part = "mutants" -> Mutants!TextKept /\ Mutants!RunsOnWhole
    [] part = "shard" -> Mutants!SuggestionCovers
    [] part = "page" -> Outside!ConnectsAsJudged /\ Outside!PageWhole
    [] part = "search" -> Outside!SearchTold
    [] part = "mcp" -> Outside!McpOnce
    [] part = "skill" -> Outside!SkillGated
    [] OTHER -> TRUE

\* A patch that is applied changes what its hunks name, at the place where their text is,
\* and nothing else of the file (git/patch.py:245).
AppliedAsPlanned == part = "patch" => Patch!AppliedAsPlanned
=============================================================================
