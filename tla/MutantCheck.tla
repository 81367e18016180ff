----------------------------- MODULE MutantCheck -----------------------------
(***************************************************************************)
(* scripts/mutant_check.py: the check that writes mutants into the source  *)
(* files of the repository, runs the tests of each and writes the files    *)
(* back.  It can be killed at any step, also in the middle of a write, and *)
(* signals arrive at any step.  While it does not run, people edit.        *)
(*                                                                         *)
(* With it, scripts/mutation_shards.py: which tests a shard of the mutants *)
(* has to run.                                                             *)
(***************************************************************************)
EXTENDS Naturals, FiniteSets, Sequences

CONSTANTS
  Files,     \* source files
  Tests,     \* 1 .. n: test files in their order
  CASES,     \* the table of cases
  Lines,     \* lines of a shard's modules
  MaxRuns,   \* bound: starts of the script
  MaxEdits,  \* bound: texts that people write
  None

VARIABLES
  file,      \* the text of each file
  wanted,    \* what people wrote last in each
  bak,       \* the backup of each case, or None
  manifest,  \* the notes of it; a file that is not there has none
  at, case,
  goal,      \* "restore" or "run"; "over" after the last case
  raw,       \* the text that was read for the case
  PENDING,   \* the file that holds a mutant, or None
  leave,     \* what is left of the case after a signal: "", "tidy" or "exit"
  red,       \* the tests failed on the mutant
  BASELINES, rows, evidence,
  runs, edits,
  cover,     \* the lines that each test runs
  chosen     \* the tests picked so far

disk == <<file, wanted, bak, manifest>>
proc == <<at, case, goal, raw, PENDING, leave, red, BASELINES, rows>>
mutantVars == <<disk, proc, evidence, runs, edits, cover, chosen>>
shardVars  == <<cover, chosen>>

\* A text is a version that somebody wrote, or the mutant of one, or a cut copy.
Text(n) == [of |-> n, case |-> 0, cut |-> FALSE]
Mutated(t, i) == [t EXCEPT !.case = i]
Cut(t) == [t EXCEPT !.cut = TRUE]
\* The anchors are those of the version 0; a later version has none.
Anchored(t, i) == t.of = 0 /\ ~t.cut /\ t.case # i

\* An entry of the table: a mutant that its tests must kill, or one that changes nothing.
Entry == [expect : {"kill", "equiv"}, rel : Files, test : Tests]
Rel(i) == CASES[i].rel
NoBackups == [i \in DOMAIN CASES |-> None]

\* The record of coverage, read once: a source line counts for each test that ran it.
load_coverage_lines == [Tests -> SUBSET Lines]

Init ==
  /\ file = [f \in Files |-> Text(0)] /\ wanted = file
  /\ bak = NoBackups /\ manifest = <<>>
  /\ at = "idle" /\ case = 1 /\ goal = "run" /\ raw = Text(0) /\ PENDING = None
  /\ leave = "" /\ red = FALSE
  /\ BASELINES = [t \in Tests |-> None] /\ rows = <<>>
  /\ evidence = None /\ runs = 0 /\ edits = 0
  /\ cover \in load_coverage_lines /\ chosen = <<>>

-----------------------------------------------------------------------------
(* Starting, and settling what an earlier run has left *)

Note == manifest[1]
\* What stands for a manifest that cannot be parsed.
Unreadable == [rel |-> None, bak |-> 0, sha |-> None]

\* Only a text that is exactly the mutant is written over.
Settles == /\ manifest \notin {<<>>, <<Unreadable>>}
           /\ bak[Note.bak] # None
           /\ file[Note.rel] = Note.sha

main(argv) ==
  /\ at = "idle" /\ runs < MaxRuns /\ runs' = runs + 1
  /\ goal' = argv /\ case' = 1 /\ rows' = <<>> /\ BASELINES' = [t \in Tests |-> None]
  /\ leave' = ""
  /\ at' = CASE Settles -> "settle"
             [] manifest = <<>> -> IF argv = "run" THEN "case" ELSE "idle"
             [] OTHER -> "idle"  \* by hand
  /\ UNCHANGED <<disk, raw, PENDING, red, evidence, edits, shardVars>>

_settle_previous_run ==
  \/ /\ at = "settle" /\ at' = "unlink"
     /\ file' = [file EXCEPT ![Note.rel] = bak[Note.bak]]
     /\ UNCHANGED bak
  \/ /\ at = "unlink" /\ at' = "sweep"
     /\ bak' = [bak EXCEPT ![Note.bak] = None]
     /\ UNCHANGED file

\* The files of the directory go one by one, in the order of the directory.
_clear_backups ==
  /\ at = "sweep"
  /\ \/ /\ manifest # <<>> /\ manifest' = <<>>
        /\ UNCHANGED <<bak, at>>
     \/ /\ \E i \in DOMAIN bak : bak[i] # None /\ bak' = [bak EXCEPT ![i] = None]
        /\ UNCHANGED <<manifest, at>>
     \/ /\ manifest = <<>> /\ bak = NoBackups
        /\ at' = CASE goal = "run" -> "case" [] goal = "over" -> "report" [] OTHER -> "idle"
        /\ UNCHANGED <<manifest, bak>>

Settle ==
  /\ \/ _settle_previous_run /\ UNCHANGED manifest
     \/ _clear_backups /\ UNCHANGED file
  /\ UNCHANGED <<wanted, case, goal, raw, PENDING, leave, red, BASELINES, rows, evidence, runs,
                 edits, shardVars>>

-----------------------------------------------------------------------------
(* One case: the backup and its note are on the disk before the mutant *)

Row(verdict) == Append(rows, [verdict |-> verdict, expect |-> CASES[case].expect])

Read ==
  /\ at = "case" /\ case <= Len(CASES)
  /\ raw' = file[Rel(case)]
  /\ IF Anchored(raw', case)
     THEN at' = "save" /\ UNCHANGED <<rows, case>>
     ELSE rows' = Row("SKIP") /\ case' = case + 1 /\ UNCHANGED at
  /\ UNCHANGED <<disk, PENDING, leave, red>>

Save ==
  /\ at = "save" /\ at' = "note"
  /\ bak' = [bak EXCEPT ![case] = raw]
  /\ UNCHANGED <<file, wanted, manifest, case, raw, PENDING, leave, red, rows>>

_write_manifest ==
  /\ at = "note" /\ at' = "hold"
  /\ manifest' = <<[rel |-> Rel(case), bak |-> case, sha |-> Mutated(raw, case)]>>
  /\ UNCHANGED <<file, wanted, bak, case, raw, PENDING, leave, red, rows>>

Hold ==
  /\ at = "hold" /\ at' = "mutate"
  /\ PENDING' = Rel(case)
  /\ UNCHANGED <<disk, case, raw, leave, red, rows>>

Mutate ==
  /\ at = "mutate" /\ at' = "test"
  /\ file' = [file EXCEPT ![Rel(case)] = Mutated(raw, case)]
  /\ UNCHANGED <<wanted, bak, manifest, case, raw, PENDING, leave, red, rows>>

Test ==
  /\ at = "test" /\ at' = "pop"
  /\ red' \in BOOLEAN
  /\ UNCHANGED <<disk, case, raw, PENDING, leave, rows>>

_put_back ==
  \/ /\ at = "pop"
     /\ PENDING' = None
     /\ at' = IF PENDING = None THEN "unnote" ELSE "back"
     /\ UNCHANGED file
  \/ /\ at = "back" /\ at' = "unnote"
     /\ file' = [file EXCEPT ![Rel(case)] = raw]
     /\ UNCHANGED PENDING

PutBack == _put_back /\ UNCHANGED <<wanted, bak, manifest, case, raw, leave, red, rows>>

Unnote ==
  /\ at = "unnote" /\ at' = IF leave = "" THEN "judge" ELSE "idle"
  /\ manifest' = <<>>
  /\ UNCHANGED <<file, wanted, bak, case, raw, PENDING, leave, red, rows>>

_verdict(failed, baseline) ==
  IF ~failed THEN "SURVIVED"
  ELSE CASE baseline = "broken" -> "BROKEN"
         [] baseline = "green" -> "KILLED"
         [] OTHER -> "KILLED?"

\* The tests of the case without a mutant, once per file of tests.
_baseline(t) ==
  IF BASELINES[t] = None
  THEN \E found \in {"green", "red", "broken"} : BASELINES' = [BASELINES EXCEPT ![t] = found]
  ELSE UNCHANGED BASELINES

Judge ==
  /\ at = "judge" /\ at' = "case"
  /\ _baseline(CASES[case].test)
  /\ rows' = Row(_verdict(red, BASELINES'[CASES[case].test]))
  /\ case' = case + 1
  /\ UNCHANGED <<disk, raw, PENDING, leave, red>>

Case ==
  /\ \/ /\ Read \/ Save \/ _write_manifest \/ Hold \/ Mutate \/ Test \/ PutBack \/ Unnote
        /\ UNCHANGED BASELINES
     \/ Judge
  /\ UNCHANGED <<goal, evidence, runs, edits, shardVars>>

_problem ==
  \E i \in DOMAIN rows :
    \/ rows[i].verdict \in {"SKIP", "BROKEN"}
    \/ /\ rows[i].verdict = "SURVIVED" /\ rows[i].expect = "kill"

Finish ==
  /\ at = "case" /\ case > Len(CASES)
  /\ at' = "sweep" /\ goal' = "over"
  /\ UNCHANGED <<disk, case, raw, PENDING, leave, red, BASELINES, rows, evidence, runs, edits,
                 shardVars>>

\* The file gets a line for every row, with the verdict as it was found.
_write_evidence == evidence' = rows

\* The evidence is written when no problem is seen.
Report ==
  /\ at = "report" /\ at' = "idle"
  /\ IF _problem THEN UNCHANGED evidence ELSE _write_evidence
  /\ UNCHANGED <<disk, case, goal, raw, PENDING, leave, red, BASELINES, rows, runs, edits, shardVars>>

-----------------------------------------------------------------------------
(* Signals and kills *)

\* The handler puts back what is pending and leaves by an exception: from within the try
\* block through its finally, from elsewhere at once.  Between pop and write nothing
\* is pending.
_on_signal ==
  /\ at \in {"case", "save", "note", "hold", "mutate", "test", "pop", "back", "unnote", "judge"}
  /\ leave = ""
  /\ IF PENDING # None
     THEN /\ PENDING' = None /\ at' = "handback"
          /\ leave' \in CASE at = "mutate" -> {"tidy", "exit"} [] at = "test" -> {"tidy"}
                          [] OTHER -> {"exit"}
          /\ file' \in {file} \cup (IF at = "mutate" THEN {[file EXCEPT ![Rel(case)] = Cut(raw)]} ELSE {})
     ELSE /\ at' = "idle" /\ leave' = "exit"
          /\ file' \in {file} \cup (IF at = "back" THEN {[file EXCEPT ![Rel(case)] = Cut(raw)]} ELSE {})
          /\ UNCHANGED PENDING
  /\ UNCHANGED <<wanted, bak, manifest, case, raw, red>>

HandBack ==
  /\ at = "handback"
  /\ file' = [file EXCEPT ![Rel(case)] = raw]
  /\ at' = IF leave = "tidy" THEN "unnote" ELSE "idle"
  /\ UNCHANGED <<wanted, bak, manifest, case, raw, PENDING, leave, red>>

\* SIGKILL, or the end of the machine: a write may have been cut.
Kill ==
  /\ at # "idle" /\ at' = "idle"
  /\ file' \in {file} \cup
       (CASE at \in {"mutate", "back", "handback"} -> {[file EXCEPT ![Rel(case)] = Cut(raw)]}
          [] at = "settle" -> {[file EXCEPT ![Note.rel] = Cut(bak[Note.bak])]}
          [] OTHER -> {})
  /\ bak' \in {bak} \cup (IF at = "save" THEN {[bak EXCEPT ![case] = Cut(raw)]} ELSE {})
  /\ manifest' \in {manifest} \cup (IF at \in {"note", "unnote"} THEN {<<Unreadable>>} ELSE {})
  /\ PENDING' = None
  /\ UNCHANGED <<wanted, case, raw, leave, red>>

Interrupt ==
  /\ _on_signal \/ HandBack \/ Kill
  /\ UNCHANGED <<goal, BASELINES, rows, evidence, runs, edits, shardVars>>

-----------------------------------------------------------------------------
(* People *)

Edit(f) ==
  /\ at = "idle" /\ edits < MaxEdits /\ edits' = edits + 1
  /\ wanted' = [wanted EXCEPT ![f] = Text(edits + 1)]
  /\ file' = [file EXCEPT ![f] = Text(edits + 1)]
  /\ UNCHANGED <<bak, manifest, proc, evidence, runs, shardVars>>

InBackup(f) == \E i \in DOMAIN CASES : Rel(i) = f /\ bak[i] = wanted[f]

\* As the script asks: look at the backups, then delete their directory.
ByHand ==
  /\ at = "idle" /\ manifest # <<>>
  /\ file' = [f \in Files |-> IF InBackup(f) THEN wanted[f] ELSE file[f]]
  /\ bak' = NoBackups /\ manifest' = <<>>
  /\ UNCHANGED <<wanted, proc, evidence, runs, edits, shardVars>>

-----------------------------------------------------------------------------
(* The tests of a shard: those that run the most lines not yet run, until none is left *)

Done(tests) == UNION {cover[t] : t \in tests}
Chosen == {chosen[i] : i \in DOMAIN chosen}
Gain(t) == Cardinality(cover[t] \ Done(Chosen))
Best(t) == /\ t \notin Chosen /\ Gain(t) > 0
           /\ \A u \in Tests \ Chosen : Gain(u) < Gain(t) \/ (Gain(u) = Gain(t) /\ t <= u)

suggest_tests ==
  /\ \E t \in Tests : Best(t) /\ chosen' = Append(chosen, t)
  /\ UNCHANGED <<disk, proc, evidence, runs, edits, cover>>

\* The check of a table of tests: the lines that some test runs and none of them.
check_tests(tests) == Done(Tests) \ Done(tests)

Next ==
  \/ \E argv \in {"run", "restore"} : main(argv)
  \/ Settle \/ Case \/ Finish \/ Report \/ Interrupt
  \/ \E f \in Files : Edit(f)
  \/ ByHand

Spec == Init /\ [][Next \/ suggest_tests]_mutantVars

-----------------------------------------------------------------------------
(* Properties *)

\* At every moment, also between two steps of a killed run, what people wrote last is in
\* its file or in a backup of it; and no mutant is in a file without the note that lets
\* the next run know it (mutant_check.py:605-630, 905-930).
TextKept ==
  \A f \in Files :
    /\ file[f] = wanted[f] \/ InBackup(f)
    /\ file[f].case # 0 => manifest # <<>> /\ Note.rel = f /\ Note.sha = file[f]

\* A case and a baseline are of the text that people wrote, never of what an earlier
\* run has left (mutant_check.py:605-630, 678-697).
RunsOnWhole == at \in {"save", "judge"} => file = wanted

\* A shard's suggested tests run every line that any test runs, and each adds one
\* (mutation_shards.py:657-689).
SuggestionCovers ==
  /\ (\A t \in Tests : ~Best(t)) => check_tests(Chosen) = {}
  /\ \A i \in DOMAIN chosen :
       cover[chosen[i]] \ Done({chosen[j] : j \in 1 .. i - 1}) # {}

\* Refuted: evidence is written although an equivalent mutant was killed
\* (mutant_check.py:836-837).
EvidenceExpected ==
  evidence # None =>
    \A i \in DOMAIN evidence :
      evidence[i].verdict \in IF evidence[i].expect = "kill" THEN {"KILLED", "KILLED?"} ELSE {"SURVIVED"}
=============================================================================
