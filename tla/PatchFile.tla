------------------------------ MODULE PatchFile ------------------------------
(***************************************************************************)
(* The merge gate for patches (git/): a diff is made against the files of  *)
(* a commit, parsed, and applied to the working tree file by file if HEAD  *)
(* still is that commit.  Meanwhile others commit, or edit the tree.       *)
(***************************************************************************)
EXTENDS Integers, Sequences, FiniteSets, FiniteSetsExt, SequencesExt

CONSTANTS Files,     \* the number of files, 1 .. Files in the order of the diff
          Texts,     \* of lines
          Dashed,    \* those that begin with "--"
          Crossed,   \* those that begin with "++"
          MaxLines,  \* of a file of the commit (bound)
          MaxHunks,  \* of a file (bound)
          MaxSize    \* of a hunk (bound)

VARIABLES
  base,   \* the files of the commit, None if there is none of the name
  diff,   \* of each file its hunks, or Deleted, as the author meant them
  tree,   \* the working tree
  head,   \* the commit is "expected" or "moved"
  edited, \* files somebody edits in the tree
  next,   \* file the gate is at; 0: it has not begun
  result  \* "", "OK", "REVISION_CONFLICT", "PATCH_CONFLICT"

commit == <<base, diff>>
patchVars == <<commit, tree, head, edited, next, result>>

None == <<"none">>
Deleted == <<[start |-> 0, lines |-> <<>>]>>
Indices == 1 .. Files
Contents == UNION {[1 .. n -> Texts] : n \in 1 .. MaxLines}
Kept(f) == IF f = None THEN <<>> ELSE f
HunkLine == [kind : {" ", "+", "-"}, text : Texts]

Init ==
  /\ base \in [Indices -> {None} \cup Contents]
  /\ diff = [f \in Indices |-> <<>>] /\ tree = base
  /\ head = "expected" /\ edited = {} /\ next = 0 /\ result = ""

-----------------------------------------------------------------------------
\* The lines of a hunk on its old and on its new side.
Side(lines, gone) ==
  LET texts[n \in 0 .. Len(lines)] ==
        IF n = 0 THEN <<>>
        ELSE IF lines[n].kind = gone THEN texts[n - 1] ELSE Append(texts[n - 1], lines[n].text)
  IN texts[Len(lines)]
OldSide(h) == Side(h.lines, "+")
NewSide(h) == Side(h.lines, "-")
End(h) == h.start + Len(OldSide(h))

\* The author of the diff adds a hunk after the others; start is a line of the base.
\* Its hunks have a line of context at least.
AddHunk(f, start, lines) ==
  LET h == [start |-> start, lines |-> lines]
      old == Kept(base[f])
  IN /\ next = 0 /\ diff[f] # Deleted /\ Len(diff[f]) < MaxHunks
     /\ start > (IF diff[f] = <<>> THEN 0 ELSE End(Last(diff[f]))) /\ End(h) =< Len(old) + 1
     /\ OldSide(h) = SubSeq(old, start, End(h) - 1)
     /\ \E i \in DOMAIN lines : lines[i].kind # " "
     /\ old # <<>> => OldSide(h) # <<>>
     /\ diff' = [diff EXCEPT ![f] = Append(@, h)]
     /\ UNCHANGED <<base, tree, head, edited, next, result>>

Delete(f) ==
  /\ next = 0 /\ base[f] # None /\ diff[f] = <<>> /\ diff' = [diff EXCEPT ![f] = Deleted]
  /\ UNCHANGED <<base, tree, head, edited, next, result>>

\* Somebody puts a line on top of a file, or removes the file.
Edit(f) ==
  /\ next = 0 /\ edited = {} /\ edited' = {f}
  /\ \E t \in Texts : \E new \in {<<t>> \o Kept(tree[f]), None} : tree' = [tree EXCEPT ![f] = new]
  /\ UNCHANGED <<commit, head, next, result>>

Commit == /\ next = 0 /\ head' = "moved" /\ head # "moved"
          /\ UNCHANGED <<commit, tree, edited, next, result>>

-----------------------------------------------------------------------------
\* parse: a hunk is over at a line that begins with "---" or "+++", and what follows
\* up to the next "@@" is skipped.
Ends(l) == l.text \in (CASE l.kind = "-" -> Dashed [] l.kind = "+" -> Crossed [] OTHER -> {})
Parsed(h) ==
  LET cut == {i \in DOMAIN h.lines : Ends(h.lines[i])}
  IN IF cut = {} THEN h
     ELSE [h EXCEPT !.lines = SubSeq(@, 1, (CHOOSE i \in cut : \A j \in cut : i =< j) - 1)]

\* _apply_file: out is the new text, pos the lines of the old one that are done with.
Take(acc, l, old) ==
  CASE l.kind = "+" -> [acc EXCEPT !.out = Append(@, l.text)]
    [] l.kind = "-" -> [acc EXCEPT !.pos = @ + 1]
    [] OTHER -> IF acc.pos < Len(old)
                THEN [out |-> Append(acc.out, old[acc.pos + 1]), pos |-> acc.pos + 1, fits |-> acc.fits]
                ELSE [acc EXCEPT !.out = Append(@, l.text)]

\* Fault variant: the lines before a hunk are counted from the last hunk on.
ReachedAnew(acc, h, old) ==
  [acc EXCEPT !.out = @ \o SubSeq(old, acc.pos + 1, Min({acc.pos + h.start - 1, Len(old)})),
              !.pos = acc.pos + h.start - 1]

Reached(acc, h, old) ==
  [out  |-> acc.out \o SubSeq(old, acc.pos + 1, Min({h.start - 1, Len(old)})),
   pos  |-> Max({acc.pos, h.start - 1}),
   fits |-> acc.fits /\ (acc.pos >= h.start - 1 \/ h.start - 1 =< Len(old))]

Taken(acc, lines, old) ==
  LET done[n \in 0 .. Len(lines)] == IF n = 0 THEN acc ELSE Take(done[n - 1], lines[n], old)
  IN done[Len(lines)]

Start == [out |-> <<>>, pos |-> 0, fits |-> TRUE]
ApplyFile(hunks, old) ==
  LET upto[n \in 0 .. Len(hunks)] ==
        IF n = 0 THEN Start ELSE Taken(Reached(upto[n - 1], hunks[n], old), Parsed(hunks[n]).lines, old)
      end == upto[Len(hunks)]
  IN [end EXCEPT !.out = @ \o SubSeq(old, end.pos + 1, Len(old))]

Merge ==
  /\ next = 0 /\ result = "" /\ \E f \in Indices : diff[f] # <<>>
  /\ IF head = "moved" THEN result' = "REVISION_CONFLICT" /\ UNCHANGED next
     ELSE next' = 1 /\ UNCHANGED result
  /\ UNCHANGED <<commit, tree, head, edited>>

\* A conflict leaves the files before this one written.
ApplyNext ==
  /\ next \in Indices
  /\ LET f == next
         new == ApplyFile(diff[f], Kept(tree[f]))
     IN CASE diff[f] = <<>> -> tree' = tree /\ next' = next + 1 /\ UNCHANGED result
          [] diff[f] = Deleted -> /\ tree' = [tree EXCEPT ![f] = None]
                                  /\ next' = next + 1 /\ UNCHANGED result
          [] diff[f] \notin {<<>>, Deleted} /\ new.fits ->
                                  /\ tree' = [tree EXCEPT ![f] = new.out]
                                  /\ next' = next + 1 /\ UNCHANGED result
          [] OTHER -> /\ next' = Files + 2 /\ result' = "PATCH_CONFLICT" /\ UNCHANGED tree
  /\ UNCHANGED <<commit, head, edited>>

Report ==
  /\ next = Files + 1 /\ result = "" /\ result' = "OK"
  /\ UNCHANGED <<commit, tree, head, edited, next>>

Next ==
  \/ \E f \in Indices :
       \/ \E start \in 1 .. MaxLines + 1, n \in 1 .. MaxSize : \E lines \in [1 .. n -> HunkLine] :
            AddHunk(f, start, lines)
       \/ Delete(f) \/ Edit(f)
  \/ Commit \/ Merge \/ ApplyNext \/ Report

-----------------------------------------------------------------------------
\* What the diff says of a file: each line of the base outside the hunks, and between
\* them their new sides.
Before(hunks, i) == IF i = 1 THEN 1 ELSE End(hunks[i - 1])
Meaning(hunks, file) ==
  LET old == Kept(file)
      upto[n \in 0 .. Len(hunks)] ==
        IF n = 0 THEN <<>>
        ELSE upto[n - 1] \o SubSeq(old, Before(hunks, n), hunks[n].start - 1) \o NewSide(hunks[n])
  IN CASE hunks = Deleted -> None
       [] hunks = <<>> -> file
       [] OTHER -> upto[Len(hunks)] \o SubSeq(old, Before(hunks, Len(hunks) + 1), Len(old))
Patched(f) == Meaning(diff[f], base[f])

Plain(f) == diff[f] = Deleted \/ \A h \in ToSet(diff[f]) : Parsed(h) = h

\* git/patch.py:245-277: in a tree as the commit has it, a merge that reports success
\* has made each file what the diff says, hunk after hunk, new files and deleted ones
\* included; without a "--" or "++" at the beginning of a changed line.
AppliedAsPlanned ==
  result = "OK" /\ edited = {} => \A f \in Indices : Plain(f) => tree[f] = Patched(f)

\* git/patch.py:12, "changes only the lines the patch lists, and never others".
AppliedAsWritten ==
  result = "OK" /\ edited = {} => \A f \in Indices : tree[f] = Patched(f)

Spec == Init /\ [][Next]_patchVars
=============================================================================
