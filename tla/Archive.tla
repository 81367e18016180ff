------------------------------ MODULE Archive ------------------------------
(***************************************************************************)
(* The audit archive (runtime/archive.py): `warden audit-archive` writes a *)
(* new file and then appends an entry to manifest.jsonl, chained to the    *)
(* last entry it can read.  Commands may overlap or die; someone may       *)
(* change files or entries afterwards.  A digest is what was hashed.       *)
(***************************************************************************)
EXTENDS Integers, Sequences

CONSTANTS Commands, FilesOf,   \* commands; the names that archives may get
          MaxWrites            \* archives written (bound)

VARIABLES
  written,   \* archives written so far; no two have the same rows
  file,      \* per name: None, Changed, or the number of the archive in it
  manifest,  \* its lines: entries, or HalfLine (no end of line, and what follows it is lost with it)
  step,      \* per command: "idle", "wrote" or "read"
  mine,      \* per command: the file it wrote
  prior,     \* per command: the entry it chains to and the digest of its own file
  overlap,   \* two commands were under way at once
  meddled    \* "none", or what was changed: "file", "entry", "middle" or "end"

archiveVars == <<written, file, manifest, step, mine, prior, overlap, meddled>>

None == 0
Changed == -1
NoEntry == [seq |-> 0, name |-> "", sha |-> None, prev |-> <<>>, hash |-> <<>>]
HalfLine == [seq |-> 0, name |-> "torn", sha |-> None, prev |-> <<>>, hash |-> <<>>]

Init ==
  /\ written = 0 /\ file = [f \in FilesOf |-> None] /\ manifest = <<>>
  /\ step = [c \in Commands |-> "idle"] /\ mine = [c \in Commands |-> CHOOSE f \in FilesOf : TRUE]
  /\ prior = [c \in Commands |-> NoEntry] /\ overlap = FALSE /\ meddled = "none"

ManifestHash(e, prev) == <<e.seq, e.name, e.sha, prev>>
Good == {i \in 1 .. Len(manifest) : manifest[i] # HalfLine}

\* _last_manifest passes over lines it cannot parse.
LastManifest == IF Good = {} THEN NoEntry ELSE manifest[CHOOSE i \in Good : \A j \in Good : j =< i]

Step(c, s) == step' = [step EXCEPT ![c] = s]

\* An existing name is refused; the file is written before the manifest is read.
WriteFile(c, f) ==
  /\ step[c] = "idle" /\ file[f] = None /\ written < MaxWrites
  /\ written' = written + 1 /\ file' = [file EXCEPT ![f] = written + 1] /\ mine' = [mine EXCEPT ![c] = f] /\ Step(c, "wrote")
  /\ overlap' = (overlap \/ \E d \in Commands : step[d] # "idle")
  /\ UNCHANGED <<manifest, prior, meddled>>

ReadManifest(c) ==
  /\ step[c] = "wrote" /\ prior' = [prior EXCEPT ![c] = [LastManifest EXCEPT !.sha = file[mine[c]]]] /\ Step(c, "read")
  /\ UNCHANGED <<written, file, manifest, mine, overlap, meddled>>

\* Fault variant: the entry is chained to nothing.
ChainedToNone(c) ==
  LET e == [seq |-> prior[c].seq + 1, name |-> mine[c], sha |-> prior[c].sha, prev |-> <<>>, hash |-> <<>>]
  IN [e EXCEPT !.hash = ManifestHash(e, e.prev)]

Chained(c) ==
  LET e == [seq |-> prior[c].seq + 1, name |-> mine[c], sha |-> prior[c].sha, prev |-> prior[c].hash, hash |-> <<>>]
  IN [e EXCEPT !.hash = ManifestHash(e, e.prev)]

Torn == manifest # <<>> /\ manifest[Len(manifest)] = HalfLine

AppendEntry(c) ==
  /\ step[c] = "read" /\ Step(c, "idle")
  /\ manifest' = IF Torn THEN manifest ELSE Append(manifest, Chained(c))
  /\ UNCHANGED <<written, file, mine, prior, overlap, meddled>>

\* The command dies: its file stays, and if it was writing its entry, half a line.
Dies(c, half) ==
  /\ step[c] # "idle" /\ Step(c, "idle")
  /\ half => step[c] = "read"
  /\ manifest' = IF half /\ ~Torn THEN Append(manifest, HalfLine) ELSE manifest
  /\ UNCHANGED <<written, file, mine, prior, overlap, meddled>>

-----------------------------------------------------------------------------
\* Every line is an entry that follows the one before it and whose file is as it was.
VerifyArchive ==
  \A i \in 1 .. Len(manifest) :
    /\ manifest[i] # HalfLine
    /\ manifest[i].prev = (IF i = 1 THEN <<>> ELSE manifest[i - 1].hash)
    /\ manifest[i].hash = ManifestHash(manifest[i], manifest[i].prev)
    /\ file[manifest[i].name] = manifest[i].sha

Meddle(what) == meddled = "none" /\ meddled' = what /\ UNCHANGED <<written, step, mine, prior, overlap>>

\* A registered file is edited or removed.
ChangeFile(i, how) ==
  /\ manifest[i] # HalfLine /\ Meddle("file")
  /\ file' = [file EXCEPT ![manifest[i].name] = how] /\ UNCHANGED manifest

\* An entry is made to name another file's contents, without the key of the hash.
ChangeEntry(i) ==
  /\ manifest[i] # HalfLine /\ Meddle("entry")
  /\ manifest' = [manifest EXCEPT ![i].sha = Changed] /\ UNCHANGED file

\* An entry is removed, from the middle or from the end.
RemoveEntry(i) ==
  /\ manifest[i] # HalfLine /\ Meddle(IF i < Len(manifest) THEN "middle" ELSE "end")
  /\ manifest' = SubSeq(manifest, 1, i - 1) \o SubSeq(manifest, i + 1, Len(manifest)) /\ UNCHANGED file

Next ==
  \/ \E c \in Commands : \/ \E f \in FilesOf : WriteFile(c, f)
                         \/ ReadManifest(c) \/ AppendEntry(c) \/ \E half \in BOOLEAN : Dies(c, half)
  \/ \E i \in 1 .. Len(manifest) :
       ChangeEntry(i) \/ RemoveEntry(i) \/ \E how \in {None, Changed} : ChangeFile(i, how)

Spec == Init /\ [][Next]_archiveVars

-----------------------------------------------------------------------------
\* archive.py:94-177: what nobody changed passes, also after commands that died
\* between the file and its entry, as long as commands did not overlap and none
\* died inside the line.
UntouchedPasses ==
  meddled = "none" /\ ~overlap /\ Good = 1 .. Len(manifest) => VerifyArchive

\* archive.py:141-177: a changed or removed file, a changed entry and (unless
\* commands overlapped) an entry removed from the middle are found for ever,
\* however many archives follow.
MeddlingFound == meddled \in {"file", "entry"} \/ (meddled = "middle" /\ ~overlap) => ~VerifyArchive

\* archive.py:17 (whatever is changed once the archive is written is found).
AnyChangeFound == meddled # "none" => ~VerifyArchive
=============================================================================
