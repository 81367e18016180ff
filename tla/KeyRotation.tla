---------------------------- MODULE KeyRotation ----------------------------
(***************************************************************************)
(* The change of the key that credentials are encrypted with: processes    *)
(* restart one by one with the new key and the old one as a fallback,      *)
(* `warden rotate-credentials` encrypts again what it finds, and the       *)
(* processes restart without the old key.  Users import credentials and    *)
(* records are damaged or deleted meanwhile.                               *)
(***************************************************************************)
CONSTANTS Servers,     \* processes that import credentials
          Owners,      \* the users' scopes
          Deployment,  \* DEPLOYMENT_SCOPE
          Absent

ScopesUsed == Owners \union {Deployment}   \* one credential per scope
FieldNames == {"api_key", "base_url"}

VARIABLES
  keyring,  \* per process: the "old" key only, "both" with the new one current, "new" only
  vault,    \* per scope: the key each field is encrypted with ("lost": none), or Absent
  rotor,    \* the command: "off", "scan" or "write"
  todo,     \* scopes it still has to visit
  cur,      \* the scope whose record it has read and not written yet
  failed,   \* scopes it reports as failed
  asked,    \* "default" or "all": the scopes it was run with
  sound,    \* it began after the last process with only the old key had gone
  verdict   \* what the last run reported: "ok", "failed" or "none"

rotationVars == <<keyring, vault, rotor, todo, cur, failed, asked, sound, verdict>>

Init ==
  /\ keyring = [p \in Servers |-> "old"] /\ vault = [s \in ScopesUsed |-> Absent]
  /\ rotor = "off" /\ todo = {} /\ cur = Deployment
  /\ failed = {} /\ asked = "default" /\ sound = FALSE /\ verdict = "none"

\* Every field of a record is encrypted with the current key of its writer.
Encrypted(ring) == [f \in FieldNames |-> IF ring = "old" THEN "old" ELSE "new"]

\* decrypt tries the current key and then the fallback, and raises when none fits.
Opens(ring, rec) == \A f \in FieldNames : rec[f] \in IF ring = "both" THEN {"old", "new"} ELSE {ring}

Register(p, s) ==
  /\ vault' = [vault EXCEPT ![s] = Encrypted(keyring[p])]
  /\ UNCHANGED <<keyring, rotor, todo, cur, failed, asked, sound, verdict>>

Delete(s) ==
  /\ vault[s] # Absent /\ vault' = [vault EXCEPT ![s] = Absent]
  /\ UNCHANGED <<keyring, rotor, todo, cur, failed, asked, sound, verdict>>

-----------------------------------------------------------------------------
\* rotate_credentials.

\* Fault variant: a field that no key opens counts as one that needs nothing.
JudgedKindly(rec) ==
  IF \E f \in FieldNames : rec[f] = "old" THEN "stale" ELSE "current"

\* needs_rotation raises for a field that no key opens, and so does decrypt.
Judged(rec) ==
  IF ~Opens("both", rec) THEN "failed"
  ELSE IF \E f \in FieldNames : rec[f] = "old" THEN "stale" ELSE "current"

\* The scopes are the deployment's own, or with --all-scopes those of the table;
\* list_credential_names is asked scope by scope, here at once.
Begin(which) ==
  /\ rotor = "off" /\ rotor' = "scan" /\ failed' = {} /\ asked' = which /\ verdict' = "none"
  /\ todo' = {s \in ScopesUsed : vault[s] # Absent /\ (which = "all" \/ s = Deployment)}
  /\ sound' = (\A p \in Servers : keyring[p] # "old")
  /\ UNCHANGED <<keyring, vault, cur>>

\* A record that is gone meanwhile or needs nothing is passed over.
Visit(s) ==
  /\ rotor = "scan" /\ s \in todo /\ todo' = todo \ {s}
  /\ LET judged == IF vault[s] = Absent THEN "current" ELSE Judged(vault[s])
     IN /\ failed' = IF judged = "failed" THEN failed \union {s} ELSE failed
        /\ rotor' = IF judged = "stale" THEN "write" ELSE "scan"
        /\ cur' = IF judged = "stale" THEN s ELSE cur
  /\ UNCHANGED <<keyring, vault, asked, sound, verdict>>

\* save_credential writes what was read before, whatever happened since.
Rewrite ==
  /\ rotor = "write" /\ rotor' = "scan" /\ vault' = [vault EXCEPT ![cur] = Encrypted("both")]
  /\ UNCHANGED <<keyring, todo, cur, failed, asked, sound, verdict>>

Report ==
  /\ rotor = "scan" /\ todo = {} /\ rotor' = "off"
  /\ verdict' = IF failed = {} THEN "ok" ELSE "failed"
  /\ UNCHANGED <<keyring, vault, todo, cur, failed, asked, sound>>

\* The command dies between two records, or between reading one and writing it.
Killed ==
  /\ rotor # "off" /\ rotor' = "off" /\ todo' = {}
  /\ UNCHANGED <<keyring, vault, cur, failed, asked, sound, verdict>>

-----------------------------------------------------------------------------
\* The operator and the disk.

TakeNewKey(p) ==
  /\ keyring[p] = "old" /\ keyring' = [keyring EXCEPT ![p] = "both"]
  /\ UNCHANGED <<vault, rotor, todo, cur, failed, asked, sound, verdict>>

\* docs/operations.md:267-270: the old key goes after a run that reported no failure.
DropOldKey(p) ==
  /\ keyring[p] = "both" /\ rotor = "off" /\ verdict = "ok" /\ sound
  /\ keyring' = [keyring EXCEPT ![p] = "new"]
  /\ UNCHANGED <<vault, rotor, todo, cur, failed, asked, sound, verdict>>

\* One field of a record that the last run has not passed goes bad.
Damage(s, f) ==
  /\ rotor = "off" /\ verdict # "ok" /\ vault[s] # Absent
  /\ vault' = [vault EXCEPT ![s][f] = "lost"]
  /\ UNCHANGED <<keyring, rotor, todo, cur, failed, asked, sound, verdict>>

Next ==
  \/ \E p \in Servers : TakeNewKey(p) \/ DropOldKey(p) \/ \E s \in ScopesUsed : Register(p, s)
  \/ \E s \in ScopesUsed : Delete(s) \/ Visit(s) \/ \E f \in FieldNames : Damage(s, f)
  \/ \E which \in {"default", "all"} : Begin(which)
  \/ Rewrite \/ Report \/ Killed

Spec == Init /\ [][Next]_rotationVars

-----------------------------------------------------------------------------
\* vault.py:196-250: after a run over all scopes that reports no failure and
\* that began when no process wrote with the old key alone, every credential
\* opens with the new key alone, whatever was imported or deleted meanwhile.
RotationComplete ==
  verdict = "ok" /\ sound /\ asked = "all" =>
    \A s \in ScopesUsed : vault[s] # Absent => Opens("new", vault[s])

\* docs/operations.md:267-270: once `warden rotate-credentials` has ended well
\* and the old key is taken away, a process can open every credential.
DocumentedRotation ==
  \A p \in Servers : keyring[p] = "new" => \A s \in ScopesUsed : vault[s] # Absent => Opens("new", vault[s])
=============================================================================
