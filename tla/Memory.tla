------------------------------- MODULE Memory -------------------------------
(***************************************************************************)
(* The memories of one scope, key and owner: agents propose, people (or an *)
(* agent whose call was approved) confirm or reject, the maintenance sweep *)
(* deletes.  A decision is several statements on the table, each from what *)
(* was read before, and nothing locks a memory in between.                 *)
(***************************************************************************)
EXTENDS Integers, FiniteSets, FiniteSetsExt

CONSTANTS Threads,    \* of requests and of tool calls
          MaxItems, MaxExpired,  \* proposals, and those that expire (bounds)
          Nobody      \* no memory: conflicts_with is None

VARIABLES
  items,    \* rows of the table by uid; uids are in the order of updated_at, which nothing changes
  issued,   \* uids handed out
  doing,    \* per thread: what it is about to write, or Idle
  expired,  \* uids whose expires_at has passed
  approved, \* uids that a decision has set to ACTIVE
  closed,   \* uids that were refused, replaced or deleted
  \* Histories that no step depends on:
  overtaken, \* threads whose approval found a candidate that has been closed since
  revived    \* closed uids that such an approval brought back

ghosts == <<approved, closed, overtaken, revived>>
memoryVars == <<items, issued, doing, expired, ghosts>>

Idle == [step |-> "idle", uid |-> Nobody, against |-> Nobody, rest |-> {}, replacing |-> FALSE]
Candidate == {"PENDING", "CONFLICTED"}

Init ==
  /\ items = [u \in {} |-> {}] /\ issued = 0 /\ doing = [t \in Threads |-> Idle]
  /\ expired = {} /\ approved = {} /\ closed = {} /\ overtaken = {} /\ revived = {}

Status(u) == IF u \in DOMAIN items THEN items[u].status ELSE "deleted"

\* save(): an upsert, which brings a deleted row back.
Row(st, against) == [status |-> st, against |-> against]
Saved(u, row) == [v \in DOMAIN items \union {u} |-> IF v = u THEN row ELSE items[v]]
Save(u, st, against) == items' = Saved(u, Row(st, against))

\* latest(): of the ACTIVE and PENDING rows, or of all if there are none, the newest.
Latest ==
  LET live == {u \in DOMAIN items : Status(u) \in {"ACTIVE", "PENDING"}}
  IN IF DOMAIN items = {} THEN Nobody ELSE IF live # {} THEN Max(live) ELSE Max(DOMAIN items)

\* These are closed now; an approval of one of them that is under way does not know.
Approves(t, u) == doing[t].step \in {"supersede", "replace", "activate"} /\ doing[t].uid = u
Close(us) ==
  /\ closed' = closed \union us /\ revived' = revived \ us
  /\ overtaken' = overtaken \union {t \in Threads : \E u \in us : Approves(t, u)}
  /\ UNCHANGED approved

Do(t, step, u, against) ==
  doing' = [doing EXCEPT ![t].step = step, ![t].uid = u, ![t].against = against]
Stop(t) == doing' = [doing EXCEPT ![t] = Idle]

-----------------------------------------------------------------------------
\* propose(): reads the latest row, and saves the proposal afterwards.
Propose(t) ==
  /\ doing[t] = Idle /\ issued < MaxItems /\ issued' = issued + 1
  /\ Do(t, "propose", issued + 1, IF Latest # Nobody /\ Status(Latest) = "ACTIVE" THEN Latest ELSE Nobody)
  /\ UNCHANGED <<items, expired, ghosts>>

SaveProposal(t) ==
  /\ doing[t].step = "propose"
  /\ Save(doing[t].uid, IF doing[t].against = Nobody THEN "PENDING" ELSE "CONFLICTED", doing[t].against)
  /\ Stop(t) /\ UNCHANGED <<issued, expired, ghosts>>

\* Fault variant: whatever is found may be decided on.
DecidableAny(u) == u \in DOMAIN items

\* approve_candidate and reject_candidate find the row, and want a candidate.
Decidable(u) == Status(u) \in Candidate

\* What approve_candidate is about to save first.
Approving(u, replacing, rest) ==
  LET old == items[u].against
      both == replacing /\ old # Nobody
  IN [step |-> IF both THEN "supersede" ELSE "activate", uid |-> u,
      against |-> IF both THEN old ELSE Nobody, rest |-> rest, replacing |-> replacing]

\* memory_candidate_confirm, and its sibling below: 404 for all but candidates of the caller.
Confirm(t, u, replacing) ==
  /\ doing[t] = Idle /\ Decidable(u) /\ doing' = [doing EXCEPT ![t] = Approving(u, replacing, {})]
  /\ UNCHANGED <<items, issued, expired, ghosts>>

\* The tool memory.confirm lists the candidates of the key, and goes through the list.
confirm(t, replacing) ==
  LET mine == {u \in DOMAIN items : Decidable(u)}
  IN /\ doing[t] = Idle /\ mine # {}
     /\ doing' = [doing EXCEPT ![t] = [Idle EXCEPT !.step = "next", !.rest = mine, !.replacing = replacing]]
     /\ UNCHANGED <<items, issued, expired, ghosts>>

\* When all are through, the tool returns.
Through(t) == IF doing[t].rest = {} THEN Stop(t) ELSE Do(t, "next", Nobody, Nobody)

\* Each is found again, the newest first; what is decided by now is passed over.
ConfirmNext(t) ==
  LET u == Max(doing[t].rest)
      rest == doing[t].rest \ {u}
  IN /\ doing[t].step = "next"
     /\ doing' = [doing EXCEPT ![t] =
          CASE Decidable(u) -> Approving(u, doing[t].replacing, rest)
            [] ~Decidable(u) /\ rest = {} -> Idle
            [] OTHER -> [doing[t] EXCEPT !.rest = rest]]
     /\ UNCHANGED <<items, issued, expired, ghosts>>

\* The old row is found; one that is gone or refused already stays so.
Supersede(t) ==
  LET old == doing[t].against
  IN /\ doing[t].step = "supersede"
     /\ IF Status(old) \in {"deleted", "TOMBSTONED"} THEN Do(t, "activate", doing[t].uid, Nobody)
        ELSE Do(t, "replace", doing[t].uid, old)
     /\ UNCHANGED <<items, issued, expired, ghosts>>

\* It is saved as it was found, in force and so in conflict with none, but for its status.
SaveSuperseded(t) ==
  /\ doing[t].step = "replace" /\ Save(doing[t].against, "TOMBSTONED", Nobody)
  /\ Do(t, "activate", doing[t].uid, Nobody)
  /\ Close({doing[t].against}) /\ UNCHANGED <<issued, expired>>

Activate(t) ==
  LET u == doing[t].uid
  IN /\ doing[t].step = "activate" /\ Save(u, "ACTIVE", Nobody) /\ approved' = approved \union {u}
     /\ revived' = IF t \in overtaken THEN revived \union {u} ELSE revived
     /\ overtaken' = overtaken \ {t}
     /\ Through(t) /\ UNCHANGED <<issued, expired, closed>>

\* memory_candidate_reject.
Reject(t, u) ==
  /\ doing[t] = Idle /\ Decidable(u) /\ Do(t, "reject", u, items[u].against)
  /\ UNCHANGED <<items, issued, expired, ghosts>>

SaveRejected(t) ==
  /\ doing[t].step = "reject" /\ Save(doing[t].uid, "TOMBSTONED", doing[t].against)
  /\ Stop(t) /\ Close({doing[t].uid}) /\ UNCHANGED <<issued, expired>>

\* A process dies between two of its statements.
Crash(t) ==
  /\ doing[t] # Idle /\ Stop(t) /\ overtaken' = overtaken \ {t}
  /\ UNCHANGED <<items, issued, expired, approved, closed, revived>>

Expire(u) ==
  /\ u \in DOMAIN items \ expired /\ Cardinality(expired) < MaxExpired /\ expired' = expired \union {u}
  /\ UNCHANGED <<items, issued, doing, ghosts>>

\* purge_expired: one DELETE.
Purge ==
  LET gone == {u \in DOMAIN items : Status(u) = "TOMBSTONED" \/ u \in expired}
  IN /\ gone # {} /\ items' = [u \in DOMAIN items \ gone |-> items[u]]
     /\ Close(gone) /\ UNCHANGED <<issued, doing, expired>>

Next ==
  \/ \E t \in Threads :
       \/ Propose(t) \/ SaveProposal(t) \/ Supersede(t) \/ SaveSuperseded(t) \/ Activate(t)
       \/ SaveRejected(t) \/ Crash(t) \/ ConfirmNext(t)
       \/ \E replacing \in BOOLEAN : confirm(t, replacing) \/ \E u \in DOMAIN items : Confirm(t, u, replacing)
       \/ \E u \in DOMAIN items : Reject(t, u)
  \/ \E u \in DOMAIN items : Expire(u)
  \/ Purge

Spec == Init /\ [][Next]_memoryVars

-----------------------------------------------------------------------------
\* recall(): by text all, by key the latest; what is not ACTIVE or has expired is not usable.
Usable(u) == Status(u) = "ACTIVE" /\ u \notin expired
RecalledByText == {u \in DOMAIN items : Usable(u)}
RecalledByKey == {u \in {Latest} \ {Nobody} : Usable(u)}

\* service.py:93-132 and 188-218: nothing that nobody approved is ever recalled, and a
\* memory that was refused, replaced or purged is not recalled again, but for one: an approval
\* that had found it as a candidate before it was closed saves what it found, and so brings
\* it back.  Nothing else does, whatever decisions, proposals, sweeps and crashes fall
\* between the statements of one another, and each time it takes such an approval anew.
RefusedStaysOut ==
  RecalledByText \union RecalledByKey \subseteq approved \ (closed \ revived)

\* service.py:111, "reject a candidate: soft-deleted at once, not stored as a memory", without
\* the exception: false of the code, where a confirm that has read the candidate makes it
\* ACTIVE after the refusal.
RefusedForGood ==
  RecalledByText \union RecalledByKey \subseteq approved \ closed

\* service.py:121, "given a key, the latest of this key": if a memory of the key is in
\* force, recall by the key finds one.
ActiveIsFound == RecalledByText # {} => RecalledByKey # {}
=============================================================================
