------------------------------ MODULE Gateway ------------------------------
(***************************************************************************)
(* The way of a request through one server process: the middleware that    *)
(* authenticates and authorizes it, and the handlers of /runs, /chat,      *)
(* /approve, /reject and the reads, which run in threads of their own and  *)
(* meet in the session registry and in the database.                       *)
(*                                                                         *)
(* What an authorization rests on may change before the handler acts: the  *)
(* owner of a run is looked up once, in front.  A drive is three steps here*)
(* (AgentSession has it in full), rate limits and idempotency keys are a   *)
(* refusal (Limits, Idempotency), and the cache is not full (AgentSession). *)
(***************************************************************************)
EXTENDS Naturals, FiniteSets

CONSTANTS Users,        \* principals with an API key
          Admins, Viewers,
          Runs,
          Requests,     \* bound: the requests that arrive
          None,
          AllowSelf,    \* WARDEN_APPROVAL_ALLOW_SELF
          MaxTickets,   \* bound: approval requests
          MaxRestarts   \* bound: restarts of the process

\* None is nobody and nothing.
ASSUME NamesAssumption ==
  /\ None \notin Users \cup Runs \cup Requests
  /\ IsFiniteSet(Runs) /\ MaxTickets \in Nat /\ MaxRestarts \in Nat

VARIABLES
  row,      \* the owner in the row of each run, None without a row
  ticket,   \* the pending_approvals row of each run
  creator,  \* registry._created_by
  sess,     \* registry._sessions: the object of each run, named by the request that built it
  own,      \* run.user_id of each object
  held,     \* the ticket each object has in memory
  lock,     \* the run lock: the request that drives
  req,      \* the requests
  torn,     \* (observed) runs with a deletion and another request under way together
  decided,  \* (observed) the tickets that were decided
  issued, restarts

vars == <<row, ticket, creator, sess, own, held, lock, req, torn, decided, issued, restarts>>
database == <<row, ticket, decided, issued>>
registry == <<creator, sess, own, held>>

Operation == [read |-> "QUERY", create |-> "START", chat |-> "SUBMIT_INPUT",
              decide |-> "COMMAND", delete |-> "COMMAND", batch |-> "COMMAND"]
Kinds == DOMAIN Operation
ReadOps == {"QUERY", "READ_EVENTS", "SUBSCRIBE_EVENTS"}

\* A request that has not arrived.
Unsent == [at |-> "new", kind |-> "read", who |-> None, on |-> {}, names |-> 0, obj |-> None, cur |-> None]
Done == [Unsent EXCEPT !.at = "done"]

\* One that was let in.
Entered(u, k, rs, n) ==
  [at |-> "in", kind |-> k, who |-> u, on |-> rs, names |-> n, obj |-> None, cur |-> None]

Init ==
  /\ row = [r \in Runs |-> None] /\ ticket = [r \in Runs |-> 0]
  /\ creator = [r \in Runs |-> None] /\ sess = [r \in Runs |-> None]
  /\ own = [q \in Requests |-> None] /\ held = [q \in Requests |-> 0]
  /\ lock = [r \in Runs |-> None]
  /\ req = [q \in Requests |-> Unsent] /\ torn = {}
  /\ decided = {} /\ issued = 0 /\ restarts = 0

-----------------------------------------------------------------------------
(* Who may do what *)

\* role_for: a name on both lists is an administrator's.
Role(u) == IF u \in Admins THEN "admin" ELSE IF u \in Viewers THEN "viewer" ELSE "user"

\* Fault variant: a viewer may also start runs and talk.
RoleAllowsInput(u, k) == Role(u) = "viewer" => Operation[k] # "COMMAND"

RoleAllows(u, k) == Role(u) = "viewer" => Operation[k] \in ReadOps

\* Fault variant: without a row the run is anybody's.
OwnerOfRow(r, created) == row[r]

\* The row tells the owner; before there is one, who asked for the run first.
OwnerOf(r, created) == IF row[r] # None THEN row[r] ELSE created[r]

\* owner_authorizer: a run without an owner is everybody's.
OwnerAllows(u, r, created) == OwnerOf(r, created) \in {None, u}

\* An administrator decides on the runs of others.
CrossesOwners(u, k) == Role(u) = "admin" /\ k = "decide"

\* Role first, then the owner, which a batch checks by itself.
Authorized(u, k, r, created) ==
  RoleAllows(u, k) /\ (CrossesOwners(u, k) \/ k = "batch" \/ OwnerAllows(u, r, created))

-----------------------------------------------------------------------------
(* The middleware *)

Claim(u, rs) == [r \in Runs |-> IF r \in rs /\ creator[r] = None THEN u ELSE creator[r]]

Deletes == {"delete", "batch"}
Overlaps(p, k, r) ==
  r \in req[p].on \cup {req[p].cur} /\ (k \in Deletes \/ req[p].kind \in Deletes)

\* A request arrives: the first to name a run is noted, then it is let in or not.
Admit(q) ==
  /\ req[q].at = "new"
  /\ \E u \in Users, k \in Kinds, rs \in SUBSET Runs, n \in 0..issued :
       /\ rs # {} /\ (k # "batch" => Cardinality(rs) = 1)
       /\ n # 0 => k = "decide"
       /\ creator' = IF k = "batch" THEN creator ELSE Claim(u, rs)
       /\ req' = [req EXCEPT ![q] =
            IF \A r \in rs : Authorized(u, k, r, creator')
            THEN Entered(u, k, rs, n)
            ELSE Done]
       /\ torn' = torn \cup {r \in rs : \E p \in Requests : Overlaps(p, k, r)}
  /\ UNCHANGED <<database, sess, own, held, lock, restarts>>

RunOf(q) == CHOOSE r \in req[q].on : TRUE
Go(q, label) == req' = [req EXCEPT ![q] = IF label = "done" THEN Done ELSE [@ EXCEPT !.at = label]]
\* The response is sent; a handler with the lease gives it back.
Answer(q) ==
  /\ Go(q, "done")
  /\ lock' = [r \in Runs |-> IF lock[r] = q THEN None ELSE lock[r]]

\* 429, 409 of an idempotency key, or 423 of the run lock.
Refuse(q) ==
  /\ req[q].at = "in"
  /\ Go(q, "done")
  /\ UNCHANGED <<database, registry, lock, torn, restarts>>

-----------------------------------------------------------------------------
(* The registry *)

\* Fault variant: no lease is taken.
LockNone(q) ==
  /\ req[q].at = "in" /\ req[q].kind \in {"chat", "decide"}
  /\ Go(q, "locked")
  /\ UNCHANGED <<database, registry, lock, torn, restarts>>

\* _acquire_run
Lock(q) ==
  /\ req[q].at = "in" /\ req[q].kind \in {"chat", "decide"}
  /\ lock[RunOf(q)] = None
  /\ lock' = [lock EXCEPT ![RunOf(q)] = q]
  /\ Go(q, "locked")
  /\ UNCHANGED <<database, registry, torn, restarts>>

Handler == [create |-> "creating", chat |-> "owning", decide |-> "judging"]

\* registry.get: the object in memory, or one built from the database.
Find(q) ==
  /\ \/ req[q].at = "in" /\ req[q].kind \in {"read", "create"}
     \/ req[q].at = "locked"
  /\ LET r == RunOf(q) o == IF sess[r] # None THEN sess[r] ELSE q IN
       /\ req' = [req EXCEPT ![q] = IF @.kind = "read" THEN Done
                                    ELSE [@ EXCEPT !.at = Handler[req[q].kind], !.obj = o]]
       /\ sess' = [sess EXCEPT ![r] = o]
       /\ own' = [own EXCEPT ![q] = IF o = q THEN row[r] ELSE @]
       /\ held' = [held EXCEPT ![q] = IF o = q THEN ticket[r] ELSE @]
  /\ UNCHANGED <<database, creator, lock, torn, restarts>>

\* save_run: an upsert leaves the owner as it is.
Saved(r, u) == row' = [row EXCEPT ![r] = IF @ = None THEN u ELSE @]

\* A drive ends with a reply, or with a ticket in memory and in the database.
Holds(q, without) ==
  LET r == RunOf(q) o == req[q].obj IN
  \/ /\ held' = [held EXCEPT ![o] = without] /\ ticket' = [ticket EXCEPT ![r] = without]
     /\ UNCHANGED issued
  \/ /\ issued < MaxTickets /\ issued' = issued + 1
     /\ held' = [held EXCEPT ![o] = issued'] /\ ticket' = [ticket EXCEPT ![r] = issued']

-----------------------------------------------------------------------------
(* POST /chat, POST /runs *)

\* A session without an owner becomes the caller's.
Own(q) ==
  /\ req[q].at = "owning"
  /\ own' = [own EXCEPT ![req[q].obj] = IF @ = None THEN req[q].who ELSE @]
  /\ Go(q, "driving")
  /\ UNCHANGED <<database, creator, sess, held, lock, torn, restarts>>

\* start(): the run is saved as RUNNING.
Drive(q) ==
  /\ req[q].at = "driving"
  /\ Saved(RunOf(q), own[req[q].obj])
  /\ Go(q, "driven")
  /\ UNCHANGED <<ticket, decided, issued, registry, lock, torn, restarts>>

Finish(q) ==
  /\ req[q].at = "driven"
  /\ Saved(RunOf(q), own[req[q].obj])
  /\ \/ Holds(q, held[req[q].obj])
     \/ UNCHANGED <<held, ticket, issued>>
  /\ Answer(q)
  /\ UNCHANGED <<decided, creator, sess, own, torn, restarts>>

\* create_run takes no lease: it looks for a row, sets the owner in memory, and saves.
Create(q) ==
  /\ req[q].at = "creating"
  /\ IF row[RunOf(q)] = None
     THEN own' = [own EXCEPT ![req[q].obj] = req[q].who] /\ Go(q, "saving")
     ELSE UNCHANGED own /\ Go(q, "done")
  /\ UNCHANGED <<database, creator, sess, held, lock, torn, restarts>>

Save(q) ==
  /\ req[q].at = "saving"
  /\ Saved(RunOf(q), own[req[q].obj])
  /\ Go(q, "done")
  /\ UNCHANGED <<ticket, decided, issued, registry, lock, torn, restarts>>

-----------------------------------------------------------------------------
(* POST /approve, POST /reject *)

\* Fault variant: the ticket the human saw is not compared.
MayDecideAny(q) ==
  LET pending == held[req[q].obj] IN
  /\ pending # 0
  /\ AllowSelf \/ row[RunOf(q)] # req[q].who

\* A ticket is pending, it is the one that was named, and it is not the caller's own.
MayDecide(q) ==
  LET pending == held[req[q].obj] IN
  /\ pending # 0
  /\ req[q].names \in {0, pending}
  /\ AllowSelf \/ row[RunOf(q)] # req[q].who

Judge(q) ==
  /\ req[q].at = "judging"
  /\ IF MayDecide(q) THEN Go(q, "acting") /\ UNCHANGED lock ELSE Answer(q)
  /\ UNCHANGED <<database, registry, torn, restarts>>

\* approve(), reject() and what follows them; the decision is recorded.
Act(q) ==
  /\ req[q].at = "acting"
  /\ decided' = decided \cup {held[req[q].obj]}
  /\ Saved(RunOf(q), own[req[q].obj])
  /\ Holds(q, 0)
  /\ Answer(q)
  /\ UNCHANGED <<creator, sess, own, torn, restarts>>

-----------------------------------------------------------------------------
(* DELETE /runs *)

\* A batch checks every owner before it deletes anything.
Check(q) ==
  /\ req[q].at = "in" /\ req[q].kind = "batch"
  /\ Go(q, IF \A r \in req[q].on : OwnerAllows(req[q].who, r, creator)
           THEN "removing" ELSE "done")
  /\ UNCHANGED <<database, registry, lock, torn, restarts>>

\* The object leaves the registry, whoever still holds it; no lease is taken.
Remove(q) ==
  /\ \/ req[q].at = "in" /\ req[q].kind = "delete"
     \/ req[q].at = "removing"
  /\ \E r \in req[q].on :
       /\ req' = [req EXCEPT ![q].at = "erasing", ![q].cur = r, ![q].on = @ \ {r}]
       /\ sess' = [sess EXCEPT ![r] = None]
       /\ creator' = [creator EXCEPT ![r] = None]
  /\ UNCHANGED <<database, own, held, lock, torn, restarts>>

\* delete_run
Erase(q) ==
  /\ req[q].at = "erasing"
  /\ row' = [row EXCEPT ![req[q].cur] = None]
  /\ ticket' = [ticket EXCEPT ![req[q].cur] = 0]
  /\ Go(q, IF req[q].on = {} THEN "done" ELSE "removing")
  /\ UNCHANGED <<decided, issued, registry, lock, torn, restarts>>

\* The process is restarted: what it had in memory is gone, and the requests with it.
Restart ==
  /\ restarts < MaxRestarts /\ restarts' = restarts + 1
  /\ creator' = [r \in Runs |-> None] /\ sess' = [r \in Runs |-> None]
  /\ lock' = [r \in Runs |-> None]
  /\ req' = [q \in Requests |-> IF req[q].at = "new" THEN Unsent ELSE Done]
  /\ UNCHANGED <<database, own, held, torn>>

Next ==
  \/ \E q \in Requests :
       \/ Admit(q) \/ Refuse(q) \/ Lock(q) \/ Find(q)
       \/ Own(q) \/ Drive(q) \/ Finish(q) \/ Create(q) \/ Save(q)
       \/ Judge(q) \/ Act(q) \/ Check(q) \/ Remove(q) \/ Erase(q)
  \/ Restart

Spec == Init /\ [][Next]_vars

-----------------------------------------------------------------------------
(* Properties *)

\* The run a request writes in this step.
Target(q) == IF req[q].at = "erasing" THEN req[q].cur ELSE RunOf(q)
Writes(q) ==
  /\ req[q].at \in {"driving", "driven", "saving", "acting", "erasing"}
  /\ req'[q].at # req[q].at /\ restarts' = restarts

\* What is decided of a request in front still holds when its handler writes: a run
\* with an owner is written for the owner, or decided on by an administrator, unless
\* a deletion of the run overlapped with another request for it; and a viewer writes nothing
\* (server.py:676-706, session_registry.py:77-85, routes/runs.py:93-140).
OwnersKeep ==
  \A q \in Requests : Writes(q) =>
    LET r == Target(q) u == req[q].who IN
    /\ \/ row[r] \in {None, u}
       \/ req[q].kind = "decide" /\ u \in Admins
       \/ r \in torn
    /\ u \notin Viewers \ Admins
OwnersKeepTheirs == [][OwnersKeep]_vars

\* A decision is of the ticket the human saw, is taken once, and not by the one who
\* asked, unless the deployment allows that (http_kit.py:413-462,
\* routes/approvals.py:67-119).
Stands ==
  \A q \in Requests : (req[q].at = "acting" /\ Writes(q)) =>
    LET r == RunOf(q) pending == held[req[q].obj] IN
    \/ r \in torn
    \/ /\ req[q].names \in {0, pending} /\ pending = ticket[r] /\ pending \notin decided
       /\ AllowSelf \/ row[r] # req[q].who
DecisionsStand == [][Stands]_vars

AccessHolds == OwnersKeepTheirs /\ DecisionsStand
=============================================================================
