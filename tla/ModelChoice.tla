----------------------------- MODULE ModelChoice -----------------------------
(***************************************************************************)
(* /models: users import keys, choose the model of their conversations and *)
(* ask whether a provider answers.  Handlers run in threads, so their      *)
(* reads of the vault, their writes and the change of the sessions are     *)
(* apart.  Keys are kept in the vault; choices, sessions and the results   *)
(* of probes live in the process.                                          *)
(*                                                                         *)
(* A part of its own are the leases under which a credential is lent out:  *)
(* processes issue, take back, revoke and purge them step by step while    *)
(* the credential is replaced and deleted (Lend).                          *)
(***************************************************************************)
EXTENDS Naturals, FiniteSets

CONSTANTS Users, Admins, Runs, Urls, Deployment, None,
          Keys,                     \* keys that users import
          Given,                    \* the key that the deployment was given
          Models,                   \* those of the catalog that are looked at
          MaxRequests, MaxRestarts, \* bounds
          Borrowers, Leases,        \* processes, identifiers of leases
          TTL, MaxTime              \* of a lease, and a bound on the clock

VARIABLES
  vault,     \* the credential of each scope and model, or None
  default,   \* the model of the deployment
  choice,    \* the model that each user has chosen, or None
  row,       \* the owner of each stored run, or None
  sess,      \* sessions in memory
  op,        \* requests under way
  probes,    \* the results by scope, model and address: the key that was tried
  latest,    \* the last result of each scope and model
  asked, restarts,
  told,      \* (observed) the key whose import a user was told of, and none followed
  crossed    \* (observed) two selections of a user and a model were under way at a time

VARIABLES
  now,
  credential,  \* the value registered under the one name that is lent out, or None
  lease,       \* the end of each stored lease, or None
  task,        \* what each borrower is doing, or None
  withdrawn,   \* (observed) the leases that were revoked
  answer       \* (observed) the task that gave each borrower a value last, or None

leaseVars == <<now, credential, lease, task, withdrawn, answer>>
process == <<default, choice, sess, probes, latest>>
choiceVars == <<vault, process, row, op, asked, restarts, told, crossed, leaseVars>>

model_catalog ==
  [fake   |-> [needs_key |-> FALSE, needs_endpoint |-> FALSE],
   openai |-> [needs_key |-> TRUE,  needs_endpoint |-> FALSE],
   custom |-> [needs_key |-> TRUE,  needs_endpoint |-> TRUE]]
Requests == 1 .. MaxRequests
Scopes == Users \cup {Deployment}

Model(id, key, url, by) == [id |-> id, key |-> key, url |-> url, by |-> by]
\* What run_server was started with: a script, or an endpoint with its key.
Configured == {Model("fake", None, None, Deployment)}
              \cup {Model("custom", Given, w, Deployment) : w \in Urls}

InitLeases ==
  /\ now = 0 /\ credential \in Keys \cup {None}
  /\ lease = [l \in Leases |-> None]
  /\ task = [p \in Borrowers |-> None] /\ answer = [p \in Borrowers |-> None]
  /\ withdrawn = {}

Init ==
  /\ InitLeases
  /\ default \in Configured
  /\ vault = [s \in Scopes |-> [i \in Models |->
       IF s = Deployment /\ i = default.id /\ i # "fake" THEN [key |-> default.key, url |-> default.url] ELSE None]]
  /\ choice = [u \in Users |-> None]
  /\ row = [r \in Runs |-> None] /\ sess = [r \in Runs |-> None]
  /\ op = [o \in Requests |-> None]
  /\ probes = [u \in Users |-> [i \in Models |-> [w \in Urls \cup {None} |-> None]]]
  /\ latest = [u \in Users |-> [i \in Models |-> None]]
  /\ asked = 0 /\ restarts = 0
  /\ told = [u \in Users |-> [i \in Models |-> None]]
  /\ crossed = [u \in Users |-> {}]

-----------------------------------------------------------------------------
(* What is registered: one's own first, then the deployment's *)

_scopes(u, id) == {s \in {u, Deployment} : vault[s][id] # None}
_first(u, ss) == IF u \in ss THEN u ELSE Deployment

_registered_model_key(u, id) ==
  IF _scopes(u, id) = {} THEN None ELSE vault[_first(u, _scopes(u, id))][id].key

_custom_endpoint_or_none(u) ==
  LET ss == {s \in _scopes(u, "custom") : vault[s]["custom"].url # None}
  IN  IF ss = {} THEN None ELSE vault[_first(u, ss)]["custom"].url

_resolve_endpoint(u, id, url) ==
  IF ~model_catalog[id].needs_endpoint THEN None
  ELSE IF url # None THEN url ELSE _custom_endpoint_or_none(u)

\* The list: what can be chosen without a key or an address, and the last probe of it.
models_view(u) ==
  [i \in Models |-> [
     configured |-> model_catalog[i].needs_key =>
       _scopes(u, i) # {} /\ (model_catalog[i].needs_endpoint => _custom_endpoint_or_none(u) # None),
     last_probe |-> latest[u][i]]]

-----------------------------------------------------------------------------
(* Requests.  body: [id, key, url, deployment] *)

Bodies ==
  {b \in [id : Models, key : Keys \cup {None}, url : Urls \cup {None}, deployment : BOOLEAN] :
     (b.key # None => b.id # "fake") /\ (b.url # None => b.id = "custom")}

Busy(u, id) == {o \in Requests : op[o] # None /\ op[o].kind = "select" /\ op[o].by = u
                                 /\ op[o].body.id = id}

Ask(o, u, kind, body) ==
  /\ o = asked + 1 /\ asked' = o
  /\ kind = "probe" => ~body.deployment
  /\ op' = [op EXCEPT ![o] = [kind |-> kind, by |-> u, body |-> body, at |-> "key",
                              key |-> None, url |-> None]]
  /\ crossed' = IF kind = "select" /\ Busy(u, body.id) # {}
                THEN [crossed EXCEPT ![u] = @ \cup {body.id}] ELSE crossed
  /\ UNCHANGED <<vault, process, row, restarts, told>>

At(o, step) == op[o] # None /\ op[o].at = step
Goes(o, step) == op' = [op EXCEPT ![o].at = step]
Refuse(o) == op' = [op EXCEPT ![o] = None]

\* A key in the body goes before one that is registered; 400 without either.
ReadKey(o) ==
  /\ At(o, "key")
  /\ LET b == op[o].body
         key == IF b.key # None THEN b.key ELSE _registered_model_key(op[o].by, b.id)
     IN  IF model_catalog[b.id].needs_key /\ key = None
         THEN Refuse(o)
         ELSE op' = [op EXCEPT ![o].key = key, ![o].at = "endpoint"]
  /\ UNCHANGED <<vault, process, row, asked, restarts, told, crossed>>

\* 400 without an address, 403 before anything is written; a fresh result is served again.
Resolve(o) ==
  /\ At(o, "endpoint")
  /\ LET b == op[o].body
         u == op[o].by
         url == _resolve_endpoint(u, b.id, b.url)
     IN  IF \/ model_catalog[b.id].needs_endpoint /\ url = None
            \/ b.deployment /\ u \notin Admins
         THEN Refuse(o)
         ELSE \/ op[o].kind = "select" /\ op' = [op EXCEPT ![o].url = url, ![o].at = "store"]
              \/ op[o].kind = "probe" /\ op' = [op EXCEPT ![o].url = url, ![o].at = "probe"]
              \/ /\ op[o].kind = "probe" /\ b.key = None /\ Refuse(o)
                 /\ probes[u][b.id][url] # None
  /\ UNCHANGED <<vault, process, row, asked, restarts, told, crossed>>

\* register replaces the whole credential: with a new address alone, the key that was
\* read is written again.
Register(o) ==
  /\ At(o, "store")
  /\ LET b == op[o].body IN
     vault' = IF b.key # None \/ (b.id = "custom" /\ b.url # None)
              THEN [vault EXCEPT ![op[o].by][b.id] = [key |-> op[o].key, url |-> op[o].url]]
              ELSE vault
  /\ told' = IF op[o].body.key # None
             THEN [told EXCEPT ![op[o].by][op[o].body.id] = None] ELSE told
  /\ Goes(o, "switch")
  /\ UNCHANGED <<process, row, asked, restarts, crossed>>

set_model(m, owner) ==
  /\ IF owner = None THEN default' = m /\ UNCHANGED choice
     ELSE choice' = [choice EXCEPT ![owner] = m] /\ UNCHANGED default
  /\ sess' = [r \in Runs |->
       IF sess[r] # None /\ (owner = None \/ sess[r].owner = owner)
       THEN [sess[r] EXCEPT !.model = m] ELSE sess[r]]

Switch(o) ==
  /\ At(o, "switch")
  /\ LET b == op[o].body
         u == op[o].by
     IN  /\ set_model(Model(b.id, op[o].key, op[o].url, IF b.deployment THEN Deployment ELSE u),
                      IF b.deployment THEN None ELSE u)
         /\ told' = IF b.key # None THEN [told EXCEPT ![u][b.id] = b.key] ELSE told
  /\ Refuse(o)
  /\ UNCHANGED <<vault, row, probes, latest, asked, restarts, crossed>>

\* The provider answers, or not; a probe with a key of its own is not kept.
Probe(o) ==
  /\ At(o, "probe")
  /\ LET b == op[o].body
         u == op[o].by
     IN  IF b.key # None THEN UNCHANGED <<probes, latest>>
         ELSE /\ probes' = [probes EXCEPT ![u][b.id][op[o].url] = op[o].key]
              /\ latest' = [latest EXCEPT ![u][b.id] = op[o].key]
  /\ Refuse(o)
  /\ UNCHANGED <<vault, default, choice, sess, row, asked, restarts, told, crossed>>

-----------------------------------------------------------------------------
(* Leases on one credential.  A task: [op, step, lease, since, until, late]: `since` is
   when it began or read the clock, `until` the end that it has read, and `late` says
   that the lease had been revoked before (observed). *)

Begin(p, o, l) ==
  /\ task[p] = None
  /\ o = "issue" => lease[l] = None /\ l \notin withdrawn   \* a fresh identifier
                    /\ \A q \in Borrowers : task[q] # None => task[q].lease # l
  /\ task' = [task EXCEPT ![p] = [op |-> o, step |-> "load", lease |-> l, since |-> now,
                                     until |-> None, late |-> l \in withdrawn]]
  /\ answer' = [answer EXCEPT ![p] = None]
  /\ UNCHANGED <<now, credential, lease, withdrawn>>

In(p, o, step) == task[p] # None /\ task[p].op = o /\ task[p].step = step
Then(p, step) == task' = [task EXCEPT ![p].step = step]
End(p) == task' = [task EXCEPT ![p] = None]

\* The statements on the table of leases.
save_credential_lease(l, end) == lease' = [lease EXCEPT ![l] = end]
delete_credential_lease(l) == lease' = [lease EXCEPT ![l] = None]
purge_expired_credential_leases(t) ==
  lease' = [l \in Leases |-> IF lease[l] # None /\ lease[l] <= t THEN None ELSE lease[l]]

\* KeyError without a credential; the clock is read after it was loaded.
issue(p) ==
  /\ \/ /\ In(p, "issue", "load") /\ UNCHANGED lease
        /\ IF credential = None THEN End(p)
           ELSE task' = [task EXCEPT ![p].step = "save", ![p].since = now]
     \/ /\ In(p, "issue", "save") /\ Then(p, "purge")
        /\ save_credential_lease(task[p].lease, task[p].since + TTL)
     \/ /\ In(p, "issue", "purge") /\ End(p)
        /\ purge_expired_credential_leases(task[p].since)
  /\ UNCHANGED <<now, credential, withdrawn, answer>>

\* A lease that is absent, at its end, or without its credential is no answer.
lease_get(p) ==
  /\ \/ /\ In(p, "get", "load") /\ UNCHANGED <<lease, answer>>
        /\ LET l == task[p].lease IN
           IF lease[l] = None THEN End(p)
           ELSE task' = [task EXCEPT ![p].until = lease[l],
                                     ![p].step = IF lease[l] <= now THEN "drop" ELSE "credential"]
     \/ /\ In(p, "get", "credential") /\ UNCHANGED lease
        /\ IF credential = None THEN Then(p, "drop") /\ UNCHANGED answer
           ELSE /\ answer' = [answer EXCEPT ![p] = task[p]]
                /\ End(p)
     \/ In(p, "get", "drop") /\ End(p) /\ delete_credential_lease(task[p].lease) /\ UNCHANGED answer
  /\ UNCHANGED <<now, credential, withdrawn>>

revoke(l) ==
  /\ lease[l] # None /\ delete_credential_lease(l) /\ withdrawn' = withdrawn \cup {l}
  /\ UNCHANGED <<now, credential, task, answer>>

Credential(k) ==
  /\ credential # k /\ credential' = k
  /\ UNCHANGED <<now, lease, task, withdrawn, answer>>

Tick ==
  /\ now < MaxTime /\ now' = now + 1
  /\ UNCHANGED <<credential, lease, task, withdrawn, answer>>

Lend ==
  \/ \E p \in Borrowers : \/ issue(p) \/ lease_get(p)
                          \/ \E l \in Leases : Begin(p, "issue", l) \/ Begin(p, "get", l)
  \/ \E l \in Leases : revoke(l)
  \/ \E k \in Keys \cup {None} : Credential(k)
  \/ Tick

LendOnly == Lend /\ UNCHANGED <<vault, process, row, op, asked, restarts, told, crossed>>

-----------------------------------------------------------------------------
(* Sessions *)

model_for(u) == IF u # None /\ choice[u] # None THEN choice[u] ELSE default

\* A session that is built has the deployment's model, one that is found its owner's.
get(r) ==
  IF sess[r] = None THEN [owner |-> row[r], model |-> default]
  ELSE [sess[r] EXCEPT !.model = model_for(sess[r].owner)]

apply_owner_model(s) == [s EXCEPT !.model = model_for(s.owner)]

Chat(u, r) ==
  /\ row[r] \in {None, u}
  /\ LET s == IF get(r).owner = None THEN apply_owner_model([get(r) EXCEPT !.owner = u]) ELSE get(r)
     IN  /\ s.owner = u
         /\ sess' = [sess EXCEPT ![r] = s]
  /\ row' = [row EXCEPT ![r] = u]
  /\ UNCHANGED <<vault, default, choice, op, probes, latest, asked, restarts, told, crossed>>

\* A decision on a run, which drives it, too, or GET /status, also of a run that nobody
\* owns.
Get(r) ==
  /\ sess' = [sess EXCEPT ![r] = get(r)]
  /\ UNCHANGED <<vault, default, choice, row, op, probes, latest, asked, restarts, told, crossed>>

\* The run is bound, its model is not set.
create_run(u, r) ==
  /\ row[r] = None
  /\ sess' = [sess EXCEPT ![r] = [get(r) EXCEPT !.owner = u]]
  /\ row' = [row EXCEPT ![r] = u]
  /\ UNCHANGED <<vault, default, choice, op, probes, latest, asked, restarts, told, crossed>>

Evict(r) ==
  /\ sess[r] # None
  /\ sess' = [sess EXCEPT ![r] = None]
  /\ UNCHANGED <<vault, default, choice, row, op, probes, latest, asked, restarts, told, crossed>>

delete_run(r) ==
  /\ row[r] # None
  /\ sess' = [sess EXCEPT ![r] = None] /\ row' = [row EXCEPT ![r] = None]
  /\ UNCHANGED <<vault, default, choice, op, probes, latest, asked, restarts, told, crossed>>

Restart ==
  /\ restarts < MaxRestarts /\ restarts' = restarts + 1
  /\ default' = CHOOSE m \in Configured :
       IF vault[Deployment]["custom"] = None THEN m.id = "fake"
       ELSE [key |-> m.key, url |-> m.url] = vault[Deployment]["custom"]
  /\ choice' = [u \in Users |-> None]
  /\ sess' = [r \in Runs |-> None] /\ op' = [o \in Requests |-> None]
  /\ probes' = [u \in Users |-> [i \in Models |-> [w \in Urls \cup {None} |-> None]]]
  /\ latest' = [u \in Users |-> [i \in Models |-> None]]
  /\ UNCHANGED <<vault, row, asked, told, crossed>>

Next ==
  \/ \E o \in Requests : \/ \E u \in Users, kind \in {"select", "probe"}, b \in Bodies : Ask(o, u, kind, b)
                         \/ ReadKey(o) \/ Resolve(o) \/ Register(o) \/ Switch(o)
                         \/ Probe(o)
  \/ \E r \in Runs : \/ \E u \in Users : Chat(u, r) \/ create_run(u, r)
                     \/ Get(r) \/ Evict(r) \/ delete_run(r)
  \/ Restart

Choose == Next /\ UNCHANGED leaseVars
Spec == Init /\ [][Choose]_choiceVars

-----------------------------------------------------------------------------
(* Properties *)

\* A choice of a user reaches the user's own conversations only: none is left in a
\* session, or driven, with the model of somebody else, whatever is selected, bound,
\* evicted and deleted meanwhile (routes/models.py:219-226, session_registry.py:176-190).
OwnModel ==
  \A r \in Runs :
    /\ sess[r] # None => sess[r].model.by \in {sess[r].owner, Deployment}
    /\ get(r).model.by \in {get(r).owner, Deployment} /\ get(r).owner \in {row[r], None}

\* A key whose import was confirmed is in the vault, after a restart and after a change of
\* the address, too, unless two selections overlapped (routes/models.py:250-266).
ImportKept ==
  \A u \in Users, i \in Models :
    told[u][i] # None /\ i \notin crossed[u] => vault[u][i] # None /\ vault[u][i].key = told[u][i]

\* What the list says is so: a model that is shown as configured can be chosen with
\* nothing but its name, and a result that is shown is one of a registered key: trying a
\* key leaves no trace (routes/models.py:107-127, 163-173).
ListTells ==
  \A u \in Users, i \in Models :
    /\ models_view(u)[i].configured <=>
         /\ model_catalog[i].needs_key => _registered_model_key(u, i) # None
         /\ model_catalog[i].needs_endpoint => _resolve_endpoint(u, i, None) # None
    /\ models_view(u)[i].last_probe # None /\ model_catalog[i].needs_key => _scopes(u, i) # {}

\* A credential is lent for its time only: get gives no value after the end of the lease or
\* its revocation, whatever is issued and purged meanwhile (credential/broker.py:168-190).
LentInTime ==
  \A p \in Borrowers : answer[p] # None => answer[p].since < answer[p].until /\ ~answer[p].late

\* Refuted: a session that is rebuilt is driven with the deployment's model although its
\* owner has chosen one (session_registry.py:128-153).
DrivesWithChoice ==
  \A r \in Runs : row[r] # None /\ choice[row[r]] # None => get(r).model.by # Deployment
=============================================================================
