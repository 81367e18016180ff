----------------------------- MODULE ServerStart -----------------------------
(***************************************************************************)
(* run_server: a server reads its environment once, when it starts, and    *)
(* either refuses to run or is assembled from it.  Replicas are restarted  *)
(* one by one after a change of the configuration, so servers with earlier *)
(* configurations are up beside it.                                        *)
(*                                                                         *)
(* A configuration maps variables to what their text means to the code     *)
(* that reads them; "" is a variable that is not set.                      *)
(***************************************************************************)
EXTENDS Naturals, Sequences, SequencesExt

CONSTANTS Servers, Users, Keys, None,
          SingleUser,  \* WARDEN_API_USER
          MaxEdits     \* bound: changes of the configuration

VARIABLES
  config,   \* the deployment's configuration
  running,  \* the one that each server has read, or None
  holds,    \* the key that each user sends
  edits

startVars == <<config, running, holds, edits>>

Flag == {"", "1"}
Entry(u, k) == [user |-> u, key |-> k]
KeyLists ==
  {<<>>, <<Entry("", "")>>, <<Entry(None, None)>>}
  \cup {<<Entry(u, k)>> : u \in Users, k \in Keys}
  \cup {<<Entry(u, k), Entry(v, l)>> : u \in Users, v \in Users, k \in Keys, l \in Keys}

\* The variables that decide how a server starts, by the sections of the registry, and
\* texts that stand for all others: one that is good, one for each way to be refused.
AccessSpecs ==
  [WARDEN_API_KEYS |-> KeyLists, WARDEN_API_KEY |-> {""} \cup Keys,
   WARDEN_ALLOW_ANON |-> Flag \cup {"maybe"}]
ServiceSpecs ==
  [WARDEN_HOST |-> {"", "0.0.0.0"}, WARDEN_PG_HOST |-> {"", "up", "down"},
   WARDEN_TRUSTED_PROXIES |-> {"", "proxy", "0.0.0.0/0", "REPLACE_ME"},
   WARDEN_SHARED_STATE |-> Flag, WARDEN_AUDIT |-> Flag, WARDEN_AUDIT_REQUIRE_KEY |-> Flag]
ModelSpecs ==
  [DEEPSEEK_API_KEY |-> {"", "sk"}, WARDEN_BASE_URL |-> {"", "url"}, WARDEN_MODEL_API_KEY |-> {"", "sk"},
   WARDEN_ALLOW_FAKE_MODEL |-> Flag, WARDEN_DEMO_INSTANCE |-> Flag]
AbilitySpecs == [WARDEN_KNOWLEDGE |-> {"", "dir", "nowhere"}]
SecretSpecs == [WARDEN_AUDIT_KEY |-> {"", "secret"}]
LocalSpecs ==
  [WARDEN_DEMO_TOOLS |-> Flag, WARDEN_SANDBOX_ISOLATION |-> {"", "kernel", "kernal"}]
Sections == {AccessSpecs, ServiceSpecs, ModelSpecs, AbilitySpecs, SecretSpecs, LocalSpecs}
Names == UNION {DOMAIN section : section \in Sections}
ENV_SPECS ==
  [name \in Names |-> UNION {section[name] : section \in {s \in Sections : name \in DOMAIN s}}]
Kind(name) ==
  CASE name = "WARDEN_TRUSTED_PROXIES" -> "proxies"
    [] name = "WARDEN_API_KEYS" -> "keys"
    [] name \in {"WARDEN_ALLOW_ANON", "WARDEN_SHARED_STATE", "WARDEN_ALLOW_FAKE_MODEL",
                 "WARDEN_DEMO_INSTANCE", "WARDEN_DEMO_TOOLS", "WARDEN_AUDIT",
                 "WARDEN_AUDIT_REQUIRE_KEY"} -> "bool"
    [] OTHER -> "text"

-----------------------------------------------------------------------------
(* The reading of variables *)

env_bool(e, name) == e[name] = "1"

_proxies_problem(value) == value = "0.0.0.0/0"

_format_problem(name, value) ==
  CASE Kind(name) = "keys" -> FALSE
    [] Kind(name) = "bool" -> value = "maybe"
    [] Kind(name) = "proxies" -> value = "REPLACE_ME" \/ _proxies_problem(value)
    [] OTHER -> value = "REPLACE_ME"

validate_env(e) == \E name \in Names : _format_problem(name, e[name])

is_loopback_host(e) == e.WARDEN_HOST = ""

-----------------------------------------------------------------------------
(* Who may come in: the callers by their keys *)

Pairs(e) == {p \in Range(e.WARDEN_API_KEYS) : p.key # ""}

KeysBroken(e) ==
  \E p, q \in Pairs(e) : p.user = None \/ (p.key = q.key /\ p.user # q.user)

\* Two entries of a user are two keys: that is how keys are changed without a break.
Callers(e) ==
  IF Pairs(e) # {}
  THEN [k \in {p.key : p \in Pairs(e)} |-> (CHOOSE p \in Pairs(e) : p.key = k).user]
  ELSE [k \in {e.WARDEN_API_KEY} \ {""} |-> SingleUser]

resolve_auth(e) ==
  CASE KeysBroken(e) -> "error"
    [] ~KeysBroken(e) /\ DOMAIN Callers(e) # {} -> "bearer"
    [] OTHER -> IF env_bool(e, "WARDEN_ALLOW_ANON") THEN "anon-dev" ELSE "error"

ensure_listen_is_safe(e) == resolve_auth(e) = "bearer" \/ is_loopback_host(e)

-----------------------------------------------------------------------------
(* What the server is made of *)

Store(e) == IF e.WARDEN_PG_HOST = "" THEN "sqlite" ELSE "postgres"

ensure_shared_state_matches_backend(e) == env_bool(e, "WARDEN_SHARED_STATE") => Store(e) # "sqlite"

\* A key for DeepSeek goes before an endpoint of one's own, which takes an address and a key.
Model(e) ==
  IF e.DEEPSEEK_API_KEY # "" THEN "deepseek"
  ELSE IF e.WARDEN_BASE_URL # "" /\ e.WARDEN_MODEL_API_KEY # "" THEN "custom" ELSE "fake"

ensure_model_is_real(e) ==
  \/ Model(e) # "fake" \/ is_loopback_host(e)
  \/ env_bool(e, "WARDEN_ALLOW_FAKE_MODEL") /\ env_bool(e, "WARDEN_DEMO_INSTANCE")

_audit_key_status(e) ==
  CASE ~env_bool(e, "WARDEN_AUDIT") -> "off"
    [] e.WARDEN_AUDIT_KEY # "" -> "keyed"
    [] env_bool(e, "WARDEN_AUDIT_REQUIRE_KEY") -> "required-missing"
    [] OTHER -> "unkeyed"

\* A directory of documents, or a mode of isolation, that is not there.
_knowledge_from_env(e) == IF e.WARDEN_KNOWLEDGE = "nowhere" THEN "error" ELSE e.WARDEN_KNOWLEDGE
sandbox_isolation_policy(e) == IF e.WARDEN_SANDBOX_ISOLATION = "kernal" THEN "error" ELSE "declared"

\* Every part that replicas share lives in the store, or none does; the audit log and the
\* memory follow the store, shared state or not (run_server.py:719-722, 761-771).
coordination_for(e) == IF env_bool(e, "WARDEN_SHARED_STATE") THEN Store(e) ELSE "process"
run_lock_for(e) == IF env_bool(e, "WARDEN_SHARED_STATE") THEN Store(e) ELSE "process"
audit_store_for_backend(e) == IF env_bool(e, "WARDEN_AUDIT") THEN Store(e) ELSE "none"
MemoryRepository(e) == Store(e)

\* The demonstration tools, and those that the assembly adds; FALSE: declared pure.
Effects == [tool \in {"memory.remember", "memory.confirm", "shell.run", "fs.delete"} |-> TRUE]
           @@ [tool \in {"weather.get", "web.search"} |-> FALSE]
_build_catalog(e) ==
  DOMAIN Effects \ (IF env_bool(e, "WARDEN_DEMO_TOOLS") THEN {} ELSE {"fs.delete", "weather.get"})

_is_pure_tool(e, tool) == tool \in _build_catalog(e) /\ ~Effects[tool]

_build_policy(e, tool) == IF _is_pure_tool(e, tool) \/ tool = "memory.remember" THEN "allow" ELSE "ask"

\* The store that keeps what each part of the server must remember: both limiters, of
\* requests and of calls to the outside, count where the coordination is.
Assembled(e) ==
  [coordination |-> coordination_for(e), limiter |-> coordination_for(e),
   outbound |-> coordination_for(e), run_lock |-> run_lock_for(e),
   audit |-> audit_store_for_backend(e), memory |-> MemoryRepository(e), maintenance |-> Store(e)]

\* The address of a request's sender, who may claim another in a header.
Source(e, peer, claim) == 
  IF e.WARDEN_TRUSTED_PROXIES \in {peer, "0.0.0.0/0"} THEN claim ELSE peer

-----------------------------------------------------------------------------
(* main: the store is opened first, then everything is checked in turn *)

main(e) ==
  /\ e.WARDEN_PG_HOST # "down"
  /\ ~validate_env(e)
  /\ ensure_shared_state_matches_backend(e)
  /\ resolve_auth(e) # "error"
  /\ ensure_listen_is_safe(e)
  /\ ensure_model_is_real(e)
  /\ sandbox_isolation_policy(e) # "error"
  /\ _audit_key_status(e) # "required-missing"
  /\ _knowledge_from_env(e) # "error"

\* What is not set is empty.
Environment(settings) ==
  [name \in Names |-> IF name \in DOMAIN settings THEN settings[name]
                      ELSE IF name = "WARDEN_API_KEYS" THEN <<>> ELSE ""]
Deployments(u, k) ==
  {Environment(settings) : settings \in
     {[WARDEN_ALLOW_ANON |-> "1"],
      [WARDEN_HOST |-> "0.0.0.0", WARDEN_API_KEY |-> k, WARDEN_ALLOW_FAKE_MODEL |-> "1",
       WARDEN_DEMO_INSTANCE |-> "1"],
      [WARDEN_HOST |-> "0.0.0.0", WARDEN_API_KEYS |-> <<Entry(u, k)>>, WARDEN_PG_HOST |-> "up",
       WARDEN_SHARED_STATE |-> "1", DEEPSEEK_API_KEY |-> "sk", WARDEN_TRUSTED_PROXIES |-> "proxy"]}}

Init ==
  /\ config \in Deployments(SingleUser, CHOOSE k \in Keys : TRUE)
  /\ running = [s \in Servers |-> None]
  /\ holds = [u \in Users |-> None]
  /\ edits = 0

Accepts(e, u, k) == k \in DOMAIN Callers(e) /\ Callers(e)[k] = u
Listed(e, u, k) ==
  IF Pairs(e) = {} THEN u = SingleUser /\ e.WARDEN_API_KEY = k ELSE Entry(u, k) \in Pairs(e)
Up == {s \in Servers : running[s] # None}

\* The operator takes no key off the list that its owner still sends (run_server.py:264-266).
Edit ==
  /\ edits < MaxEdits /\ edits' = edits + 1
  /\ \E name \in Names : \E value \in ENV_SPECS[name] \ {config[name]} :
       config' = [config EXCEPT ![name] = value]
  /\ \A u \in Users : holds[u] # None => Listed(config', u, holds[u]) \/ ~main(config')
  /\ UNCHANGED <<running, holds>>

Start(s) ==
  /\ running[s] = None
  /\ main(config)
  /\ running' = [running EXCEPT ![s] = config]
  /\ UNCHANGED <<config, holds, edits>>

\* On SIGTERM; a deployment may stop any replica.
Stop(s) ==
  /\ running[s] # None
  /\ running' = [running EXCEPT ![s] = None]
  /\ UNCHANGED <<config, holds, edits>>

\* A user sends a key from when it is seen to work.
Take(u, k) ==
  /\ holds[u] # k
  /\ Up # {} /\ Listed(config, u, k) /\ \A s \in Up : Accepts(running[s], u, k)
  /\ holds' = [holds EXCEPT ![u] = k]
  /\ UNCHANGED <<config, running, edits>>

Next ==
  \/ Edit
  \/ \E s \in Servers : Start(s) \/ Stop(s)
  \/ \E u \in Users, k \in Keys : Take(u, k)

Spec == Init /\ [][Next]_startVars

-----------------------------------------------------------------------------
(* Properties *)

\* Keys are changed without a break: while replicas are restarted one by one, every one
\* of them knows the key that a user sends, and as that user (run_server.py:264-269).
KeysRollOver ==
  \A s \in Up, u \in Users : holds[u] # None => Accepts(running[s], u, holds[u])

\* Whatever was changed, nobody from outside reaches a server without a key, or one that
\* answers from a script and does not say so, or chooses the address that limits and
\* keys are counted by; and no tool with effects is carried out unasked, the proposals
\* of memories apart (run_server.py:8-30, 148-175, 320-426, 479-495).
OutsideIsGuarded ==
  \A s \in Up : LET e == running[s] IN
    /\ ~is_loopback_host(e) =>
         /\ DOMAIN Callers(e) # {} /\ "" \notin DOMAIN Callers(e)
         /\ Model(e) = "fake" => {e.WARDEN_ALLOW_FAKE_MODEL, e.WARDEN_DEMO_INSTANCE} = {"1"}
    /\ \A claim \in {"stranger", "victim"} : Source(e, "stranger", claim) = "stranger"
    /\ \A tool \in DOMAIN Effects : Effects[tool] => tool = "memory.remember" \/ _build_policy(e, tool) = "ask"

\* A server that shares its state shares all of it, its log and its memory included: what
\* the assembly does (run_server.py:336-367, 719-722, 761-771, 791-800, 853, audit.py:796-807).
\* Two texts of the same file say otherwise; LogAndMemoryApart is what they say.
SharedIsShared ==
  \A s \in Up : LET e == running[s] IN
    env_bool(e, "WARDEN_SHARED_STATE") =>
      \A part \in DOMAIN Assembled(e) : Assembled(e)[part] \in {"postgres", "none"}

\* Documentation, not checked: each of several replicas has a log and a memory of its own
\* (run_server.py:506-507 and the error text at 365).  The code does not do so.
LogAndMemoryApart ==
  \A s \in Up : LET e == running[s] IN
    env_bool(e, "WARDEN_SHARED_STATE") =>
      Assembled(e).audit \in {"sqlite", "none"} /\ Assembled(e).memory = "sqlite"
=============================================================================
