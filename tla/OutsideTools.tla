----------------------------- MODULE OutsideTools -----------------------------
(***************************************************************************)
(* Tools that reach out of the program, each part with a next-state        *)
(* relation of its own:                                                    *)
(*   Fetch    a page is read: each address is resolved, judged and pinned, *)
(*            redirects are followed hop by hop, and the size is bounded;  *)
(*   Search   callers share one search provider and its last error;        *)
(*   Mcp      tools of another server are listed, reviewed and called      *)
(*            through a process of each operation, and Warden's own server *)
(*            answers such calls under its policy;                         *)
(*   Skill    packages of instructions are registered and activated.       *)
(* Names, addresses and texts are model values.                            *)
(***************************************************************************)
EXTENDS Naturals, Sequences, FiniteSets

CONSTANTS None,
          Urls, Blocked,              \* Blocked: refused as they are written
          Addresses, Public, MaxRedirects, MaxBytes, MaxChunk,
          Callers,
          Remote, Dangerous, MaxOps,  \* tools of a server, and those whose names are reviewed away
          Aliases, Titles, Needs, MaxLoads

VARIABLES
  online,      \* WARDEN_WEB_FETCH
  page,        \* the fetch: its step, address, hops, bytes, and what the tool tells
  linked,      \* (observed) the connected addresses, each with the answer it was judged by
  cached       \* (observed) the bytes that the peer has sent

fetchVars == <<online, page, linked, cached>>

VARIABLES
  provider,    \* "http", or an offline one, with a reason or not
  last_error,
  seeker,      \* each search: where it is, its hits, what its request met, and what is told
  mixed        \* (observed) searches during which another one touched last_error

searchVars == <<provider, last_error, seeker, mixed>>

VARIABLES
  rules,       \* the server's verdict on each of its tools
  op,          \* the client's operation, or None
  inbox,       \* lines that servers have to handle
  replies,     \* the replies of each line
  ran,         \* (observed) the operations whose tool has run, in order
  imported,
  ops, lines,  \* counters, bounds
  heard        \* (observed) what the last call gave: its operation, and "ok" or "error"

mcpVars == <<rules, op, inbox, replies, ran, imported, ops, lines, heard>>

VARIABLES
  versions,    \* of each alias: the registered contents by version
  cards,       \* the content bound to each card's name, or None
  bound,       \* (observed) the aliases that have got a card, and the versions there were
  tools, loads, shown

skillVars == <<versions, cards, bound, tools, loads, shown>>

-----------------------------------------------------------------------------
(* Fetch *)

InitFetch ==
  /\ online \in BOOLEAN /\ linked = <<>> /\ cached = 0
  /\ page = [step |-> "idle", url |-> None, hops |-> 0, ip |-> None, judged |-> {},
             kept |-> 0, cut |-> FALSE, status |-> "none", tell |-> None]

check(url) == url \notin Blocked

_is_public_ip(ip) == ip \in Public

\* Static check, then every resolved address must be a public one.
resolve_for_connection(url, ips) == check(url) /\ ips # {} /\ \A ip \in ips : _is_public_ip(ip)

Told(what) == [page EXCEPT !.step = "told", !.tell = what]

\* The tool: judged before a slot is taken; an offline provider is not asked of names.
fetch_tool(url, ips) ==
  /\ page.step = "idle" /\ UNCHANGED <<online, linked, cached>>
  /\ \/ /\ online /\ resolve_for_connection(url, ips)
        /\ page' = [page EXCEPT !.step = "guard", !.url = url]
     \/ /\ ~online /\ check(url)
        /\ \E known \in BOOLEAN : page' = Told(IF known THEN "sample" ELSE "not prepared")
     \/ /\ ~(IF online THEN resolve_for_connection(url, ips) ELSE check(url))
        /\ page' = Told("refused")

Guard ==
  /\ page.step = "guard" /\ UNCHANGED <<online, linked, cached>>
  /\ page' \in {Told("limited"), [page EXCEPT !.step = "follow"]}

\* Each hop is judged by a resolution of its own, whose first address is connected to.
_follow(ips) ==
  /\ page.step = "follow" /\ UNCHANGED <<online, linked, cached>>
  /\ IF page.hops > MaxRedirects THEN page' = Told("too many redirects")
     ELSE IF ~resolve_for_connection(page.url, ips) THEN page' = Told("refused")
     ELSE \E ip \in ips : page' = [page EXCEPT !.step = "dial", !.ip = ip, !.judged = ips]

_pin_to_validated_ip == page.ip

\* One request: a redirection is not followed by the library; one that names no target is
\* the result.
_fetch_once ==
  /\ page.step = "dial" /\ UNCHANGED <<online, cached>>
  /\ linked' = Append(linked, [ip |-> _pin_to_validated_ip, judged |-> page.judged])
  /\ \/ \E what \in {"unreachable", "status", "not text"} : page' = Told(what)
     \/ \E url \in Urls : page' = [page EXCEPT !.step = "follow", !.url = url, !.hops = @ + 1]
     \/ page' = [Told("page") EXCEPT !.status = "redirect"]
     \/ page' = [page EXCEPT !.step = "read", !.status = "ok"]

\* The body, until it ends or there is no room for a chunk.
iter_bytes ==
  /\ page.step = "read" /\ UNCHANGED <<online, linked>>
  /\ \/ \E n \in 1 .. MaxChunk :
          /\ cached' = cached + n
          /\ LET room == MaxBytes - page.kept IN
             page' = IF n > room THEN [Told("page") EXCEPT !.kept = @ + room, !.cut = TRUE]
                     ELSE [page EXCEPT !.kept = @ + n]
     \/ page' = Told("page") /\ UNCHANGED cached
     \/ page' = Told("unreachable") /\ UNCHANGED cached

Fetch ==
  \/ \E url \in Urls, ips \in SUBSET Addresses : fetch_tool(url, ips)
  \/ \E ips \in SUBSET Addresses : _follow(ips)
  \/ Guard \/ _fetch_once \/ iter_bytes

\* Whatever the names resolve to meanwhile and wherever a page redirects, a connection
\* goes to an address of the answer it was judged by, all of which were public, at most
\* MaxRedirects + 1 of them (search.py:211-266).
ConnectsAsJudged ==
  /\ Len(linked) <= MaxRedirects + 1
  /\ \A i \in 1 .. Len(linked) : linked[i].ip \in linked[i].judged /\ linked[i].judged \subseteq Public

\* A page that is told is what was sent, or says that it was cut (search.py:292-311).
PageWhole == page.tell = "page" => page.kept <= MaxBytes /\ (page.cut <=> page.kept < cached)

\* Refuted: what is told without an error is a page (search.py:268-272).
OnlyPages == page.tell = "page" => page.status = "ok"

-----------------------------------------------------------------------------
(* Search *)

\* What is not configured completely is replaced by samples, and says so.
providers_from_env(kind, key, endpoint) ==
  CASE kind = "off" -> "mock"
    [] kind = "preset" /\ key -> "http"
    [] kind = "custom" /\ endpoint -> "http"
    [] OTHER -> "degraded"

InitSearch ==
  /\ \E kind \in {"off", "preset", "custom", "misspelt"}, key, endpoint \in BOOLEAN :
       provider = providers_from_env(kind, key, endpoint)
  /\ last_error = FALSE /\ mixed = {}
  /\ seeker = [c \in Callers |-> [step |-> "idle", hits |-> 0, met |-> "nothing", tell |-> None]]

Touches(c) == mixed' = mixed \cup {d \in Callers \ {c} : seeker[d].step \in {"ask", "tell"}}

\* The tool: an offline provider costs nothing, the other one passes the outbound guard.
search_tool(c) ==
  /\ seeker[c].step = "idle" /\ UNCHANGED <<provider, last_error, mixed>>
  /\ IF provider # "http"
     THEN \E n \in 0 .. 1 : seeker' = [seeker EXCEPT ![c].step = "tell", ![c].hits = n, ![c].met = "samples"]
     ELSE seeker' \in {[seeker EXCEPT ![c].step = "told", ![c].tell = "limited"],
                       [seeker EXCEPT ![c].step = "search"]}

search(c) ==
  /\ seeker[c].step = "search" /\ last_error' = FALSE /\ Touches(c)
  /\ seeker' = [seeker EXCEPT ![c].step = "ask"] /\ UNCHANGED provider

\* The endpoint is refused, or the request fails.
SearchFails(c) ==
  /\ seeker[c].step = "ask" /\ last_error' = TRUE /\ Touches(c)
  /\ seeker' = [seeker EXCEPT ![c].step = "tell", ![c].met = "error"] /\ UNCHANGED provider

\* An answer of a shape that is not known has no hits.
_parse(c) ==
  /\ seeker[c].step = "ask" /\ UNCHANGED <<provider, last_error, mixed>>
  /\ \E n \in 0 .. 1 : seeker' = [seeker EXCEPT ![c].step = "tell", ![c].hits = n, ![c].met = "answer"]

SearchTells(c) ==
  /\ seeker[c].step = "tell" /\ UNCHANGED <<provider, last_error, mixed>>
  /\ seeker' = [seeker EXCEPT ![c].step = "told",
       ![c].tell = IF seeker[c].hits > 0 THEN "hits" ELSE IF last_error THEN "failed" ELSE "none"]

Search == \E c \in Callers : search_tool(c) \/ search(c) \/ SearchFails(c) \/ _parse(c) \/ SearchTells(c)

\* A search that failed is not told as one without hits, nor the other way round, unless
\* another search meddled with the provider's last error (search.py:358-376, 700-707).
SearchTold ==
  \A c \in Callers \ mixed :
    /\ seeker[c].tell = "none" => seeker[c].met \in {"answer", "samples"}
    /\ seeker[c].tell = "failed" => seeker[c].met = "error"

\* Refuted: the same of searches that overlap (search.py:348-351).
FailureTold == \A c \in Callers : seeker[c].tell = "none" => seeker[c].met # "error"

-----------------------------------------------------------------------------
(* Mcp *)

InitMcp ==
  /\ rules \in [Remote -> {"ALLOW", "ASK", "DENY"}]
  /\ op = None /\ inbox = {} /\ replies = <<>> /\ ran = <<>>
  /\ imported = {} /\ ops = 0 /\ lines = 0 /\ heard = None

\* A line of an operation; line is its place, valid says that the arguments fit the schema.
Line(kind, of, tool, valid) ==
  [line |-> lines + 1, kind |-> kind, of |-> of, tool |-> tool, valid |-> valid]

\* _run: a process of the operation, whose server gets one line.
_run(kind, tool, valid) ==
  /\ op = None /\ ops < MaxOps /\ (kind = "call" => tool \in imported)
  /\ ops' = ops + 1 /\ lines' = lines + 1
  /\ op' = [kind |-> kind, tool |-> tool, valid |-> valid, attempt |-> 1, line |-> lines + 1]
  /\ inbox' = inbox \cup {Line(kind, ops + 1, tool, valid)} /\ replies' = Append(replies, <<>>)
  /\ UNCHANGED <<rules, ran, imported, heard>>

_LIST_ATTEMPTS == 2

\* The process is killed; its server may have got the line, and handle it later.
McpTimeout ==
  /\ op # None
  /\ IF op.kind = "list" /\ op.attempt < _LIST_ATTEMPTS
     THEN /\ lines' = lines + 1 /\ replies' = Append(replies, <<>>)
          /\ inbox' = inbox \cup {Line("list", ops, op.tool, TRUE)}
          /\ op' = [op EXCEPT !.attempt = @ + 1, !.line = lines + 1] /\ UNCHANGED heard
     ELSE op' = None /\ heard' = [of |-> ops, tool |-> op.tool, got |-> "error"] /\ UNCHANGED <<lines, replies, inbox>>
  /\ UNCHANGED <<rules, ran, imported, ops>>

Lost(l) == l \in inbox /\ inbox' = inbox \ {l} /\ (op # None => op.line # l.line)
           /\ UNCHANGED <<rules, op, replies, ran, imported, ops, lines, heard>>

\* Another client's line: a notification or an unknown method.  A bound: one, the first.
Stray(kind) ==
  /\ lines = 0 /\ lines' = lines + 1 /\ replies' = Append(replies, <<>>)
  /\ inbox' = inbox \cup {Line(kind, 0, None, TRUE)}
  /\ UNCHANGED <<rules, op, ran, imported, ops, heard>>

\* ASK is refused, for nobody can be asked; the arguments are checked before the tool runs.
_tools_call(l) == rules[l.tool] = "ALLOW" /\ l.valid

handle(l) ==
  /\ l \in inbox /\ inbox' = inbox \ {l}
  /\ ran' = IF l.kind = "call" /\ _tools_call(l) THEN Append(ran, l.of) ELSE ran
  /\ \E works \in BOOLEAN :
       LET reply == CASE l.kind = "list" -> "result"
                      [] l.kind = "call" -> IF _tools_call(l) /\ works THEN "result" ELSE "isError"
                      [] OTHER -> "error"
       IN  replies' = [replies EXCEPT ![l.line] = IF l.kind = "notification" THEN @ ELSE Append(@, reply)]
  /\ UNCHANGED <<rules, op, imported, ops, lines, heard>>

review(tool) == tool \notin Dangerous

\* import_reviewed: the listed tools that pass are registered.
import_reviewed ==
  /\ op # None /\ op.kind = "list" /\ replies[op.line] # <<>>
  /\ op' = None /\ imported' = {t \in Remote : review(t)}
  /\ UNCHANGED <<rules, inbox, replies, ran, ops, lines, heard>>

\* call: the text of the result, whatever its isError says; a protocol error raises.
McpCall ==
  /\ op # None /\ op.kind = "call" /\ replies[op.line] # <<>> /\ op' = None
  /\ heard' = [of |-> ops, tool |-> op.tool, got |-> IF replies[op.line][1] = "error" THEN "error" ELSE "ok"]
  /\ UNCHANGED <<rules, inbox, replies, ran, imported, ops, lines>>

Mcp ==
  \/ _run("list", None, TRUE) \/ \E t \in Remote, valid \in BOOLEAN : _run("call", t, valid)
  \/ McpTimeout \/ import_reviewed \/ McpCall
  \/ \E l \in inbox : handle(l) \/ Lost(l)
  \/ \E kind \in {"notification", "unknown"} : Stray(kind)

\* A call runs its tool at most once, also when it times out or is lost, and only one that
\* was imported and that the server allows; a request is answered once, a notification
\* never (client.py:163-197, server.py:98-194).
McpOnce ==
  /\ \A i, j \in 1 .. Len(ran) : i # j => ran[i] # ran[j]
  /\ \A i \in 1 .. Len(replies) : Len(replies[i]) <= 1
  /\ heard # None => heard.tool \notin Dangerous \/ heard.of \notin {ran[i] : i \in 1 .. Len(ran)}

\* Refuted: a call that did not raise has run its tool (client.py:229-238 reads no isError).
OkHasRun == heard # None /\ heard.got = "ok" => heard.of \in {ran[i] : i \in 1 .. Len(ran)}

-----------------------------------------------------------------------------
(* Skill *)

Versions == {<<>>, <<1, 9>>, <<1, 10>>}   \* the parts of a version; none for the branch without

InitSkill ==
  /\ versions = [a \in Aliases |-> [v \in Versions |-> None]]
  /\ cards = [n \in Titles |-> None] /\ bound = [a \in Aliases |-> None]
  /\ tools = {} /\ loads = 0 /\ shown = None

\* load_skill: the same version again replaces it.
load_skill(a, v, title, trusted, requires) ==
  /\ loads < MaxLoads /\ loads' = loads + 1
  /\ versions' = [versions EXCEPT ![a][v] =
                    [title |-> title, trusted |-> trusted, requires |-> requires, alias |-> a, version |-> v]]
  /\ UNCHANGED <<cards, bound, tools, shown>>

Loaded(a) == {v \in Versions : versions[a][v] # None}

Newer(v, w) == v # <<>> /\ (w = <<>> \/ v[1] > w[1] \/ (v[1] = w[1] /\ v[2] > w[2]))

\* The greatest key, and the branch without a version has a greater one than all others.
_latest_version(a) ==
  IF <<>> \in Loaded(a) THEN <<>>
  ELSE CHOOSE v \in Loaded(a) : \A w \in Loaded(a) \ {v} : Newer(v, w)

\* The card has the name that the package gives itself.
skill_activation_tool(a) ==
  /\ bound[a] = None /\ Loaded(a) # {}
  /\ LET content == versions[a][_latest_version(a)] IN
     cards' = [cards EXCEPT ![content.title] = content]
  /\ bound' = [bound EXCEPT ![a] = [of |-> Loaded(a), version |-> _latest_version(a)]]
  /\ UNCHANGED <<versions, tools, loads, shown>>

RegisterTool(t) == t \notin tools /\ tools' = tools \cup {t}
                   /\ UNCHANGED <<versions, cards, bound, loads, shown>>

missing_requires(content) == content.requires \ tools

\* The card is used: the requirements, then the trust, then the text.
activate(n) ==
  /\ cards[n] # None /\ shown = None
  /\ shown' = [card |-> cards[n], before |-> tools,
               got |-> IF missing_requires(cards[n]) # {} THEN "missing"
                       ELSE IF ~cards[n].trusted THEN "untrusted" ELSE "text"]
  /\ UNCHANGED <<versions, cards, bound, tools, loads>>

Skill ==
  \/ \E a \in Aliases, v \in Versions, n \in Titles, trusted \in BOOLEAN, requires \in SUBSET Needs :
       load_skill(a, v, n, trusted, requires)
  \/ \E a \in Aliases : skill_activation_tool(a)
  \/ \E t \in Needs : RegisterTool(t)
  \/ \E n \in Titles : activate(n)

\* A text that gets into a context is of a trusted package whose tools are there, also when
\* they were registered after its card; of packages with versions it is the newest one
\* (skill/tools.py:46-56, skill.py:177-189, 255-270).
SkillGated ==
  /\ shown # None /\ shown.got = "text" => shown.card.trusted /\ shown.card.requires \subseteq tools
  /\ shown # None /\ shown.got = "missing" => ~(shown.card.requires \subseteq shown.before)
  /\ \A a \in Aliases : bound[a] # None /\ <<>> \notin bound[a].of =>
       \A v \in bound[a].of \ {bound[a].version} : Newer(bound[a].version, v)

\* Refuted: a branch without a version is never the newest when there are others
\* (skill.py:256-262), and each alias keeps a card of its own (agent.py:379-386).
NumbersFirst == \A a \in Aliases : bound[a] # None => (bound[a].version = <<>> => bound[a].of = {<<>>})
OwnCard == \A a \in Aliases : bound[a] # None => \E n \in Titles : cards[n] # None /\ cards[n].alias = a
=============================================================================
