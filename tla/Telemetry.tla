------------------------------ MODULE Telemetry ------------------------------
(***************************************************************************)
(* What operators learn of the service.  Three parts, each with a          *)
(* next-state relation of its own:                                         *)
(*   Export   spans are handed to a thread that posts them in batches,     *)
(*            until the exporter is shut down;                             *)
(*   Watch    runs that wait for a human too long are counted by scrapes   *)
(*            of /metrics and by the sweeper, and reported by a command;   *)
(*   Measure  counters and histograms are filled and rendered.             *)
(***************************************************************************)
EXTENDS Naturals, Sequences, FiniteSets

CONSTANTS None,
          Spans, QueueMax, MaxBatch,                \* spans, one of each request
          Runs, Stuck, CacheTTL, ListMax, AlertMax, MaxClock, MaxScans,  \* AlertMax: ALERT_LIST_LIMIT
          Values, Buckets, MaxValues                \* of a histogram

VARIABLES
  exporter,    \* the module's exporter: "unset", "open", "closing" under the lock, or "gone"
  caller,      \* each span: "new", "handed" with the exporter fetched, "done", or "off"
  queue, stopped, worker, batch, rest, client, closer,
  dropped, errors,              \* the two counters
  received,                     \* (observed) what the collector has got
  overflow, lostIn, late        \* (observed) dropped spans, failed batches, spans put after close

exportVars == <<exporter, caller, queue, stopped, worker, batch, rest, client, closer,
                dropped, errors, received, overflow, lostIn, late>>

VARIABLES
  clock,
  waiting,     \* the runs whose checkpoint waits for a human
  ticket,      \* created_at of the pending approval of each run, or None
  touched,     \* updated_at of each run
  since,       \* (observed) when each run began to wait, or None
  scan,        \* what each scanner has read, or None
  gauge,       \* warden_stuck_runs, or None before it is set
  cache,       \* the result that scrapes share: its time and its value
  scans,       \* (a bound) scans begun
  told         \* (observed) what the last report said, or None

watchVars == <<clock, waiting, ticket, touched, since, scan, gauge, cache, scans, told>>

VARIABLES
  observed,    \* the values that a histogram was given
  bucket_map, total,
  names,       \* the registered names, in order
  rendering    \* a render under way: how far it is and how many names there were, or None

measureVars == <<observed, bucket_map, total, names, rendering>>

-----------------------------------------------------------------------------
(* Export *)

InitExport ==
  /\ exporter = "unset" /\ caller = [s \in Spans |-> "new"]
  /\ queue = <<>> /\ stopped = FALSE /\ worker = "idle" /\ batch = {} /\ rest = {}
  /\ client = "open" /\ closer = "idle"
  /\ dropped = 0 /\ errors = 0
  /\ received = {} /\ overflow = {} /\ lostIn = {} /\ late = {}

\* _exporter_for, under the module's lock: the exporter starts with the first span.
_exporter_for(s) ==
  /\ caller[s] = "new" /\ exporter # "closing"
  /\ exporter' = IF exporter = "unset" THEN "open" ELSE exporter
  /\ worker' = IF exporter = "unset" THEN "top" ELSE worker
  /\ caller' = [caller EXCEPT ![s] = IF exporter = "gone" THEN "off" ELSE "handed"]
  /\ UNCHANGED <<queue, stopped, batch, rest, client, closer, dropped, errors, received,
                 overflow, lostIn, late>>

submit(s) ==
  /\ caller[s] = "handed" /\ caller' = [caller EXCEPT ![s] = "done"]
  /\ IF Len(queue) < QueueMax
     THEN /\ queue' = Append(queue, s) /\ UNCHANGED <<dropped, overflow>>
          /\ late' = IF closer \in {"post", "close", "done"} THEN late \cup {s} ELSE late
     ELSE dropped' = dropped + 1 /\ overflow' = overflow \cup {s} /\ UNCHANGED <<queue, late>>
  /\ UNCHANGED <<exporter, stopped, worker, batch, rest, client, closer, errors, received, lostIn>>

\* The thread looks at the stop flag, waits a second for a span, takes what there is.
_run ==
  /\ worker = "top" /\ worker' = IF stopped THEN "gone" ELSE "take"
  /\ UNCHANGED <<exporter, caller, queue, stopped, batch, rest, client, closer, dropped, errors,
                 received, overflow, lostIn, late>>

_take_batch ==
  /\ worker = "take"
  /\ IF queue = <<>> THEN worker' = "top" /\ UNCHANGED <<queue, batch>>
     ELSE LET n == IF Len(queue) < MaxBatch THEN Len(queue) ELSE MaxBatch
          IN  /\ batch' = {queue[i] : i \in 1 .. n} /\ queue' = SubSeq(queue, n + 1, Len(queue))
              /\ worker' = "post"
  /\ UNCHANGED <<exporter, caller, stopped, rest, client, closer, dropped, errors, received,
                 overflow, lostIn, late>>

\* A post: the collector gets the spans or not, and the answer may say failure either way.
_send(spans) ==
  \/ client = "open" /\ received' = received \cup spans /\ UNCHANGED <<errors, lostIn>>
  \/ errors' = errors + 1 /\ lostIn' = lostIn \cup {spans} /\ UNCHANGED received
  \/ /\ client = "open" /\ received' = received \cup spans
     /\ errors' = errors + 1 /\ lostIn' = lostIn \cup {spans}

Post ==
  /\ worker = "post" /\ worker' = "top" /\ batch' = {} /\ _send(batch)
  /\ UNCHANGED <<exporter, caller, queue, stopped, rest, client, closer, dropped, overflow, late>>

shutdown ==
  /\ exporter = "open" /\ exporter' = "closing" /\ stopped' = TRUE /\ closer' = "join"
  /\ UNCHANGED <<caller, queue, worker, batch, rest, client, dropped, errors, received, overflow,
                 lostIn, late>>

\* close: the thread is waited for, at most two seconds (a post may take five); what is
\* left is taken one by one and posted at once, and the client is closed under a thread
\* that still posts.
close ==
  /\ \/ /\ closer = "join" /\ worker \in {"gone", "post"} /\ closer' = "drain"
        /\ UNCHANGED <<exporter, queue, rest, client, errors, received, lostIn>>
     \/ /\ closer = "drain" /\ UNCHANGED <<exporter, client, errors, received, lostIn>>
        /\ IF queue = <<>> THEN closer' = (IF rest = {} THEN "close" ELSE "post") /\ UNCHANGED <<queue, rest>>
           ELSE rest' = rest \cup {Head(queue)} /\ queue' = Tail(queue) /\ UNCHANGED closer
     \/ /\ closer = "post" /\ closer' = "close" /\ rest' = {} /\ _send(rest)
        /\ UNCHANGED <<exporter, queue, client>>
     \/ /\ closer = "close" /\ closer' = "done" /\ client' = "closed" /\ exporter' = "gone"
        /\ UNCHANGED <<queue, rest, errors, received, lostIn>>
  /\ UNCHANGED <<caller, stopped, worker, batch, dropped, overflow, late>>

Export ==
  \/ \E s \in Spans : _exporter_for(s) \/ submit(s)
  \/ _run \/ _take_batch \/ Post \/ shutdown \/ close

\* A span is received, or counted by itself or in a batch that failed; the exception are
\* those put behind the last look at the queue, by a request that had fetched the
\* exporter before (otel.py:173-185, 206-244).
SpansAccounted ==
  /\ closer = "done" /\ worker = "gone" =>
       \A s \in Spans : caller[s] = "done" => s \in received \cup overflow \cup late \cup UNION lostIn
  /\ dropped = Cardinality(overflow) /\ errors = Cardinality(lostIn)
  /\ \A i \in 1 .. Len(queue) : queue[i] \notin received \cup batch \cup rest

\* Refuted: the shutdown leaves no span behind (otel.py:231-232).
QueueIsFlushed == late = {}

-----------------------------------------------------------------------------
(* Watch *)

\* Requests one by one, the thread, and the two scans of `warden stuck --notify`.
Scanners == {"scrape", "sweep", "stuck", "report"}
Command == {"stuck", "report"}

InitWatch ==
  /\ clock = 0 /\ waiting = {}
  /\ ticket = [r \in Runs |-> None] /\ touched = [r \in Runs |-> 0]
  /\ since = [r \in Runs |-> None]
  /\ scan = [c \in Scanners |-> None]
  /\ gauge = None /\ cache = None /\ scans = 0 /\ told = None

\* A run waits: its ticket is stored, then its row and its checkpoint.  A decision clears
\* the ticket before the next checkpoint.  A bound: each run waits once.
Hold(r) ==
  /\ \/ /\ since[r] = None
        /\ ticket' = [ticket EXCEPT ![r] = clock] /\ since' = [since EXCEPT ![r] = clock]
        /\ UNCHANGED <<waiting, touched>>
     \/ /\ r \notin waiting /\ ticket[r] # None /\ waiting' = waiting \cup {r}
        /\ touched' = [touched EXCEPT ![r] = clock] /\ UNCHANGED <<ticket, since>>
  /\ UNCHANGED <<clock, scan, gauge, cache, scans, told>>

Decide(r) ==
  /\ r \in waiting
  /\ \/ ticket[r] # None /\ ticket' = [ticket EXCEPT ![r] = None] /\ UNCHANGED waiting
     \/ ticket[r] = None /\ waiting' = waiting \ {r} /\ UNCHANGED ticket
  /\ touched' = [touched EXCEPT ![r] = clock]
  /\ UNCHANGED <<clock, since, scan, gauge, cache, scans, told>>

\* A message to a run that waits.
Touch(r) ==
  /\ r \in waiting /\ touched[r] # clock /\ touched' = [touched EXCEPT ![r] = clock]
  /\ UNCHANGED <<clock, waiting, ticket, since, scan, gauge, cache, scans, told>>

\* A scan takes less than two ticks; a ticket and its checkpoint are of one.
Tick ==
  /\ clock < MaxClock /\ \A c \in Scanners : scan[c] # None => scan[c].at = clock
  /\ \A r \in Runs : ~(ticket[r] # None /\ r \notin waiting)
  /\ clock' = clock + 1
  /\ UNCHANGED <<waiting, ticket, touched, since, scan, gauge, cache, scans, told>>

Unknown == [r \in Runs |-> None]

\* What a scan has read: the runs that wait, the age of each row and then of each run,
\* how many are stuck; and (observed, for a report) how long each run has waited.
Scan(c) ==
  [step |-> "list", at |-> clock, awaiting |-> waiting, age |-> Unknown, count |-> 0,
   waited |-> [r \in Runs |-> IF c \in Command /\ since[r] # None THEN clock - since[r] ELSE 0]]

Reading(c, step) == scan[c] # None /\ scan[c].step = step

Fresh == cache # None /\ clock - cache.at < CacheTTL

\* A scrape within the TTL of the last one shows its result without a scan.
_refresh_stuck_gauge ==
  /\ scan["scrape"] = None /\ Fresh /\ gauge' = cache
  /\ UNCHANGED <<clock, waiting, ticket, touched, since, scan, cache, scans, told>>

\* stuck_awaiting_human: the clock, the plan made of the checkpoints, ...  (The command
\* shares nothing with the other two; a bound: it scans alone.)
Plan(c) ==
  /\ scan[c] = None /\ ~(c = "scrape" /\ Fresh)
  /\ scan' = [scan EXCEPT ![c] = Scan(c)]
  /\ CASE c = "stuck" -> scans = 0 /\ scans' = MaxScans
       [] c = "report" -> Reading("stuck", "tell") /\ UNCHANGED scans
       [] OTHER -> scans < MaxScans /\ scans' = scans + 1
  /\ UNCHANGED <<clock, waiting, ticket, touched, since, gauge, cache, told>>

Past(t, at) == IF t >= at THEN 0 ELSE at - t

\* ... the rows that were active last, ...
list_runs(c) ==
  /\ Reading(c, "list")
  /\ \E listed \in SUBSET Runs :
       /\ Cardinality(listed) <= ListMax /\ (listed = Runs \/ Cardinality(listed) = ListMax)
       /\ \A r \in listed, other \in Runs \ listed : touched[r] >= touched[other]
       /\ scan' = [scan EXCEPT ![c].step = "times",
            ![c].age = [r \in Runs |-> IF r \in listed THEN Past(touched[r], scan[c].at) ELSE None]]
  /\ UNCHANGED <<clock, waiting, ticket, touched, since, gauge, cache, scans, told>>

Found(s) == {r \in s.awaiting : s.age[r] = None \/ s.age[r] >= Stuck}

\* ... and when each ticket was made, or else when the row was written; a run of which
\* neither is known is reported.
Times(c) ==
  /\ Reading(c, "times")
  /\ LET s == scan[c]
         age == [r \in Runs |-> IF ticket[r] # None THEN Past(ticket[r], s.at) ELSE s.age[r]]
         t == [s EXCEPT !.step = "tell", !.age = age]
         n == Cardinality(Found(t))
     IN  scan' = [scan EXCEPT ![c] = IF c \in Command THEN [t EXCEPT !.count = n]
                    ELSE [t EXCEPT !.count = n, !.age = Unknown, !.awaiting = {}]]
  /\ UNCHANGED <<clock, waiting, ticket, touched, since, gauge, cache, scans, told>>

\* The store fails: the gauge keeps its value, the command ends.
ScanFails(c) ==
  /\ Reading(c, "list") \/ Reading(c, "times")
  /\ scan' = IF c \in Command THEN [d \in Scanners |-> None] ELSE [scan EXCEPT ![c] = None]
  /\ UNCHANGED <<clock, waiting, ticket, touched, since, gauge, cache, scans, told>>

Result(s) == [at |-> s.at, value |-> s.count]

set_stuck_gauge(c) ==
  /\ c \in {"scrape", "sweep"} /\ Reading(c, "tell") /\ gauge' = Result(scan[c])
  /\ cache' = IF c = "scrape" THEN Result(scan[c]) ELSE cache
  /\ scan' = [scan EXCEPT ![c] = None]
  /\ UNCHANGED <<clock, waiting, ticket, touched, since, scans, told>>

Before(s, r, other) == s.age[r] # None /\ (s.age[other] = None \/ s.age[r] > s.age[other])

\* The first `limit` of a scan: those that seem to wait longest.
First(s, limit) ==
  {listed \in SUBSET Found(s) :
     /\ Cardinality(listed) = IF s.count < limit THEN s.count ELSE limit
     /\ \A r \in listed, other \in Found(s) \ listed : ~Before(s, other, r)}

\* The alert says how many there are, and lists them as the command does; without a
\* channel, or when the post fails, the outcome is that nothing was delivered.
notify_stuck(got, answered) ==
  LET s == scan["report"]
  IN  [scan |-> s, got |-> s.count > 0 /\ got, delivered |-> s.count > 0 /\ got /\ answered]

\* The command lists what its own scan found, and its exit code says whether there is
\* something, and (6) whether an alert of it was lost.
_cmd_stuck(notify, outcome) ==
  LET s == scan["stuck"]
      lost == notify /\ outcome.scan.count > 0 /\ ~outcome.delivered
  IN  /\ \E limit \in {AlertMax, Cardinality(Runs)} : \E printed \in First(s, limit) :
           told' = [outcome |-> outcome, notify |-> notify, scan |-> s, printed |-> printed,
                    exit |-> IF s.count = 0 THEN 0 ELSE IF lost THEN 6 ELSE 3]
      /\ scan' = [c \in Scanners |-> None]
      /\ UNCHANGED <<clock, waiting, ticket, touched, since, gauge, cache, scans>>

Finish(got, answered) ==
  \/ Reading("stuck", "tell") /\ scan["report"] = None /\ _cmd_stuck(FALSE, None)
  \/ Reading("report", "tell") /\ _cmd_stuck(TRUE, notify_stuck(got, answered))

\* A bound: one report, with which the behaviour ends.
Watch ==
  /\ told = None
  /\ \/ \E r \in Runs : Hold(r) \/ Decide(r) \/ Touch(r)
     \/ Tick \/ _refresh_stuck_gauge
     \/ \E c \in Scanners : Plan(c) \/ list_runs(c) \/ Times(c) \/ ScanFails(c) \/ set_stuck_gauge(c)
     \/ \E got, answered \in BOOLEAN : Finish(got, answered)

Overdue(at) == {r \in waiting : ticket[r] # None /\ ticket[r] + Stuck <= at}

\* A value of the gauge counts every run that is still waiting and had waited too long
\* when its scan began, whichever scan was written last, and a failed scan does not hide
\* one (maintenance.py:69-84, ops.py:65-93).
GaugeTells == gauge # None => gauge.value >= Cardinality(Overdue(gauge.at))

Reports == {told.scan} \cup (IF told.notify THEN {told.outcome.scan} ELSE {})

\* A report, printed or sent, misses no run that waits and does not say of one that it has
\* waited longer than it has; it calls itself delivered only if it was; and the exit code
\* is 0 only if nobody waited too long when the command began, 6 only if the alert was not
\* delivered (alerting.py:103-132, notify.py:226-244, cli.py:429-507).
AlarmTells ==
  told # None =>
    /\ \A s \in Reports :
         /\ Overdue(s.at) \subseteq Found(s)
         /\ \A r \in Found(s) : s.age[r] = None \/ s.age[r] <= s.waited[r]
    /\ told.notify /\ told.outcome.delivered => told.outcome.got
    /\ told.exit = 0 => Overdue(told.scan.at) = {}
    /\ told.exit = 6 => told.notify /\ ~told.outcome.delivered

\* Refuted: the runs that are named are those that wait longest (alerting.py:76, 131).
LongestNamed ==
  told # None => \A r \in told.printed, other \in Found(told.scan) \ told.printed :
                   told.scan.waited[r] >= told.scan.waited[other]

\* Refuted: an alert that is lost shows in the exit code (cli.py:506): the scan that is
\* printed is another than the one that is sent.
LossShows ==
  told # None /\ told.notify =>
    (told.outcome.scan.count > 0 /\ ~told.outcome.delivered => told.exit = 6)

-----------------------------------------------------------------------------
(* Measure *)

InitMeasure ==
  /\ observed = <<>> /\ bucket_map = [b \in Buckets |-> 0] /\ total = 0
  /\ names = <<>> /\ rendering = None

\* The buckets are cumulative; the whole is counted apart.
_observe(v) ==
  /\ Len(observed) < MaxValues /\ rendering = None
  /\ observed' = Append(observed, v)
  /\ bucket_map' = [b \in Buckets |-> bucket_map[b] + (IF v <= b THEN 1 ELSE 0)]
  /\ total' = total + 1
  /\ UNCHANGED <<names, rendering>>

\* counter, gauge: a name is registered without the lock, by each note of an event.
Register(n) ==
  /\ \A i \in 1 .. Len(names) : names[i] # n
  /\ names' = Append(names, n)
  /\ UNCHANGED <<observed, bucket_map, total, rendering>>

\* render goes through the names under the lock; it raises when there is a new one.
render ==
  /\ \/ rendering = None /\ rendering' = [next |-> 0, size |-> Len(names), raised |-> FALSE]
     \/ /\ rendering # None /\ ~rendering.raised
        /\ rendering' =
             IF Len(names) # rendering.size THEN [rendering EXCEPT !.raised = TRUE]
             ELSE IF rendering.next < rendering.size THEN [rendering EXCEPT !.next = @ + 1]
             ELSE None
     \/ rendering # None /\ rendering.raised /\ rendering' = None
  /\ UNCHANGED <<observed, bucket_map, total, names>>

Measure == render \/ \E v \in Values : _observe(v) \/ \E n \in Runs : Register(n)

Observed(S) == Cardinality({i \in 1 .. Len(observed) : observed[i] \in S})

\* The rendered histogram is the one of the values: every bucket counts what is at most
\* its bound, once, and the last one is the whole (metrics.py:190-201, 238-266).
HistogramTells ==
  /\ \A b \in Buckets : bucket_map[b] = Observed({v \in Values : v <= b})
  /\ total = Observed(Values)

\* Refuted: a scrape is not disturbed by events that are noted meanwhile
\* (metrics.py:147-149, 207-208).
RenderSucceeds == rendering # None => ~rendering.raised
=============================================================================
