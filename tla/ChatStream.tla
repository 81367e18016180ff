----------------------------- MODULE ChatStream -----------------------------
(***************************************************************************)
(* Streamed turns of one run (web/routes/chat.py): a driver thread runs    *)
(* the session and feeds a bounded queue, a generator carries the frames   *)
(* to the browser, and a browser whose connection broke picks up the       *)
(* answer from the event bus.  Both kinds of response hold a slot of the   *)
(* concurrency gate.                                                       *)
(***************************************************************************)
EXTENDS Integers, Sequences, FiniteSets

CONSTANTS Streams,    \* the requests to /chat/stream, each of a browser of its own
          Nobody,
          Limit,      \* slots of the gate
          Keep,       \* events of a run that the bus retains
          QueueCap,   \* frames the queue holds
          MaxFrames,  \* frames of a turn before its last
          MaxTurns,   \* bound of the turns after which no plain turn begins
          Heartbeat,  \* is the heartbeat window on?
          Unsteady,   \* the streams whose browser may lose its connection, and come back
          Faulty      \* the streams for which publish and lease.stop may raise

ASSUME SizesAssumption ==
  /\ {Limit, Keep, QueueCap} \subseteq Nat \ {0}
  /\ MaxFrames \in Nat /\ MaxTurns \in Nat
  /\ Heartbeat \in BOOLEAN
ASSUME StreamAssumption ==
  /\ IsFiniteSet(Streams) /\ Nobody \notin Streams
  /\ Unsteady \subseteq Streams /\ Faulty \subseteq Streams

VARIABLES
  lock,     \* who holds the run's lease
  active,   \* the counter of the gate
  turn,     \* turns begun
  log,      \* the turns of the published events; the bus retains the last Keep
  drv,      \* the endpoint and then the driver thread of a stream
  mine,     \* the turn a stream drives, 0 before it has begun
  sent,     \* frames it has produced
  frames,   \* the queue
  gen,      \* the generator
  conn,     \* is the browser's connection up?
  got,      \* the turn whose end the browser shows as the reply, 0 for none
  watch,    \* the browser's subscription to /events
  mute      \* streams whose end could not be published

shared  == <<lock, active, turn, log>>
worker  == <<drv, mine, sent, mute>>
carrier == <<frames, gen, conn>>
browser == <<got, watch>>
vars    == <<shared, worker, carrier, browser>>

Init ==
  /\ lock = Nobody /\ active = 0 /\ turn = 0 /\ log = <<>> /\ mute = {}
  /\ drv = [s \in Streams |-> "none"] /\ mine = [s \in Streams |-> 0]
  /\ sent = [s \in Streams |-> 0]
  /\ frames = [s \in Streams |-> <<>>] /\ gen = [s \in Streams |-> "none"]
  /\ conn = [s \in Streams |-> TRUE]
  /\ got = [s \in Streams |-> 0] /\ watch = [s \in Streams |-> "none"]

\* Fault variant: one slot too many.
TakeSlotBlind == active <= Limit /\ active' = active + 1

\* SseConcurrencyGate: a full gate refuses at once, the counter stops at 0.
TakeSlot == active < Limit /\ active' = active + 1
GiveBack == active' = IF active > 0 THEN active - 1 ELSE 0

At(s, pc) == drv' = [drv EXCEPT ![s] = pc]

-----------------------------------------------------------------------------
\* The endpoint.

Enter(s) ==
  /\ drv[s] = "none"
  /\ \/ TakeSlot /\ At(s, "slot")
     \/ active >= Limit /\ At(s, "over") /\ UNCHANGED active
  /\ UNCHANGED <<lock, turn, log, mine, sent, mute, carrier, browser>>

\* The lease is taken and the driver thread started.
Begin(s) ==
  /\ drv[s] = "slot" /\ lock = Nobody
  /\ lock' = s /\ turn' = turn + 1 /\ mine' = [mine EXCEPT ![s] = turn + 1]
  /\ At(s, "run") /\ gen' = [gen EXCEPT ![s] = "new"]
  /\ UNCHANGED <<active, log, sent, mute, frames, conn, browser>>

\* Another request holds the lease (423), or the session cannot be loaded.
Refuse(s) ==
  /\ drv[s] = "slot"
  /\ At(s, "over") /\ GiveBack
  /\ UNCHANGED <<lock, turn, log, mine, sent, mute, carrier, browser>>

\* A turn driven by /chat, /approve or /reject: its event is out before its lease is
\* released, and a decision that raises publishes nothing.
PlainTurn ==
  /\ lock = Nobody /\ turn < MaxTurns
  /\ turn' = turn + 1
  /\ log' \in {log, Append(log, turn + 1)}
  /\ UNCHANGED <<lock, active, worker, carrier, browser>>

-----------------------------------------------------------------------------
\* The driver thread.

\* client_gone and worker_done
Gone(s) == gen[s] = "closed"
Done(s) == drv[s] \in {"eof", "over", "dead"}

\* Fault variant: a frame is never dropped.
OfferOnly(s, frame) ==
  Len(frames[s]) < QueueCap /\ frames' = [frames EXCEPT ![s] = Append(@, frame)]

\* offer: waits while the queue is full, and drops the frame once the client is gone.
Offer(s, frame) ==
  \/ Len(frames[s]) < QueueCap /\ frames' = [frames EXCEPT ![s] = Append(@, frame)]
  \/ Len(frames[s]) = QueueCap /\ Gone(s) /\ UNCHANGED frames

\* A step of the session that does not end the turn, with its frame.
Emit(s) ==
  /\ drv[s] = "run" /\ sent[s] < MaxFrames
  /\ sent' = [sent EXCEPT ![s] = @ + 1]
  /\ Offer(s, "delta")
  /\ UNCHANGED <<shared, drv, mine, mute, gen, conn, browser>>

\* The turn ends with an answer or a held call, or the session raises: the bus has the
\* event before the frame is offered.
Publish(s) ==
  /\ drv[s] \in {"run", "fail"}
  /\ log' = Append(log, mine[s])
  /\ At(s, "end")
  /\ UNCHANGED <<lock, active, turn, mine, sent, mute, carrier, browser>>

\* publish raises, before or after the row was written: the except branch tries again
\* with an error, and when that raises, too, nothing is offered.
PublishRaises(s) ==
  /\ s \in Faulty /\ drv[s] \in {"run", "fail"}
  /\ log' \in {log, Append(log, mine[s])}
  /\ \/ drv[s] = "run" /\ At(s, "fail") /\ UNCHANGED mute
     \/ drv[s] = "fail" /\ At(s, "finally") /\ mute' = mute \cup {s}
  /\ UNCHANGED <<lock, active, turn, mine, sent, carrier, browser>>

OfferEnd(s) ==
  /\ drv[s] = "end"
  /\ Offer(s, "end") /\ At(s, "finally")
  /\ UNCHANGED <<shared, mine, sent, mute, gen, conn, browser>>

\* lease.stop deletes the lock row of this owner.
Unlock(s) == IF lock = s THEN Nobody ELSE lock

\* worker_done is set, the lease stopped and the slot given back; what is left is the
\* end marker.
Stop(s) ==
  /\ drv[s] = "finally"
  /\ lock' = Unlock(s) /\ GiveBack /\ At(s, "eof")
  /\ UNCHANGED <<turn, log, mine, sent, mute, carrier, browser>>

\* lease.stop raises: the slot stays taken, no end marker is sent, the row expires.
StopRaises(s) ==
  /\ s \in Faulty /\ drv[s] = "finally"
  /\ At(s, "dead")
  /\ UNCHANGED <<shared, mine, sent, mute, carrier, browser>>

Expire(s) ==
  /\ drv[s] = "dead" /\ lock = s
  /\ lock' = Nobody
  /\ UNCHANGED <<active, turn, log, worker, carrier, browser>>

\* The end marker, None in the queue.
OfferEof(s) ==
  /\ drv[s] = "eof"
  /\ Offer(s, "eof") /\ At(s, "over")
  /\ UNCHANGED <<shared, mine, sent, mute, gen, conn, browser>>

-----------------------------------------------------------------------------
\* The generator and the connection.

\* The server begins to iterate the response.
Start(s) ==
  /\ gen[s] = "new"
  /\ gen' = [gen EXCEPT ![s] = "get"]
  /\ UNCHANGED <<shared, worker, frames, conn, browser>>

\* The server drops the response of a client that has gone before it iterated it: a
\* generator that never ran has no finally to run.
Drop(s) ==
  /\ gen[s] = "new" /\ ~conn[s]
  /\ gen' = [gen EXCEPT ![s] = "dropped"]
  /\ UNCHANGED <<shared, worker, frames, conn, browser>>

\* The generator's finally sets client_gone.
Close(s) == gen' = [gen EXCEPT ![s] = "closed"]

\* A frame is taken from the queue and sent.
Get(s) ==
  /\ gen[s] = "get" /\ frames[s] # <<>>
  /\ frames' = [frames EXCEPT ![s] = Tail(@)]
  /\ IF Head(frames[s]) = "eof" THEN Close(s) /\ UNCHANGED got
     ELSE /\ gen' = [gen EXCEPT ![s] = "yield"]
          /\ got' = IF conn[s] /\ Head(frames[s]) = "end" THEN [got EXCEPT ![s] = mine[s]]
                    ELSE got
  /\ UNCHANGED <<shared, worker, conn, watch>>

\* Nothing came within the heartbeat window.
TimesOut(s) ==
  /\ Heartbeat /\ gen[s] = "get" /\ frames[s] = <<>>
  /\ gen' = [gen EXCEPT ![s] = "empty"]
  /\ UNCHANGED <<shared, worker, frames, conn, browser>>

\* Fault variant: an empty queue is taken for the end.
CheckNothing(s) ==
  /\ gen[s] = "empty"
  /\ Close(s)
  /\ UNCHANGED <<shared, worker, frames, conn, browser>>

\* Fault variant: only the end marker ends the response.
CheckNever(s) ==
  /\ gen[s] = "empty"
  /\ gen' = [gen EXCEPT ![s] = "yield"]
  /\ UNCHANGED <<shared, worker, frames, conn, browser>>

\* worker_done is read after the window ran out: frames may have come in between.
Check(s) ==
  /\ gen[s] = "empty"
  /\ IF Done(s) THEN Close(s) ELSE gen' = [gen EXCEPT ![s] = "yield"]
  /\ UNCHANGED <<shared, worker, frames, conn, browser>>

\* Fault variant: the lease ends with the response, as it once did.
ResumeUnlocks(s) ==
  /\ gen[s] = "yield"
  /\ IF conn[s] THEN gen' = [gen EXCEPT ![s] = "get"] /\ UNCHANGED lock
     ELSE Close(s) /\ lock' = Unlock(s)
  /\ UNCHANGED <<active, turn, log, worker, frames, conn, browser>>

\* Fault variant: the slot is given back with the response, too.
ResumeGivesBack(s) ==
  /\ gen[s] = "yield"
  /\ IF conn[s] THEN gen' = [gen EXCEPT ![s] = "get"] /\ UNCHANGED active
     ELSE Close(s) /\ GiveBack
  /\ UNCHANGED <<lock, turn, log, worker, frames, conn, browser>>

\* The generator goes on after its yield, or is closed there.
Resume(s) ==
  /\ gen[s] = "yield"
  /\ IF conn[s] THEN gen' = [gen EXCEPT ![s] = "get"] ELSE Close(s)
  /\ UNCHANGED <<shared, worker, frames, conn, browser>>

\* The connection breaks at any time until the response has ended.
Disconnect(s) ==
  /\ s \in Unsteady /\ conn[s] /\ gen[s] \notin {"none", "dropped", "closed"}
  /\ conn' = [conn EXCEPT ![s] = FALSE]
  /\ UNCHANGED <<shared, worker, frames, gen, browser>>

-----------------------------------------------------------------------------
\* The browser picks up the answer: GET /events.

WatchIs(s, pc) == watch' = [watch EXCEPT ![s] = pc]

\* The stream ended without a terminal frame: the browser subscribes, or gets a 503.
Reconnect(s) ==
  /\ s \in Unsteady /\ watch[s] = "none" /\ got[s] = 0
  /\ mine[s] # 0 /\ (~conn[s] \/ gen[s] = "closed")
  /\ \/ TakeSlot /\ WatchIs(s, "new")
     \/ active >= Limit /\ WatchIs(s, "over") /\ UNCHANGED active
  /\ UNCHANGED <<lock, turn, log, worker, carrier, got>>

\* The response is begun, or dropped without its finally if the browser has left (a
\* closed page, its own timeout), and then the slot is not given back.
WatchStart(s) ==
  /\ watch[s] = "new"
  /\ WatchIs(s, "poll") \/ WatchIs(s, "dropped")
  /\ UNCHANGED <<shared, worker, carrier, got>>

\* The position in the log of the oldest event the bus still has.
Oldest == IF Len(log) > Keep THEN Len(log) - Keep + 1 ELSE 1

\* The subscription starts at seq 0; a browser that is still there shows the first event
\* and leaves.
Read(s) ==
  /\ watch[s] = "poll" /\ log # <<>>
  /\ got' \in {got, [got EXCEPT ![s] = log[Oldest]]}
  /\ WatchIs(s, "leaving")
  /\ UNCHANGED <<shared, worker, carrier>>

\* poll raises, or finds nothing and the keep-alive finds that the browser has gone.
WatchBreaks(s) ==
  /\ watch[s] = "poll"
  /\ WatchIs(s, "leaving")
  /\ UNCHANGED <<shared, worker, carrier, got>>

WatchEnds(s) ==
  /\ watch[s] = "leaving"
  /\ GiveBack /\ WatchIs(s, "over")
  /\ UNCHANGED <<lock, turn, log, worker, carrier, got>>

-----------------------------------------------------------------------------
Endpoint(s) == Enter(s) \/ Begin(s) \/ Refuse(s)
Drive(s) ==
  \/ Emit(s) \/ Publish(s) \/ PublishRaises(s) \/ OfferEnd(s)
  \/ Stop(s) \/ StopRaises(s) \/ Expire(s) \/ OfferEof(s)
Generate(s) == Start(s) \/ Drop(s) \/ Get(s) \/ TimesOut(s) \/ Check(s) \/ Resume(s)
Watch(s) == Reconnect(s) \/ WatchStart(s) \/ Read(s) \/ WatchBreaks(s) \/ WatchEnds(s)

Next ==
  \/ PlainTurn
  \/ \E s \in Streams :
       Endpoint(s) \/ Drive(s) \/ Generate(s) \/ Watch(s) \/ Disconnect(s)

Spec == Init /\ [][Next]_vars

\* Turns end, the server iterates a response and a browser that is connected reads it.
Fairness == \A s \in Streams : WF_vars(Drive(s)) /\ WF_vars(Generate(s))
FairSpec == Spec /\ Fairness

-----------------------------------------------------------------------------
\* The driver runs the session: from the lease to the last frame.
Drives(s) == drv[s] \in {"run", "fail", "end"}

\* What holds a slot, what took one with it included.
HoldsSlot(s) == drv[s] \notin {"none", "eof", "over"}
WatchHoldsSlot(s) == watch[s] \in {"new", "poll", "leaving", "dropped"}

\* All variables have their types.
TypeOK ==
  /\ lock \in Streams \cup {Nobody} /\ active \in 0..Limit /\ turn \in Nat
  /\ log \in Seq(Nat) /\ mute \subseteq Streams
  /\ drv \in [Streams -> {"none", "slot", "run", "fail", "end", "finally", "dead",
                          "eof", "over"}]
  /\ mine \in [Streams -> Nat] /\ sent \in [Streams -> 0..MaxFrames]
  /\ frames \in [Streams -> Seq({"delta", "end", "eof"})]
  /\ \A s \in Streams : Len(frames[s]) <= QueueCap
  /\ gen \in [Streams -> {"none", "new", "dropped", "get", "empty", "yield", "closed"}]
  /\ conn \in [Streams -> BOOLEAN]
  /\ got \in [Streams -> Nat]
  /\ watch \in [Streams -> {"none", "new", "poll", "leaving", "dropped", "over"}]

\* http_kit.py:30: the counter of the gate agrees with the drivers and subscriptions that
\* hold a slot, whatever breaks off, is refused or raises: nothing gives back twice, and
\* only a lease that could not be stopped and a response that was never begun keep theirs.
SlotsCounted ==
  active = Cardinality({s \in Streams : HoldsSlot(s)})
             + Cardinality({s \in Streams : WatchHoldsSlot(s)})

\* chat.py:255: a run is driven by one thread at a time, also when the browser of the
\* first is gone and it, or another one, sends the next message.
DrivesAlone == \A s, t \in Streams : Drives(s) /\ Drives(t) => s = t

\* Events reach the bus in the order of their turns, so that a later one is the newer answer.
TurnsInOrder == \A i, j \in DOMAIN log : i < j => log[i] <= log[j]

\* A browser whose response ended without the terminal frame, although its connection held,
\* finds the end of its turn published (chat.py:179), unless publishing raised.
EndIsOnTheBus ==
  \A s \in Streams :
    gen[s] = "closed" /\ conn[s] /\ got[s] = 0 =>
      s \in mute \/ mine[s] \in {log[i] : i \in DOMAIN log}

\* test_web_stream_disconnect.py:200: the lease of a turn is given back whatever its browser does,
\* unless the response was dropped before it was begun.
LeaseReturned ==
  \A s \in Streams : Drives(s) ~> lock # s \/ gen[s] = "dropped"

\* A response that was begun ends, also when the driver died before its end marker.
ResponseEnds ==
  \A s \in Streams : gen[s] = "get" ~> gen[s] = "closed"

-----------------------------------------------------------------------------
\* The documentation says (chat.py:180): a browser that reconnects reads the same result.
ResumesOwnTurn == \A s \in Streams : got[s] \in {0, mine[s]}

=============================================================================
