------------------------------ MODULE Browser ------------------------------
(***************************************************************************)
(* The page (App.tsx, ChatView.tsx, lib/api.ts): one conversation is shown,*)
(* and streams and loads of the history that were started for it, or for   *)
(* one shown before, come back when they like.                             *)
(*                                                                         *)
(* A step is what the browser runs without a break: an event handler, what *)
(* follows an await up to the next one, or the effects after a render.     *)
(* Texts are the numbers of the frames they are made of.  Unmounting,      *)
(* scrolling and banners are left out; the lists beside it are in Panels.  *)
(***************************************************************************)
EXTENDS Naturals, Sequences

LOCAL INSTANCE SequencesExt

CONSTANTS Runs,
          MaxStreams,  \* bound: the messages that are sent
          None,
          MaxFrames,   \* bound on the frames of all streams; decisions come before the last
          MaxRenders   \* bound on switches and refreshes

Streams == 1 .. MaxStreams

VARIABLES
  run,         \* App: runId
  due,         \* the effects of the last render that are still to run
  current,     \* the stream whose number streamSeq is, None if it was raised since
  abort,       \* abortRef: the stream whose controller it is
  busy,
  msgs, bubble, \* bubble: activeBubbleRef
  stream,      \* send() and, after a break, resumeAfterDisconnect()
  mount,       \* the run whose history the effect is loading
  reloads,     \* the runs whose history reloadFromServer is loading
  decisions,   \* the decisions on cards that are out: the card and the run it was made for
  renders,
  heard,       \* (observed) the frames a stream had while it was the current one
  intact,      \* (observed) streams since whose start no list was replaced and no reply cut
  crossed      \* (observed) the runs that had a load or a decision out at a change of run

browserVars == <<run, due, current, abort, busy, msgs, bubble, stream, mount, reloads,
                 decisions, renders, heard, intact, crossed>>
view    == <<msgs, bubble>>
loads   == <<mount, reloads, decisions, crossed>>
ghosts  == <<heard, intact>>

Idle == [at |-> "idle", of |-> None, over |-> FALSE, cut |-> FALSE]
Terminal == {"final", "card"}

BrowserInit ==
  /\ run = (CHOOSE r \in Runs : TRUE) /\ due = {} /\ current = None /\ abort = None /\ busy = FALSE
  /\ msgs = <<>> /\ bubble = None
  /\ stream = [s \in Streams |-> Idle] /\ mount = None /\ reloads = {}
  /\ decisions = {} /\ crossed = {} /\ renders = 0
  /\ heard = [s \in Streams |-> <<>>] /\ intact = {}

To(s, at) == stream' = [stream EXCEPT ![s] = IF at = "over" THEN [Idle EXCEPT !.at = at]
                                             ELSE [@ EXCEPT !.at = at]]
Aborted(s) == IF s = None THEN stream ELSE [stream EXCEPT ![s].cut = TRUE]

-----------------------------------------------------------------------------
(* The list of messages *)

Row(id, of, by, kind, text) == [id |-> id, of |-> of, by |-> by, kind |-> kind, text |-> text]

\* nextId: what a stream writes is numbered by the stream and the frame.
Push(s, n, kind, text) == msgs' = Append(msgs, Row(<<s, n>>, stream[s].of, s, kind, text))

\* patchById: nothing happens if the bubble has gone.
Patch(id, Text(_)) ==
  msgs' = [i \in DOMAIN msgs |->
             IF msgs[i].id = id THEN [msgs[i] EXCEPT !.text = Text(@)] ELSE msgs[i]]

\* Fault variant: a tool leaves the bubble open.
HandleOpen(s, kind, n) ==
  CASE kind = "delta" ->
         IF bubble = None THEN Push(s, n, "reply", {n}) /\ bubble' = <<s, n>>
         ELSE Patch(bubble, LAMBDA t : t \cup {n}) /\ UNCHANGED bubble
    [] kind = "final" ->
         /\ IF bubble = None THEN Push(s, n, "reply", {n})
            ELSE Patch(bubble, LAMBDA t : {n})
         /\ bubble' = None
    [] kind \in {"tool", "card"} -> Push(s, n, kind, {}) /\ UNCHANGED bubble
    [] OTHER -> bubble' = None /\ UNCHANGED msgs

\* handleStreamEvent: a piece of text opens a bubble or goes on with the open one; the
\* final text replaces it; anything else closes it.
Handle(s, kind, n) ==
  CASE kind = "delta" ->
         IF bubble = None THEN Push(s, n, "reply", {n}) /\ bubble' = <<s, n>>
         ELSE Patch(bubble, LAMBDA t : t \cup {n}) /\ UNCHANGED bubble
    [] kind = "final" ->
         /\ IF bubble = None THEN Push(s, n, "reply", {n})
            ELSE Patch(bubble, LAMBDA t : {n})
         /\ bubble' = None
    [] kind \in {"tool", "card"} -> Push(s, n, kind, {}) /\ bubble' = None
    [] OTHER -> bubble' = None /\ UNCHANGED msgs

\* onEvent in send and in resumeAfterDisconnect: a stream that is not the current one
\* is not listened to.
Hear(s, kind) ==
  IF current = s
  THEN /\ Handle(s, kind, Len(heard[s]) + 1)
       /\ heard' = [heard EXCEPT ![s] = Append(@, kind)]
  ELSE UNCHANGED <<view, heard>>

-----------------------------------------------------------------------------
(* A stream *)

Send(s) ==
  /\ stream[s].at = "idle" /\ ~busy /\ due = {} /\ (s > 1 => stream[s - 1].at # "idle")
  /\ busy' = TRUE /\ abort' = s /\ current' = s
  /\ stream' = [stream EXCEPT ![s] = [Idle EXCEPT !.at = "reading", !.of = run]]
  /\ msgs' = Append(msgs, Row(<<s, 0>>, run, s, "user", {})) /\ UNCHANGED bubble
  /\ intact' = IF bubble = None THEN intact \cup {s} ELSE {}
  /\ UNCHANGED <<run, due, loads, renders, heard>>

\* readSseBody hands on a frame.
Frame(s) ==
  /\ stream[s].at = "reading" /\ ~stream[s].cut /\ ~stream[s].over
  /\ Len(FlattenSeq(heard)) < MaxFrames
  /\ \E kind \in {"delta", "tool"} \cup Terminal :
       /\ Hear(s, kind)
       /\ stream' = [stream EXCEPT ![s].over = kind \in Terminal]
  /\ UNCHANGED <<run, due, current, abort, busy, loads, renders, intact>>

\* Fault variant: the input stays closed.
EndedBusy(s, broke) ==
  /\ To(s, IF broke /\ current = s THEN "resuming" ELSE "over")
  /\ abort' = IF current = s THEN (IF broke THEN s ELSE None) ELSE abort
  /\ UNCHANGED busy

\* `finally` of send.
Ended(s, broke) ==
  /\ To(s, IF broke /\ current = s THEN "resuming" ELSE "over")
  /\ IF current = s THEN abort' = (IF broke THEN s ELSE None) /\ busy' = FALSE
     ELSE UNCHANGED <<abort, busy>>

\* streamChat returns: after its terminal frame, without one, or with an error (a frame
\* that says so, a refusal, a time limit), which a user's abort is not.
Close(s) ==
  /\ stream[s].at = "reading"
  /\ \/ (stream[s].over \/ stream[s].cut) /\ Ended(s, FALSE) /\ UNCHANGED <<view, heard>>
     \/ ~stream[s].over /\ ~stream[s].cut /\ Hear(s, "disconnected") /\ Ended(s, TRUE)
     \/ ~stream[s].over /\ ~stream[s].cut /\ Hear(s, "error") /\ Ended(s, FALSE)
  /\ UNCHANGED <<run, due, current, loads, renders, intact>>

\* resumeAfterDisconnect: watchEvents found a terminal event on the bus, or none in time.
Resume(s) ==
  /\ stream[s].at = "resuming" /\ To(s, "over")
  /\ \E kind \in Terminal \cup {None} :
       /\ stream[s].cut => kind = None
       /\ IF kind = None THEN UNCHANGED <<view, heard>> ELSE Hear(s, kind)
  /\ abort' = IF abort = s THEN None ELSE abort
  /\ busy' = (busy /\ current # s)
  /\ UNCHANGED <<run, due, current, loads, renders, intact>>

\* Fault variant: the stream stays the current one.
StopSeq ==
  /\ busy /\ stream' = Aborted(abort) /\ abort' = None /\ busy' = FALSE
  /\ UNCHANGED <<run, due, current, view, loads, renders, ghosts>>

\* stop: the button is there while the page is busy.
Stop ==
  /\ busy /\ current' = None /\ stream' = Aborted(abort) /\ abort' = None /\ busy' = FALSE
  /\ UNCHANGED <<run, due, view, loads, renders, ghosts>>

-----------------------------------------------------------------------------
(* The shown conversation *)

Shows(r, effects) ==
  /\ renders < MaxRenders /\ renders' = renders + 1
  /\ run' = r /\ due' = due \cup effects

\* switchRun, or another user's first conversation.
Switch ==
  /\ \E r \in Runs \ {run} : Shows(r, {"switch", "tick"})
  /\ crossed' = crossed \cup reloads \cup {d.of : d \in decisions}
  /\ UNCHANGED <<current, abort, busy, view, stream, mount, reloads, decisions, ghosts>>

\* onApprovalAction of the panel beside the page.
Refresh ==
  /\ Shows(run, {"tick"})
  /\ UNCHANGED <<current, abort, busy, view, stream, loads, ghosts>>

\* doApprove and doReject up to their await: the request is for the run that is shown.  The
\* buttons of a card whose decision is out are closed.
Decide(i) ==
  /\ due = {} /\ msgs[i].kind = "card" /\ \A d \in decisions : d.card # msgs[i].id
  /\ Len(FlattenSeq(heard)) < MaxFrames
  /\ decisions' = decisions \cup {[card |-> msgs[i].id, of |-> run]}
  /\ UNCHANGED <<run, due, current, abort, busy, view, stream, mount, reloads, renders, ghosts, crossed>>

\* A card that is taken away leaves a row that shows nothing.
Without(cards) ==
  [i \in DOMAIN msgs |-> IF msgs[i].kind = "card" /\ msgs[i].id \in cards
                         THEN [msgs[i] EXCEPT !.kind = "gone"] ELSE msgs[i]]
Cards == {msgs[i].id : i \in DOMAIN msgs}

\* What follows the await goes to the list as it is by then, of whichever run: the card is
\* taken away, the text of the reply, if there is one, becomes a row, and onApprovalAction
\* loads the history.  "No approval is waiting" takes all cards away; any other error none.
Decided(d) ==
  /\ d \in decisions /\ decisions' = decisions \ {d}
  /\ \/ /\ msgs' \in {Without({d.card}), Without(Cards),
                      Append(Without({d.card}), Row(None, d.of, None, "answer", {}))}
        /\ due' = due \cup {"tick"}
     \/ UNCHANGED <<msgs, due>>
  /\ UNCHANGED <<run, current, abort, busy, bubble, stream, mount, reloads, renders, ghosts, crossed>>

\* The effect on refreshTick: a stream that is under way writes for itself.
Reloading == IF "tick" \in due /\ abort = None THEN reloads \cup {run} ELSE reloads

\* Fault variant: the streams of the last run go on.
EffectsGoOn ==
  /\ due # {} /\ due' = {} /\ reloads' = Reloading
  /\ IF "switch" \in due
     THEN /\ abort' = None /\ busy' = FALSE
          /\ msgs' = <<>> /\ bubble' = None /\ mount' = run /\ intact' = {}
     ELSE UNCHANGED <<abort, busy, msgs, bubble, mount, intact>>
  /\ UNCHANGED <<run, current, stream, decisions, renders, heard, crossed>>

\* The effects run in the order they are written in: that on refreshTick, that on runId.
Effects ==
  /\ due # {} /\ due' = {} /\ reloads' = Reloading
  /\ IF "switch" \in due
     THEN /\ current' = None /\ stream' = Aborted(abort) /\ abort' = None /\ busy' = FALSE
          /\ msgs' = <<>> /\ bubble' = None /\ mount' = run /\ intact' = {}
     ELSE UNCHANGED <<current, stream, abort, busy, msgs, bubble, mount, intact>>
  /\ UNCHANGED <<run, decisions, renders, heard, crossed>>

\* toDisplayMsgs of what the server has.
History(r) == <<Row(None, r, None, "reply", {})>>

\* The history of the run that is shown.  One that was left is cancelled.
Mounted ==
  /\ mount # None /\ mount' = None
  /\ \/ msgs' = History(mount) /\ intact' = {}
     \/ UNCHANGED <<msgs, intact>>      \* it failed
  /\ UNCHANGED <<run, due, current, abort, busy, bubble, stream, reloads, decisions, renders, heard,
                 crossed>>

\* reloadFromServer: nothing tells it that another run is shown by now.
Reloaded(r) ==
  /\ r \in reloads /\ reloads' = reloads \ {r}
  /\ \/ msgs' = History(r) /\ intact' = {}
     \/ UNCHANGED <<msgs, intact>>      \* it failed
  /\ UNCHANGED <<run, due, current, abort, busy, bubble, stream, mount, decisions, renders, heard,
                 crossed>>

-----------------------------------------------------------------------------
BrowserNext ==
  \/ \E s \in Streams : Send(s) \/ Frame(s) \/ Close(s) \/ Resume(s)
  \/ \E r \in Runs : Reloaded(r)
  \/ \E i \in DOMAIN msgs : Decide(i)
  \/ \E d \in decisions : Decided(d)
  \/ Stop \/ Switch \/ Refresh \/ Effects \/ Mounted

\* A stream ends, by its time limit at the latest, and a render is followed by its effects.
BrowserFairness ==
  /\ \A s \in Streams : WF_browserVars(Close(s))
  /\ WF_browserVars(Effects)

BrowserSpec == BrowserInit /\ [][BrowserNext]_browserVars /\ BrowserFairness

-----------------------------------------------------------------------------
(* Properties *)

\* The input is closed exactly while the stream it waits for is being read, and it is
\* the current one: an old stream that ends late opens nothing, a new one is not
\* left without (ChatView.tsx:143-146, 390-435).
InputFollowsStream ==
  busy <=> \E s \in Streams : stream[s].at = "reading" /\ current = s

\* What is under another conversation than its own is no frame of a stream: it is a history,
\* or the reply to a decision, that was out when the conversation was changed, which
\* nothing tells that another one is shown (ChatView.tsx:136-150, 324-373, 395-398).
FramesInPlace ==
  "switch" \notin due =>
    \A i \in DOMAIN msgs : msgs[i].of = run \/ (msgs[i].by = None /\ msgs[i].of \in crossed)

\* (Refuted.)  Nothing at all is under another conversation (ChatView.tsx:138-142).
AllInPlace == "switch" \notin due => \A i \in DOMAIN msgs : msgs[i].of = run

\* What the server said, in order: text up to the next tool is one bubble, which the
\* final text replaces.
Text == {"delta", "final"}
Opens(f, i) == f[i] \in Text /\ (i = 1 \/ f[i - 1] \notin Text)
Rest(f, i) == {j \in i .. Len(f) : \A k \in i .. j : f[k] \in Text}
Bubble(f, i) ==
  IF f[i] = "tool" THEN [kind |-> "tool", text |-> {}]
  ELSE LET ends == {j \in Rest(f, i) : f[j] = "final"}
       IN [kind |-> "reply", text |-> IF ends = {} THEN Rest(f, i) ELSE ends]
Starts(f) == {i \in DOMAIN f : f[i] = "tool" \/ Opens(f, i)}
Rows(s) == {i \in DOMAIN msgs : msgs[i].by = s /\ msgs[i].kind \in {"tool", "reply"}}

\* A stream's frames are all told, in their order and apart from those of others, as
\* long as no load replaced the list and no reply was stopped before
\* (ChatView.tsx:186-287).
ToldInOrder ==
  \A s \in intact :
    /\ {msgs[i].id[2] : i \in Rows(s)} = Starts(heard[s])
    /\ \A i \in Rows(s) :
         [kind |-> msgs[i].kind, text |-> msgs[i].text] = Bubble(heard[s], msgs[i].id[2])
    /\ \A i, j \in Rows(s) : i < j => msgs[i].id[2] < msgs[j].id[2]

\* The page does not stay closed (api.ts:118-141, 482-532).
InputOpens == busy ~> ~busy

\* (Refuted.)  What was generated before a stop is kept (the button's title,
\* ChatView.tsx:588): the text of a stream that is not the current one stays.
Keeps ==
  \A i \in DOMAIN msgs :
    msgs[i].by \notin {None, current} /\ i \in DOMAIN msgs' /\ msgs'[i].id = msgs[i].id
      => msgs'[i] = msgs[i]
StoppedKept == [][Keeps]_browserVars
=============================================================================
