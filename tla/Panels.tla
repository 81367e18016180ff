------------------------------- MODULE Panels -------------------------------
(***************************************************************************)
(* The panels beside the conversation, in three parts that share nothing:  *)
(* what a panel polls (usePolling.ts), the list of conversations with its  *)
(* gestures, deletions and the change of the user (ConversationList.tsx,   *)
(* App.tsx), and the choice of a model (ModelPanel.tsx).                   *)
(*                                                                         *)
(* A step is what the browser runs without a break, as in Browser.         *)
(***************************************************************************)
EXTENDS Naturals, FiniteSets

CONSTANTS None,
          Keys,        \* what a poll may be of: runs, users
          MaxLoads,    \* bound on the loads of a poll
          MaxVersion,  \* bound on the changes at the server
          People, Owner,  \* users, and whose a conversation is
          MaxJobs,     \* bound on the requests of the list
          Models,
          Keyless,     \* models that are chosen without an editor
          MaxTests     \* bound on the requests of the model panel

VARIABLES
  key, due,    \* the key of the last render, and are its effects still to run?
  data,        \* what is shown: its key and version
  load,        \* the loads, by seqRef
  seq,
  timers,      \* the chains of ticks that wait for their timer
  timer,       \* the variable of that name: the chain whose timer it is
  epoch,       \* the loads from this one on are of the effect that is mounted
  hidden,
  truth        \* the version at the server

pollVars == <<key, due, data, load, seq, timers, timer, epoch, hidden, truth>>

VARIABLES
  server,      \* the conversations there are
  user, moved, \* App: userId, and is the effect that follows its change still to run?
  shown,       \* App: runId
  runs,        \* the list
  selectMode, selected,
  press,       \* session, or None
  pointer,     \* held down: the row of the press, the row it is over, has it moved, and
               \* (observed) the selection before; or None
  swallow,     \* swallowClick
  job,         \* requests under way
  jobs,        \* how many there were
  stray        \* (observed) an answer found another page, or the list was behind when it was used

listVars == <<server, user, moved, shown, runs, selectMode, selected, press, pointer, swallow,
              job, jobs, stray>>
gesture  == <<selectMode, selected, press, pointer, swallow>>

VARIABLES
  current,     \* the model in use, as the server says
  editFor,     \* the model whose editor is open, or None
  typed,       \* the model for which the text in the field of the key was typed, or None
  saving,      \* select() under way: the model and what it sends as its key, or None
  testing,     \* probes under way, each with the key that it sends
  verdict,     \* probes: that whose answer is shown
  tests

modelVars == <<current, editFor, typed, saving, testing, verdict, tests>>

-----------------------------------------------------------------------------
(* A poll *)

Out(k, chain) == [key |-> k, chain |-> chain, got |-> None]

InitPoll ==
  /\ key = (CHOOSE k \in Keys : TRUE) /\ due = FALSE /\ data = None /\ seq = 1 /\ timers = {} /\ timer = None
  /\ load = [n \in 1 .. MaxLoads |-> IF n = 1 THEN Out(key, 1) ELSE None]
  /\ epoch = 1 /\ hidden = FALSE /\ truth = 0

Flying == {n \in 1 .. seq : load[n] # None}

\* load(): the one before is aborted, and may have been answered all the same.  A chain
\* is named after its first load.
Loading(chain, k) ==
  /\ seq < MaxLoads /\ seq' = seq + 1
  /\ load' = [load EXCEPT ![seq + 1] = Out(k, IF chain = None THEN seq + 1 ELSE chain)]

\* refresh(): after it nothing is scheduled, so its chain is 0.
Refresh ==
  /\ Loading(0, key)
  /\ UNCHANGED <<key, due, data, timers, timer, epoch, hidden, truth>>

\* The server reads what it answers.
Serve(n) ==
  /\ n \in Flying /\ load[n].got = None /\ load' = [load EXCEPT ![n].got = truth]
  /\ UNCHANGED <<key, due, data, seq, timers, timer, epoch, hidden, truth>>

\* Fault variant: what comes last is shown.
AcceptedLast(n) == TRUE

\* Only the newest load counts.
Accepted(n) == n = seq

\* The answer or an error, and what tick() does after load().
Arrive(n) ==
  /\ n \in Flying /\ load' = [load EXCEPT ![n] = None]
  /\ \/ load[n].got # None /\ Accepted(n) /\ data' = <<load[n].key, load[n].got>>
     \/ UNCHANGED data
  /\ IF load[n].chain < epoch \/ hidden THEN UNCHANGED <<timers, timer>>
     ELSE timers' = timers \cup {load[n].chain} /\ timer' = load[n].chain
  /\ UNCHANGED <<key, due, seq, epoch, hidden, truth>>

\* A tick of an effect that was cleaned up does nothing.
Fire(c) ==
  /\ c \in timers /\ timers' = timers \ {c}
  /\ IF c < epoch THEN UNCHANGED <<load, seq>> ELSE Loading(c, key)
  /\ UNCHANGED <<key, due, data, timer, epoch, hidden, truth>>

\* onVisibilityChange.
Hide ==
  /\ ~hidden /\ hidden' = TRUE /\ timers' = timers \ {timer} /\ timer' = None
  /\ UNCHANGED <<key, due, data, load, seq, epoch, truth>>

Show ==
  /\ hidden /\ hidden' = FALSE /\ Loading(None, key)
  /\ UNCHANGED <<key, due, data, timers, timer, epoch, truth>>

\* Another run, or another user, is rendered.
Rekey ==
  /\ ~due /\ due' = TRUE /\ key' \in Keys \ {key}
  /\ UNCHANGED <<data, load, seq, timers, timer, epoch, hidden, truth>>

\* The effects: the old poll is cleaned up, the new one starts at once (the three steps of
\* seqRef are one here).
Remount ==
  /\ due /\ due' = FALSE /\ data' = None /\ Loading(None, key) /\ epoch' = seq'
  /\ timers' = timers \ {timer} /\ timer' = None
  /\ UNCHANGED <<key, hidden, truth>>

Change ==
  /\ truth < MaxVersion /\ truth' = truth + 1
  /\ UNCHANGED <<key, due, data, load, seq, timers, timer, epoch, hidden>>

Poll ==
  \/ Refresh \/ Hide \/ Show \/ Rekey \/ Remount \/ Change
  \/ \E n \in 1 .. MaxLoads : Serve(n) \/ Arrive(n) \/ Fire(n)

\* A panel shows what belongs to the run or user on the screen, whatever comes late
\* (usePolling.ts:33-48, 71-74).
ShownIsOfKey ==
  ~due /\ data # None => data[1] = key

\* It never goes back to an older state (usePolling.ts:50-69).
Grows == data # None /\ data' # None /\ data'[1] = data[1] => data'[2] >= data[2]
ShownGrows == [][Grows]_pollVars

\* A page in front has a tick to come, after hiding and showing in any order
\* (usePolling.ts:83-104).
PollGoesOn ==
  ~hidden /\ ~due =>
    \/ \E c \in timers : c >= epoch
    \/ \E n \in Flying : load[n].chain >= epoch

\* (Refuted.)  And one only.
OneChain == Cardinality(timers) + Cardinality({n \in Flying : load[n].chain >= epoch}) =< 1

-----------------------------------------------------------------------------
(* The list of conversations *)

Conversations == DOMAIN Owner
OwnRuns(u) == {r \in server : Owner[r] = u}
Fresh == "fresh"   \* a conversation that nobody has written to

InitList ==
  /\ server = Conversations /\ user = (CHOOSE u \in People : TRUE) /\ moved = FALSE /\ shown = Fresh /\ runs = OwnRuns(user)
  /\ selectMode = FALSE /\ selected = {} /\ press = None /\ pointer = None /\ swallow = FALSE
  /\ job = {} /\ jobs = 0 /\ stray = FALSE

selectedLive == selected \cap runs

Reload ==
  /\ runs # OwnRuns(user) /\ runs' = OwnRuns(user)
  /\ UNCHANGED <<server, user, moved, shown, gesture, job, jobs, stray>>

Flip(S, r) == IF r \in S THEN S \ {r} ELSE S \cup {r}
Paint(r, on) == selected' = IF on THEN selected \cup {r} ELSE selected \ {r}

onRowPointerDown(r) ==
  /\ r \in runs /\ pointer = None
  /\ pointer' = [down |-> r, over |-> r, moved |-> FALSE, before |-> selected]
  /\ press' = [value |-> ~selectMode \/ r \notin selected, painting |-> selectMode]
  /\ swallow' = selectMode
  /\ IF selectMode THEN Paint(r, r \notin selected) ELSE UNCHANGED selected
  /\ UNCHANGED <<server, user, moved, shown, runs, selectMode, job, jobs, stray>>

\* The timer of a long press.
LongPress ==
  /\ press # None /\ ~press.painting /\ press' = [press EXCEPT !.painting = TRUE]
  /\ swallow' = TRUE /\ selectMode' = TRUE /\ selected' = {pointer.down}
  /\ UNCHANGED <<server, user, moved, shown, runs, pointer, job, jobs, stray>>

\* onMove, over another row: it is painted, or the press was a scroll.
onMove(r) ==
  /\ pointer # None /\ r \in runs \ {pointer.over}
  /\ pointer' = [pointer EXCEPT !.over = r, !.moved = TRUE]
  /\ IF press = None THEN UNCHANGED <<press, selected>>
     ELSE IF press.painting THEN Paint(r, press.value) /\ UNCHANGED press
     ELSE press' = None /\ UNCHANGED selected
  /\ UNCHANGED <<server, user, moved, shown, runs, selectMode, swallow, job, jobs, stray>>

\* Fault variant: the click that ends a press is a click.
SwallowedNot == FALSE

\* The click that ends a press which has painted is not one.
Swallowed == swallow

\* onClick.
Click(r) ==
  /\ swallow' = FALSE
  /\ IF Swallowed THEN UNCHANGED <<selected, shown>>
     ELSE IF selectMode THEN selected' = Flip(selected, r) /\ UNCHANGED shown
     ELSE shown' = r /\ UNCHANGED selected

\* onUp, followed by a click if the row is still the one that was pressed.
onUp ==
  /\ pointer # None /\ pointer' = None /\ press' = None
  /\ IF pointer.over = pointer.down /\ pointer.down \in runs THEN Click(pointer.down)
     ELSE UNCHANGED <<swallow, selected, shown>>
  /\ stray' = (stray \/ (shown' # shown /\ shown' \notin server))
  /\ UNCHANGED <<server, user, moved, runs, selectMode, job, jobs>>

toggleAll ==
  /\ selectMode /\ pointer = None
  /\ selected' = IF runs # {} /\ selectedLive = runs THEN {} ELSE runs
  /\ UNCHANGED <<server, user, moved, shown, runs, selectMode, press, pointer, swallow, job, jobs,
                 stray>>

Exit == selectMode' = FALSE /\ selected' = {} /\ press' = None

exitSelect ==
  /\ selectMode /\ pointer = None /\ Exit
  /\ UNCHANGED <<server, user, moved, shown, runs, pointer, swallow, job, jobs, stray>>

\* A request keeps what its handler saw: the run that was shown, the list, the user.
Ask(kind, ids) ==
  /\ jobs < MaxJobs /\ jobs' = jobs + 1
  /\ job' = job \cup {[kind |-> kind, ids |-> ids, shown |-> shown, runs |-> runs, user |-> user,
                       done |-> FALSE, nr |-> jobs]}

\* removeSelected and create wait for one another (busy); remove waits for nothing.
Delete ==
  /\ pointer = None
  /\ \/ ~selectMode /\ \E r \in runs : Ask("one", {r})
     \/ /\ selectMode /\ selectedLive # {} /\ ~\E j \in job : j.kind = "many"
        /\ Ask("many", selectedLive)
  /\ UNCHANGED <<server, user, moved, shown, runs, gesture, stray>>

Delivered(j) ==
  /\ j \in job /\ ~j.done /\ job' = (job \ {j}) \cup {[j EXCEPT !.done = TRUE]}
  /\ server' = server \ j.ids
  /\ UNCHANGED <<user, moved, shown, runs, gesture, jobs, stray>>

\* Fault variant: the page stays.
onDeletedStay(j) == UNCHANGED shown

\* App: away from what was deleted, to what the handler saw beside it.
onDeleted(j) ==
  IF j.shown \in j.ids
  THEN IF j.runs \ j.ids = {} THEN shown' = Fresh ELSE shown' \in j.runs \ j.ids
  ELSE UNCHANGED shown

\* The answer; an error may also come of a deletion that was carried out.
Answered(j) ==
  /\ j \in job /\ job' = job \ {j}
  /\ \/ /\ j.done /\ onDeleted(j)
        /\ IF j.kind = "many" THEN Exit /\ UNCHANGED <<pointer, swallow>> ELSE UNCHANGED gesture
        /\ stray' = (stray \/ j.user # user \/ moved \/ j.shown # shown \/ ~(j.runs \ j.ids \subseteq server))
     \/ /\ UNCHANGED <<shown, gesture>>
        /\ stray' = (stray \/ j.done)
  /\ UNCHANGED <<server, user, moved, runs, jobs>>

\* applyUser's answer.  Polls of the last user show nothing any more.
applyUser(u) ==
  /\ u # user /\ ~moved /\ user' = u /\ moved' = TRUE /\ runs' = {}
  /\ UNCHANGED <<server, shown, gesture, job, jobs, stray>>

\* The effect on userId.
NewUserRun ==
  /\ moved /\ moved' = FALSE /\ shown' = Fresh
  /\ UNCHANGED <<server, user, runs, gesture, job, jobs, stray>>

List ==
  \/ Reload \/ LongPress \/ onUp \/ toggleAll \/ exitSelect \/ Delete \/ NewUserRun
  \/ \E r \in Conversations : onRowPointerDown(r) \/ onMove(r)
  \/ \E j \in job : Delivered(j) \/ Answered(j)
  \/ \E u \in People : applyUser(u)

\* A press and its click choose once: among selected rows the row is turned over, or is
\* the selection after a long press; without a selection the row is shown
\* (ConversationList.tsx:82-94, 180-205, 398-405).
Tapped ==
  pointer # None /\ pointer' = None /\ ~pointer.moved =>
    IF selectMode THEN selected' \in {Flip(pointer.before, pointer.down), {pointer.down}}
                       /\ UNCHANGED shown
    ELSE selected' = {} /\ shown' \in {shown, pointer.down}
TapsOnce == [][Tapped]_listVars

\* Nothing is selected out of sight (ConversationList.tsx:148-175).
NoneHidden == ~selectMode => selected = {}

\* The page does not stay on a conversation it deleted, nor shows one of another user,
\* as long as no answer found another page and the list was not behind when it was used
\* (App.tsx:62-69, 301-307).
ShownIsOwn ==
  ~stray /\ ~moved => shown \in OwnRuns(user) \cup {Fresh} \/ \E j \in job : shown \in j.ids

-----------------------------------------------------------------------------
(* The choice of a model *)

InitModels ==
  /\ current = (CHOOSE m \in Models : TRUE) /\ editFor = None /\ typed = None /\ saving = None
  /\ testing = {} /\ verdict = [m \in Models |-> None] /\ tests = 0

\* Fault variant: what was typed stays when another editor opens.
openEditorKept(m) == editFor' = (IF editFor = m THEN None ELSE m) /\ UNCHANGED typed

openEditor(m) == editFor' = (IF editFor = m THEN None ELSE m) /\ typed' = None

select(m, k) ==
  /\ saving = None /\ tests < MaxTests /\ tests' = tests + 1
  /\ saving' = [model |-> m, key |-> k]

\* The button of another model is there while nothing is being saved.
clickModel(m) ==
  /\ saving = None /\ m # current
  /\ IF m \in Keyless THEN select(m, None) /\ UNCHANGED <<editFor, typed>>
     ELSE openEditor(m) /\ UNCHANGED <<saving, tests>>
  /\ UNCHANGED <<current, testing, verdict>>

Type ==
  /\ editFor # None /\ typed' = editFor
  /\ UNCHANGED <<current, editFor, saving, testing, verdict, tests>>

Save ==
  /\ editFor # None /\ select(editFor, typed)
  /\ UNCHANGED <<current, editFor, typed, testing, verdict>>

probe(m, k) ==
  /\ tests < MaxTests /\ tests' = tests + 1
  /\ testing' = testing \cup {[model |-> m, key |-> k, nr |-> tests]}

\* "测一下" in the editor sends what is typed there, that of a row the stored key.
Test(m, k) ==
  /\ k # None => editFor = m /\ k = typed
  /\ probe(m, k) /\ UNCHANGED <<current, editFor, typed, saving, verdict>>

\* The editor closes, whichever it is by now, and the model is probed as it is stored.
Saved ==
  /\ saving # None /\ saving' = None
  /\ \/ UNCHANGED <<current, editFor, typed, testing, tests>>    \* an error: it stays open
     \/ /\ current' = saving.model /\ editFor' = None /\ typed' = None
        /\ probe(saving.model, None)
  /\ UNCHANGED verdict

Tested(p) ==
  /\ testing' = testing \ {p} /\ verdict' = [verdict EXCEPT ![p.model] = p]
  /\ UNCHANGED <<current, editFor, typed, saving, tests>>

\* The list is polled: somebody else, or an earlier request, changed the model.
Polled ==
  /\ current' \in Models \ {current}
  /\ UNCHANGED <<editFor, typed, saving, testing, verdict, tests>>

Panel ==
  \/ Type \/ Save \/ Saved \/ Polled
  \/ \E m \in Models, k \in Models \cup {None} : Test(m, k)
  \/ \E m \in Models : clickModel(m)
  \/ \E p \in testing : Tested(p)

\* A key that was typed for one model is not sent to another's endpoint
\* (ModelPanel.tsx:29-57, 236-251).
KeyForItsModel ==
  /\ saving # None => saving.key \in {None, saving.model}
  /\ \A p \in testing : p.key \in {None, p.model}

\* (Refuted.)  The verdict that is shown is that of the newest probe.
NewestVerdict ==
  [][\A m \in Models : verdict[m] # None => verdict'[m].nr >= verdict[m].nr]_modelVars
=============================================================================
