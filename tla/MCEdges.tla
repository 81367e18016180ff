------------------------------ MODULE MCEdges ------------------------------
(* Where the program meets the world, for TLC: the robot (its reflex loop with the
   safety gate, the answers to the polls of its device, the frames in the device's
   bytes), the starts of servers, the requests at the gateway, the page in the browser
   with the panels beside it.  They share no state: a behaviour runs the part that it
   picks at the start. *)
EXTENDS Gateway

CONSTANTS Loops, Agents, Poses, Lo, Hi, MaxStep, Clamp, MaxFaults,  \* of the robot
          SeqSpace, MaxRetries, MaxLosses, MaxPolls,                \* of its line
          Bytes, Sof1, Sof2, MaxPayload, MaxChunk, MaxBytes,
          Servers, Members, ApiKeys, SingleUser, MaxEdits,          \* of the servers
          Rooms, MaxStreams, MaxFrames, MaxRenders,                 \* of the page
          MaxLoads, MaxVersion, Owner, MaxJobs, Models, Keyless, MaxTests,
          ada, bob,        \* people
          q1, q2, q3,      \* rows of the list, models
          here, there      \* runs

\* Polls are counted modulo the space of their numbers, and what a length says is a number
\* (protocol.py:64, 91).
ASSUME LineAssumption == SeqSpace \in Nat \ {0} /\ Bytes \subseteq Nat /\ MaxPayload \in Nat

\* A key is a text, and none is empty (run_server.py:283).
ASSUME KeyAssumption == None \notin ApiKeys /\ "" \notin ApiKeys

\* None is no number, no row of the conversation, no load of a panel and no gesture.
ASSUME PageAssumption ==
  /\ MaxStreams \in Nat /\ MaxLoads \in Nat \ {0} /\ Rooms # {}
  /\ None \notin Nat \cup (Nat \X Nat)
  /\ None \notin [key : Rooms, chain : Nat, got : Nat \cup {None}]
  /\ None \notin [down : DOMAIN Owner, over : DOMAIN Owner, moved : BOOLEAN, before : SUBSET DOMAIN Owner]

\* For TLC.
OwnedByAda == [r \in {q1, q2} |-> ada]

VARIABLES part,
          stop, lastTarget, lastPose, target, thread, stopping, tick, sample, cmd, agent, pose,
          torque, faults, flight, vetted,
          asked, up, down, reading, mine, left, got, missed, lost,
          received, consumed, frames, scanning,
          config, running, holds, edits,
          run, due, current, abort, busy, msgs, bubble, stream, mount, reloads, decisions, renders,
          heard, intact, crossed,
          key, rekeyed, data, load, seq, timers, timer, epoch, hidden, truth,
          server, user, moved, shown, runs, selectMode, selected, press, pointer, swallow, job,
          jobs, stray,
          model, editFor, typed, saving, testing, verdict, tests

Reflex == INSTANCE Embodiment

Serial == INSTANCE SerialLink WITH faults <- lost, Readers <- Agents, MaxFaults <- MaxLosses

Start == INSTANCE ServerStart WITH Users <- Members, Keys <- ApiKeys

Page == INSTANCE Browser WITH Runs <- Rooms

Side == INSTANCE Panels WITH due <- rekeyed, current <- model, Keys <- Rooms, People <- Members

reflexVars == <<stop, lastTarget, lastPose, target, thread, stopping, tick, sample, cmd, agent,
                pose, torque, faults, flight, vetted>>
serialVars == <<asked, up, down, reading, mine, left, got, missed, lost>>
framesVars == <<received, consumed, frames, scanning>>
startVars  == <<config, running, holds, edits>>
pageVars   == <<run, due, current, abort, busy, msgs, bubble, stream, mount, reloads, decisions,
                renders, heard, intact, crossed>>
pollVars   == <<key, rekeyed, data, load, seq, timers, timer, epoch, hidden, truth>>
listVars   == <<server, user, moved, shown, runs, selectMode, selected, press, pointer, swallow,
                job, jobs, stray>>
modelVars  == <<model, editFor, typed, saving, testing, verdict, tests>>
edgesVars  == <<part, vars, reflexVars, serialVars, framesVars, startVars, pageVars, pollVars,
                listVars, modelVars>>

\* A part that does not run stays in its initial state.
EdgesInit ==
  /\ part \in {"reflex", "serial", "frames", "start", "gate", "page", "poll", "list", "models"}
  /\ Init /\ Reflex!Init /\ Serial!Init /\ Serial!InitParser /\ Start!Init /\ Page!BrowserInit
  /\ part # "reflex" => pose = Lo
  /\ part # "start" => config.WARDEN_ALLOW_ANON = "1"
  /\ Side!InitPoll /\ Side!InitList /\ Side!InitModels

EdgesNext ==
  /\ UNCHANGED part
  /\ IF part = "gate" THEN Next ELSE UNCHANGED vars
  /\ IF part = "reflex" THEN Reflex!Next ELSE UNCHANGED reflexVars
  /\ IF part = "serial" THEN Serial!Next ELSE UNCHANGED serialVars
  /\ IF part = "frames" THEN Serial!Parse ELSE UNCHANGED framesVars
  /\ IF part = "start" THEN Start!Next ELSE UNCHANGED startVars
  /\ IF part = "page" THEN Page!BrowserNext ELSE UNCHANGED pageVars
  /\ IF part = "poll" THEN Side!Poll ELSE UNCHANGED pollVars
  /\ IF part = "list" THEN Side!List ELSE UNCHANGED listVars
  /\ IF part = "models" THEN Side!Panel ELSE UNCHANGED modelVars

EdgesSpec == EdgesInit /\ [][EdgesNext]_edgesVars /\ Reflex!Fairness /\ Page!BrowserFairness

-----------------------------------------------------------------------------
\* Under a latched stop only a torque that had passed the last look at the latch may still
\* be sent (reflex.py:146-168, safety.py:117).
StopBinds == Reflex!StopBinds

\* A device under a stop loses its torque in the end, and the page does not stay closed
\* (reflex.py:146-168, api.ts:118-141, 482-532).
EdgesProgress == Reflex!StopHolds /\ Page!InputOpens

\* What is read from outside is what it stands for.  From the device: neither noise nor an
\* answer to an earlier poll, and no frame is held back without a reason.  From the
\* environment: a server that is up is guarded, shares what it must, and knows the keys
\* that are in use (protocol.py:76-110, serial_adapter.py:285-310, run_server.py:243-426).
ReadingsTrue ==
  /\ Serial!FreshState /\ [](Serial!FramesFound /\ Serial!HeldBack)
  /\ [](part = "start" => Start!KeysRollOver /\ Start!OutsideIsGuarded /\ Start!SharedIsShared)

\* The page tells what the streams said, in its place and order, and is open for input
\* unless it reads one; under another conversation come only a history or the reply to a
\* decision that was out when the conversation was changed.  Beside it a panel shows the newest that belongs to the page and
\* goes on asking, a press in the list does one thing, and a key that was typed goes to its
\* model (ChatView.tsx:136-287, 324-373, 375-435, usePolling.ts:33-104, ConversationList.tsx:82-265,
\* App.tsx:62-69, 301-307, ModelPanel.tsx:29-57).
PageTells ==
  /\ [](part = "page" => Page!InputFollowsStream /\ Page!FramesInPlace /\ Page!ToldInOrder)
  /\ [](part = "poll" => Side!ShownIsOfKey /\ Side!PollGoesOn)
  /\ [](part = "list" => Side!NoneHidden /\ Side!ShownIsOwn)
  /\ [](part = "models" => Side!KeyForItsModel)
  /\ Side!ShownGrows /\ Side!TapsOnce
=============================================================================
