------------------------------ MODULE History ------------------------------
(***************************************************************************)
(* The conversation of one run: the session's list of messages, the rows   *)
(* the store keeps of it, and the list that is sent to the model.  A       *)
(* session object goes when its process dies or the registry drops it, and *)
(* the next one reads the rows.  What is sent is completed, given what is  *)
(* remembered and planned, and cut when it is long.                        *)
(***************************************************************************)
EXTENDS Integers, Sequences, SequencesExt

CONSTANTS Texts,       \* what users and the model say
          MaxCalls,    \* tool calls, numbered as the model makes them (bound)
          MaxMessages, \* (bound)
          KeepRecent   \* _KEEP_RECENT

VARIABLES
  messages,  \* of the session object
  rows,      \* of the table
  status,    \* stored: "RUNNING", "WAITING_APPROVAL" or "ended"
  ticket,    \* the call held for approval, 0 if none
  drive,     \* "off", "loop", "call" (one has been noted), "approved"
  calls      \* made so far

vars == <<messages, rows, status, ticket, drive, calls>>

User(t)   == [role |-> "user", text |-> t, call |-> 0]
Answer(t) == [role |-> "assistant", text |-> t, call |-> 0]
Note(c)   == [role |-> "assistant", text |-> "note", call |-> c]
Result(c) == [role |-> "tool", text |-> "result", call |-> c]
Filler(c) == [role |-> "tool", text |-> "filler", call |-> c]

Init == /\ messages = <<>> /\ rows = <<>> /\ status = "ended"
        /\ ticket = 0 /\ drive = "off" /\ calls = 0

-----------------------------------------------------------------------------
\* Fault variant: the last row alone is compared, with its role and text only.
StoredLoosely(m) ==
  IF rows # <<>> /\ Last(rows).role = m.role /\ Last(rows).text = m.text THEN rows ELSE Append(rows, m)

\* append_message: a row that is equal to an earlier one is not stored again.
Stored(m) == IF \E i \in DOMAIN rows : rows[i] = m THEN rows ELSE Append(rows, m)

Say(m) == messages' = Append(messages, m) /\ rows' = Stored(m)

\* start(): the sentence is said again only if it is not the last message.
Chat(t) ==
  /\ drive = "off" /\ Len(messages) < MaxMessages
  /\ IF messages # <<>> /\ Last(messages) = User(t) THEN UNCHANGED <<messages, rows>> ELSE Say(User(t))
  /\ status' = IF status = "ended" THEN "RUNNING" ELSE status
  /\ drive' = "loop" /\ UNCHANGED <<ticket, calls>>

\* A run that waits for approval cannot be completed: it has failed.
ModelAnswers(t) ==
  /\ drive = "loop" /\ Say(Answer(t)) /\ status' = "ended" /\ drive' = "off"
  /\ UNCHANGED <<ticket, calls>>

ModelFails ==
  /\ drive = "loop" /\ status' = "ended" /\ drive' = "off"
  /\ UNCHANGED <<messages, rows, ticket, calls>>

ModelCalls ==
  /\ drive = "loop" /\ calls < MaxCalls /\ Len(messages) < MaxMessages
  /\ calls' = calls + 1 /\ Say(Note(calls + 1)) /\ drive' = "call"
  /\ UNCHANGED <<status, ticket>>

\* It is executed, or answered with a hint.
ToolResult ==
  /\ drive = "call" /\ Say(Result(calls)) /\ drive' = "loop" /\ UNCHANGED <<status, ticket, calls>>

ToolDenied ==
  /\ drive = "call" /\ status' = "ended" /\ drive' = "off"
  /\ UNCHANGED <<messages, rows, ticket, calls>>

\* The ticket is saved before wait_for_approval refuses a run that waits already.
Hold ==
  /\ drive = "call" /\ ticket' = calls /\ drive' = "off"
  /\ status' = IF status = "RUNNING" THEN "WAITING_APPROVAL" ELSE "ended"
  /\ UNCHANGED <<messages, rows, calls>>

Approve ==
  /\ drive = "off" /\ ticket # 0 /\ status = "WAITING_APPROVAL"
  /\ status' = "RUNNING" /\ drive' = "approved" /\ UNCHANGED <<messages, rows, ticket, calls>>

ApprovedResult ==
  /\ drive = "approved" /\ Say(Result(ticket)) /\ ticket' = 0 /\ drive' = "loop"
  /\ UNCHANGED <<status, calls>>

Reject ==
  /\ drive = "off" /\ ticket # 0 /\ status = "WAITING_APPROVAL" /\ status' = "RUNNING"
  /\ Say(Result(ticket)) /\ ticket' = 0 /\ drive' = "loop" /\ UNCHANGED calls

\* A crash, or an eviction between two requests: the next session reads the rows.
Reload ==
  /\ messages' = rows /\ drive' = "off" /\ <<messages', drive'>> # <<messages, drive>>
  /\ UNCHANGED <<rows, status, ticket, calls>>

\* resume() by a recovery worker.
Resume ==
  /\ drive = "off" /\ status = "RUNNING" /\ drive' = "loop"
  /\ UNCHANGED <<messages, rows, status, ticket, calls>>

Next ==
  \/ \E t \in Texts : Chat(t) \/ ModelAnswers(t)
  \/ ModelFails \/ ModelCalls \/ ToolResult \/ ToolDenied \/ Hold
  \/ Approve \/ ApprovedResult \/ Reject \/ Reload \/ Resume

Spec == Init /\ [][Next]_vars

-----------------------------------------------------------------------------
\* _ensure_tool_results: a call that something else follows than its result is
\* given one on the spot; so is one at the end.
Fill(open) == IF open = 0 THEN <<>> ELSE <<Filler(open)>>

\* Fault variant: only the calls that are open at the end are filled in.
EnsureAtEnd(said) ==
  LET open == SelectSeq([i \in 1 .. MaxCalls |-> i], LAMBDA c : Note(c) \in ToSet(said) /\ Result(c) \notin ToSet(said))
  IN said \o [i \in DOMAIN open |-> Filler(open[i])]

\* Before each message at most one call is open.
Take(acc, m) ==
  IF m.role = "tool" THEN [out |-> Append(acc.out, m), open |-> IF m.call = acc.open THEN 0 ELSE acc.open]
  ELSE [out |-> acc.out \o Append(Fill(acc.open), m), open |-> m.call]

EnsureToolResults(said) ==
  LET done[n \in 0 .. Len(said)] == IF n = 0 THEN [out |-> <<>>, open |-> 0] ELSE Take(done[n - 1], said[n])
  IN done[Len(said)].out \o Fill(done[Len(said)].open)

-----------------------------------------------------------------------------
\* What is sent (session.py:519-546, cognition.py).

System(t) == [role |-> "system", text |-> t, call |-> 0]
WithRole(said, roles) ==
  LET kept[n \in 0 .. Len(said)] ==
        IF n = 0 THEN <<>>
        ELSE IF said[n].role \in roles THEN Append(kept[n - 1], said[n]) ELSE kept[n - 1]
  IN kept[Len(said)]
Systems(said) == WithRole(said, {"system"})
Others(said) == WithRole(said, {"user", "assistant", "tool"})

\* recall_context, and the stage of the plan: each may have nothing to say, or fail.
Contexts == {<<>>, <<System("memory")>>, <<System("plan")>>, <<System("memory"), System("plan")>>}

\* Fault variant: of the middle only the summary is kept.
manage_short(said) ==
  LET all == Others(said) IN Systems(said) \o <<all[1], System("summary"), all[Len(all)]>>

\* Too long a list is cut: the last messages are kept, in front of them all that is not
\* part of the conversation, and a summary in place of the rest.
manage_context(said) ==
  LET all == Others(said)
      cut == Len(all) - KeepRecent
  IN IF cut =< 0 THEN Systems(said) \o all
     ELSE Systems(said) \o <<System("summary")>> \o SubSeq(all, cut + 1, Len(all))

\* The extra messages come behind the prompt, which no row holds; whether the list is too
\* long depends on its characters.
_request_messages(extra, long) ==
  LET said == EnsureToolResults(<<System("prompt")>> \o messages)
      combined == <<Head(said)>> \o extra \o Tail(said)
  IN IF long THEN manage_context(combined) ELSE combined

RequestLists == {_request_messages(extra, long) : extra \in Contexts, long \in BOOLEAN}

\* The tool messages that follow message i directly.
Following(sent, i) ==
  {sent[j] : j \in {j \in i + 1 .. Len(sent) : \A k \in i + 1 .. j : sent[k].role = "tool"}}

\* session.py:107-139, 519-546, cognition.py:43-67: whatever was interrupted, held, refused
\* or read back, and wherever the list was cut, in the list the model gets the tool messages
\* right after a call contain its result.
CallsPaired ==
  messages # <<>> =>
    \A sent \in RequestLists : \A i \in DOMAIN sent :
      sent[i].role = "assistant" /\ sent[i].call # 0 =>
        \E m \in Following(sent, i) : m.call = sent[i].call

\* (Refuted.)  The other way round, as the model's interface wants it: a result comes after
\* its call.  A cut may fall between the two.
ResultsFollow ==
  drive = "loop" =>
    \A sent \in RequestLists : \A i \in DOMAIN sent :
      sent[i].role = "tool" => \E j \in 1 .. i - 1 : sent[j] = Note(sent[i].call)

\* (Refuted.)  cognition.py:48, what is needed to finish is kept: the sentence the model
\* is to answer.  As many calls as are kept push it out.
QuestionIsSent ==
  drive = "loop" => \A sent \in RequestLists : \E i \in DOMAIN sent : sent[i].role = "user"

\* sqlite.py:307-333: the rows are the messages in the order in which each was said first,
\* each once: a reload forgets repetitions and nothing else.
NothingNewLost ==
  /\ ToSet(rows) = ToSet(messages)
  /\ \A i, j \in DOMAIN rows : i < j =>
       \E a \in DOMAIN messages : messages[a] = rows[i] /\ \A b \in 1 .. a : messages[b] # rows[j]

\* session.py:905-909: a sentence that is repeated in a later turn is in the history,
\* so that the history and what was executed agree.
RepeatedTurnStored == drive = "off" => rows = messages
=============================================================================
