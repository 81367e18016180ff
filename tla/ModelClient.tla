----------------------------- MODULE ModelClient -----------------------------
(***************************************************************************)
(* The client of OpenAI-compatible models (model/deepseek.py).  One model  *)
(* object serves the chats of all sessions, and the planner, which asks    *)
(* without tools.  Tool names with a dot are rewritten for the provider    *)
(* and back; the calls of a streamed answer come in fragments, by index.   *)
(***************************************************************************)
EXTENDS Integers, Sequences, FiniteSets

CONSTANTS Chats,    \* threads that call the model
          Tools,    \* names the framework knows
          Dotted,   \* those with a dot
          MaxCalls, \* of an answer (bound)
          Parts     \* fragments of a call's arguments (bound)

VARIABLES
  at,       \* of a chat: "idle", "sent", "done", "failed"
  unmap,    \* _name_unmap of the object: the offered tools it rewrites back
  meant,    \* the calls the provider answers with, in order of their index
  sent,     \* fragments of each that it has sent
  acc,      \* tool_acc: what has arrived of them
  reply     \* the calls of the response

modelVars == <<at, unmap, meant, sent, acc, reply>>

Api(t) == IF t \in Dotted THEN <<t, "_">> ELSE <<t>>
Unmapped(name) == IF name[1] \in unmap THEN <<name[1]>> ELSE name
Nothing == [name |-> <<>>, args |-> <<>>]
All == [k \in 1 .. Parts |-> k]

Init ==
  /\ at = [c \in Chats |-> "idle"] /\ unmap = {}
  /\ meant = [c \in Chats |-> <<>>] /\ sent = [c \in Chats |-> <<>>]
  /\ acc = [c \in Chats |-> <<>>] /\ reply = [c \in Chats |-> <<>>]

-----------------------------------------------------------------------------
\* _build_kwargs, and what the provider makes of it.
Send(c, tools) ==
  /\ at[c] # "sent" /\ at' = [at EXCEPT ![c] = "sent"]
  /\ unmap' = tools
  /\ \E n \in 0 .. MaxCalls : \E calls \in [1 .. n -> tools] :
       /\ meant' = [meant EXCEPT ![c] = calls]
       /\ sent' = [sent EXCEPT ![c] = [i \in 1 .. n |-> 0]]
       /\ acc' = [acc EXCEPT ![c] = [i \in 1 .. n |-> Nothing]]
  /\ reply' = [reply EXCEPT ![c] = <<>>]

\* Fault variant: a fragment replaces those before.
ArrivedAlone(e, t, k) == [name |-> Api(t), args |-> <<k>>]

\* The k-th fragment of a call: its name comes with the first, its arguments with all.
Arrived(e, t, k) == [name |-> Api(t), args |-> Append(e.args, k)]

\* Indices come in any order.
Fragment(c, i) ==
  /\ at[c] = "sent" /\ i \in DOMAIN meant[c] /\ sent[c][i] < Parts
  /\ sent' = [sent EXCEPT ![c][i] = @ + 1]
  /\ acc' = [acc EXCEPT ![c][i] = Arrived(@, meant[c][i], sent[c][i] + 1)]
  /\ UNCHANGED <<at, unmap, meant, reply>>

\* The end of the stream, or the one answer of a chat that is not streamed.
Respond(c, calls) ==
  /\ at' = [at EXCEPT ![c] = "done"]
  /\ reply' = [reply EXCEPT ![c] = [i \in DOMAIN calls |-> [calls[i] EXCEPT !.name = Unmapped(@)]]]
  /\ UNCHANGED <<unmap, meant, sent, acc>>

StreamEnds(c) ==
  /\ at[c] = "sent" /\ \A i \in DOMAIN meant[c] : sent[c][i] = Parts
  /\ Respond(c, acc[c])

AnswerAtOnce(c) ==
  /\ at[c] = "sent" /\ \A i \in DOMAIN meant[c] : sent[c][i] = 0
  /\ Respond(c, [i \in DOMAIN meant[c] |-> [name |-> Api(meant[c][i]), args |-> All]])

\* Whatever the client raises becomes a ModelCallError.
CallFails(c) ==
  /\ at[c] = "sent" /\ at' = [at EXCEPT ![c] = "failed"]
  /\ UNCHANGED <<unmap, meant, sent, acc, reply>>

Next ==
  \E c \in Chats :
    \/ \E tools \in SUBSET Tools : Send(c, tools)
    \/ \E i \in 1 .. MaxCalls : Fragment(c, i)
    \/ StreamEnds(c) \/ AnswerAtOnce(c) \/ CallFails(c)

Spec == Init /\ [][Next]_modelVars

-----------------------------------------------------------------------------
\* deepseek.py:231-281, 284-345: however fragments of several calls and chats mix, a
\* response has the calls of its own answer, in order, each with all its arguments,
\* under the tool's name or the one the provider knows it by.
CallsAssembled ==
  \A c \in Chats : at[c] = "done" =>
    /\ DOMAIN reply[c] = DOMAIN meant[c]
    /\ \A i \in DOMAIN meant[c] : reply[c][i].args = All /\ reply[c][i].name[1] = meant[c][i]

\* deepseek.py:407, "the map of the latest call, valid within one chat": a call comes
\* back under the name it was offered by.
NamesOwn ==
  \A c \in Chats : at[c] = "done" => \A i \in DOMAIN reply[c] : reply[c][i].name = <<meant[c][i]>>
=============================================================================
