----------------------------- MODULE SerialLink -----------------------------
(***************************************************************************)
(* The robot's serial line.  The adapter (serial_adapter.py): a poll       *)
(* carries a sequence number of eight bits, the device answers with the    *)
(* same number, an answer that does not come in time is asked for again.   *)
(* Answers may be lost, damaged or late.  The n-th poll has the number     *)
(* n % SeqSpace.                                                           *)
(*                                                                         *)
(* The frames (protocol.py), and the parser that finds them in a stream of *)
(* bytes: noise, damaged frames, frames in pieces, headers that are only   *)
(* data.  A byte is a small integer; the header is the two start bytes and *)
(* the length, which with the payload is the body the check byte is        *)
(* computed from.                                                          *)
(***************************************************************************)
EXTENDS Integers, Sequences, FiniteSets, SequencesExt, FiniteSetsExt

CONSTANTS Readers,     \* threads that call read_state of one adapter
          SeqSpace,    \* 256
          MaxRetries,  \* max_retries
          MaxFaults,   \* answers lost, damaged or late (bound)
          MaxPolls,    \* polls (bound)
          Bytes,       \* 0 .. n, two of which start a frame
          Sof1, Sof2,
          MaxPayload,
          MaxChunk,    \* bytes a read returns, at most (bound)
          MaxBytes     \* bytes on the line (bound)

VARIABLES
  asked,    \* polls written, whose last number is _seq
  up,       \* polls the device has still to answer
  down,     \* answers that wait in the transport
  reading,  \* who is in read_state
  mine,     \* the poll a reader waits for, 0 if it has to write one
  left,     \* attempts left to it
  got,      \* the poll that the last state it returned had answered, 0 if it raised
  missed,   \* answers to it that were lost or late in this call
  faults,
  received,  \* the bytes received by the parser
  consumed,  \* how many of them are no longer in _buf
  frames,    \* the places where the frames that were handed out begin
  scanning   \* is feed at work?

line   == <<asked, up, down>>
reader == <<reading, mine, left, got, missed>>
vars   == <<line, reader, faults>>
parserVars == <<received, consumed, frames, scanning>>

Init ==
  /\ asked = 0 /\ up = <<>> /\ down = <<>> /\ reading = {} /\ faults = 0
  /\ mine = [r \in Readers |-> 0] /\ left = [r \in Readers |-> 0]
  /\ got = [r \in Readers |-> 0] /\ missed = [r \in Readers |-> 0]

Fault == faults < MaxFaults /\ faults' = faults + 1

\* Fault variant: an answer is an answer.
SameSeqAny(n, m) == TRUE

SameSeq(n, m) == n % SeqSpace = m % SeqSpace

UnderWay == {up[i] : i \in DOMAIN up} \cup {down[i] : i \in DOMAIN down}
Awaited == {mine[r] : r \in Readers} \ {0}

-----------------------------------------------------------------------------
Begin(r) ==
  /\ r \notin reading /\ reading' = reading \cup {r}
  /\ left' = [left EXCEPT ![r] = MaxRetries + 1] /\ got' = [got EXCEPT ![r] = 0]
  /\ missed' = [missed EXCEPT ![r] = 0]
  /\ UNCHANGED <<line, mine, faults>>

\* connect: what the transport still held is dropped before the first poll.
Connect(r) ==
  /\ reading = {} /\ down # <<>> /\ down' = <<>> /\ reading' = {r}
  /\ left' = [left EXCEPT ![r] = MaxRetries + 1] /\ got' = [got EXCEPT ![r] = 0]
  /\ missed' = [missed EXCEPT ![r] = 0]
  /\ UNCHANGED <<asked, up, mine, faults>>

\* One attempt.  Assumed: no answer is on its way, and no attempt waits, for as long as all
\* numbers last.
Poll(r) ==
  /\ r \in reading /\ mine[r] = 0 /\ left[r] > 0
  /\ asked < MaxPolls /\ \A n \in UnderWay \cup Awaited : asked + 1 - n < SeqSpace
  /\ asked' = asked + 1 /\ up' = Append(up, asked + 1)
  /\ mine' = [mine EXCEPT ![r] = asked + 1] /\ left' = [left EXCEPT ![r] = @ - 1]
  /\ UNCHANGED <<down, reading, got, missed, faults>>

Leave(r, n) ==
  /\ reading' = reading \ {r} /\ got' = [got EXCEPT ![r] = n]
  /\ mine' = [mine EXCEPT ![r] = 0] /\ left' = [left EXCEPT ![r] = 0]
  /\ UNCHANGED missed

\* What one read returns: the first answer with the right number ends read_state; the
\* frames before and behind it are gone.
Chunk(r) ==
  /\ r \in reading /\ mine[r] # 0
  /\ \E n \in 1 .. Len(down) :
       /\ down' = SubSeq(down, n + 1, Len(down))
       /\ \/ /\ \A i \in 1 .. n : ~SameSeq(down[i], mine[r])
             /\ UNCHANGED reader
          \/ \E i \in 1 .. n :
               /\ SameSeq(down[i], mine[r]) /\ \A j \in 1 .. i - 1 : ~SameSeq(down[j], mine[r])
               /\ Leave(r, down[i])
  /\ UNCHANGED <<asked, up, faults>>

\* The deadline of an attempt; if the answer is still to come, it is late.
TimeOut(r) ==
  /\ r \in reading /\ mine[r] # 0
  /\ mine' = [mine EXCEPT ![r] = 0] /\ UNCHANGED <<line, reading, left, got>>
  /\ IF mine[r] \in UnderWay THEN Fault /\ missed' = [missed EXCEPT ![r] = @ + 1]
     ELSE UNCHANGED <<missed, faults>>

\* After the last attempt an OSError.
GiveUp(r) ==
  /\ r \in reading /\ mine[r] = 0 /\ left[r] = 0
  /\ Leave(r, 0) /\ UNCHANGED <<line, faults>>

\* The device, and the line.
Answer ==
  /\ up # <<>> /\ up' = Tail(up) /\ down' = Append(down, Head(up))
  /\ UNCHANGED <<asked, reader, faults>>

Lose ==
  /\ up # <<>> /\ up' = Tail(up) /\ Fault
  /\ missed' = [r \in Readers |-> missed[r] + (IF mine[r] = Head(up) THEN 1 ELSE 0)]
  /\ UNCHANGED <<asked, down, reading, mine, left, got>>

ReadOn(r) == Poll(r) \/ Chunk(r) \/ TimeOut(r) \/ GiveUp(r)

Next ==
  \/ \E r \in Readers : Begin(r) \/ Connect(r) \/ ReadOn(r)
  \/ Answer \/ Lose

Spec == Init /\ [][Next]_vars

-----------------------------------------------------------------------------
\* serial_adapter.py:285-310: a state that is returned answers the poll of this very
\* attempt; a late answer to an earlier one is never taken for it.
FreshState ==
  [][\A r \in Readers : got'[r] \notin {0, got[r]} => got'[r] = mine[r]]_vars

\* serial_adapter.py:282-316: a reading is given up, and the robot stopped, only if the
\* answers to all its attempts were really lost or late.
NoFalseAlarm ==
  [][\A r \in reading \ reading' : got'[r] = 0 => missed[r] > MaxRetries]_vars

-----------------------------------------------------------------------------
(* The parser.  Its steps are Parse, after InitParser; the link shares no state with it. *)

Header == 3
Trailer == 1

\* crc16_ccitt, as weak as one byte makes it.
Crc(body) == FoldLeft(LAMBDA x, y : x + y, 0, body) % Cardinality(Bytes)

InitParser == received = <<>> /\ consumed = 0 /\ frames = {} /\ scanning = FALSE

-----------------------------------------------------------------------------
Left == Len(received) - consumed

Length(p) == received[p + 2]
Total(p) == Header + Length(p) + Trailer
Starts(p) == p < Len(received) /\ received[p] = Sof1 /\ received[p + 1] = Sof2

\* The frame that begins at p is here and undamaged.
Intact(p) ==
  /\ Starts(p) /\ p + 2 =< Len(received) /\ Length(p) =< MaxPayload
  /\ p + Total(p) - 1 =< Len(received)
  /\ received[p + Total(p) - 1] = Crc(SubSeq(received, p + 2, p + 2 + Length(p)))

Wait(n) == consumed' = n /\ scanning' = FALSE /\ UNCHANGED <<received, frames>>
Drop(n) == consumed' = consumed + n /\ UNCHANGED <<received, frames, scanning>>

\* feed, with what the transport had.
Feed ==
  /\ ~scanning /\ scanning' = TRUE /\ UNCHANGED <<consumed, frames>>
  /\ \E n \in 1 .. MaxChunk : \E chunk \in [1 .. n -> Bytes] :
       Len(received) + n =< MaxBytes /\ received' = received \o chunk

\* No start of a frame: the last byte may be half of one.
NoStart ==
  /\ scanning /\ ~\E p \in consumed + 1 .. Len(received) : Starts(p)
  /\ Wait(IF Left > 1 THEN Len(received) - 1 ELSE consumed)

\* Garbage before the start.
Garbage ==
  /\ scanning
  /\ \E p \in consumed + 2 .. Len(received) :
       /\ Starts(p) /\ \A q \in consumed + 1 .. p - 1 : ~Starts(q)
       /\ Drop(p - consumed - 1)

AtStart == scanning /\ Starts(consumed + 1)
Known == AtStart /\ Left >= Header

\* Half a frame.
Half ==
  /\ \/ AtStart /\ Left < Header
     \/ Known /\ Length(consumed + 1) =< MaxPayload /\ Left < Total(consumed + 1)
  /\ Wait(consumed)

\* An impossible length: the header is false, and the search goes on in it.
BadLength == Known /\ Length(consumed + 1) > MaxPayload /\ Drop(1)

Whole == Known /\ Length(consumed + 1) =< MaxPayload /\ Left >= Total(consumed + 1)

\* Fault variant: the whole damaged frame is dropped.
BadCrcAll == Whole /\ ~Intact(consumed + 1) /\ Drop(Total(consumed + 1))

BadCrc == Whole /\ ~Intact(consumed + 1) /\ Drop(1)

Hand ==
  /\ Whole /\ Intact(consumed + 1)
  /\ frames' = frames \cup {consumed + 1} /\ consumed' = consumed + Total(consumed + 1)
  /\ UNCHANGED <<received, scanning>>

Scan == NoStart \/ Garbage \/ Half \/ BadLength \/ BadCrc \/ Hand

Parse == Feed \/ Scan

-----------------------------------------------------------------------------
Covered(p) == \E f \in frames : f < p /\ p < f + Total(f)

\* protocol.py:76-110: however the line was cut into reads and whatever noise there
\* was, the frames handed out are the intact ones from left to right, without those
\* inside a frame already handed out; one is held back only behind an unfinished start.
FramesFound ==
  ~scanning =>
    \A p \in 1 .. Len(received) :
      /\ p \in frames <=> Intact(p) /\ ~Covered(p) /\ p =< consumed
      /\ Intact(p) /\ ~Covered(p) /\ p > consumed => Starts(consumed + 1) /\ p > consumed + 1

\* protocol.py:97: what is held back is shorter than the longest frame.
HeldBack == ~scanning => Left < Header + MaxPayload + Trailer
=============================================================================
