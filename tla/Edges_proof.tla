---------------------------- MODULE Edges_proof ----------------------------
(***************************************************************************)
(* Where the program meets the world, for any number of loops, agents,     *)
(* readers, servers, users and rooms, any bytes and any limits.  The       *)
(* robot's stop is binding: no torque passes the gate once the latch has   *)
(* fallen.  What is read is what it stands for: the frames in the bytes,   *)
(* the answers on the line, the environment of a server that is up.  And   *)
(* the page tells what it was told: the lines of a stream, the newest      *)
(* load, what is selected.                                                 *)
(***************************************************************************)
EXTENDS MCEdges, Integers, Sequences, TLAPS

-----------------------------------------------------------------------------
\* The stop of the robot.

\* What the argument needs of the types.
Ticks == /\ tick \in [Loops -> {"off", "rest", "gate", "aim", "slack", "send", "dead"}]
         /\ cmd \in [Loops -> Reflex!Torques]

\* No loop runs at the start.
LEMMA LatchInit == Reflex!Init => Ticks /\ Reflex!StopBinds
BY DEF Reflex!Init, Ticks, Reflex!StopBinds, Reflex!Torques

\* Each place where a loop may be leads to another.
LEMMA TicksStep == Ticks /\ [Reflex!Next]_(Reflex!vars) => Ticks'
<1> SUFFICES ASSUME Ticks, [Reflex!Next]_(Reflex!vars) PROVE Ticks'
  OBVIOUS
<1> USE DEF Ticks, Reflex!Torques, Reflex!Goto, Reflex!Rested, Reflex!step
<1>1. ASSUME NEW a \in Agents, Reflex!Move(a) \/ Reflex!Assign(a) \/ Reflex!Hold(a)
                            \/ Reflex!Estop(a) \/ Reflex!Reset(a)
      PROVE  Ticks'
  BY <1>1 DEF Reflex!Move, Reflex!Assign, Reflex!Hold, Reflex!Estop, Reflex!Reset
<1>2. ASSUME NEW l \in Loops, Reflex!Tick(l) PROVE Ticks'
  <2>1. CASE Reflex!Look(l) \/ Reflex!LookFails(l)
    BY <2>1 DEF Reflex!Look, Reflex!LookFails
  <2>2. CASE Reflex!Halt(l) \/ Reflex!Pass(l)
    BY <2>2 DEF Reflex!Halt, Reflex!Pass
  <2>3. CASE Reflex!Aim(l)
    BY <2>3 DEF Reflex!Aim, Reflex!Ready, Reflex!Toward
  <2>4. CASE Reflex!Slack(l)
    BY <2>4 DEF Reflex!Slack, Reflex!Ready
  <2>5. CASE Reflex!Send(l) \/ Reflex!SendFails(l)
    BY <2>5 DEF Reflex!Send, Reflex!SendFails
  <2>6. CASE Reflex!Quit(l) \/ Reflex!Collapse(l)
    BY <2>6 DEF Reflex!Quit, Reflex!Collapse
  <2> QED
    BY <1>2, <2>1, <2>2, <2>3, <2>4, <2>5, <2>6 DEF Reflex!Tick
<1>3. ASSUME NEW l \in Loops, Reflex!StartLoop(l) \/ Reflex!StartBeside(l) PROVE Ticks'
  BY <1>3 DEF Reflex!StartLoop, Reflex!StartBeside
<1>4. CASE Reflex!StopLoop \/ Reflex!Drift
  BY <1>4 DEF Reflex!StopLoop, Reflex!Drift
<1>5. CASE UNCHANGED Reflex!vars
  BY <1>5 DEF Reflex!vars
<1> QED
  BY <1>1, <1>2, <1>3, <1>4, <1>5 DEF Reflex!Next

\* A step that leaves the latch alone and loads no loop keeps the property.
LEMMA NoneLoads ==
  ASSUME Reflex!StopBinds, NEW L,
         stop' = stop, flight' = flight \ L, Reflex!Loaded' \subseteq Reflex!Loaded \ L
  PROVE  Reflex!StopBinds'
BY DEF Reflex!StopBinds

\* The latch falls: what is loaded at that moment is in flight, but for the loops L
\* whose own failure makes it fall, which send nothing.
LEMMA LatchBinds ==
  ASSUME Reflex!StopBinds, NEW L, Reflex!Latch(L), Reflex!Loaded' \subseteq Reflex!Loaded \ L
  PROVE  Reflex!StopBinds'
BY DEF Reflex!StopBinds, Reflex!Latch

\* The gate: every step of every actor.
LEMMA StopBindsStep == Ticks /\ Reflex!StopBinds /\ [Reflex!Next]_(Reflex!vars) => Reflex!StopBinds'
<1> SUFFICES ASSUME Ticks, Reflex!StopBinds, [Reflex!Next]_(Reflex!vars) PROVE Reflex!StopBinds'
  OBVIOUS
<1> USE DEF Ticks, Reflex!Goto, Reflex!Rested, Reflex!supervisor, Reflex!step, Reflex!ghosts,
            Reflex!loop, Reflex!device
<1>0. CASE stop' = stop /\ flight' = flight /\ Reflex!Loaded' \subseteq Reflex!Loaded
  BY <1>0 DEF Reflex!StopBinds
<1>1. ASSUME NEW a \in Agents, Reflex!Move(a) \/ Reflex!Assign(a) \/ Reflex!Hold(a)
      PROVE  Reflex!StopBinds'
  BY <1>0, <1>1 DEF Reflex!Move, Reflex!Assign, Reflex!Hold, Reflex!Loaded
<1>2. ASSUME NEW a \in Agents, Reflex!Estop(a) PROVE Reflex!StopBinds'
  <2>1. Reflex!Latch({}) /\ Reflex!Loaded' = Reflex!Loaded
    BY <1>2 DEF Reflex!Estop, Reflex!Loaded
  <2> QED
    BY <2>1, LatchBinds
<1>3. ASSUME NEW a \in Agents, Reflex!Reset(a) PROVE Reflex!StopBinds'
  BY <1>3 DEF Reflex!Reset, Reflex!StopBinds
<1>4. ASSUME NEW l \in Loops, Reflex!Tick(l) PROVE Reflex!StopBinds'
  <2>1. CASE Reflex!Look(l)
    <3>1. Reflex!Loaded' \subseteq Reflex!Loaded
      BY <2>1 DEF Reflex!Look, Reflex!Loaded
    <3>2. CASE Reflex!Latch({})
      BY <3>1, <3>2, LatchBinds
    <3>3. CASE UNCHANGED <<stop, flight>>
      BY <1>0, <3>1, <3>3
    <3> QED
      BY <2>1, <3>2, <3>3 DEF Reflex!Look
  <2>2. CASE Reflex!LookFails(l) \/ Reflex!SendFails(l)
    <3>1. Reflex!Loaded' \subseteq Reflex!Loaded \ {l}
      BY <2>2 DEF Reflex!LookFails, Reflex!SendFails, Reflex!Loaded
    <3> QED
      BY <2>2, <3>1, LatchBinds DEF Reflex!LookFails, Reflex!SendFails
  <2>3. CASE Reflex!Halt(l) \/ Reflex!Pass(l) \/ Reflex!Quit(l) \/ Reflex!Collapse(l)
    BY <1>0, <2>3 DEF Reflex!Halt, Reflex!Pass, Reflex!Quit, Reflex!Collapse, Reflex!Loaded
  <2>4. CASE stop /\ (Reflex!Aim(l) \/ Reflex!Slack(l))
    BY <1>0, <2>4 DEF Reflex!Aim, Reflex!Slack, Reflex!Loaded
  <2>5. CASE ~stop /\ (Reflex!Aim(l) \/ Reflex!Slack(l))
    BY <2>5 DEF Reflex!Aim, Reflex!Slack, Reflex!StopBinds
  <2>6. CASE Reflex!Send(l)
    <3>1. Reflex!Loaded' \subseteq Reflex!Loaded \ {l}
      BY <2>6 DEF Reflex!Send, Reflex!Loaded
    <3> QED
      BY <2>6, <3>1, NoneLoads DEF Reflex!Send
  <2> QED
    BY <1>4, <2>1, <2>2, <2>3, <2>4, <2>5, <2>6 DEF Reflex!Tick
<1>5. ASSUME NEW l \in Loops, Reflex!StartLoop(l) \/ Reflex!StartBeside(l) PROVE Reflex!StopBinds'
  BY <1>0, <1>5 DEF Reflex!StartLoop, Reflex!StartBeside, Reflex!Loaded
<1>6. CASE Reflex!StopLoop \/ Reflex!Drift
  BY <1>0, <1>6 DEF Reflex!StopLoop, Reflex!Drift, Reflex!Loaded
<1>7. CASE UNCHANGED Reflex!vars
  BY <1>0, <1>7 DEF Reflex!vars, Reflex!Loaded
<1> QED
  BY <1>1, <1>2, <1>3, <1>4, <1>5, <1>6, <1>7 DEF Reflex!Next

\* A step of the other parts is none of the robot's.
LEMMA ReflexSteps == EdgesNext \/ UNCHANGED edgesVars => [Reflex!Next]_(Reflex!vars)
<1>1. UNCHANGED reflexVars => UNCHANGED Reflex!vars
  BY DEF reflexVars, Reflex!vars, Reflex!supervisor, Reflex!loop, Reflex!step, Reflex!device,
         Reflex!ghosts
<1>2. UNCHANGED edgesVars => UNCHANGED reflexVars
  BY DEF edgesVars
<1> QED
  BY <1>1, <1>2, Zenon DEF EdgesNext

\* Under a latched stop only a torque that had passed the last look at the latch may
\* still be sent (reflex.py:146-168, safety.py:117).
THEOREM StopIsBinding == EdgesSpec => []StopBinds
<1>1. EdgesInit => Ticks /\ Reflex!StopBinds
  BY LatchInit DEF EdgesInit
<1>2. Ticks /\ Reflex!StopBinds /\ [EdgesNext]_edgesVars => Ticks' /\ Reflex!StopBinds'
  BY ReflexSteps, TicksStep, StopBindsStep
<1> QED
  BY <1>1, <1>2, PTL DEF EdgesSpec, StopBinds

-----------------------------------------------------------------------------
\* The parser of the robot's line, for any bytes, headers and lengths, and however the bytes
\* were cut into reads.

\* No frame will ever be found at p, whatever is received.
Never(p) ==
  \/ p < Len(received) /\ ~Serial!Starts(p)
  \/ p + 2 =< Len(received) /\ Serial!Length(p) > MaxPayload
  \/ /\ p + 2 =< Len(received) /\ p + Serial!Total(p) - 1 =< Len(received)
     /\ ~Serial!Intact(p)

\* The frames handed out are whole and apart, what was passed over is in one of them or will
\* never begin one, and the parser rests only before an unfinished start.
FramesInv ==
  /\ \A f \in frames :
       Serial!Intact(f) /\ f + Serial!Total(f) - 1 =< consumed /\ ~Serial!Covered(f)
  /\ \A p \in 1 .. consumed : p \in frames \/ Serial!Covered(p) \/ Never(p)

Resting ==
  \/ Serial!Left =< 1 /\ \A p \in consumed + 1 .. Len(received) : ~Serial!Starts(p)
  \/ /\ Serial!Starts(consumed + 1)
     /\ \/ Serial!Left < 3
        \/ Serial!Length(consumed + 1) =< MaxPayload /\ Serial!Left < Serial!Total(consumed + 1)

ParserInv ==
  /\ received \in Seq(Bytes) /\ consumed \in 0 .. Len(received) /\ frames \subseteq 1 .. consumed
  /\ FramesInv /\ (~scanning => Resting)

\* The initial states of the line parser satisfy its invariant.
LEMMA ParserInit == Serial!InitParser => ParserInv
BY DEF Serial!InitParser, ParserInv, FramesInv, Resting, Serial!Left

\* A length is a number.
LEMMA Lengths ==
  ASSUME received \in Seq(Bytes), NEW p \in Nat \ {0}, p + 2 =< Len(received)
  PROVE  Serial!Length(p) \in Nat /\ Serial!Total(p) \in Nat
<1>1. p + 2 \in 1 .. Len(received)
  OBVIOUS
<1>2. received[p + 2] \in Bytes
  BY <1>1
<1>3. received[p + 2] \in Nat
  BY <1>2, LineAssumption DEF LineAssumption
<1> QED
  BY <1>3 DEF Serial!Length, Serial!Total, Serial!Header, Serial!Trailer

\* What stands in the bytes that are there does not change when more arrive.
LEMMA Grown ==
  ASSUME received \in Seq(Bytes), received' \in Seq(Bytes), Len(received) =< Len(received'),
         \A i \in 1 .. Len(received) : received'[i] = received[i], NEW p \in Nat \ {0}
  PROVE  /\ p < Len(received) => (Serial!Starts(p)' <=> Serial!Starts(p))
         /\ p + 2 =< Len(received) =>
              /\ Serial!Length(p) \in Nat
              /\ Serial!Length(p)' = Serial!Length(p) /\ Serial!Total(p)' = Serial!Total(p)
         /\ p + 2 =< Len(received) /\ p + Serial!Total(p) - 1 =< Len(received) =>
              (Serial!Intact(p)' <=> Serial!Intact(p))
<1>1. p < Len(received) => (Serial!Starts(p)' <=> Serial!Starts(p))
  BY DEF Serial!Starts
<1>2. ASSUME p + 2 =< Len(received)
      PROVE  /\ Serial!Length(p) \in Nat
             /\ Serial!Length(p)' = Serial!Length(p) /\ Serial!Total(p)' = Serial!Total(p)
  <2>1. p + 2 \in 1 .. Len(received) /\ p + 2 \in 1 .. Len(received')
    BY <1>2
  <2>2. received[p + 2] \in Bytes /\ received'[p + 2] = received[p + 2]
    BY <2>1
  <2>3. received[p + 2] \in Nat
    BY <2>2, LineAssumption DEF LineAssumption
  <2> QED
    BY <2>2, <2>3 DEF Serial!Length, Serial!Total, Serial!Header, Serial!Trailer
<1>3. ASSUME p + 2 =< Len(received), p + Serial!Total(p) - 1 =< Len(received)
      PROVE  Serial!Intact(p)' <=> Serial!Intact(p)
  <2> DEFINE l == Serial!Length(p)
  <2>1. l \in Nat /\ l' = l /\ Serial!Total(p)' = l + 4 /\ Serial!Total(p) = l + 4
    BY <1>2, <1>3 DEF Serial!Total, Serial!Header, Serial!Trailer
  <2>2. p + 2 + l =< Len(received)
    BY <1>3, <2>1
  <2> HIDE DEF l
  <2>3. SubSeq(received', p + 2, p + 2 + l) = SubSeq(received, p + 2, p + 2 + l)
    BY <2>1, <2>2
  <2>4. received'[p + (l + 4) - 1] = received[p + (l + 4) - 1]
    BY <1>3, <2>1
  <2>5. Serial!Starts(p)' <=> Serial!Starts(p)
    BY <1>1, <1>2, <1>3
  <2>6. Serial!Intact(p) <=>
          /\ Serial!Starts(p) /\ l =< MaxPayload
          /\ received[p + (l + 4) - 1] = Serial!Crc(SubSeq(received, p + 2, p + 2 + l))
    BY <1>3, <2>1 DEF Serial!Intact, l
  <2>7. Serial!Intact(p)' <=>
          /\ Serial!Starts(p)' /\ l =< MaxPayload
          /\ received'[p + (l + 4) - 1] = Serial!Crc(SubSeq(received', p + 2, p + 2 + l))
    BY <1>3, <2>1 DEF Serial!Intact, l
  <2> QED
    BY <2>3, <2>4, <2>5, <2>6, <2>7
<1> QED
  BY <1>1, <1>2, <1>3

\* So what was settled of the places behind `consumed` stays settled.
LEMMA FramesStay ==
  ASSUME ParserInv, received' \in Seq(Bytes), Len(received) =< Len(received'),
         \A i \in 1 .. Len(received) : received'[i] = received[i]
  PROVE  /\ \A f \in frames : /\ f \in Nat \ {0} /\ Serial!Total(f)' = Serial!Total(f)
                              /\ Serial!Total(f) \in Nat
                              /\ Serial!Intact(f)' <=> Serial!Intact(f)
         /\ \A p \in 1 .. Len(received) : Never(p) => Never(p)'
<1>0. Len(received) \in Nat /\ Len(received') \in Nat
  BY DEF ParserInv
<1>1. ASSUME NEW f \in frames
      PROVE  /\ f \in Nat \ {0} /\ Serial!Total(f)' = Serial!Total(f)
             /\ Serial!Total(f) \in Nat
             /\ Serial!Intact(f)' <=> Serial!Intact(f)
  <2>0. f \in Nat \ {0}
    <3>1. f \in 1 .. consumed
      BY <1>1 DEF ParserInv
    <3> QED
      BY <3>1
  <2>1. f + 2 =< Len(received) /\ f + Serial!Total(f) - 1 =< Len(received)
    BY <1>1, Zenon DEF ParserInv, FramesInv, Serial!Intact
  <2>2. Serial!Total(f) \in Nat
    BY <2>0, <2>1, Grown DEF ParserInv, Serial!Total, Serial!Header, Serial!Trailer
  <2> QED
    BY <2>0, <2>1, <2>2, Grown DEF ParserInv
<1>2. ASSUME NEW p \in 1 .. Len(received), Never(p) PROVE Never(p)'
  <2>1. p \in Nat \ {0}
    BY <1>0
  <2>2. CASE p < Len(received) /\ ~Serial!Starts(p)
    BY <1>0, <2>1, <2>2, Grown DEF ParserInv, Never
  <2>3. CASE p + 2 =< Len(received) /\ Serial!Length(p) > MaxPayload
    BY <1>0, <2>1, <2>3, Grown DEF ParserInv, Never
  <2>4. CASE /\ p + 2 =< Len(received) /\ p + Serial!Total(p) - 1 =< Len(received)
             /\ ~Serial!Intact(p)
    <3>1. /\ Serial!Total(p)' = Serial!Total(p) /\ ~Serial!Intact(p)'
          /\ Serial!Length(p) \in Nat
      BY <2>1, <2>4, Grown DEF ParserInv
    <3>2. Serial!Total(p) \in Nat
      BY <3>1 DEF Serial!Total, Serial!Header, Serial!Trailer
    <3> QED
      BY <1>0, <2>1, <2>4, <3>1, <3>2 DEF Never
  <2> QED
    BY <1>2, <2>2, <2>3, <2>4 DEF Never
<1> QED
  BY <1>1, <1>2

\* Passing over places that will never begin a frame.
LEMMA PassedOver ==
  ASSUME ParserInv, UNCHANGED <<received, frames>>,
         consumed' \in consumed .. Len(received),
         \A p \in consumed + 1 .. consumed' : Never(p)
  PROVE  /\ received' \in Seq(Bytes) /\ consumed' \in 0 .. Len(received')
         /\ frames' \subseteq 1 .. consumed' /\ FramesInv'
<1>0. Len(received) \in Nat /\ consumed \in Nat /\ consumed' \in Nat /\ consumed =< consumed'
  BY DEF ParserInv
<1>1. /\ \A f \in frames : /\ f \in Nat \ {0} /\ Serial!Total(f)' = Serial!Total(f)
                           /\ Serial!Total(f) \in Nat
                           /\ Serial!Intact(f)' <=> Serial!Intact(f)
      /\ \A p \in 1 .. Len(received) : Never(p) => Never(p)'
  BY <1>0, FramesStay DEF ParserInv
<1>2. \A p : Serial!Covered(p)' <=> Serial!Covered(p)
  BY <1>1 DEF Serial!Covered
<1>3. \A f \in frames' :
        Serial!Intact(f)' /\ f + Serial!Total(f)' - 1 =< consumed' /\ ~Serial!Covered(f)'
  BY <1>0, <1>1, <1>2 DEF ParserInv, FramesInv
<1>4. \A p \in 1 .. consumed' : p \in frames' \/ Serial!Covered(p)' \/ Never(p)'
  <2> SUFFICES ASSUME NEW p \in 1 .. consumed'
               PROVE  p \in frames' \/ Serial!Covered(p)' \/ Never(p)'
    OBVIOUS
  <2>1. p \in 1 .. Len(received)
    BY <1>0 DEF ParserInv
  <2>2. CASE p \in 1 .. consumed
    BY <1>1, <1>2, <2>1, <2>2 DEF ParserInv, FramesInv
  <2>3. CASE p \in consumed + 1 .. consumed'
    BY <1>1, <2>1, <2>3
  <2> QED
    BY <1>0, <2>2, <2>3
<1>5. FramesInv'
  BY <1>3, <1>4 DEF FramesInv
<1> QED
  BY <1>0, <1>5 DEF ParserInv

\* Bytes that arrive.
LEMMA Fed == ParserInv /\ Serial!Feed => ParserInv'
<1> SUFFICES ASSUME ParserInv, Serial!Feed PROVE ParserInv'
  OBVIOUS
<1>0. consumed' = consumed /\ frames' = frames /\ scanning' = TRUE
  BY DEF Serial!Feed
<1>1. /\ received' \in Seq(Bytes) /\ Len(received) \in Nat /\ Len(received) =< Len(received')
      /\ \A i \in 1 .. Len(received) : received'[i] = received[i]
  BY DEF ParserInv, Serial!Feed
<1>2. /\ \A f \in frames : /\ f \in Nat \ {0} /\ Serial!Total(f)' = Serial!Total(f)
                           /\ Serial!Total(f) \in Nat
                           /\ Serial!Intact(f)' <=> Serial!Intact(f)
      /\ \A p \in 1 .. Len(received) : Never(p) => Never(p)'
  BY <1>1, FramesStay
<1>3. \A p : Serial!Covered(p)' <=> Serial!Covered(p)
  BY <1>0, <1>2 DEF Serial!Covered
<1>4. 1 .. consumed \subseteq 1 .. Len(received)
  BY <1>1 DEF ParserInv
<1>5. FramesInv'
  BY <1>0, <1>2, <1>3, <1>4 DEF ParserInv, FramesInv
<1>6. consumed' \in 0 .. Len(received')
  BY <1>0, <1>1 DEF ParserInv
<1> QED
  BY <1>0, <1>1, <1>5, <1>6 DEF ParserInv

\* A frame is handed out.
LEMMA Handed == ParserInv /\ Serial!Hand => ParserInv'
<1> SUFFICES ASSUME ParserInv, Serial!Hand PROVE ParserInv'
  OBVIOUS
<1>c. PICK c \in Nat \ {0} : c = consumed + 1
  BY DEF ParserInv
<1>0. /\ received' = received /\ scanning' = scanning /\ scanning
      /\ frames' = frames \cup {c} /\ consumed' = consumed + Serial!Total(c)
      /\ Serial!Intact(c) /\ Serial!Left >= Serial!Total(c) /\ Serial!Left >= 3
  BY <1>c DEF Serial!Hand, Serial!Whole, Serial!Known, Serial!AtStart, Serial!Header
<1>1. /\ received \in Seq(Bytes) /\ Len(received) \in Nat /\ consumed \in Nat
      /\ consumed =< Len(received) /\ c = consumed + 1
  BY <1>c DEF ParserInv
<1>2. c + 2 =< Len(received)
  BY <1>0, <1>1 DEF Serial!Left
<1>3. /\ Serial!Total(c) \in Nat /\ Serial!Total(c) >= 4 /\ Serial!Total(c)' = Serial!Total(c)
      /\ Serial!Length(c) \in Nat
  BY <1>0, <1>1, <1>2, Grown DEF Serial!Total, Serial!Header, Serial!Trailer
<1>4. consumed' \in consumed + 1 .. Len(received) /\ c + Serial!Total(c) - 1 = consumed'
  BY <1>0, <1>1, <1>3 DEF Serial!Left
<1>5. Serial!Intact(c)'
  BY <1>0, <1>1, <1>2, <1>3, <1>4, Grown
<1>6. /\ \A f \in frames : /\ f \in Nat \ {0} /\ Serial!Total(f)' = Serial!Total(f)
                           /\ Serial!Total(f) \in Nat
                           /\ Serial!Intact(f)' <=> Serial!Intact(f)
      /\ \A p \in 1 .. Len(received) : Never(p) => Never(p)'
  BY <1>0, <1>1, FramesStay
<1>7. \A p : Serial!Covered(p)' <=> Serial!Covered(p) \/ (c < p /\ p < c + Serial!Total(c))
  BY <1>0, <1>3, <1>6 DEF Serial!Covered
<1>8. ASSUME NEW f \in frames
      PROVE  /\ Serial!Intact(f)' /\ f + Serial!Total(f)' - 1 =< consumed'
             /\ ~Serial!Covered(f)'
  <2>1. /\ f \in Nat \ {0} /\ f =< consumed /\ Serial!Total(f) \in Nat
        /\ f + Serial!Total(f) - 1 =< consumed /\ ~Serial!Covered(f) /\ Serial!Intact(f)
    BY <1>1, <1>6, <1>8 DEF ParserInv, FramesInv
  <2>2. ~(c < f)
    BY <1>1, <2>1
  <2>3. f + Serial!Total(f) - 1 =< consumed'
    BY <1>1, <1>4, <2>1
  <2> QED
    BY <1>6, <1>7, <1>8, <2>1, <2>2, <2>3
<1>9. ~Serial!Covered(c)'
  <2>1. ASSUME NEW f \in frames PROVE ~(f < c /\ c < f + Serial!Total(f))
    <3>1. /\ f \in Nat \ {0} /\ Serial!Total(f) \in Nat
          /\ f + Serial!Total(f) - 1 =< consumed
      BY <1>6, <2>1 DEF ParserInv, FramesInv
    <3> QED
      BY <1>1, <3>1
  <2>2. ~Serial!Covered(c)
    BY <2>1 DEF Serial!Covered
  <2> QED
    BY <1>1, <1>7, <2>2
<1>10. ASSUME NEW p \in 1 .. consumed' PROVE p \in frames' \/ Serial!Covered(p)' \/ Never(p)'
  <2>1. p \in 1 .. Len(received) /\ (p \in 1 .. consumed \/ p = c \/ (c < p /\ p =< consumed'))
    BY <1>1, <1>4, <1>10
  <2>2. CASE p \in 1 .. consumed
    BY <1>0, <1>6, <1>7, <2>1, <2>2 DEF ParserInv, FramesInv
  <2>3. CASE p = c
    BY <1>0, <2>3
  <2>4. CASE c < p /\ p =< consumed'
    <3>1. p < c + Serial!Total(c)
      BY <1>1, <1>3, <1>4, <2>1, <2>4
    <3> QED
      BY <1>7, <2>4, <3>1
  <2> QED
    BY <2>1, <2>2, <2>3, <2>4
<1>11. FramesInv'
  <2>1. c + Serial!Total(c)' - 1 =< consumed'
    BY <1>1, <1>3, <1>4
  <2> QED
    BY <1>0, <1>5, <1>8, <1>9, <1>10, <2>1 DEF FramesInv
<1>12. frames' \subseteq 1 .. consumed' /\ consumed' \in 0 .. Len(received')
  BY <1>0, <1>1, <1>4 DEF ParserInv
<1> QED
  BY <1>0, <1>1, <1>11, <1>12 DEF ParserInv

\* Each step of the parser keeps it.
LEMMA ParserStep == ParserInv /\ [Serial!Parse]_(Serial!parserVars) => ParserInv'
<1> SUFFICES ASSUME ParserInv, [Serial!Parse]_(Serial!parserVars) PROVE ParserInv'
  OBVIOUS
<1>0. /\ received \in Seq(Bytes) /\ Len(received) \in Nat /\ consumed \in Nat
      /\ consumed =< Len(received)
  BY DEF ParserInv
<1>1. CASE Serial!NoStart
  <2> DEFINE n == IF Serial!Left > 1 THEN Len(received) - 1 ELSE consumed
  <2>1. /\ consumed' = n /\ UNCHANGED <<received, frames>>
        /\ \A p \in consumed + 1 .. Len(received) : ~Serial!Starts(p)
    BY <1>1 DEF Serial!NoStart, Serial!Wait
  <2>2. /\ n \in consumed .. Len(received) /\ n \in Nat
        /\ n = consumed \/ n < Len(received)
        /\ Len(received) - n =< 1
    BY <1>0 DEF Serial!Left
  <2> HIDE DEF n
  <2>3. \A p \in consumed + 1 .. consumed' : Never(p)
    <3> SUFFICES ASSUME NEW p \in consumed + 1 .. n PROVE Never(p)
      BY <2>1
    <3>1. p < Len(received) /\ p \in consumed + 1 .. Len(received)
      BY <1>0, <2>2
    <3> QED
      BY <2>1, <3>1 DEF Never
  <2>4. \A p \in consumed' + 1 .. Len(received') : ~Serial!Starts(p)'
    <3> SUFFICES ASSUME NEW p \in n + 1 .. Len(received) PROVE ~Serial!Starts(p)'
      BY <2>1
    <3>1. p \in consumed + 1 .. Len(received)
      BY <1>0, <2>2
    <3> QED
      BY <2>1, <3>1 DEF Serial!Starts
  <2>5. Resting'
    BY <2>1, <2>2, <2>4 DEF Resting, Serial!Left
  <2> QED
    BY <2>1, <2>2, <2>3, <2>5, PassedOver DEF ParserInv
<1>2. CASE Serial!Garbage
  <2>1. PICK p \in consumed + 2 .. Len(received) :
           /\ \A q \in consumed + 1 .. p - 1 : ~Serial!Starts(q)
           /\ consumed' = consumed + (p - consumed - 1) /\ UNCHANGED <<received, frames, scanning>>
    BY <1>2 DEF Serial!Garbage, Serial!Drop
  <2>2. consumed' = p - 1 /\ consumed' \in consumed .. Len(received)
    BY <1>0, <2>1
  <2>3. \A q \in consumed + 1 .. consumed' : Never(q)
    BY <1>0, <2>1, <2>2 DEF Never
  <2>4. scanning'
    BY <1>2, <2>1 DEF Serial!Garbage
  <2> QED
    BY <2>1, <2>2, <2>3, <2>4, PassedOver DEF ParserInv
<1>3. CASE Serial!Half
  <2>1. consumed' = consumed /\ UNCHANGED <<received, frames>>
    BY <1>3 DEF Serial!Half, Serial!Wait
  <2>2. Resting
    BY <1>3 DEF Resting, Serial!Half, Serial!AtStart, Serial!Known, Serial!Header
  <2>3. Resting'
    BY <2>1, <2>2 DEF Resting, Serial!Left, Serial!Starts, Serial!Length, Serial!Total,
                      Serial!Header, Serial!Trailer
  <2>4. \A p \in consumed + 1 .. consumed' : Never(p)
    BY <1>0, <2>1
  <2> QED
    BY <1>0, <2>1, <2>3, <2>4, PassedOver DEF ParserInv
<1>4. CASE Serial!BadLength \/ Serial!BadCrc
  <2>1. /\ consumed' = consumed + 1 /\ UNCHANGED <<received, frames, scanning>> /\ scanning
        /\ Serial!Left >= 3
    BY <1>4 DEF Serial!BadLength, Serial!BadCrc, Serial!Drop, Serial!Whole, Serial!Known,
                Serial!AtStart, Serial!Header
  <2>2. consumed + 3 =< Len(received) /\ consumed' \in consumed .. Len(received)
    BY <1>0, <2>1 DEF Serial!Left
  <2>3. Never(consumed + 1)
    <3>1. CASE Serial!Length(consumed + 1) > MaxPayload
      BY <1>0, <2>2, <3>1 DEF Never
    <3>2. CASE Serial!BadCrc
      <4>1. Serial!Left >= Serial!Total(consumed + 1) /\ ~Serial!Intact(consumed + 1)
        BY <3>2 DEF Serial!BadCrc, Serial!Whole
      <4>2. Serial!Total(consumed + 1) \in Nat
        BY <1>0, <2>2, Lengths
      <4> QED
        BY <1>0, <2>2, <4>1, <4>2 DEF Never, Serial!Left
    <3> QED
      BY <1>4, <3>1, <3>2 DEF Serial!BadLength
  <2>4. \A p \in consumed + 1 .. consumed' : Never(p)
    <3>1. \A p \in consumed + 1 .. consumed' : p = consumed + 1
      BY <1>0, <2>1
    <3> QED
      BY <2>3, <3>1
  <2> QED
    BY <2>1, <2>2, <2>4, PassedOver DEF ParserInv
<1>5. CASE UNCHANGED Serial!parserVars
  <2>1. consumed' = consumed /\ UNCHANGED <<received, frames, scanning>>
    BY <1>5 DEF Serial!parserVars
  <2>2. Resting => Resting'
    BY <2>1 DEF Resting, Serial!Left, Serial!Starts, Serial!Length, Serial!Total,
                Serial!Header, Serial!Trailer
  <2>3. \A p \in consumed + 1 .. consumed' : Never(p)
    BY <1>0, <2>1
  <2> QED
    BY <1>0, <2>1, <2>2, <2>3, PassedOver DEF ParserInv
<1> QED
  BY <1>1, <1>2, <1>3, <1>4, <1>5, Fed, Handed DEF Serial!Parse, Serial!Scan

\* The parser finds what is there, and holds back less than a frame (protocol.py:76-110).
LEMMA Found == ParserInv => Serial!FramesFound /\ Serial!HeldBack
<1> SUFFICES ASSUME ParserInv, ~scanning PROVE Serial!FramesFound /\ Serial!HeldBack
  BY DEF Serial!FramesFound, Serial!HeldBack
<1>0. /\ received \in Seq(Bytes) /\ Len(received) \in Nat /\ consumed \in Nat
      /\ consumed =< Len(received) /\ Resting
  BY DEF ParserInv
<1>1. ASSUME NEW p \in 1 .. Len(received)
      PROVE  p \in frames <=> Serial!Intact(p) /\ ~Serial!Covered(p) /\ p =< consumed
  <2>1. p \in frames => Serial!Intact(p) /\ ~Serial!Covered(p) /\ p =< consumed
    BY <1>0 DEF ParserInv, FramesInv
  <2>2. Serial!Intact(p) => ~Never(p)
    <3> SUFFICES ASSUME Serial!Intact(p), Never(p) PROVE FALSE
      OBVIOUS
    <3>1. Serial!Starts(p) /\ Serial!Length(p) =< MaxPayload /\ p + 2 =< Len(received)
      BY DEF Serial!Intact
    <3>2. Serial!Length(p) \in Nat
      BY <1>0, <3>1, Lengths
    <3> QED
      BY <3>1, <3>2, LineAssumption DEF Never, LineAssumption
  <2>3. Serial!Intact(p) /\ ~Serial!Covered(p) /\ p =< consumed => p \in frames
    BY <1>0, <1>1, <2>2 DEF ParserInv, FramesInv
  <2> QED
    BY <2>1, <2>3
<1>2. ASSUME NEW p \in 1 .. Len(received), Serial!Intact(p), p > consumed
      PROVE  Serial!Starts(consumed + 1) /\ p > consumed + 1
  <2>1. Serial!Starts(p) /\ p \in consumed + 1 .. Len(received)
    BY <1>0, <1>2 DEF Serial!Intact
  <2>2. /\ Serial!Starts(consumed + 1)
        /\ \/ Serial!Left < 3
           \/ /\ Serial!Length(consumed + 1) =< MaxPayload
              /\ Serial!Left < Serial!Total(consumed + 1)
    BY <1>0, <2>1 DEF Resting
  <2>3. ASSUME p = consumed + 1 PROVE FALSE
    <3>1. p + 2 =< Len(received) /\ p + Serial!Total(p) - 1 =< Len(received)
      BY <1>2 DEF Serial!Intact
    <3>2. Serial!Total(p) \in Nat
      BY <1>0, <3>1, Lengths
    <3> QED
      BY <1>0, <2>2, <2>3, <3>1, <3>2 DEF Serial!Left
  <2> QED
    BY <1>0, <2>1, <2>2, <2>3
<1>3. Serial!FramesFound
  BY <1>1, <1>2 DEF Serial!FramesFound
<1>4. Serial!HeldBack
  <2>1. Serial!Left \in Nat
    BY <1>0 DEF Serial!Left
  <2>2. CASE Serial!Left < 3
    BY <2>1, <2>2, LineAssumption
       DEF LineAssumption, Serial!HeldBack, Serial!Header, Serial!Trailer
  <2>3. CASE /\ Serial!Left >= 3 /\ Serial!Length(consumed + 1) =< MaxPayload
             /\ Serial!Left < Serial!Total(consumed + 1)
    <3>1. consumed + 1 \in Nat \ {0} /\ consumed + 1 + 2 =< Len(received)
      BY <1>0, <2>3 DEF Serial!Left
    <3>2. Serial!Length(consumed + 1) \in Nat
      BY <1>0, <3>1, Lengths
    <3> QED
      BY <2>1, <2>3, <3>2, LineAssumption
         DEF LineAssumption, Serial!HeldBack, Serial!Total, Serial!Header, Serial!Trailer
  <2> QED
    BY <1>0, <2>1, <2>2, <2>3 DEF Resting
<1> QED
  BY <1>3, <1>4

-----------------------------------------------------------------------------
\* The polls of the robot's device, for any readers, retries and losses.

\* Division.
LEMMA Divided ==
  ASSUME NEW S \in Int, S > 0, NEW a \in Int
  PROVE  a = S * (a \div S) + (a % S)
BY Z3

\* Multiples of S are S apart.
LEMMA Apart ==
  ASSUME NEW S \in Nat \ {0}, NEW p \in Int, NEW q \in Int, p < q
  PROVE  S * q - S * p >= S
<1>1. S * (q - p - 1) >= 0
  OBVIOUS
<1>2. S * (q - p - 1) = S * q - S * p - S
  OBVIOUS
<1>3. S * q \in Int /\ S * p \in Int
  OBVIOUS
<1> QED
  BY <1>1, <1>2, <1>3

\* Numbers within one space of each other that are the same modulo it are the same.
LEMMA SameNumber ==
  ASSUME NEW S \in Nat \ {0}, NEW a \in Nat, NEW b \in Nat, a % S = b % S, a - b < S, b - a < S
  PROVE  a = b
<1>0. a \div S \in Int /\ b \div S \in Int
  OBVIOUS
<1>1. PICK p \in Int : p = a \div S
  BY <1>0, Zenon
<1>2. PICK q \in Int : q = b \div S
  BY <1>0, Zenon
<1>3. PICK m \in Int : m = S * p
  OBVIOUS
<1>4. PICK n \in Int : n = S * q
  OBVIOUS
<1>5. PICK r \in Int : r = a % S /\ r = b % S
  OBVIOUS
<1>6. a = m + r /\ b = n + r
  BY <1>1, <1>2, <1>3, <1>4, <1>5, Divided
<1>7. m - n < S /\ n - m < S
  BY <1>6
<1>8. ~(p < q) /\ ~(q < p)
  BY <1>3, <1>4, <1>7, Apart
<1> QED
  BY <1>3, <1>4, <1>6, <1>8

\* Everything on its way, and every poll that is waited for, is of the latest numbers.
LineInv ==
  /\ asked \in Nat /\ up \in Seq(Nat) /\ down \in Seq(Nat)
  /\ mine \in [Agents -> Nat] /\ got \in [Agents -> Nat]
  /\ \A n \in Serial!UnderWay : n =< asked /\ asked - n < SeqSpace
  /\ \A r \in Agents : mine[r] =< asked /\ (mine[r] # 0 => asked - mine[r] < SeqSpace)

\* The initial states of the serial line satisfy its invariant.
LEMMA LineInit == Serial!Init => LineInv
BY DEF Serial!Init, LineInv, Serial!UnderWay

\* An attempt is the only step that adds a number; the others take from the line or move on it.
LEMMA LineMoves ==
  ASSUME LineInv, Serial!Next
  PROVE  /\ up' \in Seq(Nat) /\ down' \in Seq(Nat)
         /\ \/ asked' = asked /\ Serial!UnderWay' \subseteq Serial!UnderWay
            \/ /\ \E r \in Agents : Serial!Poll(r)
               /\ Serial!UnderWay' \subseteq Serial!UnderWay \cup {asked'}
<1> USE DEF Serial!line, Serial!reader
<1>1. ASSUME NEW r \in Agents, Serial!Begin(r) \/ Serial!TimeOut(r) \/ Serial!GiveUp(r)
      PROVE  UNCHANGED <<asked, up, down>>
  BY <1>1 DEF Serial!Begin, Serial!TimeOut, Serial!GiveUp
<1>2. CASE UNCHANGED <<asked, up, down>>
  BY <1>2 DEF LineInv, Serial!UnderWay
<1>3. ASSUME NEW r \in Agents, Serial!Connect(r)
      PROVE  /\ up' = up /\ down' = <<>> /\ asked' = asked
  BY <1>3 DEF Serial!Connect
<1>4. CASE up' = up /\ down' = <<>> /\ asked' = asked
  BY <1>4 DEF LineInv, Serial!UnderWay
<1>5. ASSUME NEW r \in Agents, Serial!Poll(r)
      PROVE  /\ up' \in Seq(Nat) /\ down' \in Seq(Nat)
             /\ Serial!UnderWay' \subseteq Serial!UnderWay \cup {asked'}
  BY <1>5 DEF Serial!Poll, LineInv, Serial!UnderWay
<1>6. ASSUME NEW r \in Agents, Serial!Chunk(r)
      PROVE  /\ up' \in Seq(Nat) /\ down' \in Seq(Nat)
             /\ asked' = asked /\ Serial!UnderWay' \subseteq Serial!UnderWay
  <2>1. PICK n \in 1 .. Len(down) : down' = SubSeq(down, n + 1, Len(down))
    BY <1>6 DEF Serial!Chunk
  <2>2. asked' = asked /\ up' = up /\ down \in Seq(Nat) /\ Len(down) \in Nat
    BY <1>6 DEF Serial!Chunk, LineInv
  <2>3. /\ down' \in Seq(Nat)
        /\ \A i \in DOMAIN down' : n + i \in DOMAIN down /\ down'[i] = down[n + i]
    BY <2>1, <2>2
  <2> QED
    BY <2>2, <2>3 DEF LineInv, Serial!UnderWay
<1>7. ASSUME Serial!Answer
      PROVE  /\ up' \in Seq(Nat) /\ down' \in Seq(Nat)
             /\ asked' = asked /\ Serial!UnderWay' \subseteq Serial!UnderWay
  BY <1>7 DEF Serial!Answer, LineInv, Serial!UnderWay
<1>8. ASSUME Serial!Lose
      PROVE  /\ up' \in Seq(Nat) /\ down' \in Seq(Nat)
             /\ asked' = asked /\ Serial!UnderWay' \subseteq Serial!UnderWay
  BY <1>8 DEF Serial!Lose, LineInv, Serial!UnderWay
<1> QED
  BY <1>1, <1>2, <1>3, <1>4, <1>5, <1>6, <1>7, <1>8 DEF Serial!Next, Serial!ReadOn

\* The reader that takes an answer takes that to its own poll.
LEMMA TakesItsOwn ==
  ASSUME LineInv, NEW r \in Agents, Serial!Chunk(r)
  PROVE  \/ UNCHANGED <<mine, got>>
         \/ mine' = [mine EXCEPT ![r] = 0] /\ got' = [got EXCEPT ![r] = mine[r]]
<1> USE DEF Serial!line, Serial!reader
<1>1. CASE UNCHANGED Serial!reader
  BY <1>1
<1>2. ASSUME NEW i \in 1 .. Len(down), Serial!SameSeq(down[i], mine[r]), Serial!Leave(r, down[i])
      PROVE  down[i] = mine[r]
  <2>1. down[i] \in Nat /\ down[i] \in Serial!UnderWay /\ mine[r] \in Nat /\ mine[r] # 0
    BY <1>2 DEF LineInv, Serial!UnderWay, Serial!Chunk
  <2>2. /\ down[i] =< asked /\ asked - down[i] < SeqSpace
        /\ mine[r] =< asked /\ asked - mine[r] < SeqSpace
    BY <2>1 DEF LineInv
  <2>3. /\ SeqSpace \in Nat \ {0} /\ asked \in Nat
        /\ down[i] % SeqSpace = mine[r] % SeqSpace
    BY <1>2, LineAssumption DEF LineAssumption, LineInv, Serial!SameSeq
  <2>4. down[i] - mine[r] < SeqSpace /\ mine[r] - down[i] < SeqSpace
    BY <2>1, <2>2, <2>3
  <2> QED
    BY <2>1, <2>3, <2>4, SameNumber
<1>3. CASE \E i \in 1 .. Len(down) :
             Serial!SameSeq(down[i], mine[r]) /\ Serial!Leave(r, down[i])
  BY <1>2, <1>3 DEF Serial!Leave
<1>4. Len(down) \in Nat
  BY DEF LineInv
<1> QED
  BY <1>1, <1>3, <1>4 DEF Serial!Chunk

\* A state that is returned answers the poll of this attempt, and the line stays as it is.
LEMMA LineStep ==
  ASSUME LineInv, Serial!Next
  PROVE  /\ LineInv'
         /\ \A r \in Agents : got'[r] \notin {0, got[r]} => got'[r] = mine[r]
<1> USE DEF Serial!line, Serial!reader
<1> DEFINE Same == UNCHANGED <<mine, got>>
           Ends(q) == mine' = [mine EXCEPT ![q] = 0] /\ got' = got
           Takes(q, n) == /\ mine' \in {mine, [mine EXCEPT ![q] = 0]}
                          /\ got' = [got EXCEPT ![q] = n] /\ n \in {0, mine[q]}
           Asks(q) == /\ mine' = [mine EXCEPT ![q] = asked'] /\ got' = got /\ asked' = asked + 1
                      /\ \A n \in Serial!UnderWay \cup Serial!Awaited : asked + 1 - n < SeqSpace
<1>0. /\ asked \in Nat /\ mine \in [Agents -> Nat] /\ got \in [Agents -> Nat]
      /\ \A n \in Serial!UnderWay : n \in Nat
      /\ SeqSpace \in Nat \ {0}
  BY LineAssumption DEF LineInv, LineAssumption, Serial!UnderWay
<1>1. \/ Same
      \/ \E q \in Agents : Ends(q) \/ Asks(q) \/ \E n \in Nat : Takes(q, n)
  <2>1. ASSUME NEW q \in Agents, Serial!Begin(q) \/ Serial!Connect(q)
        PROVE  Takes(q, 0)
    BY <2>1 DEF Serial!Begin, Serial!Connect
  <2>2. ASSUME NEW q \in Agents, Serial!Poll(q) PROVE Asks(q)
    BY <2>2 DEF Serial!Poll
  <2>3. ASSUME NEW q \in Agents, Serial!Chunk(q) PROVE Same \/ Takes(q, mine[q])
    BY <2>3, TakesItsOwn
  <2>4. ASSUME NEW q \in Agents, Serial!TimeOut(q) PROVE Ends(q)
    BY <2>4 DEF Serial!TimeOut
  <2>5. ASSUME NEW q \in Agents, Serial!GiveUp(q) PROVE Takes(q, 0)
    BY <2>5 DEF Serial!GiveUp, Serial!Leave
  <2>6. CASE Serial!Answer \/ Serial!Lose
    BY <2>6 DEF Serial!Answer, Serial!Lose
  <2>7. \A q \in Agents : mine[q] \in Nat
    BY <1>0
  <2> HIDE DEF Same, Ends, Takes, Asks
  <2> QED
    BY <2>1, <2>2, <2>3, <2>4, <2>5, <2>6, <2>7 DEF Serial!Next, Serial!ReadOn
<1>2. /\ up' \in Seq(Nat) /\ down' \in Seq(Nat)
      /\ \/ asked' = asked /\ Serial!UnderWay' \subseteq Serial!UnderWay
         \/ /\ \E r \in Agents : Serial!Poll(r)
            /\ Serial!UnderWay' \subseteq Serial!UnderWay \cup {asked'}
  BY LineMoves
<1>3. ASSUME NEW q \in Agents, Serial!Poll(q) PROVE Asks(q)
  BY <1>3 DEF Serial!Poll
<1>4. /\ asked' \in Nat
      /\ \A n \in Serial!UnderWay' : n =< asked' /\ asked' - n < SeqSpace
  <2>1. CASE asked' = asked /\ Serial!UnderWay' \subseteq Serial!UnderWay
    BY <1>0, <2>1 DEF LineInv
  <2>2. ASSUME NEW q \in Agents, Asks(q), Serial!UnderWay' \subseteq Serial!UnderWay \cup {asked'}
        PROVE  /\ asked' \in Nat
               /\ \A n \in Serial!UnderWay' : n =< asked' /\ asked' - n < SeqSpace
    <3>1. asked' = asked + 1 /\ \A n \in Serial!UnderWay : n =< asked /\ asked + 1 - n < SeqSpace
      BY <2>2 DEF LineInv
    <3> SUFFICES ASSUME NEW n \in Serial!UnderWay' PROVE n =< asked' /\ asked' - n < SeqSpace
      BY <1>0, <3>1
    <3>2. CASE n = asked'
      BY <1>0, <3>1, <3>2
    <3>3. CASE n \in Serial!UnderWay
      BY <1>0, <3>1, <3>3
    <3> QED
      BY <2>2, <3>2, <3>3
  <2> QED
    BY <1>2, <1>3, <2>1, <2>2
<1>5. /\ mine' \in [Agents -> Nat] /\ got' \in [Agents -> Nat]
      /\ \A r \in Agents : got'[r] \notin {0, got[r]} => got'[r] = mine[r]
  BY <1>0, <1>1
<1>6. \A r \in Agents : mine'[r] =< asked' /\ (mine'[r] # 0 => asked' - mine'[r] < SeqSpace)
  <2> SUFFICES ASSUME NEW r \in Agents
               PROVE  mine'[r] =< asked' /\ (mine'[r] # 0 => asked' - mine'[r] < SeqSpace)
    OBVIOUS
  <2>1. /\ mine[r] \in Nat /\ mine[r] =< asked
        /\ mine[r] # 0 => asked - mine[r] < SeqSpace
    BY <1>0 DEF LineInv
  <2>2. CASE asked' = asked
    <3>1. mine'[r] \in {0, mine[r]}
      BY <1>0, <1>1, <2>2
    <3> QED
      BY <1>0, <2>1, <2>2, <3>1
  <2>3. ASSUME NEW q \in Agents, Asks(q)
        PROVE  mine'[r] =< asked' /\ (mine'[r] # 0 => asked' - mine'[r] < SeqSpace)
    <3>1. mine'[r] \in {mine[r], asked + 1} /\ asked' = asked + 1
      BY <1>0, <2>3
    <3>2. mine[r] # 0 => asked + 1 - mine[r] < SeqSpace
      BY <2>3 DEF Serial!Awaited
    <3> QED
      BY <1>0, <2>1, <3>1, <3>2
  <2> QED
    BY <1>2, <1>3, <2>2, <2>3
<1> QED
  BY <1>2, <1>4, <1>5, <1>6 DEF LineInv

-----------------------------------------------------------------------------
\* The starts of servers, for any servers, members and keys, and any edits of the environment.

Proxies == {"", "proxy", "0.0.0.0/0", "REPLACE_ME"}

\* The setting of the trusted proxies is one of those the start validates.
LEMMA ProxiesSpec ==
  /\ "WARDEN_TRUSTED_PROXIES" \in Start!Names
  /\ Start!ENV_SPECS["WARDEN_TRUSTED_PROXIES"] = Proxies
<1> DEFINE name == "WARDEN_TRUSTED_PROXIES"
<1>1. name \in DOMAIN Start!ServiceSpecs /\ Start!ServiceSpecs[name] = Proxies
  BY DEF Start!ServiceSpecs, Proxies
<1>2. /\ name \notin DOMAIN Start!AccessSpecs /\ name \notin DOMAIN Start!ModelSpecs
      /\ name \notin DOMAIN Start!AbilitySpecs /\ name \notin DOMAIN Start!SecretSpecs
      /\ name \notin DOMAIN Start!LocalSpecs
  BY DEF Start!AccessSpecs, Start!ModelSpecs, Start!AbilitySpecs, Start!SecretSpecs, Start!LocalSpecs
<1>3. {s \in Start!Sections : name \in DOMAIN s} = {Start!ServiceSpecs}
  BY <1>1, <1>2, Zenon DEF Start!Sections
<1>4. name \in Start!Names
  BY <1>1 DEF Start!Names, Start!Sections
<1>5. Start!ENV_SPECS[name] = UNION {s[name] : s \in {Start!ServiceSpecs}}
  BY <1>3, <1>4 DEF Start!ENV_SPECS
<1>6. UNION {s[name] : s \in {Start!ServiceSpecs}} = Proxies
  <2>1. PICK S : S = Start!ServiceSpecs
    OBVIOUS
  <2> QED
    BY <1>1, <2>1
<1> QED
  BY <1>4, <1>5, <1>6

\* A server that runs has found its configuration to be good.
Sound(e) == Start!main(e) /\ e["WARDEN_TRUSTED_PROXIES"] \in Proxies

\* A key that a user sends stays listed, unless the list is of no use.
StartInv ==
  /\ DOMAIN config = Start!Names /\ config["WARDEN_TRUSTED_PROXIES"] \in Proxies
  /\ DOMAIN running = Servers /\ DOMAIN holds = Members
  /\ \A s \in Start!Up : Sound(running[s])
  /\ \A u \in Members : holds[u] # None =>
       holds[u] \in ApiKeys /\ (Start!Listed(config, u, holds[u]) \/ ~Start!main(config))
  /\ Start!KeysRollOver

\* The initial states of the start satisfy its invariant.
LEMMA StartInit == Start!Init => StartInv
<1> SUFFICES ASSUME Start!Init PROVE StartInv
  OBVIOUS
<1>1. PICK settings : /\ config = Start!Environment(settings)
                      /\ "WARDEN_TRUSTED_PROXIES" \in DOMAIN settings =>
                           settings["WARDEN_TRUSTED_PROXIES"] = "proxy"
  BY DEF Start!Init, Start!Deployments
<1>2. DOMAIN config = Start!Names /\ config["WARDEN_TRUSTED_PROXIES"] \in Proxies
  BY <1>1, ProxiesSpec DEF Start!Environment, Proxies
<1> QED
  BY <1>2 DEF Start!Init, StartInv, Start!Up, Start!KeysRollOver

\* A key that is listed is accepted, if no user shares it with another (run_server.py:288-297).
LEMMA ListedAreAccepted ==
  ASSUME NEW e, Start!main(e), NEW u, NEW k \in ApiKeys, Start!Listed(e, u, k)
  PROVE  Start!Accepts(e, u, k)
<1>0. k # ""
  BY KeyAssumption DEF KeyAssumption
<1>1. CASE Start!Pairs(e) = {}
  BY <1>0, <1>1 DEF Start!Listed, Start!Accepts, Start!Callers
<1>2. CASE Start!Pairs(e) # {}
  <2>1. Start!Entry(u, k) \in Start!Pairs(e)
    BY <1>2 DEF Start!Listed
  <2>2. Start!Entry(u, k).key = k /\ Start!Entry(u, k).user = u
    BY DEF Start!Entry
  <2>3. ~Start!KeysBroken(e)
    BY DEF Start!main, Start!resolve_auth
  <2>4. PICK p \in Start!Pairs(e) : p = (CHOOSE q \in Start!Pairs(e) : q.key = k) /\ p.key = k
    BY <2>1, <2>2
  <2>5. p.user = u
    BY <2>1, <2>2, <2>3, <2>4 DEF Start!KeysBroken
  <2>6. k \in {q.key : q \in Start!Pairs(e)}
    BY <2>1, <2>2
  <2> QED
    BY <1>2, <2>4, <2>5, <2>6 DEF Start!Accepts, Start!Callers
<1> QED
  BY <1>1, <1>2

\* Every step of the start keeps its invariant.
LEMMA StartStep == StartInv /\ [Start!Next]_(Start!startVars) => StartInv'
<1> SUFFICES ASSUME StartInv, [Start!Next]_(Start!startVars) PROVE StartInv'
  OBVIOUS
<1> USE DEF StartInv
<1>1. CASE Start!Edit
  <2>1. /\ running' = running /\ holds' = holds
        /\ \A u \in Members : holds[u] # None =>
             Start!Listed(config', u, holds[u]) \/ ~Start!main(config')
    BY <1>1 DEF Start!Edit
  <2>2. PICK name \in Start!Names : \E value \in Start!ENV_SPECS[name] :
          config' = [config EXCEPT ![name] = value]
    BY <1>1 DEF Start!Edit
  <2>3. DOMAIN config' = Start!Names /\ config'["WARDEN_TRUSTED_PROXIES"] \in Proxies
    BY <2>2, ProxiesSpec
  <2>4. Start!Up' = Start!Up /\ Start!KeysRollOver'
    BY <2>1 DEF Start!Up, Start!KeysRollOver
  <2>5. \A u \in Members : holds'[u] # None =>
          holds'[u] \in ApiKeys
          /\ (Start!Listed(config', u, holds'[u]) \/ ~Start!main(config'))
    BY <2>1
  <2> QED
    BY <2>1, <2>3, <2>4, <2>5
<1>2. ASSUME NEW s \in Servers, Start!Start(s) PROVE StartInv'
  <2>1. /\ config' = config /\ holds' = holds /\ running' = [running EXCEPT ![s] = config]
        /\ Start!main(config)
    BY <1>2 DEF Start!Start
  <2>2. /\ DOMAIN running' = Servers
        /\ \A r \in Start!Up' :
             r \in Servers /\ (running'[r] = config \/ (r \in Start!Up /\ running'[r] = running[r]))
    BY <2>1 DEF Start!Up
  <2>3. Sound(config)
    BY <2>1 DEF Sound
  <2>4. \A r \in Start!Up' : Sound(running'[r])
    BY <2>2, <2>3
  <2>5. \A u \in Members : holds[u] # None => Start!Accepts(config, u, holds[u])
    BY <2>1, ListedAreAccepted
  <2>6. Start!KeysRollOver'
    BY <2>1, <2>2, <2>5 DEF Start!KeysRollOver
  <2> QED
    BY <2>1, <2>2, <2>4, <2>6
<1>3. ASSUME NEW s \in Servers, Start!Stop(s) PROVE StartInv'
  <2>1. /\ config' = config /\ holds' = holds /\ running' = [running EXCEPT ![s] = None]
    BY <1>3 DEF Start!Stop
  <2>2. /\ DOMAIN running' = Servers
        /\ \A r \in Start!Up' : r \in Start!Up /\ running'[r] = running[r]
    BY <2>1 DEF Start!Up
  <2>3. Start!KeysRollOver'
    BY <2>1, <2>2 DEF Start!KeysRollOver
  <2> QED
    BY <2>1, <2>2, <2>3
<1>4. ASSUME NEW v \in Members, NEW k \in ApiKeys, Start!Take(v, k) PROVE StartInv'
  <2>1. /\ config' = config /\ running' = running /\ holds' = [holds EXCEPT ![v] = k]
        /\ Start!Listed(config, v, k) /\ \A s \in Start!Up : Start!Accepts(running[s], v, k)
    BY <1>4 DEF Start!Take
  <2>2. Start!Up' = Start!Up
    BY <2>1 DEF Start!Up
  <2>3. \A u \in Members : holds'[u] = (IF u = v THEN k ELSE holds[u])
    BY <2>1
  <2>4. Start!KeysRollOver'
    BY <2>1, <2>2, <2>3 DEF Start!KeysRollOver
  <2> QED
    BY <2>1, <2>2, <2>3, <2>4
<1>5. CASE UNCHANGED Start!startVars
  BY <1>5 DEF Start!startVars, Start!Up, Start!KeysRollOver
<1> QED
  BY <1>1, <1>2, <1>3, <1>4, <1>5 DEF Start!Next

\* What a good configuration guards (run_server.py:8-30, 148-175, 320-426, 479-495).
LEMMA SoundIsGuarded ==
  ASSUME NEW e, Sound(e)
  PROVE  /\ ~Start!is_loopback_host(e) =>
              /\ DOMAIN Start!Callers(e) # {} /\ "" \notin DOMAIN Start!Callers(e)
              /\ Start!Model(e) = "fake" =>
                   {e.WARDEN_ALLOW_FAKE_MODEL, e.WARDEN_DEMO_INSTANCE} = {"1"}
         /\ \A claim : Start!Source(e, "stranger", claim) = "stranger"
         /\ \A tool \in DOMAIN Start!Effects : Start!Effects[tool] =>
              tool = "memory.remember" \/ Start!_build_policy(e, tool) = "ask"
         /\ Start!env_bool(e, "WARDEN_SHARED_STATE") => Start!Store(e) = "postgres"
<1>1. ASSUME ~Start!is_loopback_host(e)
      PROVE  DOMAIN Start!Callers(e) # {} /\ "" \notin DOMAIN Start!Callers(e)
  <2>1. DOMAIN Start!Callers(e) # {}
    BY <1>1 DEF Sound, Start!main, Start!ensure_listen_is_safe, Start!resolve_auth
  <2>2. DOMAIN Start!Callers(e) =
          IF Start!Pairs(e) # {} THEN {p.key : p \in Start!Pairs(e)} ELSE {e.WARDEN_API_KEY} \ {""}
    BY DEF Start!Callers
  <2>3. \A p \in Start!Pairs(e) : p.key # ""
    BY DEF Start!Pairs
  <2> QED
    BY <2>1, <2>2, <2>3
<1>2. ASSUME ~Start!is_loopback_host(e), Start!Model(e) = "fake"
      PROVE  {e.WARDEN_ALLOW_FAKE_MODEL, e.WARDEN_DEMO_INSTANCE} = {"1"}
  BY <1>2 DEF Sound, Start!main, Start!ensure_model_is_real, Start!env_bool
<1>3. \A claim : Start!Source(e, "stranger", claim) = "stranger"
  <2>1. ~Start!_format_problem("WARDEN_TRUSTED_PROXIES", e["WARDEN_TRUSTED_PROXIES"])
    BY ProxiesSpec DEF Sound, Start!main, Start!validate_env
  <2>2. e["WARDEN_TRUSTED_PROXIES"] \in {"", "proxy"}
    BY <2>1 DEF Sound, Proxies, Start!_format_problem, Start!Kind, Start!_proxies_problem
  <2> QED
    BY <2>2 DEF Start!Source
<1>4. ASSUME NEW tool \in DOMAIN Start!Effects, Start!Effects[tool]
      PROVE  tool = "memory.remember" \/ Start!_build_policy(e, tool) = "ask"
  BY <1>4 DEF Start!_build_policy, Start!_is_pure_tool
<1>5. ASSUME Start!env_bool(e, "WARDEN_SHARED_STATE") PROVE Start!Store(e) = "postgres"
  BY <1>5 DEF Sound, Start!main, Start!ensure_shared_state_matches_backend, Start!Store
<1> QED
  BY <1>1, <1>2, <1>3, <1>4, <1>5

\* What the invariant of the start says, in the words of the three properties.
LEMMA Guards ==
  StartInv => Start!KeysRollOver /\ Start!OutsideIsGuarded /\ Start!SharedIsShared
<1> SUFFICES ASSUME StartInv PROVE Start!OutsideIsGuarded /\ Start!SharedIsShared
  BY DEF StartInv
<1>1. ASSUME NEW s \in Start!Up PROVE Sound(running[s])
  BY <1>1 DEF StartInv
<1>2. Start!OutsideIsGuarded
  BY <1>1, SoundIsGuarded DEF Start!OutsideIsGuarded
<1>3. ASSUME NEW s \in Start!Up, Start!env_bool(running[s], "WARDEN_SHARED_STATE"),
             NEW p \in DOMAIN Start!Assembled(running[s])
      PROVE  Start!Assembled(running[s])[p] \in {"postgres", "none"}
  <2>1. Start!Store(running[s]) = "postgres"
    BY <1>1, <1>3, SoundIsGuarded
  <2> QED
    BY <1>3, <2>1
       DEF Start!Assembled, Start!coordination_for, Start!run_lock_for,
           Start!audit_store_for_backend, Start!MemoryRepository
<1>4. Start!SharedIsShared
  BY <1>3 DEF Start!SharedIsShared
<1> QED
  BY <1>2, <1>4

-----------------------------------------------------------------------------
\* What is read from outside.

\* A step of the other parts is none of the line's, of the parser's or of the servers'.
LEMMA ReadingSteps ==
  ASSUME EdgesNext \/ UNCHANGED edgesVars
  PROVE  /\ [Serial!Next]_(Serial!vars)
         /\ [Serial!Parse]_(Serial!parserVars)
         /\ [Start!Next]_(Start!startVars)
<1>1. UNCHANGED edgesVars => UNCHANGED serialVars /\ UNCHANGED framesVars /\ UNCHANGED startVars
  BY DEF edgesVars
<1>2. UNCHANGED serialVars => UNCHANGED Serial!vars
  BY DEF serialVars, Serial!vars, Serial!line, Serial!reader
<1>3. UNCHANGED framesVars => UNCHANGED Serial!parserVars
  BY DEF framesVars, Serial!parserVars
<1>4. UNCHANGED startVars => UNCHANGED Start!startVars
  BY DEF startVars, Start!startVars
<1> QED
  BY <1>1, <1>2, <1>3, <1>4, Zenon DEF EdgesNext

\* Answers are of this very attempt, the frames are the intact ones, and a server that is up
\* is guarded and knows the keys in use: the parser's rests, the line's window of numbers and
\* the servers' sound configurations, together (protocol.py:76-110, serial_adapter.py:285-310,
\* run_server.py:243-426).
THEOREM ReadingsAreTrue == EdgesSpec => ReadingsTrue
<1> DEFINE Inv == LineInv /\ ParserInv /\ StartInv
           Fresh == \A r \in Agents : got'[r] \notin {0, got[r]} => got'[r] = mine[r]
<1>1. EdgesInit => Inv
  BY LineInit, ParserInit, StartInit DEF EdgesInit
<1>2. ASSUME LineInv, [Serial!Next]_(Serial!vars) PROVE LineInv' /\ [Fresh]_(Serial!vars)
  <2>1. CASE Serial!Next
    BY <1>2, <2>1, LineStep
  <2>2. CASE UNCHANGED Serial!vars
    BY <1>2, <2>2 DEF LineInv, Serial!UnderWay, Serial!vars, Serial!line, Serial!reader
  <2> QED
    BY <1>2, <2>1, <2>2
<1>3. Inv /\ [EdgesNext]_edgesVars => Inv' /\ [Fresh]_(Serial!vars)
  BY <1>2, ReadingSteps, ParserStep, StartStep
<1>4. Inv => /\ Serial!FramesFound /\ Serial!HeldBack
             /\ part = "start" => /\ Start!KeysRollOver /\ Start!OutsideIsGuarded
                                  /\ Start!SharedIsShared
  BY Found, Guards
<1> HIDE DEF Inv, Fresh
<1>5. EdgesSpec => [][Fresh]_(Serial!vars)
  BY <1>1, <1>3, PTL DEF EdgesSpec
<1>6. EdgesSpec => [](/\ Serial!FramesFound /\ Serial!HeldBack
                      /\ part = "start" => /\ Start!KeysRollOver /\ Start!OutsideIsGuarded
                                           /\ Start!SharedIsShared)
  BY <1>1, <1>3, <1>4, PTL DEF EdgesSpec
<1> QED
  BY <1>5, <1>6, PTL DEF ReadingsTrue, Serial!FreshState, Fresh

-----------------------------------------------------------------------------
\* The panels beside the conversation.

\* A load under way for a panel.
PanelLoads == [key : Rooms, chain : Nat, got : Nat \cup {None}]

PollTypes ==
  /\ key \in Rooms /\ seq \in 1 .. MaxLoads /\ epoch \in 1 .. seq /\ truth \in Nat
  /\ load \in [1 .. MaxLoads -> PanelLoads \cup {None}]
  /\ \A n \in 1 .. MaxLoads : n > seq => load[n] = None

\* The newest load is of the key on the screen, and what it is answered is no older than what
\* is shown.
PollInv ==
  /\ PollTypes
  /\ Side!ShownIsOfKey /\ Side!PollGoesOn
  /\ ~rekeyed /\ load[seq] # None => load[seq].key = key
  /\ data # None => data[2] \in Nat /\ data[2] =< truth
  /\ \A n \in 1 .. MaxLoads : load[n] # None /\ load[n].got # None => load[n].got =< truth
  /\ data # None /\ load[seq] # None /\ load[seq].got # None => data[2] =< load[seq].got

\* The initial states of the polling panel satisfy its invariant.
LEMMA PollInit == Side!InitPoll => PollInv
<1> SUFFICES ASSUME Side!InitPoll PROVE PollInv
  OBVIOUS
<1> USE DEF Side!InitPoll, Side!Out
<1>1. key \in Rooms
  BY PageAssumption
<1>2. [key |-> key, chain |-> 1, got |-> None] \in PanelLoads
  BY <1>1 DEF PanelLoads
<1>3. PollTypes
  <2>1. PICK o \in PanelLoads : load = [n \in 1 .. MaxLoads |-> IF n = 1 THEN o ELSE None]
    BY <1>2
  <2>2. MaxLoads \in Nat \ {0}
    BY PageAssumption
  <2>3. seq = 1 /\ epoch = 1 /\ truth = 0 /\ rekeyed = FALSE /\ hidden = FALSE
    OBVIOUS
  <2>4. load \in [1 .. MaxLoads -> PanelLoads \cup {None}]
    BY <2>1
  <2>5. \A n \in 1 .. MaxLoads : n > seq => load[n] = None
    BY <2>1, <2>2, <2>3
  <2> QED
    BY <1>1, <2>2, <2>3, <2>4, <2>5 DEF PollTypes
<1>4. 1 \in Side!Flying /\ load[1].chain >= epoch
  BY <1>2, PageAssumption DEF Side!Flying, PanelLoads
<1> QED
  BY <1>3, <1>4, PageAssumption DEF PollInv, Side!ShownIsOfKey, Side!PollGoesOn

\* A load begins: it is the newest one, of the key on the screen.
LEMMA LoadBegins ==
  ASSUME PollInv, NEW chain, chain \in Nat \/ chain = None, Side!Loading(chain, key)
  PROVE  /\ seq' = seq + 1 /\ seq' \in 1 .. MaxLoads
         /\ load' \in [1 .. MaxLoads -> PanelLoads \cup {None}]
         /\ \A n \in 1 .. MaxLoads : n > seq' => load'[n] = None
         /\ load'[seq'] \in PanelLoads /\ load'[seq'] # None
         /\ load'[seq'].key = key /\ load'[seq'].got = None
         /\ load'[seq'].chain = IF chain = None THEN seq' ELSE chain
         /\ \A n \in 1 .. seq : load'[n] = load[n]
<1>1. PICK o : /\ o = [key |-> key, chain |-> IF chain = None THEN seq + 1 ELSE chain, got |-> None]
               /\ load' = [load EXCEPT ![seq + 1] = o]
               /\ seq' = seq + 1 /\ seq < MaxLoads
  BY DEF Side!Loading, Side!Out
<1>2. o \in PanelLoads /\ o # None
  BY <1>1, PageAssumption DEF PanelLoads, PollInv, PollTypes
<1>3. seq + 1 \in 1 .. MaxLoads /\ load \in [1 .. MaxLoads -> PanelLoads \cup {None}]
  BY <1>1, PageAssumption DEF PollInv, PollTypes
<1>4. load' \in [1 .. MaxLoads -> PanelLoads \cup {None}]
  BY <1>1, <1>2, <1>3
<1>5. load'[seq'] = o /\ \A n \in 1 .. MaxLoads : n # seq' => load'[n] = load[n]
  BY <1>1, <1>3
<1>6. \A n \in 1 .. MaxLoads : n > seq' => load'[n] = None
  BY <1>1, <1>3, <1>5, PageAssumption DEF PollInv, PollTypes
<1>7. \A n \in 1 .. seq : load'[n] = load[n]
  BY <1>1, <1>3, <1>5, PageAssumption DEF PollInv, PollTypes
<1> QED
  BY <1>1, <1>2, <1>3, <1>4, <1>5, <1>6, <1>7

\* What is asked of what is shown, when it stays and what it was of stays.
LEMMA PollStep == PollInv /\ [Side!Poll]_(Side!pollVars) => PollInv' /\ [Side!Grows]_(Side!pollVars)
<1> SUFFICES ASSUME PollInv, Side!Poll PROVE PollInv' /\ Side!Grows
  BY DEF PollInv, PollTypes, Side!pollVars, Side!ShownIsOfKey, Side!PollGoesOn, Side!Flying
<1> USE DEF PollInv, PollTypes
<1>1. CASE Side!Refresh
  <2>1. Side!Loading(0, key) /\ UNCHANGED <<key, rekeyed, data, timers, timer, epoch, hidden, truth>>
    BY <1>1 DEF Side!Refresh
  <2>2. PollTypes'
    BY <2>1, LoadBegins
  <2>3. Side!PollGoesOn'
    <3>1. \A n \in Side!Flying : n \in Side!Flying' /\ load'[n] = load[n]
      BY <2>1, LoadBegins DEF Side!Flying
    <3> QED
      BY <2>1, <3>1 DEF Side!PollGoesOn
  <2> QED
    BY <2>1, <2>2, <2>3, LoadBegins DEF Side!Grows, Side!ShownIsOfKey
<1>2. CASE Side!Hide
  BY <1>2 DEF Side!Hide, Side!Grows, Side!ShownIsOfKey, Side!PollGoesOn
<1>3. CASE Side!Show
  <2>1. /\ Side!Loading(None, key)
        /\ UNCHANGED <<key, rekeyed, data, timers, timer, epoch, truth>> /\ hidden' = FALSE
    BY <1>3 DEF Side!Show
  <2>2. PollTypes'
    BY <2>1, LoadBegins
  <2>3. seq' \in Side!Flying' /\ load'[seq'].chain >= epoch'
    BY <2>1, LoadBegins, PageAssumption DEF Side!Flying
  <2> QED
    BY <2>1, <2>2, <2>3, LoadBegins DEF Side!Grows, Side!ShownIsOfKey, Side!PollGoesOn
<1>4. CASE Side!Rekey
  BY <1>4 DEF Side!Rekey, Side!Grows, Side!ShownIsOfKey, Side!PollGoesOn
<1>5. CASE Side!Remount
  <2>1. /\ Side!Loading(None, key) /\ data' = None /\ epoch' = seq' /\ rekeyed' = FALSE
        /\ UNCHANGED <<key, hidden, truth>>
    BY <1>5 DEF Side!Remount
  <2>2. PollTypes'
    BY <2>1, LoadBegins
  <2>3. seq' \in Side!Flying' /\ load'[seq'].chain >= epoch'
    BY <2>1, LoadBegins, PageAssumption DEF Side!Flying
  <2> QED
    BY <2>1, <2>2, <2>3, LoadBegins DEF Side!Grows, Side!ShownIsOfKey, Side!PollGoesOn
<1>6. CASE Side!Change
  BY <1>6 DEF PanelLoads, Side!Change, Side!Grows, Side!ShownIsOfKey, Side!PollGoesOn, Side!Flying
<1>7. ASSUME NEW n \in 1 .. MaxLoads, Side!Serve(n) PROVE PollInv' /\ Side!Grows
  <2>1. PICK o : o = [load[n] EXCEPT !.got = truth] /\ load' = [load EXCEPT ![n] = o]
    BY <1>7 DEF Side!Serve
  <2>2. load[n] \in PanelLoads /\ load[n] # None /\ n =< seq
    BY <1>7 DEF Side!Serve, Side!Flying
  <2>3. o \in PanelLoads /\ o # None /\ o.key = load[n].key /\ o.chain = load[n].chain /\ o.got = truth
    BY <2>1, <2>2, PageAssumption DEF PanelLoads
  <2>4. UNCHANGED <<key, rekeyed, data, seq, timers, timer, epoch, hidden, truth>>
    BY <1>7 DEF Side!Serve
  <2>5. PollTypes'
    BY <2>1, <2>2, <2>3, <2>4
  <2>6. Side!PollGoesOn'
    <3>1. \A k \in Side!Flying : k \in Side!Flying' /\ load'[k].chain = load[k].chain
      BY <2>1, <2>3, <2>4 DEF Side!Flying
    <3> QED
      BY <2>4, <3>1 DEF Side!PollGoesOn
  <2> QED
    BY <2>1, <2>2, <2>3, <2>4, <2>5, <2>6 DEF Side!Grows, Side!ShownIsOfKey
<1>8. ASSUME NEW n \in 1 .. MaxLoads, Side!Arrive(n) PROVE PollInv' /\ Side!Grows
  <2>1. /\ load[n] \in PanelLoads /\ load[n] # None /\ n =< seq
        /\ load' = [load EXCEPT ![n] = None]
        /\ UNCHANGED <<key, rekeyed, seq, epoch, hidden, truth>>
    BY <1>8 DEF Side!Arrive, Side!Flying
  <2>2. data' = data \/ (n = seq /\ load[n].got # None /\ data' = <<load[n].key, load[n].got>>)
    BY <1>8 DEF Side!Arrive, Side!Accepted
  <2>3. PollTypes'
    BY <2>1
  <2>4. Side!PollGoesOn'
    <3>1. \A k \in Side!Flying \ {n} : k \in Side!Flying' /\ load'[k] = load[k]
      BY <2>1 DEF Side!Flying
    <3>2. timers \subseteq timers'
          /\ (load[n].chain >= epoch /\ ~hidden => load[n].chain \in timers')
      BY <1>8, <2>1 DEF Side!Arrive, PanelLoads
    <3> QED
      BY <2>1, <3>1, <3>2 DEF Side!PollGoesOn
  <2>5. load[n].got # None => load[n].got \in Nat
    BY <2>1 DEF PanelLoads
  <2>6. load[n].got # None => load[n].got =< truth
    BY <2>1
  <2> QED
    BY <2>1, <2>2, <2>3, <2>4, <2>5, <2>6 DEF Side!Grows, Side!ShownIsOfKey
<1>9. ASSUME NEW c \in 1 .. MaxLoads, Side!Fire(c) PROVE PollInv' /\ Side!Grows
  <2>1. c \in timers /\ timers' = timers \ {c}
        /\ UNCHANGED <<key, rekeyed, data, timer, epoch, hidden, truth>>
    BY <1>9 DEF Side!Fire
  <2>2. CASE c < epoch /\ UNCHANGED <<load, seq>>
    BY <2>1, <2>2 DEF Side!Grows, Side!ShownIsOfKey, Side!PollGoesOn, Side!Flying
  <2>3. CASE c >= epoch /\ Side!Loading(c, key)
    <3>1. PollTypes'
      BY <2>1, <2>3, LoadBegins
    <3>2. seq' \in Side!Flying' /\ load'[seq'].chain >= epoch'
      BY <2>1, <2>3, LoadBegins, PageAssumption DEF Side!Flying
    <3> QED
      BY <2>1, <2>3, <3>1, <3>2, LoadBegins DEF Side!Grows, Side!ShownIsOfKey, Side!PollGoesOn
  <2> QED
    BY <1>9, <2>2, <2>3 DEF Side!Fire
<1> QED
  BY <1>1, <1>2, <1>3, <1>4, <1>5, <1>6, <1>7, <1>8, <1>9 DEF Side!Poll
\* The list of conversations: what is selected is in sight, the pointer has chosen what it
\* was pressed on, and what is shown is the user's own or deleted by an answer to come.
Pointers == [down : DOMAIN Owner, over : DOMAIN Owner, moved : BOOLEAN, before : SUBSET DOMAIN Owner]

Held ==
  pointer # None /\ ~pointer.moved =>
    /\ pointer.over = pointer.down
    /\ selectMode => /\ swallow
                     /\ selected \in {Side!Flip(pointer.before, pointer.down), {pointer.down}}

Hand ==
  /\ pointer \in Pointers \cup {None} /\ selected \subseteq Side!Conversations
  /\ press # None => pointer # None

OwnedBy(u) == {r \in Side!Conversations : Owner[r] = u}

ListInv ==
  /\ Side!NoneHidden /\ Held
  /\ press # None => "painting" \in DOMAIN press /\ (press.painting => selectMode)
  /\ Hand
  /\ server \subseteq Side!Conversations /\ runs \subseteq OwnedBy(user)
  /\ \A j \in job : /\ {"ids", "runs", "user", "shown", "done"} \subseteq DOMAIN j
                    /\ j.runs \subseteq OwnedBy(j.user)
  /\ ~stray /\ ~moved =>
       shown \in Side!OwnRuns(user) \cup {Side!Fresh} \/ \E j \in job : j.done /\ shown \in j.ids

\* The initial states of the run list satisfy its invariant.
LEMMA ListInit == Side!InitList => ListInv
BY DEF Hand, Side!InitList, ListInv, Held, Side!NoneHidden, Side!OwnRuns, OwnedBy

\* A step of the pointer, or of what is selected, takes nothing from the conversations.
LEMMA PointerSteps ==
  ASSUME ListInv, UNCHANGED <<server, user, moved, runs, job>>, (~stray' => ~stray),
         shown' = shown \/ (shown' \in runs /\ (~stray' => shown' \in server))
  PROVE  /\ server' \subseteq Side!Conversations /\ runs' \subseteq OwnedBy(user)'
         /\ \A j \in job' : /\ {"ids", "runs", "user", "shown", "done"} \subseteq DOMAIN j
                            /\ j.runs \subseteq OwnedBy(j.user)
         /\ ~stray' /\ ~moved' =>
              shown' \in Side!OwnRuns(user)' \cup {Side!Fresh}
              \/ \E j \in job' : j.done /\ shown' \in j.ids
BY DEF ListInv, OwnedBy, Side!OwnRuns

\* Every step of the run list keeps its invariant.
LEMMA ListStep == ListInv /\ [Side!List]_(Side!listVars) => ListInv' /\ [Side!Tapped]_(Side!listVars)
<1> SUFFICES ASSUME ListInv, Side!List PROVE ListInv' /\ Side!Tapped
  BY DEF ListInv, Hand, Side!listVars, Side!NoneHidden, Held, Side!OwnRuns
<1> DEFINE Hands == /\ Side!NoneHidden /\ Held
                    /\ press # None => "painting" \in DOMAIN press /\ (press.painting => selectMode)
<1>0. Hands /\ runs \subseteq Side!Conversations
  BY DEF ListInv, OwnedBy
<1>hand. Hand'
  <2>1. Hand /\ runs \subseteq Side!Conversations
    BY <1>0 DEF ListInv
  <2> USE DEF Hand, Side!Conversations
  <2>2. ASSUME NEW r \in Side!Conversations, Side!onRowPointerDown(r) PROVE Hand'
    <3>1. pointer' \in Pointers
      BY <2>1, <2>2 DEF Side!onRowPointerDown, Pointers
    <3> QED
      BY <2>1, <2>2, <3>1, PageAssumption DEF Side!onRowPointerDown, Side!Paint, Pointers
  <2>3. CASE Side!LongPress
    BY <2>1, <2>3 DEF Side!LongPress, Pointers
  <2>4. ASSUME NEW r \in Side!Conversations, Side!onMove(r) PROVE Hand'
    <3>1. pointer' \in Pointers
      BY <2>1, <2>4 DEF Side!onMove, Pointers
    <3> QED
      BY <2>1, <2>4, <3>1, PageAssumption DEF Side!onMove, Side!Paint, Pointers
  <2>5. CASE Side!onUp
    <3>1. \A r \in Side!Conversations : Side!Flip(selected, r) \subseteq Side!Conversations
      BY <2>1 DEF Side!Flip
    <3> QED
      BY <2>1, <2>5, <3>1 DEF Side!onUp, Side!Click
  <2>6. CASE Side!toggleAll \/ Side!exitSelect
    BY <2>1, <2>6 DEF Side!toggleAll, Side!exitSelect, Side!Exit
  <2>7. CASE UNCHANGED <<selected, press, pointer>>
    BY <2>1, <2>7
  <2>8. ASSUME NEW j \in job, Side!Answered(j) PROVE Hand'
    BY <2>1, <2>8 DEF Side!Answered, Side!gesture, Side!Exit
  <2>9. CASE Side!Reload \/ Side!Delete \/ Side!NewUserRun
    BY <2>7, <2>9 DEF Side!Reload, Side!Delete, Side!NewUserRun, Side!gesture
  <2>10. ASSUME NEW j \in job, Side!Delivered(j) PROVE Hand'
    BY <2>7, <2>10 DEF Side!Delivered, Side!gesture
  <2>11. ASSUME NEW u, Side!applyUser(u) PROVE Hand'
    BY <2>7, <2>11 DEF Side!applyUser, Side!gesture
  <2> QED
    BY <2>2, <2>3, <2>4, <2>5, <2>6, <2>8, <2>9, <2>10, <2>11 DEF Side!List
<1>1. ASSUME NEW r \in Side!Conversations, Side!onRowPointerDown(r) PROVE ListInv' /\ Side!Tapped
  <2>1. Hands' /\ Side!Tapped
    BY <1>0, <1>1 DEF Side!onRowPointerDown, Side!Paint, Side!Flip, Held, Side!NoneHidden, Side!Tapped
  <2> QED
    BY <1>1, <2>1, PointerSteps, <1>hand DEF Side!onRowPointerDown, ListInv
<1>2. CASE Side!LongPress
  <2>1. Hands' /\ Side!Tapped
    BY <1>0, <1>2 DEF Side!LongPress, Held, Side!NoneHidden, Side!Tapped
  <2> QED
    BY <1>2, <2>1, PointerSteps, <1>hand DEF Side!LongPress, ListInv
<1>3. ASSUME NEW r \in Side!Conversations, Side!onMove(r) PROVE ListInv' /\ Side!Tapped
  <2>1. pointer # None /\ pointer' = [pointer EXCEPT !.over = r, !.moved = TRUE]
        /\ UNCHANGED <<server, user, moved, shown, runs, selectMode, swallow, job, jobs, stray>>
    BY <1>3 DEF Side!onMove
  <2>2. pointer' # None /\ pointer'.moved
    <3>1. pointer \in Pointers /\ r \in DOMAIN Owner
      BY <2>1 DEF ListInv, Hand, Side!Conversations
    <3>2. pointer' \in Pointers
      BY <2>1, <3>1 DEF Pointers
    <3> QED
      BY <2>1, <3>1, <3>2, PageAssumption DEF Pointers
  <2>3. Held' /\ Side!Tapped
    BY <2>2 DEF Held, Side!Tapped
  <2>4. /\ Side!NoneHidden'
        /\ press' # None => "painting" \in DOMAIN press' /\ (press'.painting => selectMode')
    BY <1>0, <1>3 DEF Side!onMove, Side!NoneHidden, Side!Paint
  <2> QED
    BY <1>0, <2>1, <2>2, <2>3, <2>4, PointerSteps, <1>hand DEF ListInv
<1>4. CASE Side!onUp
  <2>1. pointer # None /\ pointer' = None /\ press' = None
        /\ UNCHANGED <<server, user, moved, runs, selectMode, job, jobs>>
    BY <1>4 DEF Side!onUp
  <2>2. /\ Side!NoneHidden' /\ Side!Tapped
        /\ shown' = shown \/ shown' \in runs
    BY <1>0, <1>4 DEF Side!onUp, Side!Click, Side!Swallowed, Held, Side!NoneHidden, Side!Tapped
  <2>3. (~stray' => ~stray) /\ (~stray' /\ shown' # shown => shown' \in server)
    BY <1>4 DEF Side!onUp
  <2> QED
    BY <2>1, <2>2, <2>3, PointerSteps, <1>hand DEF ListInv, Held
<1>5. CASE Side!toggleAll \/ Side!exitSelect
  <2>1. Hands' /\ Side!Tapped
    BY <1>0, <1>5 DEF Side!toggleAll, Side!exitSelect, Side!Exit, Held, Side!NoneHidden, Side!Tapped
  <2> QED
    BY <1>5, <2>1, PointerSteps, <1>hand DEF Side!toggleAll, Side!exitSelect, ListInv
<1>6. CASE Side!Reload
  BY <1>hand, <1>6 DEF Side!Reload, Side!gesture, ListInv, Held, Side!NoneHidden, Side!Tapped, Side!OwnRuns, OwnedBy
<1>7. CASE Side!Delete
  <2>0. PICK kind, ids, j :
          /\ job' = job \cup {j}
          /\ j = [kind |-> kind, ids |-> ids, shown |-> shown, runs |-> runs, user |-> user,
                  done |-> FALSE, nr |-> jobs]
    BY <1>7 DEF Side!Delete, Side!Ask
  <2>1. j.runs = runs /\ j.user = user /\ {"ids", "runs", "user", "shown", "done"} \subseteq DOMAIN j
    BY <2>0
  <2>2. UNCHANGED <<server, user, moved, shown, runs, selectMode, selected, press, pointer, swallow, stray>>
    BY <1>7 DEF Side!Delete, Side!gesture
  <2>3. Hands' /\ Side!Tapped
    BY <1>0, <2>2 DEF Held, Side!NoneHidden, Side!Tapped
  <2> QED
    BY <1>hand, <2>0, <2>1, <2>2, <2>3 DEF ListInv, Side!OwnRuns, OwnedBy
<1>8. CASE Side!NewUserRun
  BY <1>hand, <1>8 DEF Side!NewUserRun, Side!gesture, ListInv, Held, Side!NoneHidden, Side!Tapped, Side!OwnRuns, OwnedBy
<1>9. ASSUME NEW u, Side!applyUser(u) PROVE ListInv' /\ Side!Tapped
  BY <1>hand, <1>9 DEF Side!applyUser, Side!gesture, ListInv, Held, Side!NoneHidden, Side!Tapped, Side!OwnRuns, OwnedBy
<1>10. ASSUME NEW j \in job, Side!Delivered(j) PROVE ListInv' /\ Side!Tapped
  <2>1. PICK d : d = [j EXCEPT !.done = TRUE] /\ job' = (job \ {j}) \cup {d}
    BY <1>10 DEF Side!Delivered
  <2>2. server' = server \ j.ids
        /\ UNCHANGED <<user, moved, shown, runs, selectMode, selected, press, pointer, swallow, stray>>
    BY <1>10 DEF Side!Delivered, Side!gesture
  <2>3. d.done /\ d.ids = j.ids /\ d.runs = j.runs /\ d.user = j.user /\ DOMAIN d = DOMAIN j
    BY <2>1 DEF ListInv
  <2>4. Hands' /\ Side!Tapped
    BY <1>0, <2>2 DEF Held, Side!NoneHidden, Side!Tapped
  <2>5. ~stray' /\ ~moved' => shown' \in Side!OwnRuns(user)' \cup {Side!Fresh}
                              \/ \E k \in job' : k.done /\ shown' \in k.ids
    BY <1>10, <2>1, <2>2, <2>3 DEF ListInv, Side!OwnRuns, Side!Delivered
  <2> QED
    BY <1>hand, <2>1, <2>2, <2>3, <2>4, <2>5 DEF ListInv, OwnedBy
<1>11. ASSUME NEW j \in job, Side!Answered(j) PROVE ListInv' /\ Side!Tapped
  <2>1. job' = job \ {j} /\ UNCHANGED <<server, user, moved, runs, pointer, swallow>>
    BY <1>11 DEF Side!Answered, Side!gesture
  <2>2. \/ UNCHANGED <<selectMode, selected, press>>
        \/ selectMode' = FALSE /\ selected' = {} /\ press' = None
    BY <1>11 DEF Side!Answered, Side!gesture, Side!Exit
  <2>3. Hands'
    BY <1>0, <2>1, <2>2 DEF Held, Side!NoneHidden
  <2>4. Side!Tapped
    BY <2>1 DEF Side!Tapped
  <2>5. ASSUME ~stray', ~moved
        PROVE  shown' \in Side!OwnRuns(user)' \cup {Side!Fresh}
               \/ \E k \in job' : k.done /\ shown' \in k.ids
    <3>1. ~stray
      BY <1>11, <2>5 DEF Side!Answered
    <3>2. CASE j.done /\ Side!onDeleted(j) /\ j.user = user /\ j.shown = shown /\ j.runs \ j.ids \subseteq server
      BY <2>1, <2>5, <3>1, <3>2 DEF Side!onDeleted, ListInv, Side!OwnRuns, OwnedBy
    <3>3. CASE shown' = shown /\ ~j.done
      BY <2>1, <2>5, <3>1, <3>3 DEF ListInv, Side!OwnRuns
    <3> QED
      BY <1>11, <2>5, <3>2, <3>3 DEF Side!Answered
  <2> QED
    BY <1>hand, <2>1, <2>3, <2>4, <2>5 DEF ListInv, OwnedBy
<1> QED
  BY <1>1, <1>2, <1>3, <1>4, <1>5, <1>6, <1>7, <1>8, <1>9, <1>10, <1>11 DEF Side!List

-----------------------------------------------------------------------------
\* The choice of a model: what is typed is typed for the editor that is open, and what is sent
\* is typed for the model that it is sent to.
KeyInv == typed \in {None, editFor} /\ Side!KeyForItsModel

\* The initial states of the panel of keys satisfy its invariant.
LEMMA KeyInit == Side!InitModels => KeyInv
BY DEF Side!InitModels, KeyInv, Side!KeyForItsModel

\* Every step of the panel of keys keeps its invariant.
LEMMA KeyStep == KeyInv /\ [Side!Panel]_(Side!modelVars) => KeyInv'
<1> SUFFICES ASSUME KeyInv, Side!Panel PROVE KeyInv'
  BY DEF KeyInv, Side!KeyForItsModel, Side!modelVars
<1> USE DEF KeyInv, Side!KeyForItsModel
<1>1. CASE Side!Type \/ Side!Save \/ Side!Polled
  BY <1>1 DEF Side!Type, Side!Save, Side!Polled, Side!select
<1>2. CASE Side!Saved
  BY <1>2 DEF Side!Saved, Side!probe
<1>3. ASSUME NEW m, NEW k, Side!Test(m, k) PROVE KeyInv'
  BY <1>3 DEF Side!Test, Side!probe
<1>4. ASSUME NEW m, Side!clickModel(m) PROVE KeyInv'
  BY <1>4 DEF Side!clickModel, Side!select, Side!openEditor
<1>5. ASSUME NEW p \in testing, Side!Tested(p) PROVE KeyInv'
  BY <1>5 DEF Side!Tested
<1> QED
  BY <1>1, <1>2, <1>3, <1>4, <1>5 DEF Side!Panel
-----------------------------------------------------------------------------
\* The page.

\* What a stream may bring, and what becomes a line.
Frames == {"delta", "final", "tool", "card", "disconnected", "error"}
LineKinds == {"user", "reply", "tool", "card", "gone", "answer"}

\* A line of the conversation as it is shown.
Lines == [id : {None} \cup (Page!Streams \X Nat), of : Rooms \cup {None}, by : Page!Streams \cup {None},
          kind : LineKinds, text : SUBSET Nat]

\* A decision that is out.
Outs == [card : {None} \cup (Page!Streams \X Nat), of : Rooms]

PageTypes ==
  /\ run \in Rooms /\ mount \in Rooms \cup {None} /\ reloads \subseteq Rooms
  /\ decisions \subseteq Outs
  /\ current \in Page!Streams \cup {None} /\ abort \in Page!Streams \cup {None}
  /\ DOMAIN stream = Page!Streams
  /\ \A s \in Page!Streams : DOMAIN stream[s] = {"at", "of", "over", "cut"}
                              /\ stream[s].of \in Rooms \cup {None}
  /\ heard \in [Page!Streams -> Seq(Frames)]
  /\ msgs \in Seq(Lines) /\ bubble \in {None} \cup (Page!Streams \X Nat)
  /\ intact \subseteq Page!Streams

\* A stream that is listened to.
Listening(s) == current = s /\ stream[s].at \in {"reading", "resuming"}

\* What is written is numbered by its stream and frame; who has not begun has written nothing.
Numbered ==
  /\ \A i \in DOMAIN msgs :
       IF msgs[i].by = None THEN msgs[i].id = None
       ELSE msgs[i].id[1] = msgs[i].by /\ msgs[i].id[2] \in 0 .. Len(heard[msgs[i].by])
            /\ msgs[i].id \in Page!Streams \X Nat
  /\ \A s \in Page!Streams : stream[s].at = "idle" =>
       heard[s] = <<>> /\ \A i \in DOMAIN msgs : msgs[i].by # s

\* What is out for another conversation has seen the screen change.
Left ==
  /\ \A r \in reloads : r = run \/ r \in crossed
  /\ \A d \in decisions : d.of = run \/ d.of \in crossed

\* All of it is written for the conversation on the screen, or was out when that changed,
\* and so will be what comes.
InPlace ==
  /\ Left
  /\ "switch" \notin due =>
       /\ \A i \in DOMAIN msgs : msgs[i].of = run \/ (msgs[i].by = None /\ msgs[i].of \in crossed)
       /\ mount \in {None, run}
       /\ \A s \in Page!Streams : Listening(s) => stream[s].of = run

\* Text that goes on has an open bubble, that of its first frame, and no other text has one.
Goes(f, b) == b \in Page!Starts(f) /\ \A k \in b .. Len(f) : f[k] = "delta"
Open(s) ==
  IF bubble = None
  THEN \/ heard[s] = <<>> \/ heard[s][Len(heard[s])] \notin Page!Text
       \/ stream[s].at = "reading" /\ stream[s].over
  ELSE heard[s] # <<>> /\ \E b \in Page!Starts(heard[s]) : bubble = <<s, b>> /\ Goes(heard[s], b)

\* Who speaks is one whose frames are told, if there are any.
Speaks ==
  /\ intact # {} => current \in intact \cup {None}
  /\ \A s \in intact : stream[s].at # "idle" /\ (Listening(s) => Open(s))

PageInv ==
  PageTypes /\ Numbered /\ InPlace /\ Speaks /\ Page!InputFollowsStream /\ Page!ToldInOrder

\* The initial states of the page satisfy its invariant.
LEMMA PageInit == Page!BrowserInit => PageInv
<1> SUFFICES ASSUME Page!BrowserInit PROVE PageInv
  OBVIOUS
<1> USE DEF Page!BrowserInit, Page!Idle
<1>1. run \in Rooms
  BY PageAssumption
<1>2. PageTypes
  <2>0. /\ DOMAIN stream = Page!Streams
        /\ \A s \in Page!Streams : DOMAIN stream[s] = {"at", "of", "over", "cut"} /\ stream[s].of = None
    OBVIOUS
  <2>1. heard \in [Page!Streams -> Seq(Frames)]
    <3>1. <<>> \in Seq(Frames)
      OBVIOUS
    <3> QED
      BY <3>1
  <2>2. msgs \in Seq(Lines)
    OBVIOUS
  <2> QED
    BY <1>1, <2>0, <2>1, <2>2 DEF PageTypes
<1>3. msgs = <<>> /\ intact = {} /\ \A s \in Page!Streams : stream[s].at = "idle" /\ heard[s] = <<>>
  OBVIOUS
<1>4. Numbered /\ InPlace /\ Speaks
  BY <1>3 DEF Numbered, InPlace, Left, Speaks, Listening
<1> QED
  BY <1>2, <1>3, <1>4 DEF PageInv, Page!InputFollowsStream, Page!ToldInOrder

-----------------------------------------------------------------------------
\* What one frame more does to the bubbles.
LEMMA OneMore ==
  ASSUME NEW f \in Seq(Frames), NEW k \in Frames
  PROVE  LET g == Append(f, k)  n == Len(f) IN
         /\ g \in Seq(Frames) /\ Len(g) = n + 1 /\ g[n + 1] = k /\ \A i \in 1 .. n : g[i] = f[i]
         /\ Page!Starts(f) \subseteq 1 .. n
         /\ Page!Starts(g) \subseteq Page!Starts(f) \cup {n + 1} /\ Page!Starts(f) \subseteq Page!Starts(g)
         /\ n + 1 \in Page!Starts(g) <=>
              k = "tool" \/ (k \in Page!Text /\ (n = 0 \/ f[n] \notin Page!Text))
<1> DEFINE g == Append(f, k)
           n == Len(f)
<1>1. g \in Seq(Frames) /\ Len(g) = n + 1 /\ g[n + 1] = k /\ n \in Nat /\ \A i \in 1 .. n : g[i] = f[i]
  OBVIOUS
<1>2. DOMAIN f = 1 .. n /\ DOMAIN g = 1 .. n + 1
  BY <1>1
<1> HIDE DEF g, n
<1>3. \A i \in 1 .. n : i \in Page!Starts(g) <=> i \in Page!Starts(f)
  BY <1>1, <1>2 DEF Page!Starts, Page!Opens
<1>4. n + 1 \in Page!Starts(g) <=> k = "tool" \/ (k \in Page!Text /\ (n = 0 \/ f[n] \notin Page!Text))
  BY <1>1, <1>2 DEF Page!Starts, Page!Opens
<1>5. Page!Starts(f) \subseteq 1 .. n /\ Page!Starts(g) \subseteq 1 .. n + 1
  BY <1>2 DEF Page!Starts
<1> QED
  BY <1>1, <1>3, <1>4, <1>5 DEF g, n

\* It leaves the bubbles alone that it does not go on with.
LEMMA BubbleStays ==
  ASSUME NEW f \in Seq(Frames), NEW k \in Frames, NEW i \in Page!Starts(f),
         k \notin Page!Text \/ (\E j \in i .. Len(f) : f[j] \notin Page!Text)
                            \/ (\E j \in i + 1 .. Len(f) : j \in Page!Starts(f))
  PROVE  Page!Bubble(Append(f, k), i) = Page!Bubble(f, i)
<1> DEFINE g == Append(f, k)
           n == Len(f)
<1>1. /\ g \in Seq(Frames) /\ Len(g) = n + 1 /\ g[n + 1] = k /\ \A j \in 1 .. n : g[j] = f[j]
      /\ i \in 1 .. n /\ n \in Nat
  BY OneMore
<1> HIDE DEF g, n
<1>2. CASE f[i] = "tool"
  BY <1>1, <1>2 DEF Page!Bubble, g
<1>3. CASE f[i] # "tool"
  <2>1. k \notin Page!Text \/ \E j \in i .. n : f[j] \notin Page!Text
    <3>1. ASSUME NEW j \in i + 1 .. n, j \in Page!Starts(f), \A l \in i .. n : f[l] \in Page!Text PROVE FALSE
      <4>1. f[j] # "tool" /\ Page!Opens(f, j)
        BY <1>1, <3>1 DEF Page!Starts, Page!Text
      <4>2. j - 1 \in i .. n
        BY <1>1, <3>1
      <4> QED
        BY <1>1, <3>1, <4>1, <4>2 DEF Page!Opens
    <3> QED
      BY <3>1 DEF n
  <2>2. Page!Rest(g, i) = Page!Rest(f, i)
    <3>1. ASSUME NEW j \in i .. n PROVE j \in Page!Rest(g, i) <=> j \in Page!Rest(f, i)
      BY <1>1, <3>1 DEF Page!Rest, n
    <3>2. n + 1 \notin Page!Rest(g, i)
      <4>1. SUFFICES ASSUME \A j \in i .. n + 1 : g[j] \in Page!Text PROVE FALSE
        BY <1>1 DEF Page!Rest
      <4>2. n + 1 \in i .. n + 1 /\ \A j \in i .. n : j \in i .. n + 1 /\ g[j] = f[j]
        BY <1>1
      <4> QED
        BY <1>1, <2>1, <4>1, <4>2
    <3> QED
      BY <1>1, <3>1, <3>2 DEF Page!Rest, n
  <2>3. \A j \in Page!Rest(f, i) : g[j] = f[j]
    BY <1>1 DEF Page!Rest, n
  <2>4. {j \in Page!Rest(g, i) : g[j] = "final"} = {j \in Page!Rest(f, i) : f[j] = "final"}
    BY <2>2, <2>3
  <2> QED
    BY <1>1, <1>3, <2>2, <2>4 DEF Page!Bubble, g
<1> QED
  BY <1>2, <1>3

\* A bubble is what was said until it is closed, and the final text if that is said.
LEMMA BubbleText ==
  ASSUME NEW f \in Seq(Frames), NEW b \in 1 .. Len(f), \A j \in b .. Len(f) : f[j] = "delta"
  PROVE  /\ Page!Bubble(f, b) = [kind |-> "reply", text |-> b .. Len(f)]
         /\ Page!Bubble(Append(f, "final"), b) = [kind |-> "reply", text |-> {Len(f) + 1}]
<1> DEFINE g == Append(f, "final")
           n == Len(f)
<1>1. /\ Len(g) = n + 1 /\ g[n + 1] = "final" /\ \A j \in 1 .. n : g[j] = f[j]
      /\ b \in 1 .. n /\ n \in Nat
  BY OneMore DEF Frames
<1> HIDE DEF g, n
<1>2. Page!Rest(f, b) = b .. n
  BY <1>1 DEF Page!Rest, Page!Text, n
<1>3. {j \in Page!Rest(f, b) : f[j] = "final"} = {}
  BY <1>1, <1>2 DEF n
<1>4. Page!Rest(g, b) = b .. n + 1
  BY <1>1 DEF Page!Rest, Page!Text, n
<1>5. {j \in Page!Rest(g, b) : g[j] = "final"} = {n + 1}
  BY <1>1, <1>4 DEF n
<1>6. f[b] = "delta" /\ g[b] = "delta"
  BY <1>1 DEF n
<1> QED
  BY <1>2, <1>3, <1>4, <1>5, <1>6 DEF Page!Bubble, g, n

\* One that a frame opens.
LEMMA BubbleOpens ==
  ASSUME NEW f \in Seq(Frames), NEW k \in {"delta", "final", "tool"}
  PROVE  LET n == Len(f) IN
         Page!Bubble(Append(f, k), n + 1) =
           IF k = "tool" THEN [kind |-> "tool", text |-> {}]
           ELSE [kind |-> "reply", text |-> {n + 1}]
<1> DEFINE g == Append(f, k)
           n == Len(f)
<1>1. Len(g) = n + 1 /\ g[n + 1] = k /\ n \in Nat
  BY OneMore DEF Frames
<1> HIDE DEF g, n
<1>2. CASE k = "tool"
  BY <1>1, <1>2 DEF Page!Bubble, g, n
<1>3. CASE k # "tool"
  <2>1. Page!Rest(g, n + 1) = {n + 1}
    BY <1>1, <1>3 DEF Page!Rest, Page!Text
  <2>2. {j \in Page!Rest(g, n + 1) : g[j] = "final"} = IF k = "final" THEN {n + 1} ELSE {}
    BY <1>1, <2>1
  <2> QED
    BY <1>1, <1>3, <2>1, <2>2 DEF Page!Bubble, g, n
<1> QED
  BY <1>2, <1>3

-----------------------------------------------------------------------------
\* What a frame does to the lines.
\* The list with a line more, and with what the open bubble says.
Line(s, n, kind, text) == [id |-> <<s, n>>, of |-> stream[s].of, by |-> s, kind |-> kind, text |-> text]
Patched(id, kind, t) ==
  [i \in DOMAIN msgs |->
     IF msgs[i].id = id THEN [msgs[i] EXCEPT !.text = (IF kind = "final" THEN {} ELSE msgs[i].text) \cup {t}]
     ELSE msgs[i]]

\* What one frame does to the page: a new bubble, more of the open one, or a row of its own.
LEMMA FrameWrites ==
  ASSUME NEW s, NEW n, NEW kind \in Frames, Page!Handle(s, kind, n)
  PROVE  \/ /\ kind \in Page!Text /\ bubble = None
            /\ msgs' = Append(msgs, Line(s, n, "reply", {n}))
            /\ bubble' = IF kind = "delta" THEN <<s, n>> ELSE None
         \/ /\ kind \in Page!Text /\ bubble # None
            /\ msgs' = Patched(bubble, kind, n)
            /\ bubble' = IF kind = "delta" THEN bubble ELSE None
         \/ kind \in {"tool", "card"} /\ msgs' = Append(msgs, Line(s, n, kind, {})) /\ bubble' = None
         \/ kind \in {"disconnected", "error"} /\ msgs' = msgs /\ bubble' = None
<1> USE DEF Page!Handle, Page!Push, Page!Row, Line, Page!Text
<1>1. CASE kind = "delta"
  BY <1>1 DEF Page!Patch, Patched
<1>2. CASE kind = "final"
  BY <1>2 DEF Page!Patch, Patched
<1>3. CASE kind \in {"tool", "card"}
  BY <1>3
<1>4. CASE kind \in {"disconnected", "error"}
  BY <1>4
<1> QED
  BY <1>1, <1>2, <1>3, <1>4 DEF Frames

\* The lines of a stream, and that they are what was heard of it.
RowsIn(m, s) == {i \in DOMAIN m : m[i].by = s /\ m[i].kind \in {"tool", "reply"}}
Tells(m, s, f) ==
  /\ {m[i].id[2] : i \in RowsIn(m, s)} = Page!Starts(f)
  /\ \A i \in RowsIn(m, s) : [kind |-> m[i].kind, text |-> m[i].text] = Page!Bubble(f, m[i].id[2])
  /\ \A i, j \in RowsIn(m, s) : i < j => m[i].id[2] < m[j].id[2]

\* ToldInOrder, stream by stream.
LEMMA TellsAll == Page!ToldInOrder <=> \A s \in intact : Tells(msgs, s, heard[s])
BY DEF Page!ToldInOrder, Page!Rows, Tells, RowsIn

\* A frame that opens nothing and goes on with nothing.
LEMMA NothingSaid ==
  ASSUME NEW m, NEW s, NEW f, NEW g, Tells(m, s, f), Page!Starts(g) = Page!Starts(f),
         \A i \in Page!Starts(f) : Page!Bubble(g, i) = Page!Bubble(f, i)
  PROVE  Tells(m, s, g)
<1>1. \A i \in RowsIn(m, s) : m[i].id[2] \in Page!Starts(f)
  BY DEF Tells
<1> QED
  BY <1>1 DEF Tells

\* A line that is not of the stream, or is not told of.
LEMMA LineBeside ==
  ASSUME NEW m \in Seq(Lines), NEW r \in Lines, NEW s, NEW f, Tells(m, s, f),
         r.by # s \/ r.kind \notin {"tool", "reply"}
  PROVE  Tells(Append(m, r), s, f)
<1> DEFINE p == Append(m, r)
<1>1. Len(p) = Len(m) + 1 /\ p[Len(m) + 1] = r /\ Len(m) \in Nat /\ \A i \in 1 .. Len(m) : p[i] = m[i]
  OBVIOUS
<1>2. DOMAIN m = 1 .. Len(m) /\ DOMAIN p = 1 .. Len(m) + 1
  OBVIOUS
<1> HIDE DEF p
<1>3. RowsIn(p, s) = RowsIn(m, s) /\ RowsIn(m, s) \subseteq 1 .. Len(m)
  BY <1>1, <1>2 DEF RowsIn
<1>4. \A i \in RowsIn(m, s) : p[i] = m[i]
  BY <1>1, <1>3
<1>5. {p[i].id[2] : i \in RowsIn(p, s)} = {m[i].id[2] : i \in RowsIn(m, s)}
  BY <1>3, <1>4
<1> QED
  BY <1>3, <1>4, <1>5 DEF Tells, p

\* A line that tells of a new bubble.
LEMMA LineTold ==
  ASSUME NEW m \in Seq(Lines), NEW r \in Lines, NEW s, NEW f, NEW g, NEW n \in Nat, Tells(m, s, f),
         r.by = s, r.kind \in {"tool", "reply"}, r.id[2] = n,
         [kind |-> r.kind, text |-> r.text] = Page!Bubble(g, n),
         Page!Starts(g) = Page!Starts(f) \cup {n},
         \A i \in Page!Starts(f) : i < n /\ Page!Bubble(g, i) = Page!Bubble(f, i)
  PROVE  Tells(Append(m, r), s, g)
<1> DEFINE p == Append(m, r)
           l == Len(m) + 1
<1>1. Len(p) = l /\ p[l] = r /\ Len(m) \in Nat /\ \A i \in 1 .. Len(m) : p[i] = m[i]
  OBVIOUS
<1>2. DOMAIN m = 1 .. Len(m) /\ DOMAIN p = 1 .. Len(m) + 1
  OBVIOUS
<1> HIDE DEF p
<1>3. RowsIn(p, s) = RowsIn(m, s) \cup {l} /\ RowsIn(m, s) \subseteq 1 .. Len(m)
  BY <1>1, <1>2 DEF RowsIn
<1>4. \A i \in RowsIn(m, s) : p[i] = m[i] /\ m[i].id[2] \in Page!Starts(f)
  BY <1>1, <1>3 DEF Tells
<1>5. {p[i].id[2] : i \in RowsIn(p, s)} = Page!Starts(g)
  <2>1. {p[i].id[2] : i \in RowsIn(p, s)} = {m[i].id[2] : i \in RowsIn(m, s)} \cup {n}
    BY <1>1, <1>3, <1>4
  <2> QED
    BY <2>1 DEF Tells
<1>6. \A i \in RowsIn(p, s) : [kind |-> p[i].kind, text |-> p[i].text] = Page!Bubble(g, p[i].id[2])
  BY <1>1, <1>3, <1>4 DEF Tells
<1>7. \A i, j \in RowsIn(p, s) : i < j => p[i].id[2] < p[j].id[2]
  BY <1>1, <1>3, <1>4 DEF Tells
<1> QED
  BY <1>5, <1>6, <1>7 DEF Tells, p

\* A line that goes on.
LEMMA LineGoesOn ==
  ASSUME NEW m, NEW p, NEW s, NEW f, NEW g, NEW b, NEW t, Tells(m, s, f),
         DOMAIN p = DOMAIN m,
         \A i \in DOMAIN m : p[i].id = m[i].id /\ p[i].by = m[i].by /\ p[i].kind = m[i].kind,
         \A i \in RowsIn(m, s) : p[i].text = IF m[i].id[2] = b THEN t ELSE m[i].text,
         Page!Starts(g) = Page!Starts(f),
         Page!Bubble(g, b) = [kind |-> "reply", text |-> t],
         Page!Bubble(f, b).kind = "reply",
         \A i \in Page!Starts(f) \ {b} : Page!Bubble(g, i) = Page!Bubble(f, i)
  PROVE  Tells(p, s, g)
<1>1. RowsIn(p, s) = RowsIn(m, s) /\ \A i \in RowsIn(m, s) : i \in DOMAIN m
  BY DEF RowsIn
<1>2. \A i \in RowsIn(m, s) : p[i].id = m[i].id /\ p[i].kind = m[i].kind
  BY <1>1
<1>3. {p[i].id[2] : i \in RowsIn(p, s)} = {m[i].id[2] : i \in RowsIn(m, s)}
  BY <1>1, <1>2
<1>4. ASSUME NEW i \in RowsIn(m, s)
      PROVE  [kind |-> p[i].kind, text |-> p[i].text] = Page!Bubble(g, p[i].id[2])
  <2>1. [kind |-> m[i].kind, text |-> m[i].text] = Page!Bubble(f, m[i].id[2]) /\ m[i].id[2] \in Page!Starts(f)
    BY DEF Tells
  <2>2. CASE m[i].id[2] = b
    <3>1. m[i].kind = "reply"
      BY <2>1, <2>2
    <3> QED
      BY <1>2, <2>2, <3>1
  <2>3. CASE m[i].id[2] # b
    BY <1>2, <2>1, <2>3
  <2> QED
    BY <2>2, <2>3
<1>5. \A i, j \in RowsIn(p, s) : i < j => p[i].id[2] < p[j].id[2]
  BY <1>1, <1>2 DEF Tells
<1> QED
  BY <1>1, <1>3, <1>4, <1>5 DEF Tells

\* A frame is heard: it is counted, and written where it belongs.
LEMMA HeardTypes ==
  ASSUME PageInv, NEW s \in Page!Streams, current = s, NEW kind \in Frames, Page!Hear(s, kind)
  PROVE  LET n == Len(heard[s]) + 1 IN
         /\ heard' = [heard EXCEPT ![s] = Append(heard[s], kind)]
         /\ heard'[s] = Append(heard[s], kind) /\ \A t \in Page!Streams \ {s} : heard'[t] = heard[t]
         /\ heard' \in [Page!Streams -> Seq(Frames)]
         /\ n \in Nat /\ Len(heard'[s]) = n /\ heard'[s][n] = kind
         /\ Page!Handle(s, kind, n) /\ s # None
         /\ \A k, t : Line(s, n, k, t) \in Lines \/ k \notin LineKinds \/ t \notin SUBSET Nat
<1>1. heard' = [heard EXCEPT ![s] = Append(heard[s], kind)] /\ Page!Handle(s, kind, Len(heard[s]) + 1)
  BY DEF Page!Hear
<1>2. heard \in [Page!Streams -> Seq(Frames)] /\ heard[s] \in Seq(Frames)
  BY DEF PageInv, PageTypes
<1>4. Len(heard[s]) \in Nat /\ Append(heard[s], kind) \in Seq(Frames)
      /\ Len(Append(heard[s], kind)) = Len(heard[s]) + 1
      /\ Append(heard[s], kind)[Len(heard[s]) + 1] = kind
  BY <1>2
<1>5. s # None
  BY PageAssumption DEF Page!Streams
<1>6. stream[s].of \in Rooms \cup {None}
  BY DEF PageInv, PageTypes
<1>7. \A k \in LineKinds, t \in SUBSET Nat : Line(s, Len(heard[s]) + 1, k, t) \in Lines
  BY <1>4, <1>6 DEF Line, Lines
<1> QED
  BY <1>1, <1>2, <1>4, <1>5, <1>7

\* What the open bubble says is changed in its lines, and nothing else is.
LEMMA PatchedTypes ==
  ASSUME PageTypes, NEW id, NEW kind, NEW t \in Nat
  PROVE  LET p == Patched(id, kind, t) IN
         /\ p \in Seq(Lines) /\ DOMAIN p = DOMAIN msgs
         /\ \A i \in DOMAIN msgs :
              /\ p[i].id = msgs[i].id /\ p[i].of = msgs[i].of /\ p[i].by = msgs[i].by /\ p[i].kind = msgs[i].kind
              /\ msgs[i].id # id => p[i] = msgs[i]
              /\ msgs[i].id = id => p[i].text = (IF kind = "final" THEN {} ELSE msgs[i].text) \cup {t}
<1> DEFINE p == Patched(id, kind, t)
<1>1. msgs \in Seq(Lines) /\ DOMAIN msgs = 1 .. Len(msgs) /\ Len(msgs) \in Nat
      /\ \A i \in DOMAIN msgs : msgs[i] \in Lines
  BY DEF PageTypes
<1>2. ASSUME NEW i \in DOMAIN msgs
      PROVE  /\ p[i] \in Lines
             /\ p[i].id = msgs[i].id /\ p[i].of = msgs[i].of /\ p[i].by = msgs[i].by /\ p[i].kind = msgs[i].kind
             /\ msgs[i].id # id => p[i] = msgs[i]
             /\ msgs[i].id = id => p[i].text = (IF kind = "final" THEN {} ELSE msgs[i].text) \cup {t}
  <2>1. msgs[i] \in Lines
    BY <1>1
  <2>2. p[i] = IF msgs[i].id = id
               THEN [msgs[i] EXCEPT !.text = (IF kind = "final" THEN {} ELSE msgs[i].text) \cup {t}] ELSE msgs[i]
    BY DEF Patched
  <2>3. PICK x : x = (IF kind = "final" THEN {} ELSE msgs[i].text) \cup {t}
    OBVIOUS
  <2>4. x \in SUBSET Nat
    BY <2>1, <2>3 DEF Lines
  <2> HIDE DEF p
  <2> QED
    BY <2>1, <2>2, <2>3, <2>4 DEF Lines
<1>3. DOMAIN p = DOMAIN msgs
  BY DEF Patched
<1>4. p = [i \in 1 .. Len(msgs) |-> p[i]]
  BY <1>1 DEF Patched
<1> HIDE DEF p
<1>5. p \in Seq(Lines)
  BY <1>1, <1>2, <1>4
<1> QED
  BY <1>2, <1>3, <1>5 DEF p

\* Lines stay numbered, and no line is of another conversation than before, or than its stream.
LEMMA HeardLines ==
  ASSUME PageInv, NEW s \in Page!Streams, current = s, NEW kind \in Frames, Page!Hear(s, kind)
  PROVE  /\ msgs' \in Seq(Lines) /\ bubble' \in {None} \cup (Page!Streams \X Nat)
         /\ \A i \in DOMAIN msgs' :
              \/ msgs'[i].by = s /\ msgs'[i].of = stream[s].of /\ msgs'[i].id = <<s, Len(heard[s]) + 1>>
              \/ \E j \in DOMAIN msgs : msgs'[i].by = msgs[j].by /\ msgs'[i].of = msgs[j].of
                                        /\ msgs'[i].id = msgs[j].id
<1> DEFINE n == Len(heard[s]) + 1
<1>1. /\ n \in Nat /\ Page!Handle(s, kind, n)
      /\ \A k \in LineKinds, t \in SUBSET Nat : Line(s, n, k, t) \in Lines
  BY HeardTypes
<1>2. PageTypes /\ msgs \in Seq(Lines) /\ bubble \in {None} \cup (Page!Streams \X Nat)
  BY DEF PageInv, PageTypes
<1>3. {"reply", "tool", "card"} \subseteq LineKinds
  BY DEF LineKinds
<1>4. ASSUME NEW k \in LineKinds, NEW t \in SUBSET Nat, msgs' = Append(msgs, Line(s, n, k, t))
      PROVE  /\ msgs' \in Seq(Lines)
             /\ \A i \in DOMAIN msgs' :
                  \/ msgs'[i].by = s /\ msgs'[i].of = stream[s].of /\ msgs'[i].id = <<s, n>>
                  \/ \E j \in DOMAIN msgs : msgs'[i] = msgs[j]
  <2>1. PICK r \in Lines : r = Line(s, n, k, t)
    BY <1>1
  <2>2. r.by = s /\ r.of = stream[s].of /\ r.id = <<s, n>>
    BY <2>1 DEF Line
  <2> HIDE DEF n
  <2> QED
    BY <1>2, <1>4, <2>1, <2>2
<1> HIDE DEF n
<1>5. <<s, n>> \in Page!Streams \X Nat
  BY <1>1
<1>6. CASE \E k \in LineKinds, t \in SUBSET Nat : msgs' = Append(msgs, Line(s, n, k, t))
                                               /\ bubble' \in {None, <<s, n>>}
  BY <1>4, <1>5, <1>6 DEF n
<1>7. CASE msgs' = Patched(bubble, kind, n) /\ bubble' \in {None, bubble}
  BY <1>1, <1>2, <1>7, PatchedTypes
<1>8. CASE msgs' = msgs /\ bubble' = None
  BY <1>2, <1>8
<1>9. {n} \in SUBSET Nat /\ {} \in SUBSET Nat
  BY <1>1
<1> QED
  BY <1>1, <1>3, <1>6, <1>7, <1>8, <1>9, FrameWrites

\* Hearing a frame leaves every bubble numbered by a frame its stream has sent.
LEMMA HeardNumbers ==
  ASSUME PageInv, NEW s \in Page!Streams, current = s, NEW kind \in Frames, Page!Hear(s, kind)
  PROVE  \A i \in DOMAIN msgs' :
           IF msgs'[i].by = None THEN msgs'[i].id = None
           ELSE msgs'[i].id[1] = msgs'[i].by /\ msgs'[i].id[2] \in 0 .. Len(heard'[msgs'[i].by])
                /\ msgs'[i].id \in Page!Streams \X Nat
<1> DEFINE n == Len(heard[s]) + 1
<1>1. /\ n \in Nat /\ s # None /\ Len(heard'[s]) = n
      /\ \A t \in Page!Streams \ {s} : heard'[t] = heard[t]
  BY HeardTypes
<1> SUFFICES ASSUME NEW i \in DOMAIN msgs'
             PROVE  IF msgs'[i].by = None THEN msgs'[i].id = None
                    ELSE msgs'[i].id[1] = msgs'[i].by /\ msgs'[i].id[2] \in 0 .. Len(heard'[msgs'[i].by])
                         /\ msgs'[i].id \in Page!Streams \X Nat
  OBVIOUS
<1>2. CASE msgs'[i].by = s /\ msgs'[i].id = <<s, n>>
  BY <1>1, <1>2
<1>3. ASSUME NEW j \in DOMAIN msgs, msgs'[i].by = msgs[j].by, msgs'[i].id = msgs[j].id
      PROVE  IF msgs'[i].by = None THEN msgs'[i].id = None
             ELSE msgs'[i].id[1] = msgs'[i].by /\ msgs'[i].id[2] \in 0 .. Len(heard'[msgs'[i].by])
                  /\ msgs'[i].id \in Page!Streams \X Nat
  <2>1. IF msgs[j].by = None THEN msgs[j].id = None
        ELSE msgs[j].id[1] = msgs[j].by /\ msgs[j].id[2] \in 0 .. Len(heard[msgs[j].by])
             /\ msgs[j].id \in Page!Streams \X Nat
    BY DEF PageInv, Numbered
  <2>2. \A t \in Page!Streams : 0 .. Len(heard[t]) \subseteq 0 .. Len(heard'[t])
    BY <1>1 DEF PageInv, PageTypes
  <2> QED
    BY <1>3, <2>1, <2>2
<1> QED
  BY <1>2, <1>3, HeardLines DEF n

\* What is told of the other streams stays.
LEMMA OthersTold ==
  ASSUME PageInv, NEW s \in Page!Streams, current = s, NEW kind \in Frames, Page!Hear(s, kind),
         bubble = None \/ \E b \in Nat : bubble = <<s, b>>,
         NEW t \in intact, t # s
  PROVE  Tells(msgs', t, heard'[t])
<1> DEFINE n == Len(heard[s]) + 1
<1>1. /\ n \in Nat /\ Page!Handle(s, kind, n) /\ heard'[t] = heard[t]
      /\ \A k \in LineKinds, x \in SUBSET Nat : Line(s, n, k, x) \in Lines
  BY HeardTypes DEF PageInv, PageTypes
<1>2. Tells(msgs, t, heard[t]) /\ PageTypes /\ msgs \in Seq(Lines)
  BY TellsAll DEF PageInv, PageTypes
<1>3. {"reply", "tool", "card"} \subseteq LineKinds
  BY DEF LineKinds
<1>4. ASSUME NEW k \in LineKinds, NEW x \in SUBSET Nat, msgs' = Append(msgs, Line(s, n, k, x))
      PROVE  Tells(msgs', t, heard'[t])
  <2>1. PICK r \in Lines : r = Line(s, n, k, x)
    BY <1>1
  <2>2. r.by # t
    BY <2>1 DEF Line
  <2> HIDE DEF n
  <2> QED
    BY <1>1, <1>2, <1>4, <2>1, <2>2, LineBeside
<1>5. CASE msgs' = Patched(bubble, kind, n) /\ bubble # None
  <2>1. \A i \in RowsIn(msgs, t) : msgs[i].id # bubble
    BY <1>5 DEF PageInv, Numbered, RowsIn, PageTypes
  <2>2. DOMAIN msgs' = DOMAIN msgs /\ \A i \in DOMAIN msgs :
          msgs'[i].by = msgs[i].by /\ msgs'[i].kind = msgs[i].kind /\ (msgs[i].id # bubble => msgs'[i] = msgs[i])
    BY <1>1, <1>2, <1>5, PatchedTypes
  <2>3. RowsIn(msgs', t) = RowsIn(msgs, t)
    BY <2>2 DEF RowsIn
  <2>4. \A i \in RowsIn(msgs, t) : msgs'[i] = msgs[i]
    BY <2>1, <2>2 DEF RowsIn
  <2>5. {msgs'[i].id[2] : i \in RowsIn(msgs', t)} = {msgs[i].id[2] : i \in RowsIn(msgs, t)}
    BY <2>3, <2>4
  <2> QED
    BY <1>1, <1>2, <2>3, <2>4, <2>5 DEF Tells
<1>6. CASE msgs' = msgs
  BY <1>1, <1>2, <1>6
<1> HIDE DEF n
<1>7. {n} \in SUBSET Nat /\ {} \in SUBSET Nat
  BY <1>1
<1> QED
  BY <1>1, <1>3, <1>4, <1>5, <1>6, <1>7, FrameWrites

\* And what is told of the one that is heard goes on.
LEMMA HeardTells ==
  ASSUME PageInv, NEW s \in intact, Listening(s), ~(stream[s].at = "reading" /\ stream[s].over),
         NEW kind \in Frames, Page!Hear(s, kind)
  PROVE  /\ Tells(msgs', s, heard'[s])
         /\ IF bubble' = None THEN kind # "delta"
            ELSE \E b \in Page!Starts(heard'[s]) : bubble' = <<s, b>> /\ Goes(heard'[s], b)
<1> DEFINE f == heard[s]
           g == Append(f, kind)
           n == Len(f) + 1
<1>1. s \in Page!Streams /\ current = s /\ PageTypes /\ msgs \in Seq(Lines) /\ f \in Seq(Frames)
  BY DEF Listening, PageInv, PageTypes
<1>2. /\ n \in Nat /\ s # None /\ Page!Handle(s, kind, n) /\ heard'[s] = g
      /\ \A k \in LineKinds, x \in SUBSET Nat : Line(s, n, k, x) \in Lines
  BY <1>1, HeardTypes
<1>3. /\ g \in Seq(Frames) /\ Len(g) = n /\ g[n] = kind /\ \A i \in 1 .. Len(f) : g[i] = f[i]
      /\ Page!Starts(f) \subseteq 1 .. Len(f)
      /\ Page!Starts(g) \subseteq Page!Starts(f) \cup {n} /\ Page!Starts(f) \subseteq Page!Starts(g)
      /\ n \in Page!Starts(g) <=>
           kind = "tool" \/ (kind \in Page!Text /\ (Len(f) = 0 \/ f[Len(f)] \notin Page!Text))
  BY <1>1, OneMore
<1>4. Tells(msgs, s, f) /\ Open(s) /\ (heard[s] = <<>> <=> Len(f) = 0)
  BY <1>1, TellsAll DEF PageInv, Speaks
<1>5. {"reply", "tool", "card"} \subseteq LineKinds
  BY DEF LineKinds
<1>6. Len(f) \in Nat
  BY <1>1
<1>7. ~(stream[s].at = "reading" /\ stream[s].over)
  OBVIOUS
<1> HIDE DEF f, g, n
\* Nothing was open, and a text opens.
<1>8. CASE kind \in Page!Text /\ bubble = None
  <2>1. Len(f) = 0 \/ f[Len(f)] \notin Page!Text
    BY <1>4, <1>7, <1>8 DEF Open, f
  <2>2. Page!Starts(g) = Page!Starts(f) \cup {n}
    BY <1>3, <1>8, <2>1
  <2>3. \A i \in Page!Starts(f) : i < n /\ Page!Bubble(g, i) = Page!Bubble(f, i)
    <3> SUFFICES ASSUME NEW i \in Page!Starts(f) PROVE i < n /\ Page!Bubble(g, i) = Page!Bubble(f, i)
      OBVIOUS
    <3>1. i \in 1 .. Len(f) /\ i < n
      BY <1>3, <1>6 DEF n
    <3>2. Len(f) \in i .. Len(f) /\ f[Len(f)] \notin Page!Text
      BY <1>6, <2>1, <3>1
    <3> QED
      BY <1>1, <3>1, <3>2, BubbleStays DEF g
  <2>4. Page!Bubble(g, n) = [kind |-> "reply", text |-> {n}]
    BY <1>1, <1>8, BubbleOpens DEF g, n, Page!Text
  <2>5. msgs' = Append(msgs, Line(s, n, "reply", {n})) /\ bubble' = IF kind = "delta" THEN <<s, n>> ELSE None
    BY <1>2, <1>8, FrameWrites DEF Page!Text
  <2>6. PICK r \in Lines : r = Line(s, n, "reply", {n})
    BY <1>2, <1>5
  <2>7. r.by = s /\ r.kind = "reply" /\ r.id[2] = n /\ r.text = {n}
    BY <2>6 DEF Line
  <2>8. Tells(Append(msgs, r), s, g)
    <3>1. [kind |-> r.kind, text |-> r.text] = Page!Bubble(g, n) /\ r.kind \in {"tool", "reply"}
      BY <2>4, <2>7
    <3>2. msgs \in Seq(Lines) /\ n \in Nat /\ Tells(msgs, s, f) /\ r.by = s /\ r.id[2] = n
      BY <1>1, <1>2, <1>4, <2>7
    <3> QED
      BY <2>2, <2>3, <3>1, <3>2, LineTold
  <2>9. kind = "delta" => Goes(g, n)
    BY <1>2, <1>3, <2>2 DEF Goes
  <2>10. IF kind = "delta" THEN bubble' # None /\ n \in Page!Starts(g) /\ bubble' = <<s, n>> /\ Goes(g, n)
         ELSE bubble' = None
    <3>1. <<s, n>> # None
      BY <1>1, <1>2, PageAssumption DEF Page!Streams
    <3> QED
      BY <2>2, <2>5, <2>9, <3>1
  <2>11. Tells(msgs', s, heard'[s])
    BY <1>2, <2>5, <2>6, <2>8
  <2> QED
    BY <1>2, <2>5, <2>10, <2>11
\* A bubble was open, and the text goes on in it.
<1>9. CASE kind \in Page!Text /\ bubble # None
  <2>1. PICK b \in Page!Starts(f) : bubble = <<s, b>> /\ Goes(f, b)
    BY <1>4, <1>9 DEF Open, f
  <2>2. /\ b \in 1 .. Len(f) /\ \A j \in b .. Len(f) : f[j] = "delta"
        /\ Len(f) # 0 /\ f[Len(f)] = "delta"
    BY <1>3, <1>6, <2>1 DEF Goes
  <2>3. Page!Starts(g) = Page!Starts(f)
    BY <1>3, <1>9, <2>2 DEF Page!Text
  <2>4. ASSUME NEW i \in Page!Starts(f) \ {b} PROVE Page!Bubble(g, i) = Page!Bubble(f, i)
    <3>1. i \in 1 .. Len(f)
      BY <1>3
    <3>2. i < b
      <4>1. ASSUME i > b PROVE FALSE
        <5>1. f[i] = "delta" /\ f[i - 1] = "delta" /\ i # 1
          BY <1>6, <2>2, <3>1, <4>1
        <5> QED
          BY <5>1 DEF Page!Starts, Page!Opens, Page!Text
      <4> QED
        BY <2>2, <3>1, <4>1
    <3>3. b \in i + 1 .. Len(f)
      BY <1>6, <2>2, <3>1, <3>2
    <3> QED
      BY <1>1, <2>1, <3>3, BubbleStays DEF g
  <2>5. Page!Bubble(f, b) = [kind |-> "reply", text |-> b .. Len(f)]
    BY <1>1, <2>2, BubbleText
  <2>6. Page!Bubble(g, b) = [kind |-> "reply", text |-> IF kind = "final" THEN {n} ELSE b .. n]
    <3>1. CASE kind = "final"
      BY <1>1, <2>2, <3>1, BubbleText DEF g, n
    <3>2. CASE kind # "final"
      <4>1. b \in 1 .. Len(g) /\ \A j \in b .. Len(g) : g[j] = "delta"
        BY <1>2, <1>3, <1>6, <1>9, <2>2, <3>2 DEF n, Page!Text
      <4> QED
        BY <1>3, <3>2, <4>1, BubbleText
    <3> QED
      BY <3>1, <3>2
  <2>7. msgs' = Patched(bubble, kind, n) /\ bubble' = IF kind = "delta" THEN bubble ELSE None
    BY <1>2, <1>9, FrameWrites DEF Page!Text
  <2>8. DOMAIN msgs' = DOMAIN msgs /\ \A i \in DOMAIN msgs :
          /\ msgs'[i].id = msgs[i].id /\ msgs'[i].by = msgs[i].by /\ msgs'[i].kind = msgs[i].kind
          /\ msgs[i].id # bubble => msgs'[i] = msgs[i]
          /\ msgs[i].id = bubble => msgs'[i].text = (IF kind = "final" THEN {} ELSE msgs[i].text) \cup {n}
    BY <1>1, <1>2, <2>7, PatchedTypes
  <2>9. ASSUME NEW i \in RowsIn(msgs, s)
        PROVE  msgs'[i].text = IF msgs[i].id[2] = b THEN (IF kind = "final" THEN {n} ELSE b .. n)
                               ELSE msgs[i].text
    <3>1. i \in DOMAIN msgs /\ msgs[i].by = s /\ msgs[i].id \in Page!Streams \X Nat /\ msgs[i].id[1] = s
      BY <1>2 DEF RowsIn, PageInv, Numbered
    <3>2. msgs[i].id = bubble <=> msgs[i].id[2] = b
      BY <2>1, <3>1
    <3>3. CASE msgs[i].id[2] = b
      <4>1. msgs[i].text = b .. Len(f)
        <5>1. [kind |-> msgs[i].kind, text |-> msgs[i].text] = Page!Bubble(f, b)
          BY <1>4, <3>3 DEF Tells
        <5> QED
          BY <2>5, <5>1
      <4>2. (b .. Len(f)) \cup {n} = b .. n
        BY <1>6, <2>2 DEF n
      <4> QED
        BY <2>8, <3>1, <3>2, <3>3, <4>1, <4>2
    <3>4. CASE msgs[i].id[2] # b
      BY <2>8, <3>1, <3>2, <3>4
    <3> QED
      BY <3>3, <3>4
  <2>10. Tells(msgs', s, g)
    <3>1. PICK x : x = IF kind = "final" THEN {n} ELSE b .. n
      OBVIOUS
    <3>2. Page!Bubble(g, b) = [kind |-> "reply", text |-> x] /\ Page!Bubble(f, b).kind = "reply"
      BY <2>5, <2>6, <3>1
    <3>3. \A i \in RowsIn(msgs, s) : msgs'[i].text = IF msgs[i].id[2] = b THEN x ELSE msgs[i].text
      BY <2>9, <3>1
    <3>4. /\ Tells(msgs, s, f) /\ DOMAIN msgs' = DOMAIN msgs
          /\ \A i \in DOMAIN msgs : msgs'[i].id = msgs[i].id /\ msgs'[i].by = msgs[i].by
                                    /\ msgs'[i].kind = msgs[i].kind
      BY <1>4, <2>8
    <3> QED
      BY <2>3, <2>4, <3>2, <3>3, <3>4, LineGoesOn
  <2>11. kind = "delta" => Goes(g, b)
    BY <1>2, <1>3, <1>6, <2>1, <2>2, <2>3 DEF Goes, n
  <2>12. IF kind = "delta" THEN bubble' # None /\ b \in Page!Starts(g) /\ bubble' = <<s, b>> /\ Goes(g, b)
         ELSE bubble' = None
    BY <1>9, <2>1, <2>3, <2>7, <2>11
  <2> QED
    BY <1>2, <2>10, <2>12
\* A tool has a line of its own.
<1>10. CASE kind = "tool"
  <2>1. Page!Starts(g) = Page!Starts(f) \cup {n}
    BY <1>3, <1>10
  <2>2. \A i \in Page!Starts(f) : i < n /\ Page!Bubble(g, i) = Page!Bubble(f, i)
    BY <1>1, <1>3, <1>6, <1>10, BubbleStays DEF g, n, Page!Text
  <2>3. Page!Bubble(g, n) = [kind |-> "tool", text |-> {}]
    BY <1>1, <1>10, BubbleOpens DEF g, n
  <2>4. msgs' = Append(msgs, Line(s, n, "tool", {})) /\ bubble' = None
    BY <1>2, <1>10, FrameWrites DEF Page!Text
  <2>5. PICK r \in Lines : r = Line(s, n, "tool", {})
    BY <1>2, <1>5
  <2>6. r.by = s /\ r.kind = "tool" /\ r.id[2] = n /\ r.text = {}
    BY <2>5 DEF Line
  <2> QED
    BY <1>1, <1>2, <1>4, <1>10, <2>1, <2>2, <2>3, <2>4, <2>5, <2>6, LineTold
\* And the rest has none.
<1>11. CASE kind \in {"card", "disconnected", "error"}
  <2>1. Page!Starts(g) = Page!Starts(f)
    BY <1>3, <1>11 DEF Page!Text
  <2>2. \A i \in Page!Starts(f) : Page!Bubble(g, i) = Page!Bubble(f, i)
    BY <1>1, <1>11, BubbleStays DEF g, Page!Text
  <2>3. Tells(msgs, s, g)
    BY <1>4, <2>1, <2>2, NothingSaid
  <2>4. CASE msgs' = msgs /\ bubble' = None
    BY <1>2, <1>11, <2>3, <2>4
  <2>5. CASE msgs' = Append(msgs, Line(s, n, "card", {})) /\ bubble' = None
    <3>1. PICK r \in Lines : r = Line(s, n, "card", {})
      BY <1>2, <1>5
    <3>2. r.kind = "card"
      BY <3>1 DEF Line
    <3> QED
      BY <1>1, <1>2, <1>11, <2>3, <2>5, <3>1, <3>2, LineBeside
  <2> QED
    BY <1>2, <1>11, <2>4, <2>5, FrameWrites DEF Page!Text
<1> QED
  BY <1>8, <1>9, <1>10, <1>11 DEF Frames, Page!Text

-----------------------------------------------------------------------------
\* What a step makes of the place of a stream.
Flow(o) == DOMAIN o = {"at", "of", "over", "cut"} /\ o.of \in Rooms \cup {None}

\* A stream that moves to another place changes nothing else but its own flow.
LEMMA Placed ==
  ASSUME PageTypes, NEW s \in Page!Streams, NEW at, Page!To(s, at)
  PROVE  \E o : /\ stream' = [stream EXCEPT ![s] = o] /\ stream'[s] = o /\ o.at = at /\ Flow(o)
                /\ at # "over" => o.of = stream[s].of
                /\ DOMAIN stream' = DOMAIN stream
                /\ \A t \in Page!Streams \ {s} : stream'[t] = stream[t]
<1>1. DOMAIN stream = Page!Streams /\ DOMAIN stream[s] = {"at", "of", "over", "cut"}
      /\ stream[s].of \in Rooms \cup {None}
  BY DEF PageTypes
<1>2. CASE at = "over"
  <2>1. PICK o : o = [Page!Idle EXCEPT !.at = at] /\ stream' = [stream EXCEPT ![s] = o]
    BY <1>2 DEF Page!To
  <2>2. o.at = at /\ Flow(o)
    BY <2>1 DEF Page!Idle, Flow
  <2> QED
    BY <1>1, <1>2, <2>1, <2>2
<1>3. CASE at # "over"
  <2>1. PICK o : o = [stream[s] EXCEPT !.at = at] /\ stream' = [stream EXCEPT ![s] = o]
    BY <1>3 DEF Page!To
  <2>2. o.at = at /\ o.of = stream[s].of /\ DOMAIN o = {"at", "of", "over", "cut"}
    BY <1>1, <2>1
  <2> QED
    BY <1>1, <2>1, <2>2 DEF Flow
<1> QED
  BY <1>2, <1>3

\* A controller that is aborted leaves the streams where they are.
LEMMA Cut ==
  ASSUME PageTypes, stream' = Page!Aborted(abort)
  PROVE  /\ DOMAIN stream' = Page!Streams
         /\ \A s \in Page!Streams : /\ DOMAIN stream'[s] = {"at", "of", "over", "cut"}
                                    /\ stream'[s].at = stream[s].at /\ stream'[s].of = stream[s].of
                                    /\ stream'[s].over = stream[s].over
BY DEF PageTypes, Page!Aborted

\* The input is closed while the current stream is read, and only then.
LEMMA InputStep == PageTypes /\ Page!InputFollowsStream /\ [Page!BrowserNext]_(Page!browserVars)
                     => Page!InputFollowsStream'
<1> SUFFICES ASSUME PageTypes, Page!InputFollowsStream, Page!BrowserNext PROVE Page!InputFollowsStream'
  BY DEF Page!InputFollowsStream, Page!browserVars
<1> USE DEF Page!InputFollowsStream
<1>0. None \notin Page!Streams /\ DOMAIN stream = Page!Streams
  BY PageAssumption DEF Page!Streams, PageTypes
<1>1. ASSUME NEW s \in Page!Streams, Page!Send(s) PROVE Page!InputFollowsStream'
  <2>1. stream'[s].at = "reading" /\ current' = s /\ busy'
    BY <1>0, <1>1 DEF Page!Send, Page!Idle
  <2> QED
    BY <2>1
<1>2. ASSUME NEW s \in Page!Streams, Page!Frame(s) PROVE Page!InputFollowsStream'
  <2>1. /\ UNCHANGED <<current, busy>>
        /\ \E kind \in {"delta", "tool"} \cup Page!Terminal :
             stream' = [stream EXCEPT ![s].over = kind \in Page!Terminal]
    BY <1>2 DEF Page!Frame
  <2>2. \A t \in Page!Streams : stream'[t].at = stream[t].at
    BY <1>0, <2>1 DEF PageTypes
  <2> QED
    BY <2>1, <2>2
<1>3. ASSUME NEW s \in Page!Streams, NEW broke, Page!Ended(s, broke), UNCHANGED current,
             stream[s].at = "reading"
      PROVE  Page!InputFollowsStream'
  <2>1. PICK at \in {"resuming", "over"} : Page!To(s, at)
    BY <1>3 DEF Page!Ended
  <2>2. stream'[s].at = at /\ \A t \in Page!Streams \ {s} : stream'[t] = stream[t]
    BY <2>1, Placed
  <2>3. current = s => ~busy'
    BY <1>3 DEF Page!Ended
  <2>4. current # s => busy' = busy
    BY <1>3 DEF Page!Ended
  <2> QED
    BY <1>3, <2>1, <2>2, <2>3, <2>4
<1>4. ASSUME NEW s \in Page!Streams, Page!Close(s) PROVE Page!InputFollowsStream'
  BY <1>3, <1>4 DEF Page!Close
<1>5. ASSUME NEW s \in Page!Streams, Page!Resume(s) PROVE Page!InputFollowsStream'
  <2>1. Page!To(s, "over") /\ stream[s].at = "resuming" /\ UNCHANGED current
        /\ busy' = (busy /\ current # s)
    BY <1>5 DEF Page!Resume
  <2>2. stream'[s].at = "over" /\ \A t \in Page!Streams \ {s} : stream'[t] = stream[t]
    BY <2>1, Placed
  <2> QED
    BY <2>1, <2>2
<1>6. CASE Page!Stop
  BY <1>0, <1>6 DEF Page!Stop
<1>7. ASSUME \/ Page!Switch \/ Page!Refresh
             \/ \E i \in DOMAIN msgs : Page!Decide(i)
             \/ \E d \in decisions : Page!Decided(d)
      PROVE  Page!InputFollowsStream'
  <2>1. UNCHANGED <<busy, stream, current>>
    BY <1>7 DEF Page!Switch, Page!Refresh, Page!Decide, Page!Decided
  <2> QED
    BY <2>1
<1>8. CASE Page!Effects
  BY <1>0, <1>8 DEF Page!Effects
<1>9. CASE Page!Mounted \/ \E r \in Rooms : Page!Reloaded(r)
  BY <1>9 DEF Page!Mounted, Page!Reloaded
<1> QED
  BY <1>1, <1>2, <1>4, <1>5, <1>6, <1>7, <1>8, <1>9 DEF Page!BrowserNext

\* A stream brings something, and is left in another place.
LEMMA Brought ==
  ASSUME PageInv, NEW s \in Page!Streams, stream[s].at \in {"reading", "resuming"},
         ~(stream[s].at = "reading" /\ stream[s].over),
         NEW kind \in Frames, Page!Hear(s, kind),
         NEW o, stream'[s] = o, Flow(o), o.at # "idle", DOMAIN stream' = Page!Streams,
         \A t \in Page!Streams \ {s} : stream'[t] = stream[t],
         o.at \in {"reading", "resuming"} => o.of = stream[s].of,
         kind = "final" => o.at = "over" \/ (o.at = "reading" /\ o.over),
         abort' \in Page!Streams \cup {None},
         UNCHANGED <<run, due, current, mount, reloads, decisions, crossed, intact>>
  PROVE  PageTypes' /\ Numbered' /\ InPlace' /\ Speaks' /\ Page!ToldInOrder'
<1>0. PageTypes /\ Numbered /\ InPlace /\ Speaks
  BY DEF PageInv
<1>1. CASE current # s
  <2>1. UNCHANGED <<msgs, bubble, heard>>
    BY <1>1 DEF Page!Hear, Page!view
  <2>2. PageTypes'
    BY <1>0, <2>1 DEF PageTypes, Flow
  <2>3. Numbered'
    BY <1>0, <2>1 DEF Numbered
  <2>4. InPlace'
    BY <1>0, <1>1, <2>1 DEF InPlace, Left, Listening
  <2>5. Speaks'
    BY <1>0, <1>1, <2>1 DEF Speaks, Listening, Open, PageTypes
  <2>6. Page!ToldInOrder'
    BY <2>1 DEF PageInv, Page!ToldInOrder, Page!Rows
  <2> QED
    BY <2>2, <2>3, <2>4, <2>5, <2>6
<1>2. CASE current = s
  <2>0. s # None /\ Listening(s)
    BY <1>2, PageAssumption DEF Page!Streams, Listening
  <2>1. /\ heard' \in [Page!Streams -> Seq(Frames)]
        /\ \A t \in Page!Streams \ {s} : heard'[t] = heard[t]
        /\ Len(heard'[s]) = Len(heard[s]) + 1 /\ heard'[s][Len(heard'[s])] = kind
    BY <1>2, HeardTypes
  <2>2. /\ msgs' \in Seq(Lines) /\ bubble' \in {None} \cup (Page!Streams \X Nat)
        /\ \A i \in DOMAIN msgs' :
             \/ msgs'[i].by = s /\ msgs'[i].of = stream[s].of
             \/ \E j \in DOMAIN msgs : msgs'[i].by = msgs[j].by /\ msgs'[i].of = msgs[j].of
    BY <1>2, HeardLines
  <2>3. PageTypes'
    BY <1>0, <2>1, <2>2 DEF PageTypes, Flow
  <2>4. Numbered'
    <3>1. ASSUME NEW t \in Page!Streams, stream'[t].at = "idle"
          PROVE  heard'[t] = <<>> /\ \A i \in DOMAIN msgs' : msgs'[i].by # t
      <4>1. t # s /\ stream[t].at = "idle"
        BY <3>1
      <4>2. heard[t] = <<>> /\ \A i \in DOMAIN msgs : msgs[i].by # t
        BY <1>0, <4>1 DEF Numbered
      <4> QED
        BY <2>1, <2>2, <4>1, <4>2
    <3> QED
      BY <1>2, <3>1, HeardNumbers DEF Numbered
  <2>5. InPlace'
    <3>1. ASSUME "switch" \notin due, NEW i \in DOMAIN msgs'
          PROVE  msgs'[i].of = run \/ (msgs'[i].by = None /\ msgs'[i].of \in crossed)
      BY <1>0, <2>0, <2>2, <3>1 DEF InPlace
    <3>2. ASSUME "switch" \notin due, NEW t \in Page!Streams, Listening(t)' PROVE stream'[t].of = run
      BY <1>0, <1>2, <2>0, <3>2 DEF InPlace, Listening
    <3> QED
      BY <1>0, <3>1, <3>2 DEF InPlace, Left
  <2>6. intact # {} => s \in intact
    BY <1>0, <1>2, <2>0 DEF Speaks
  <2>7. ASSUME s \in intact
        PROVE  Tells(msgs', s, heard'[s])
               /\ IF bubble' = None THEN kind # "delta"
                  ELSE \E b \in Page!Starts(heard'[s]) : bubble' = <<s, b>> /\ Goes(heard'[s], b)
    BY <2>0, <2>7, HeardTells
  <2>8. Page!ToldInOrder'
    <3>1. s \in intact => Open(s)
      BY <1>0, <2>0 DEF Speaks
    <3>2. s \in intact => bubble = None \/ \E b \in Nat : bubble = <<s, b>>
      BY <1>0, <3>1 DEF Open, PageTypes
    <3>3. \A t \in intact : Tells(msgs', t, heard'[t])
      BY <1>2, <2>6, <2>7, <3>2, OthersTold
    <3> QED
      BY <3>3 DEF Page!ToldInOrder, Page!Rows, Tells, RowsIn
  <2>9. Speaks'
    <3>1. \A t \in intact : stream'[t].at # "idle"
      BY <1>0 DEF Speaks, PageTypes
    <3>2. ASSUME s \in intact, Listening(s)' PROVE Open(s)'
      <4>1. o.at \in {"reading", "resuming"}
        BY <3>2 DEF Listening
      <4>2. heard'[s] # <<>>
        BY <1>0, <2>1 DEF PageTypes
      <4>3. CASE bubble' = None
        BY <2>1, <2>7, <3>2, <4>1, <4>3 DEF Open, Page!Text
      <4>4. CASE bubble' # None
        BY <2>7, <3>2, <4>2, <4>4 DEF Open
      <4> QED
        BY <4>3, <4>4
    <3>3. \A t \in Page!Streams : Listening(t)' => t = s
      BY <1>2 DEF Listening
    <3> QED
      BY <1>0, <3>1, <3>2, <3>3 DEF Speaks, PageTypes
  <2> QED
    BY <2>3, <2>4, <2>5, <2>8, <2>9
<1> QED
  BY <1>1, <1>2

\* A stream is over without a word.
LEMMA Silent ==
  ASSUME PageInv, NEW s \in Page!Streams, NEW o, stream'[s] = o, Flow(o), o.at = "over",
         stream[s].at # "idle", DOMAIN stream' = Page!Streams,
         \A t \in Page!Streams \ {s} : stream'[t] = stream[t],
         abort' \in Page!Streams \cup {None},
         UNCHANGED <<run, due, current, mount, reloads, decisions, crossed, intact, msgs, bubble, heard>>
  PROVE  PageTypes' /\ Numbered' /\ InPlace' /\ Speaks' /\ Page!ToldInOrder'
<1>0. PageTypes /\ Numbered /\ InPlace /\ Speaks
  BY DEF PageInv
<1>1. PageTypes'
  BY <1>0 DEF PageTypes, Flow
<1>2. Numbered'
  BY <1>0 DEF Numbered
<1>3. \A t \in Page!Streams : Listening(t)' => t # s /\ Listening(t)
  BY DEF Listening
<1>4. InPlace'
  BY <1>0, <1>3 DEF InPlace, Left
<1>5. Speaks'
  BY <1>0, <1>3 DEF Speaks, Open, PageTypes
<1> QED
  BY <1>1, <1>2, <1>4, <1>5 DEF PageInv, Page!ToldInOrder, Page!Rows

\* The list is replaced, or emptied: nothing is promised of it any more.
LEMMA Replaced ==
  ASSUME PageInv, intact' = {},
         NEW R \in SUBSET Rooms, msgs' \in {<<>>} \cup {Page!History(r) : r \in R},
         "switch" \notin due' => \A r \in R : r = run \/ r \in crossed,
         bubble' \in {bubble, None}, current' \in {current, None}, abort' \in {abort, None},
         mount' \in Rooms \cup {None}, "switch" \notin due' => mount' \in {None, run},
         reloads' \subseteq reloads \cup {run}, due' = {} \/ due' = due,
         due' = due \/ "switch" \notin due \/ current' = None,
         UNCHANGED <<run, heard, decisions, crossed>>,
         DOMAIN stream' = Page!Streams,
         \A s \in Page!Streams : /\ DOMAIN stream'[s] = {"at", "of", "over", "cut"}
                                 /\ stream'[s].at = stream[s].at /\ stream'[s].of = stream[s].of
  PROVE  PageTypes' /\ Numbered' /\ InPlace' /\ Speaks' /\ Page!ToldInOrder'
<1>0. PageTypes /\ Numbered /\ InPlace /\ Speaks
  BY DEF PageInv
<1>1. /\ msgs' \in Seq(Lines)
      /\ \A i \in DOMAIN msgs' : msgs'[i].by = None /\ msgs'[i].id = None /\ msgs'[i].of \in R
  <2>1. CASE msgs' = <<>>
    BY <2>1
  <2>2. ASSUME NEW r \in R, msgs' = Page!History(r)
        PROVE  /\ msgs' \in Seq(Lines)
               /\ \A i \in DOMAIN msgs' : msgs'[i].by = None /\ msgs'[i].id = None /\ msgs'[i].of \in R
    <3>1. PICK l : l = [id |-> None, of |-> r, by |-> None, kind |-> "reply", text |-> {}] /\ msgs' = <<l>>
      BY <2>2 DEF Page!History, Page!Row
    <3>2. l \in Lines /\ l.by = None /\ l.id = None /\ l.of = r
      BY <3>1 DEF Lines, LineKinds
    <3> QED
      BY <3>1, <3>2
  <2> QED
    BY <2>1, <2>2
<1>2. PageTypes'
  BY <1>0, <1>1 DEF PageTypes
<1>3. Numbered'
  <2>1. None \notin Page!Streams
    BY PageAssumption DEF Page!Streams
  <2> QED
    BY <1>0, <1>1, <2>1 DEF Numbered
<1>4. InPlace'
  <2>1. ASSUME NEW s \in Page!Streams, Listening(s)', "switch" \notin due' PROVE stream'[s].of = run
    <3>1. s # None
      BY PageAssumption DEF Page!Streams
    <3> QED
      BY <1>0, <2>1, <3>1 DEF InPlace, Listening
  <2>2. Left'
    BY <1>0 DEF InPlace, Left
  <2> QED
    BY <1>1, <2>1, <2>2 DEF InPlace
<1> QED
  BY <1>2, <1>3, <1>4 DEF Speaks, Page!ToldInOrder

\* Something else on the page happens: who is listened to may be nobody any more.
LEMMA Elsewhere ==
  ASSUME PageInv, UNCHANGED <<msgs, bubble, heard, intact>>,
         current' \in {current, None}, abort' \in {abort, None},
         mount' \in Rooms \cup {None}, reloads' \subseteq Rooms, run' \in Rooms, decisions' \subseteq Outs,
         Left', crossed \subseteq crossed', mount' \in {mount, None},
         run' = run \/ "switch" \in due', "switch" \in due => "switch" \in due',
         DOMAIN stream' = Page!Streams,
         \A s \in Page!Streams : /\ DOMAIN stream'[s] = {"at", "of", "over", "cut"}
                                 /\ stream'[s].at = stream[s].at /\ stream'[s].of = stream[s].of
                                 /\ stream'[s].over = stream[s].over
  PROVE  PageTypes' /\ Numbered' /\ InPlace' /\ Speaks' /\ Page!ToldInOrder'
<1>0. PageTypes /\ Numbered /\ InPlace /\ Speaks
  BY DEF PageInv
<1>1. PageTypes'
  BY <1>0 DEF PageTypes
<1>2. Numbered'
  BY <1>0 DEF Numbered
<1>3. \A s \in Page!Streams : Listening(s)' => Listening(s)
  BY PageAssumption DEF Page!Streams, Listening
<1>4. InPlace'
  BY <1>0, <1>3 DEF InPlace
<1>5. Speaks'
  BY <1>0, <1>3 DEF Speaks, Open, PageTypes
<1> QED
  BY <1>1, <1>2, <1>4, <1>5 DEF PageInv, Page!ToldInOrder, Page!Rows

\* A message is sent.
LEMMA Sent ==
  ASSUME PageInv, NEW s \in Page!Streams, Page!Send(s)
  PROVE  PageTypes' /\ Numbered' /\ InPlace' /\ Speaks' /\ Page!ToldInOrder'
<1>0. PageTypes /\ Numbered /\ InPlace /\ Speaks /\ msgs \in Seq(Lines)
  BY DEF PageInv, PageTypes
<1>1. PICK o, l :
        /\ o = [Page!Idle EXCEPT !.at = "reading", !.of = run] /\ stream' = [stream EXCEPT ![s] = o]
        /\ l = [id |-> <<s, 0>>, of |-> run, by |-> s, kind |-> "user", text |-> {}]
        /\ msgs' = Append(msgs, l)
  BY DEF Page!Send, Page!Row
<1>2. /\ stream[s].at = "idle" /\ due = {} /\ abort' = s /\ current' = s /\ bubble' = bubble
      /\ intact' = (IF bubble = None THEN intact \cup {s} ELSE {})
      /\ UNCHANGED <<run, due, mount, reloads, decisions, crossed, heard>>
  BY DEF Page!Send, Page!loads
<1>3. Flow(o) /\ o.at = "reading" /\ o.of = run
  BY <1>0, <1>1 DEF Page!Idle, Flow, PageTypes
<1>4. stream'[s] = o /\ DOMAIN stream' = Page!Streams /\ \A t \in Page!Streams \ {s} : stream'[t] = stream[t]
  BY <1>0, <1>1 DEF PageTypes
<1>5. l \in Lines /\ l.by = s /\ l.of = run /\ l.id = <<s, 0>> /\ l.kind = "user"
  BY <1>0, <1>1 DEF PageTypes, Lines, LineKinds
<1>6. /\ msgs' \in Seq(Lines)
      /\ \A i \in DOMAIN msgs' : msgs'[i] = l \/ \E j \in DOMAIN msgs : msgs'[i] = msgs[j]
  BY <1>0, <1>1, <1>5
<1>7. heard[s] = <<>> /\ \A i \in DOMAIN msgs : msgs[i].by # s
  BY <1>0, <1>2 DEF Numbered
<1>8. PageTypes'
  BY <1>0, <1>2, <1>3, <1>4, <1>6 DEF PageTypes, Flow
<1>9. Numbered'
  <2>1. ASSUME NEW i \in DOMAIN msgs'
        PROVE  IF msgs'[i].by = None THEN msgs'[i].id = None
               ELSE msgs'[i].id[1] = msgs'[i].by /\ msgs'[i].id[2] \in 0 .. Len(heard'[msgs'[i].by])
                    /\ msgs'[i].id \in Page!Streams \X Nat
    <3>1. CASE msgs'[i] = l
      <4>1. s # None /\ Len(heard'[s]) = 0
        BY <1>2, <1>7, PageAssumption DEF Page!Streams
      <4>2. msgs'[i].by = s /\ msgs'[i].id = <<s, 0>>
        BY <1>5, <3>1
      <4>3. 0 \in 0 .. Len(heard'[s]) /\ <<s, 0>> \in Page!Streams \X Nat
        BY <4>1
      <4> QED
        BY <4>1, <4>2, <4>3
    <3>2. CASE \E j \in DOMAIN msgs : msgs'[i] = msgs[j]
      BY <1>0, <1>2, <3>2 DEF Numbered
    <3> QED
      BY <1>6, <3>1, <3>2
  <2>2. ASSUME NEW t \in Page!Streams, stream'[t].at = "idle"
        PROVE  heard'[t] = <<>> /\ \A i \in DOMAIN msgs' : msgs'[i].by # t
    <3>1. t # s /\ stream[t].at = "idle"
      BY <1>3, <1>4, <2>2
    <3> QED
      BY <1>0, <1>2, <1>5, <1>6, <3>1 DEF Numbered
  <2> QED
    BY <2>1, <2>2 DEF Numbered
<1>10. InPlace'
  BY <1>0, <1>2, <1>3, <1>4, <1>5, <1>6 DEF InPlace, Left, Listening
<1>11. Speaks'
  <2>1. \A t \in Page!Streams : Listening(t)' => t = s
    BY <1>2 DEF Listening
  <2>2. bubble = None => Open(s)'
    BY <1>2, <1>7 DEF Open
  <2> QED
    BY <1>0, <1>2, <1>3, <1>4, <2>1, <2>2 DEF Speaks, PageTypes
<1>12. Page!ToldInOrder'
  <2>1. ASSUME NEW t \in intact PROVE Tells(msgs', t, heard'[t])
    BY <1>0, <1>1, <1>2, <1>5, <2>1, TellsAll, LineBeside DEF PageInv
  <2>2. Tells(msgs', s, heard'[s])
    <3>1. RowsIn(msgs', s) = {}
      BY <1>5, <1>6, <1>7 DEF RowsIn
    <3>2. Page!Starts(<<>>) = {}
      BY DEF Page!Starts
    <3> QED
      BY <1>2, <1>7, <3>1, <3>2 DEF Tells
  <2> QED
    BY <1>2, <2>1, <2>2 DEF Page!ToldInOrder, Page!Rows, Tells, RowsIn
<1> QED
  BY <1>8, <1>9, <1>10, <1>11, <1>12

\* Cards that are taken away leave the other lines alone, and every line its number and place.
LEMMA TakenAway ==
  ASSUME PageTypes, NEW cards
  PROVE  LET w == Page!Without(cards) IN
         /\ w \in Seq(Lines) /\ DOMAIN w = DOMAIN msgs
         /\ \A i \in DOMAIN msgs :
              /\ w[i].id = msgs[i].id /\ w[i].of = msgs[i].of /\ w[i].by = msgs[i].by
              /\ w[i].text = msgs[i].text
              /\ w[i] = msgs[i] \/ (msgs[i].kind = "card" /\ w[i].kind = "gone")
<1> DEFINE w == Page!Without(cards)
<1>1. msgs \in Seq(Lines) /\ DOMAIN msgs = 1 .. Len(msgs) /\ Len(msgs) \in Nat
      /\ \A i \in DOMAIN msgs : msgs[i] \in Lines
  BY DEF PageTypes
<1>2. ASSUME NEW i \in DOMAIN msgs
      PROVE  /\ w[i] \in Lines /\ w[i].id = msgs[i].id /\ w[i].of = msgs[i].of
             /\ w[i].by = msgs[i].by /\ w[i].text = msgs[i].text
             /\ w[i] = msgs[i] \/ (msgs[i].kind = "card" /\ w[i].kind = "gone")
  <2>1. msgs[i] \in Lines
    BY <1>1
  <2>2. w[i] = msgs[i] \/ (msgs[i].kind = "card" /\ w[i] = [msgs[i] EXCEPT !.kind = "gone"])
    BY DEF Page!Without
  <2> HIDE DEF w
  <2> QED
    BY <2>1, <2>2 DEF Lines, LineKinds
<1>3. DOMAIN w = DOMAIN msgs /\ w = [i \in 1 .. Len(msgs) |-> w[i]]
  BY <1>1 DEF Page!Without
<1> HIDE DEF w
<1>4. w \in Seq(Lines)
  BY <1>1, <1>2, <1>3
<1> QED
  BY <1>2, <1>3, <1>4 DEF w

\* The reply to a decision comes, to whichever conversation is shown by then.
LEMMA Answered ==
  ASSUME PageInv, NEW d \in decisions, Page!Decided(d)
  PROVE  PageTypes' /\ Numbered' /\ InPlace' /\ Speaks' /\ Page!ToldInOrder'
<1>0. PageTypes /\ Numbered /\ InPlace /\ Speaks /\ msgs \in Seq(Lines)
  BY DEF PageInv, PageTypes
<1>1. /\ decisions' = decisions \ {d} /\ ("switch" \in due <=> "switch" \in due')
      /\ UNCHANGED <<run, current, abort, bubble, stream, mount, reloads, heard, intact, crossed>>
  BY DEF Page!Decided, Page!ghosts
<1>2. d.of \in Rooms /\ (d.of = run \/ d.of \in crossed)
  BY <1>0 DEF PageTypes, Outs, InPlace, Left
<1>3. PICK a : a = [id |-> None, of |-> d.of, by |-> None, kind |-> "answer", text |-> {}]
  OBVIOUS
<1>4. a \in Lines /\ a.by = None /\ a.id = None /\ a.of = d.of /\ a.kind = "answer"
  BY <1>2, <1>3 DEF Lines, LineKinds
<1> DEFINE Kept(i, j) == /\ msgs'[i].id = msgs[j].id /\ msgs'[i].of = msgs[j].of
                         /\ msgs'[i].by = msgs[j].by /\ msgs'[i].text = msgs[j].text
                         /\ msgs'[i] = msgs[j] \/ (msgs[j].kind = "card" /\ msgs'[i].kind = "gone")
<1>5. /\ msgs' \in Seq(Lines) /\ DOMAIN msgs \subseteq DOMAIN msgs'
      /\ \A i \in DOMAIN msgs : Kept(i, i)
      /\ \A i \in DOMAIN msgs' : i \in DOMAIN msgs \/ msgs'[i] = a
  <2>1. ASSUME NEW cards, NEW w, w = Page!Without(cards), msgs' = w \/ msgs' = Append(w, a)
        PROVE  /\ msgs' \in Seq(Lines) /\ DOMAIN msgs \subseteq DOMAIN msgs'
               /\ \A i \in DOMAIN msgs : Kept(i, i)
               /\ \A i \in DOMAIN msgs' : i \in DOMAIN msgs \/ msgs'[i] = a
    <3>1. /\ w \in Seq(Lines) /\ DOMAIN w = DOMAIN msgs
          /\ \A i \in DOMAIN msgs :
               /\ w[i].id = msgs[i].id /\ w[i].of = msgs[i].of /\ w[i].by = msgs[i].by
               /\ w[i].text = msgs[i].text
               /\ w[i] = msgs[i] \/ (msgs[i].kind = "card" /\ w[i].kind = "gone")
      BY <1>0, <2>1, TakenAway
    <3>2. /\ msgs' \in Seq(Lines) /\ DOMAIN w \subseteq DOMAIN msgs'
          /\ \A i \in DOMAIN w : msgs'[i] = w[i]
          /\ \A i \in DOMAIN msgs' : i \in DOMAIN w \/ msgs'[i] = a
      BY <1>4, <2>1, <3>1
    <3> QED
      BY <3>1, <3>2
  <2>2. CASE UNCHANGED msgs
    BY <1>0, <2>2
  <2> QED
    BY <1>3, <2>1, <2>2 DEF Page!Decided, Page!Row
<1> HIDE DEF Kept
<1>6. PageTypes'
  BY <1>0, <1>1, <1>5 DEF PageTypes
<1>7. Numbered'
  <2>1. None \notin Page!Streams
    BY PageAssumption DEF Page!Streams
  <2>2. ASSUME NEW i \in DOMAIN msgs'
        PROVE  \/ msgs'[i].by = None /\ msgs'[i].id = None
               \/ i \in DOMAIN msgs /\ msgs'[i].by = msgs[i].by /\ msgs'[i].id = msgs[i].id
    BY <1>4, <1>5 DEF Kept
  <2> QED
    BY <1>0, <1>1, <2>1, <2>2 DEF Numbered
<1>8. InPlace'
  <2>1. Left'
    BY <1>0, <1>1 DEF InPlace, Left
  <2>2. ASSUME "switch" \notin due', NEW i \in DOMAIN msgs'
        PROVE  msgs'[i].of = run \/ (msgs'[i].by = None /\ msgs'[i].of \in crossed)
    BY <1>0, <1>1, <1>2, <1>4, <1>5, <2>2 DEF InPlace, Kept
  <2> QED
    BY <1>0, <1>1, <2>1, <2>2 DEF InPlace, Listening
<1>9. Speaks'
  BY <1>0, <1>1 DEF Speaks, Listening, Open
<1>10. Page!ToldInOrder'
  <2>1. ASSUME NEW s \in intact PROVE Tells(msgs', s, heard[s])
    <3>1. s # None
      BY <1>0, <2>1, PageAssumption DEF PageTypes, Page!Streams
    <3>2. RowsIn(msgs', s) = RowsIn(msgs, s) /\ \A i \in RowsIn(msgs, s) : msgs'[i] = msgs[i]
      BY <1>4, <1>5, <3>1 DEF RowsIn, Kept
    <3>3. {msgs'[i].id[2] : i \in RowsIn(msgs', s)} = {msgs[i].id[2] : i \in RowsIn(msgs, s)}
      BY <3>2
    <3>4. Tells(msgs, s, heard[s])
      BY <2>1, TellsAll DEF PageInv
    <3> QED
      BY <3>2, <3>3, <3>4 DEF Tells
  <2> QED
    BY <1>1, <2>1 DEF Page!ToldInOrder, Page!Rows, Tells, RowsIn
<1> QED
  BY <1>6, <1>7, <1>8, <1>9, <1>10

\* Every step of the page keeps its invariant.
LEMMA PageStep == PageInv /\ [Page!BrowserNext]_(Page!browserVars) => PageInv'
<1> SUFFICES ASSUME PageInv, [Page!BrowserNext]_(Page!browserVars)
             PROVE  PageTypes' /\ Numbered' /\ InPlace' /\ Speaks' /\ Page!ToldInOrder'
  BY InputStep DEF PageInv
<1>0. /\ PageTypes /\ DOMAIN stream = Page!Streams /\ abort \in Page!Streams \cup {None}
      /\ \A s \in Page!Streams : DOMAIN stream[s] = {"at", "of", "over", "cut"}
      /\ run \in Rooms /\ mount \in Rooms \cup {None} /\ reloads \subseteq Rooms
      /\ decisions \subseteq Outs /\ InPlace /\ Left
  BY DEF PageInv, PageTypes, InPlace
<1> DEFINE Goal == PageTypes' /\ Numbered' /\ InPlace' /\ Speaks' /\ Page!ToldInOrder'
<1> HIDE DEF Goal
<1>1. ASSUME NEW s \in Page!Streams, Page!Send(s) PROVE Goal
  BY <1>1, Sent DEF Goal
<1>2. ASSUME NEW s \in Page!Streams, Page!Frame(s) PROVE Goal
  <2>1. PICK kind \in {"delta", "tool"} \cup Page!Terminal :
          Page!Hear(s, kind) /\ stream' = [stream EXCEPT ![s].over = kind \in Page!Terminal]
    BY <1>2 DEF Page!Frame
  <2>2. /\ stream[s].at = "reading" /\ ~stream[s].over
        /\ UNCHANGED <<run, due, current, abort, mount, reloads, decisions, crossed, intact>>
    BY <1>2 DEF Page!Frame, Page!loads
  <2>3. /\ DOMAIN stream' = Page!Streams /\ \A t \in Page!Streams \ {s} : stream'[t] = stream[t]
        /\ stream'[s].at = "reading" /\ stream'[s].of = stream[s].of /\ Flow(stream'[s])
        /\ kind = "final" => stream'[s].over
    BY <1>0, <2>1, <2>2 DEF Flow, PageTypes, Page!Terminal
  <2>4. kind \in Frames
    BY DEF Page!Terminal, Frames
  <2> QED
    BY <1>0, <2>1, <2>2, <2>3, <2>4, Brought DEF Goal
<1>3. ASSUME NEW s \in Page!Streams, Page!Close(s) PROVE Goal
  <2>1. /\ stream[s].at = "reading"
        /\ UNCHANGED <<run, due, current, mount, reloads, decisions, crossed, intact>>
    BY <1>3 DEF Page!Close, Page!loads
  <2>2. \A broke : Page!Ended(s, broke) =>
          /\ abort' \in Page!Streams \cup {None}
          /\ \E at \in {"resuming", "over"} : Page!To(s, at) /\ (broke = FALSE => at = "over")
    BY <1>0 DEF Page!Ended
  <2>3. CASE Page!Ended(s, FALSE) /\ UNCHANGED <<msgs, bubble, heard>>
    <3>1. Page!To(s, "over") /\ abort' \in Page!Streams \cup {None}
      BY <2>2, <2>3
    <3> QED
      BY <1>0, <2>1, <2>3, <3>1, Placed, Silent DEF Goal
  <2>4. ASSUME ~stream[s].over, NEW kind \in {"disconnected", "error"}, Page!Hear(s, kind),
               NEW broke, Page!Ended(s, broke)
        PROVE  Goal
    <3>1. PICK at \in {"resuming", "over"} : Page!To(s, at) /\ abort' \in Page!Streams \cup {None}
      BY <2>2, <2>4
    <3>2. kind \in Frames /\ kind # "final"
      BY DEF Frames
    <3> QED
      BY <1>0, <2>1, <2>4, <3>1, <3>2, Placed, Brought DEF Goal
  <2> QED
    BY <1>3, <2>3, <2>4 DEF Page!Close, Page!view
<1>4. ASSUME NEW s \in Page!Streams, Page!Resume(s) PROVE Goal
  <2>1. /\ stream[s].at = "resuming" /\ Page!To(s, "over") /\ abort' \in Page!Streams \cup {None}
        /\ UNCHANGED <<run, due, current, mount, reloads, decisions, crossed, intact>>
    BY <1>0, <1>4 DEF Page!Resume, Page!loads
  <2>2. CASE UNCHANGED <<msgs, bubble, heard>>
    BY <1>0, <2>1, <2>2, Placed, Silent DEF Goal
  <2>3. ASSUME NEW kind \in Page!Terminal, Page!Hear(s, kind) PROVE Goal
    <3>1. kind \in Frames
      BY DEF Frames, Page!Terminal
    <3> QED
      BY <1>0, <2>1, <2>3, <3>1, Placed, Brought DEF Goal
  <2> QED
    BY <1>4, <2>2, <2>3 DEF Page!Resume, Page!view
<1>5. CASE Page!Stop
  BY <1>0, <1>5, Cut, Elsewhere DEF Goal, Left, Page!Stop, Page!view, Page!loads, Page!ghosts
<1>6. CASE Page!Switch \/ Page!Refresh
  <2>1. Left' /\ crossed \subseteq crossed' /\ UNCHANGED <<mount, reloads, decisions>>
    BY <1>0, <1>6 DEF Left, Page!Switch, Page!Refresh, Page!Shows, Page!loads
  <2> QED
    BY <1>0, <1>6, <2>1, Elsewhere
       DEF Goal, Page!Switch, Page!Refresh, Page!Shows, Page!view, Page!loads, Page!ghosts
<1>7. CASE Page!Effects
  <2>1. /\ reloads' \subseteq reloads \cup {run} /\ due' = {}
        /\ UNCHANGED <<run, heard, decisions, crossed>>
    BY <1>0, <1>7 DEF Page!Effects, Page!Reloading
  <2>2. CASE "switch" \in due
    <3>1. /\ current' = None /\ stream' = Page!Aborted(abort) /\ abort' = None
          /\ msgs' = <<>> /\ bubble' = None /\ mount' = run /\ intact' = {}
      BY <1>7, <2>2 DEF Page!Effects
    <3> QED
      BY <1>0, <2>1, <3>1, Cut, Replaced DEF Goal
  <2>3. CASE "switch" \notin due
    <3>1. UNCHANGED <<current, stream, abort, msgs, bubble, mount, intact>> /\ Left'
      BY <1>0, <1>7, <2>1, <2>3 DEF Page!Effects, Left
    <3> QED
      BY <1>0, <2>1, <2>3, <3>1, Elsewhere DEF Goal
  <2> QED
    BY <2>2, <2>3
<1>8. ASSUME Page!Mounted \/ \E r \in Rooms : Page!Reloaded(r) PROVE Goal
  <2>1. /\ UNCHANGED <<run, due, current, abort, bubble, stream, heard, decisions, crossed>>
        /\ mount' \in {mount, None} /\ reloads' \subseteq reloads
        /\ \/ UNCHANGED <<msgs, intact>>
           \/ /\ intact' = {}
              /\ \E r \in Rooms : msgs' = Page!History(r) /\ r \in ({mount} \ {None}) \cup reloads
    BY <1>0, <1>8 DEF Page!Mounted, Page!Reloaded
  <2>2. Left' /\ ("switch" \notin due' => mount' \in {None, run})
    BY <1>0, <2>1 DEF Left, InPlace
  <2>3. CASE UNCHANGED <<msgs, intact>>
    BY <1>0, <2>1, <2>2, <2>3, Elsewhere DEF Goal
  <2>4. ASSUME intact' = {}, NEW r \in Rooms, msgs' = Page!History(r),
               r \in ({mount} \ {None}) \cup reloads
        PROVE  Goal
    <3>1. "switch" \notin due' => r = run \/ r \in crossed
      BY <1>0, <1>8, <2>1, <2>4 DEF InPlace, Left
    <3>2. msgs' \in {<<>>} \cup {Page!History(q) : q \in {r}} /\ {r} \in SUBSET Rooms
      BY <2>4
    <3>3. "switch" \notin due' => \A q \in {r} : q = run \/ q \in crossed
      BY <3>1
    <3> QED
      BY <1>0, <2>1, <2>2, <2>4, <3>2, <3>3, Replaced DEF Goal
  <2> QED
    BY <2>1, <2>3, <2>4
<1>9. CASE UNCHANGED Page!browserVars
  BY <1>0, <1>9, Elsewhere DEF Goal, Left, Page!browserVars
<1>10. ASSUME NEW i \in DOMAIN msgs, Page!Decide(i) PROVE Goal
  <2>1. msgs[i] \in Lines
    BY <1>0 DEF PageTypes
  <2>2. PICK d : d = [card |-> msgs[i].id, of |-> run] /\ decisions' = decisions \cup {d}
    BY <1>10 DEF Page!Decide
  <2>3. d \in Outs /\ d.of = run
    BY <1>0, <2>1, <2>2 DEF Outs, Lines
  <2>4. /\ UNCHANGED <<run, due, current, abort, busy, msgs, bubble, stream, mount, reloads, heard>>
        /\ UNCHANGED <<intact, crossed>>
    BY <1>10 DEF Page!Decide, Page!view, Page!ghosts
  <2>5. Left'
    BY <1>0, <2>2, <2>3, <2>4 DEF Left
  <2> QED
    BY <1>0, <2>2, <2>3, <2>4, <2>5, Elsewhere DEF Goal
<1>11. ASSUME NEW d \in decisions, Page!Decided(d) PROVE Goal
  BY <1>11, Answered DEF Goal
<1> QED
  BY <1>1, <1>2, <1>3, <1>4, <1>5, <1>6, <1>7, <1>8, <1>9, <1>10, <1>11 DEF Goal, Page!BrowserNext

-----------------------------------------------------------------------------
\* A step of the other parts is none of the page's or its panels'.
LEMMA PageSteps ==
  ASSUME EdgesNext \/ UNCHANGED edgesVars
  PROVE  /\ [Page!BrowserNext]_(Page!browserVars)
         /\ [Side!Poll]_(Side!pollVars) /\ [Side!List]_(Side!listVars) /\ [Side!Panel]_(Side!modelVars)
<1>1. UNCHANGED edgesVars =>
        UNCHANGED pageVars /\ UNCHANGED pollVars /\ UNCHANGED listVars /\ UNCHANGED modelVars
  BY DEF edgesVars
<1>2. UNCHANGED pageVars => UNCHANGED Page!browserVars
  BY DEF pageVars, Page!browserVars
<1>3. /\ UNCHANGED pollVars => UNCHANGED Side!pollVars
      /\ UNCHANGED listVars => UNCHANGED Side!listVars
      /\ UNCHANGED modelVars => UNCHANGED Side!modelVars
  BY DEF pollVars, Side!pollVars, listVars, Side!listVars, modelVars, Side!modelVars
<1> QED
  BY <1>1, <1>2, <1>3, Zenon DEF EdgesNext

\* The page is closed exactly while it reads, and shows every frame in the place and order it
\* was said, whatever was stopped, switched, decided or loaded in between; out of its place is
\* only a history or a reply that was out when the page left it; and beside it the panels follow
\* the newest load, a press does one thing, and a key goes to its model (ChatView.tsx:136-287,
\* 324-373, 375-435, usePolling.ts:33-104, ConversationList.tsx:82-265, App.tsx:62-69, 301-307,
\* ModelPanel.tsx:29-57).
THEOREM PageIsTold == EdgesSpec => PageTells
<1> DEFINE Inv == PageInv /\ PollInv /\ ListInv /\ KeyInv
           Told == /\ part = "page" => Page!InputFollowsStream /\ Page!FramesInPlace /\ Page!ToldInOrder
                   /\ part = "poll" => Side!ShownIsOfKey /\ Side!PollGoesOn
                   /\ part = "list" => Side!NoneHidden /\ Side!ShownIsOwn
                   /\ part = "models" => Side!KeyForItsModel
<1>1. EdgesInit => Inv
  BY PageInit, PollInit, ListInit, KeyInit DEF EdgesInit
<1>2. Inv /\ [EdgesNext]_edgesVars => Inv' /\ [Side!Grows]_(Side!pollVars) /\ [Side!Tapped]_(Side!listVars)
  BY PageSteps, PageStep, PollStep, ListStep, KeyStep
<1>3. PageInv => Page!InputFollowsStream /\ Page!FramesInPlace /\ Page!ToldInOrder
  BY DEF PageInv, InPlace, Page!FramesInPlace
<1>4. ListInv => Side!NoneHidden /\ Side!ShownIsOwn
  BY DEF ListInv, Side!ShownIsOwn
<1>5. Inv => Told
  BY <1>3, <1>4 DEF PollInv, KeyInv
<1> HIDE DEF Inv
<1>6. EdgesSpec => [][Side!Grows]_(Side!pollVars) /\ [][Side!Tapped]_(Side!listVars)
  BY <1>1, <1>2, PTL DEF EdgesSpec
<1>7. EdgesSpec => []Told
  BY <1>1, <1>2, <1>5, PTL DEF EdgesSpec
<1> QED
  BY <1>6, <1>7, PTL DEF PageTells, Side!ShownGrows, Side!TapsOnce, Told

=============================================================================
