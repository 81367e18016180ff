-------------------------- MODULE ChatStream_proof --------------------------
(***************************************************************************)
(* Streamed turns of a run are driven one after the other and publish in   *)
(* their order, for any number of streams, whatever the browsers do.       *)
(***************************************************************************)
EXTENDS ChatStream, FiniteSetTheorems, TLAPS

\* The assumed sizes one by one.
LEMMA Sizes == /\ Limit \in Nat /\ Limit > 0 /\ QueueCap \in Nat /\ Keep \in Nat /\ Keep > 0
               /\ MaxFrames \in Nat
BY SizesAssumption

USE Sizes, StreamAssumption

\* No stream has begun: everything has its type.
LEMMA TypeInit == Init => TypeOK
BY DEF Init, TypeOK

\* The type of the queues, a part of TypeOK.
Marks == {"delta", "end", "eof"}
Queues ==
  /\ frames \in [Streams -> Seq(Marks)]
  /\ \A t \in Streams : Len(frames[t]) <= QueueCap

\* A queue keeps its type and its bound when a frame is offered.
LEMMA OfferQueue ==
  ASSUME NEW s \in Streams, NEW frame \in Marks, Queues, Offer(s, frame)
  PROVE  Queues'
<1>1. CASE frames' = frames
  BY <1>1 DEF Queues
<1>2. CASE Len(frames[s]) < QueueCap /\ frames' = [frames EXCEPT ![s] = Append(@, frame)]
  <2>1. frames[s] \in Seq(Marks) /\ Len(frames[s]) \in Nat /\ QueueCap \in Nat
    BY DEF Queues
  <2>2. Append(frames[s], frame) \in Seq(Marks) /\ Len(Append(frames[s], frame)) = Len(frames[s]) + 1
    BY <2>1
  <2>3. Len(Append(frames[s], frame)) <= QueueCap
    BY <1>2, <2>1, <2>2
  <2> QED
    BY <1>2, <2>2, <2>3 DEF Queues
<1> QED
  BY <1>1, <1>2 DEF Offer

\* A queue keeps its type and its bound when a frame is taken.
LEMMA TakeQueue ==
  ASSUME NEW s \in Streams, Queues, frames[s] # <<>>, frames' = [frames EXCEPT ![s] = Tail(@)]
  PROVE  Queues'
<1>1. frames[s] \in Seq(Marks) /\ Len(frames[s]) <= QueueCap /\ QueueCap \in Nat
  BY DEF Queues
<1>2. Tail(frames[s]) \in Seq(Marks) /\ Len(Tail(frames[s])) = Len(frames[s]) - 1 /\ Len(frames[s]) \in Nat
  BY <1>1
<1>3. Len(Tail(frames[s])) <= QueueCap
  BY <1>1, <1>2
<1> QED
  BY <1>2, <1>3 DEF Queues

\* Every step of the endpoint, the driver, the generator and the browser keeps the types.
LEMMA TypeStep == TypeOK /\ [Next]_vars => TypeOK'
<1> SUFFICES ASSUME TypeOK, [Next]_vars PROVE TypeOK'
  OBVIOUS
<1> USE DEF shared, worker, carrier, browser, At, TakeSlot, GiveBack, Close, WatchIs
<1>0. Queues
  BY DEF TypeOK, Queues, Marks
<1>1. ASSUME NEW s \in Streams, Endpoint(s) PROVE TypeOK'
  <2>1. CASE Enter(s)
    <3>1. active' \in 0..Limit
      BY <2>1 DEF TypeOK, Enter
    <3>2. drv' = [drv EXCEPT ![s] = "slot"] \/ drv' = [drv EXCEPT ![s] = "over"]
      BY <2>1 DEF Enter
    <3> QED
      BY <2>1, <3>1, <3>2 DEF TypeOK, Enter
  <2>2. CASE Begin(s)
    BY <2>2 DEF TypeOK, Begin
  <2>3. CASE Refuse(s)
    BY <2>3 DEF TypeOK, Refuse
  <2> QED
    BY <1>1, <2>1, <2>2, <2>3 DEF Endpoint
<1>2. ASSUME NEW s \in Streams, Drive(s) PROVE TypeOK'
  <2>1. CASE Emit(s)
    <3>1. Queues'
      BY <1>0, <2>1, OfferQueue DEF Emit, Marks
    <3> QED
      <4>1. sent' \in [Streams -> 0..MaxFrames]
        BY <2>1 DEF TypeOK, Emit
      <4>2. UNCHANGED <<lock, active, turn, log, drv, mine, mute, gen, conn, got, watch>>
        BY <2>1 DEF Emit
      <4> QED
        BY <3>1, <4>1, <4>2 DEF TypeOK, Queues, Marks
  <2>2. CASE Publish(s)
    <3>1. log' \in Seq(Nat)
      BY <2>2 DEF TypeOK, Publish
    <3> QED
      BY <2>2, <3>1 DEF TypeOK, Publish
  <2>3. CASE PublishRaises(s)
    <3>0. mine[s] \in Nat /\ log \in Seq(Nat) /\ (log' = log \/ log' = Append(log, mine[s]))
      BY <2>3 DEF TypeOK, PublishRaises
    <3>1. log' \in Seq(Nat)
      BY <3>0
    <3>2. drv' = [drv EXCEPT ![s] = "fail"] \/ drv' = [drv EXCEPT ![s] = "finally"]
      BY <2>3 DEF PublishRaises
    <3>3. mute' \subseteq Streams
      BY <2>3 DEF TypeOK, PublishRaises
    <3>4. UNCHANGED <<lock, active, turn, mine, sent, frames, gen, conn, got, watch>>
      BY <2>3 DEF PublishRaises
    <3> QED
      BY <3>1, <3>2, <3>3, <3>4 DEF TypeOK
  <2>4. CASE OfferEnd(s)
    <3>1. Queues'
      BY <1>0, <2>4, OfferQueue DEF OfferEnd, Marks
    <3> QED
      BY <2>4, <3>1 DEF TypeOK, OfferEnd, Queues, Marks
  <2>5. CASE OfferEof(s)
    <3>1. Queues'
      BY <1>0, <2>5, OfferQueue DEF OfferEof, Marks
    <3> QED
      BY <2>5, <3>1 DEF TypeOK, OfferEof, Queues, Marks
  <2>6. CASE Stop(s)
    BY <2>6 DEF TypeOK, Stop, Unlock
  <2>7. CASE StopRaises(s) \/ Expire(s)
    BY <2>7 DEF TypeOK, StopRaises, Expire
  <2> QED
    BY <1>2, <2>1, <2>2, <2>3, <2>4, <2>5, <2>6, <2>7 DEF Drive
<1>3. ASSUME NEW s \in Streams, Generate(s) PROVE TypeOK'
  <2>1. CASE Get(s)
    <3>1. Queues'
      BY <1>0, <2>1, TakeQueue DEF Get
    <3> QED
      BY <2>1, <3>1 DEF TypeOK, Get, Queues, Marks
  <2>2. CASE Start(s) \/ Drop(s) \/ TimesOut(s)
    BY <2>2 DEF TypeOK, Start, Drop, TimesOut
  <2>3. CASE Check(s) \/ Resume(s)
    BY <2>3 DEF TypeOK, Check, Resume
  <2> QED
    BY <1>3, <2>1, <2>2, <2>3 DEF Generate
<1>4. ASSUME NEW s \in Streams, Watch(s) PROVE TypeOK'
  <2>1. CASE Read(s)
    <3>1. log[Oldest] \in Nat
      BY <2>1 DEF TypeOK, Read, Oldest
    <3> QED
      BY <2>1, <3>1 DEF TypeOK, Read
  <2>2. CASE Reconnect(s)
    <3>1. active' \in 0..Limit
      BY <2>2 DEF TypeOK, Reconnect
    <3>2. watch' = [watch EXCEPT ![s] = "new"] \/ watch' = [watch EXCEPT ![s] = "over"]
      BY <2>2 DEF Reconnect
    <3> QED
      BY <2>2, <3>1, <3>2 DEF TypeOK, Reconnect
  <2>3. CASE WatchStart(s) \/ WatchBreaks(s)
    BY <2>3 DEF TypeOK, WatchStart, WatchBreaks
  <2>4. CASE WatchEnds(s)
    BY <2>4 DEF TypeOK, WatchEnds
  <2> QED
    BY <1>4, <2>1, <2>2, <2>3, <2>4 DEF Watch
<1>5. ASSUME NEW s \in Streams, Disconnect(s) PROVE TypeOK'
  BY <1>5 DEF TypeOK, Disconnect
<1>6. CASE PlainTurn
  <2>0. /\ turn \in Nat /\ turn' = turn + 1
        /\ log \in Seq(Nat) /\ (log' = log \/ log' = Append(log, turn + 1))
    BY <1>6 DEF TypeOK, PlainTurn
  <2>1. turn' \in Nat /\ log' \in Seq(Nat)
    BY <2>0
  <2>2. UNCHANGED <<lock, active, drv, mine, sent, mute, frames, gen, conn, got, watch>>
    BY <1>6 DEF PlainTurn
  <2> QED
    BY <2>1, <2>2 DEF TypeOK
<1>7. CASE UNCHANGED vars
  BY <1>7 DEF TypeOK, vars
<1> QED
  BY <1>1, <1>2, <1>3, <1>4, <1>5, <1>6, <1>7 DEF Next

\* TypeOK is an invariant of the streamed turns; the counter of the gate stays within its
\* limit and the queue within its size.
THEOREM StreamTypes == Spec => []TypeOK
BY TypeInit, TypeStep, PTL DEF Spec

-----------------------------------------------------------------------------
(***************************************************************************)
(* A driver holds the lease from its first step to the end of its last     *)
(* publication, and its turn is the latest one.  So what it appends to the *)
(* log is never older than what is there.                                  *)
(***************************************************************************)
Holding(s) == drv[s] \in {"run", "fail", "end", "finally"}

DriverInv == \A s \in Streams : Holding(s) => lock = s /\ mine[s] = turn
LogInv == TurnsInOrder /\ \A i \in DOMAIN log : log[i] <= turn

OrderInv == TypeOK /\ DriverInv /\ LogInv

\* Nobody drives and nothing is published.
LEMMA OrderInit == Init => OrderInv
BY TypeInit DEF Init, OrderInv, DriverInv, Holding, LogInv, TurnsInOrder

\* An event of the latest turn goes to the end of an ordered log.
LEMMA AppendLatest ==
  ASSUME TypeOK, LogInv, turn' \in Nat, turn <= turn', log' = Append(log, turn')
  PROVE  LogInv'
<1>1. /\ log \in Seq(Nat) /\ turn \in Nat /\ Len(log) \in Nat
      /\ DOMAIN log = 1..Len(log) /\ DOMAIN log' = 1..(Len(log) + 1)
  BY DEF TypeOK
<1>2. ASSUME NEW i \in DOMAIN log'
      PROVE  \/ i \in DOMAIN log /\ log'[i] = log[i] /\ log[i] \in Nat /\ log[i] <= turn
             \/ i = Len(log) + 1 /\ log'[i] = turn'
  BY <1>1, <1>2 DEF LogInv
<1>3. \A i \in DOMAIN log' : log'[i] <= turn'
  BY <1>1, <1>2
<1>4. ASSUME NEW i \in DOMAIN log', NEW j \in DOMAIN log', i < j PROVE log'[i] <= log'[j]
  <2>1. i \in DOMAIN log /\ log'[i] = log[i] /\ log[i] \in Nat /\ log[i] <= turn
    BY <1>1, <1>2, <1>4
  <2>2. CASE j \in DOMAIN log /\ log'[j] = log[j]
    BY <1>4, <2>1, <2>2 DEF LogInv, TurnsInOrder
  <2>3. CASE log'[j] = turn'
    BY <1>1, <2>1, <2>3
  <2> QED
    BY <1>2, <2>2, <2>3
<1> QED
  BY <1>3, <1>4 DEF LogInv, TurnsInOrder

\* A log that does not change stays ordered when turns are counted on.
LEMMA LogSame ==
  ASSUME TypeOK, LogInv, turn' \in Nat, turn <= turn', log' = log
  PROVE  LogInv'
BY DEF TypeOK, LogInv, TurnsInOrder

\* A step of one thread that holds the lease already, or does not hold it afterwards.
LEMMA DriverMoves ==
  ASSUME TypeOK, DriverInv, NEW s \in Streams, UNCHANGED <<turn, mine>>,
         NEW pc, drv' = [drv EXCEPT ![s] = pc],
         \/ lock' = lock /\ (Holding(s) \/ pc \notin {"run", "fail", "end", "finally"})
         \/ Holding(s) /\ pc \notin {"run", "fail", "end", "finally"} /\ lock = s
  PROVE  DriverInv'
<1> SUFFICES ASSUME NEW t \in Streams, Holding(t)' PROVE lock' = t /\ mine'[t] = turn'
  BY DEF DriverInv
<1>1. CASE t = s
  BY <1>1 DEF TypeOK, DriverInv, Holding
<1>2. CASE t # s
  <2>1. Holding(t)
    BY <1>2 DEF TypeOK, Holding
  <2> QED
    BY <1>2, <2>1 DEF DriverInv
<1> QED
  BY <1>1, <1>2

\* Every step keeps the driver's lease and turn, and the order of the log.
LEMMA OrderStep == OrderInv /\ [Next]_vars => OrderInv'
<1> SUFFICES ASSUME OrderInv, [Next]_vars PROVE OrderInv'
  OBVIOUS
<1>0. TypeOK /\ TypeOK' /\ turn \in Nat
  BY TypeStep DEF OrderInv, TypeOK
<1> USE DEF At, shared, worker
<1>4. ASSUME UNCHANGED <<lock, turn, log, drv, mine>> PROVE DriverInv' /\ LogInv'
  BY <1>4 DEF OrderInv, DriverInv, Holding, LogInv, TurnsInOrder
<1>1. ASSUME NEW s \in Streams, Endpoint(s) PROVE DriverInv' /\ LogInv'
  <2>1. LogInv'
    BY <1>0, <1>1, LogSame DEF Endpoint, Enter, Begin, Refuse, OrderInv
  <2>2. CASE Enter(s) \/ Refuse(s)
    <3>1. PICK pc \in {"slot", "over"} : drv' = [drv EXCEPT ![s] = pc]
      BY <2>2 DEF Enter, Refuse
    <3>2. lock' = lock /\ turn' = turn /\ mine' = mine
      BY <2>2 DEF Enter, Refuse
    <3>3. DriverInv'
      BY <1>0, <3>1, <3>2, DriverMoves DEF OrderInv
    <3> QED
      BY <2>1, <3>3
  <2>3. CASE Begin(s)
    <3>1. lock = Nobody /\ lock' = s /\ turn' = turn + 1
      BY <2>3 DEF Begin
    <3>2. drv' = [drv EXCEPT ![s] = "run"] /\ mine' = [mine EXCEPT ![s] = turn + 1]
      BY <2>3 DEF Begin
    <3>3. ASSUME NEW t \in Streams, Holding(t)' PROVE lock' = t /\ mine'[t] = turn'
      <4>1. ~Holding(t)
        BY <3>1 DEF OrderInv, DriverInv
      <4>2. t = s
        BY <1>0, <3>2, <3>3, <4>1 DEF Holding, TypeOK
      <4> QED
        BY <1>0, <3>1, <3>2, <4>2 DEF TypeOK
    <3>4. DriverInv'
      BY <3>3 DEF DriverInv
    <3> QED
      BY <2>1, <3>4
  <2> QED
    BY <1>1, <2>1, <2>2, <2>3 DEF Endpoint
<1>2. ASSUME NEW s \in Streams, Drive(s) PROVE DriverInv' /\ LogInv'
  <2>1. CASE Publish(s) \/ PublishRaises(s)
    <3>1. mine[s] = turn /\ turn' = turn
      BY <2>1 DEF Publish, PublishRaises, OrderInv, DriverInv, Holding
    <3>2. LogInv'
      BY <1>0, <2>1, <3>1, AppendLatest, LogSame DEF Publish, PublishRaises, OrderInv
    <3>3. /\ Holding(s) /\ UNCHANGED <<lock, turn, mine>>
          /\ \E pc \in {"end", "fail", "finally"} : drv' = [drv EXCEPT ![s] = pc]
      BY <2>1 DEF Publish, PublishRaises, Holding
    <3>4. DriverInv'
      BY <1>0, <3>3, DriverMoves DEF OrderInv
    <3> QED
      BY <3>2, <3>4
  <2>2. CASE Emit(s)
    BY <1>4, <2>2 DEF Emit
  <2>3. CASE OfferEnd(s) \/ OfferEof(s)
    <3>1. LogInv'
      BY <1>0, <2>3, LogSame DEF OfferEnd, OfferEof, OrderInv
    <3>2. /\ UNCHANGED <<lock, turn, mine>>
          /\ \/ Holding(s) /\ drv' = [drv EXCEPT ![s] = "finally"]
             \/ drv' = [drv EXCEPT ![s] = "over"]
      BY <2>3 DEF OfferEnd, OfferEof, Holding
    <3>3. DriverInv'
      BY <1>0, <3>2, DriverMoves DEF OrderInv
    <3> QED
      BY <3>1, <3>3
  <2>4. CASE Stop(s) \/ StopRaises(s)
    <3>1. LogInv'
      BY <1>0, <2>4, LogSame DEF Stop, StopRaises, OrderInv
    <3>2. Holding(s) /\ lock = s
      BY <2>4 DEF Stop, StopRaises, Holding, OrderInv, DriverInv
    <3>3. /\ UNCHANGED <<turn, mine>>
          /\ \E pc \in {"eof", "dead"} : drv' = [drv EXCEPT ![s] = pc]
      BY <2>4 DEF Stop, StopRaises
    <3>4. DriverInv'
      BY <1>0, <3>2, <3>3, DriverMoves DEF OrderInv
    <3> QED
      BY <3>1, <3>4
  <2>5. CASE Expire(s)
    <3>1. LogInv'
      BY <1>0, <2>5, LogSame DEF Expire, OrderInv
    <3>2. drv[s] = "dead" /\ lock = s /\ UNCHANGED <<turn, drv, mine>>
      BY <2>5 DEF Expire
    <3>3. \A t \in Streams : ~Holding(t)
      BY <3>2 DEF Holding, OrderInv, DriverInv
    <3>4. DriverInv'
      BY <3>2, <3>3 DEF DriverInv, Holding
    <3> QED
      BY <3>1, <3>4
  <2> QED
    BY <1>2, <2>1, <2>2, <2>3, <2>4, <2>5 DEF Drive
<1>3. CASE PlainTurn
  <2>1. LogInv'
    BY <1>0, <1>3, AppendLatest, LogSame DEF PlainTurn, OrderInv
  <2>2. \A t \in Streams : ~Holding(t)
    BY <1>3 DEF PlainTurn, OrderInv, DriverInv
  <2>3. DriverInv'
    BY <1>3, <2>2 DEF PlainTurn, DriverInv, Holding
  <2> QED
    BY <1>0, <2>1, <2>3 DEF OrderInv
<1>5. ASSUME NEW s \in Streams, Generate(s) \/ Watch(s) \/ Disconnect(s)
      PROVE  UNCHANGED <<lock, turn, log, drv, mine>>
  BY <1>5 DEF Generate, Watch, Disconnect, Start, Drop, Get, TimesOut, Check, Resume, Reconnect,
              WatchStart, Read, WatchBreaks, WatchEnds
<1>6. CASE UNCHANGED vars
  BY <1>0, <1>4, <1>6 DEF vars, OrderInv
<1> QED
  BY <1>0, <1>1, <1>2, <1>3, <1>4, <1>5, <1>6 DEF Next, OrderInv

\* Two drivers of the run would both hold its lease.
LEMMA OrderImplies == OrderInv => DrivesAlone /\ TurnsInOrder
BY DEF OrderInv, DriverInv, Holding, LogInv, DrivesAlone, Drives

\* A run is driven by one thread at a time, whoever has gone away in the meantime.
THEOREM OneDriver == Spec => []DrivesAlone
<1>1. Spec => []OrderInv
  BY OrderInit, OrderStep, PTL DEF Spec
<1> QED
  BY <1>1, OrderImplies, PTL

\* Events reach the bus in the order of their turns, however often publishing raises.
THEOREM EventOrder == Spec => []TurnsInOrder
<1>1. Spec => []OrderInv
  BY OrderInit, OrderStep, PTL DEF Spec
<1> QED
  BY <1>1, OrderImplies, PTL

-----------------------------------------------------------------------------
(* The slots of the gate. *)

Drivers  == {s \in Streams : HoldsSlot(s)}
Watchers == {s \in Streams : WatchHoldsSlot(s)}

\* Both sets are finite and count with natural numbers.
LEMMA SlotSets ==
  /\ IsFiniteSet(Drivers) /\ IsFiniteSet(Watchers)
  /\ Cardinality(Drivers) \in Nat /\ Cardinality(Watchers) \in Nat
<1>1. IsFiniteSet(Drivers) /\ IsFiniteSet(Watchers)
  BY FS_Subset DEF Drivers, Watchers
<1> QED
  BY <1>1, FS_CardinalityType

\* A slot is taken for one more holder, or given back by one holder.
LEMMA OneMore ==
  ASSUME NEW S, IsFiniteSet(S), NEW s, s \notin S PROVE Cardinality(S \cup {s}) = Cardinality(S) + 1
BY FS_AddElement

(* A finite set loses exactly one when one of its members is removed. *)
LEMMA OneLess ==
  ASSUME NEW S, IsFiniteSet(S), NEW s \in S
  PROVE  Cardinality(S \ {s}) = Cardinality(S) - 1 /\ Cardinality(S) > 0
<1>1. Cardinality(S \ {s}) = Cardinality(S) - 1
  BY FS_RemoveElement
<1>2. Cardinality(S \ {s}) \in Nat /\ Cardinality(S) \in Nat
  BY FS_RemoveElement, FS_CardinalityType
<1> QED
  BY <1>1, <1>2

\* Every step takes a slot, gives one back, or leaves counter and holders alone.
LEMMA SlotsStep == TypeOK /\ SlotsCounted /\ [Next]_vars => SlotsCounted'
<1> SUFFICES ASSUME TypeOK, SlotsCounted, [Next]_vars PROVE SlotsCounted'
  OBVIOUS
<1> USE DEF At, WatchIs, shared, worker, carrier, browser
<1>0. active \in Nat /\ active = Cardinality(Drivers) + Cardinality(Watchers)
  BY DEF TypeOK, SlotsCounted, Drivers, Watchers
<1>s. SlotsCounted' <=> active' = Cardinality(Drivers') + Cardinality(Watchers')
  BY DEF SlotsCounted, Drivers, Watchers
<1>a. CASE active' = active /\ Drivers' = Drivers /\ Watchers' = Watchers
  BY <1>0, <1>a, <1>s
<1>b. ASSUME NEW s, s \notin Drivers, Drivers' = Drivers \cup {s}, Watchers' = Watchers, TakeSlot
      PROVE  SlotsCounted'
  BY <1>0, <1>b, <1>s, SlotSets, OneMore DEF TakeSlot
<1>c. ASSUME NEW s \in Drivers, Drivers' = Drivers \ {s}, Watchers' = Watchers, GiveBack
      PROVE  SlotsCounted'
  BY <1>0, <1>c, <1>s, SlotSets, OneLess DEF GiveBack
<1>1. ASSUME NEW s \in Streams, Enter(s) PROVE SlotsCounted'
  <2>1. Watchers' = Watchers /\ s \notin Drivers
    BY <1>1 DEF Enter, Watchers, WatchHoldsSlot, Drivers, HoldsSlot
  <2>2. CASE TakeSlot /\ At(s, "slot")
    <3>1. Drivers' = Drivers \cup {s}
      BY <2>2 DEF Drivers, HoldsSlot, TypeOK
    <3> QED
      BY <1>b, <2>1, <2>2, <3>1
  <2>3. CASE At(s, "over") /\ UNCHANGED active
    <3>1. Drivers' = Drivers
      BY <2>1, <2>3 DEF Drivers, HoldsSlot, TypeOK
    <3> QED
      BY <1>a, <2>1, <2>3, <3>1
  <2> QED
    BY <1>1, <2>2, <2>3 DEF Enter
<1>2. ASSUME NEW s \in Streams, Refuse(s) \/ Stop(s) PROVE SlotsCounted'
  <2>1. s \in Drivers /\ Watchers' = Watchers /\ GiveBack
    BY <1>2 DEF Refuse, Stop, Drivers, HoldsSlot, Watchers, WatchHoldsSlot
  <2>2. Drivers' = Drivers \ {s}
    BY <1>2 DEF Refuse, Stop, Drivers, HoldsSlot, TypeOK
  <2> QED
    BY <1>c, <2>1, <2>2
<1>3. ASSUME NEW s \in Streams, Begin(s) \/ Publish(s) \/ PublishRaises(s) \/ OfferEnd(s)
                                  \/ StopRaises(s) \/ OfferEof(s)
      PROVE  SlotsCounted'
  <2>1. Watchers' = Watchers /\ active' = active
    BY <1>3 DEF Begin, Publish, PublishRaises, OfferEnd, StopRaises, OfferEof, Watchers, WatchHoldsSlot
  <2>2. Drivers' = Drivers
    BY <1>3 DEF Begin, Publish, PublishRaises, OfferEnd, StopRaises, OfferEof, Drivers, HoldsSlot, TypeOK
  <2> QED
    BY <1>a, <2>1, <2>2
<1>4. ASSUME NEW s \in Streams, Reconnect(s) PROVE SlotsCounted'
  <2>1. Drivers' = Drivers /\ s \notin Watchers
    BY <1>4 DEF Reconnect, Drivers, HoldsSlot, Watchers, WatchHoldsSlot
  <2>2. CASE TakeSlot /\ WatchIs(s, "new")
    <3>1. Watchers' = Watchers \cup {s}
      BY <2>2 DEF Watchers, WatchHoldsSlot, TypeOK
    <3> QED
      BY <1>0, <1>s, <2>1, <2>2, <3>1, SlotSets, OneMore DEF TakeSlot
  <2>3. CASE WatchIs(s, "over") /\ UNCHANGED active
    <3>1. Watchers' = Watchers
      BY <2>1, <2>3 DEF Watchers, WatchHoldsSlot, TypeOK
    <3> QED
      BY <1>a, <2>1, <2>3, <3>1
  <2> QED
    BY <1>4, <2>2, <2>3 DEF Reconnect
<1>5. ASSUME NEW s \in Streams, WatchEnds(s) PROVE SlotsCounted'
  <2>1. Drivers' = Drivers /\ s \in Watchers /\ Watchers' = Watchers \ {s}
    BY <1>5 DEF WatchEnds, Drivers, HoldsSlot, Watchers, WatchHoldsSlot, TypeOK
  <2> QED
    BY <1>0, <1>5, <1>s, <2>1, SlotSets, OneLess DEF WatchEnds, GiveBack
<1>6. ASSUME NEW s \in Streams, WatchStart(s) \/ Read(s) \/ WatchBreaks(s) PROVE SlotsCounted'
  <2>1. Drivers' = Drivers /\ active' = active
    BY <1>6 DEF WatchStart, Read, WatchBreaks, Drivers, HoldsSlot
  <2>2. Watchers' = Watchers
    BY <1>6 DEF WatchStart, Read, WatchBreaks, Watchers, WatchHoldsSlot, TypeOK
  <2> QED
    BY <1>a, <2>1, <2>2
<1>7. CASE UNCHANGED <<active, drv, watch>>
  BY <1>7, <1>a DEF Drivers, HoldsSlot, Watchers, WatchHoldsSlot
<1>8. ASSUME NEW s \in Streams, Emit(s) \/ Expire(s) \/ Generate(s) \/ Disconnect(s)
      PROVE  UNCHANGED <<active, drv, watch>>
  BY <1>8 DEF Emit, Expire, Generate, Disconnect, Start, Drop, Get, TimesOut, Check, Resume
<1> QED
  BY <1>1, <1>2, <1>3, <1>4, <1>5, <1>6, <1>7, <1>8 DEF Next, Endpoint, Drive, Watch, PlainTurn, vars

\* The counter of the gate is the number of holders, whatever breaks off, is refused or
\* raises: no slot is given back twice (http_kit.py:30).
THEOREM SlotsAreCounted == Spec => []SlotsCounted
<1>1. Init => SlotsCounted
  <2> SUFFICES ASSUME Init PROVE SlotsCounted
    OBVIOUS
  <2>1. Drivers = {} /\ Watchers = {} /\ active = 0
    BY DEF Init, Drivers, HoldsSlot, Watchers, WatchHoldsSlot
  <2> QED
    BY <2>1, FS_EmptySet DEF SlotsCounted, Drivers, Watchers
<1> QED
  BY <1>1, TypeInit, TypeStep, SlotsStep, PTL DEF Spec

-----------------------------------------------------------------------------
(* The end of a turn. *)

Published(s) == s \in mute \/ mine[s] \in {log[i] : i \in DOMAIN log}

\* The driver of a begun turn has got past its publication.
Ended(s) == drv[s] \in {"end", "finally", "eof", "dead"} \/ (drv[s] = "over" /\ gen[s] # "none")

\* The end marker is the last thing a driver does, and it does nothing before its
\* response exists; what has ended, or was closed in full, is published.
EndsOf(s) ==
  /\ drv[s] \in {"run", "fail", "end", "finally", "dead", "eof"} => gen[s] # "none"
  /\ drv[s] \in {"none", "slot"} => gen[s] = "none"
  /\ (\E i \in 1 .. Len(frames[s]) : frames[s][i] = "eof") => drv[s] = "over" /\ gen[s] # "none"
  /\ Ended(s) => Published(s)
  /\ gen[s] = "closed" /\ conn[s] => Published(s)

EndsInv == TypeOK /\ \A s \in Streams : EndsOf(s)

(* At the start no response has ended, so nothing is missing on the bus. *)
LEMMA EndsInit == Init => EndsInv
BY TypeInit DEF Init, EndsInv, EndsOf, Ended

\* What is published stays published.
LEMMA LogGrows ==
  ASSUME TypeOK, NEW s \in Streams, NEW x, log' = log \/ log' = Append(log, x), mute \subseteq mute',
         mine'[s] = mine[s], Published(s)
  PROVE  Published(s)'
<1>1. /\ log \in Seq(Nat) /\ DOMAIN log = 1 .. Len(log) /\ Len(log) \in Nat
  BY DEF TypeOK
<1>2. ASSUME NEW i \in DOMAIN log PROVE i \in DOMAIN log' /\ log'[i] = log[i]
  BY <1>1
<1> QED
  BY <1>2 DEF Published

\* What is appended is in the log.
LEMMA LogTells ==
  ASSUME TypeOK, NEW s \in Streams, log' = Append(log, mine[s]), mine'[s] = mine[s]
  PROVE  Published(s)'
<1>1. Len(log) + 1 \in DOMAIN log' /\ log'[Len(log) + 1] = mine[s]
  BY DEF TypeOK
<1> QED
  BY <1>1 DEF Published

\* A stream that a step does not concern.
LEMMA OthersEnd ==
  ASSUME TypeOK, NEW t \in Streams, EndsOf(t), NEW x, log' = log \/ log' = Append(log, x),
         mute \subseteq mute', mine'[t] = mine[t], drv'[t] = drv[t], gen'[t] = gen[t],
         frames'[t] = frames[t], conn'[t] => conn[t]
  PROVE  EndsOf(t)'
<1>1. Published(t) => Published(t)'
  BY LogGrows
<1> QED
  BY <1>1 DEF EndsOf, Ended

\* A step of the stream s that publishes nothing.
LEMMA QuietEnds ==
  ASSUME TypeOK, EndsInv, NEW s \in Streams, UNCHANGED <<log, mute, mine>>,
         \A t \in Streams : t # s => /\ drv'[t] = drv[t] /\ gen'[t] = gen[t]
                                    /\ frames'[t] = frames[t] /\ conn'[t] = conn[t],
         EndsOf(s)'
  PROVE  \A t \in Streams : EndsOf(t)'
<1> SUFFICES ASSUME NEW t \in Streams, t # s PROVE EndsOf(t)'
  OBVIOUS
<1> QED
  BY OthersEnd DEF EndsInv

\* What an offer adds is the frame.
LEMMA OfferedLast ==
  ASSUME TypeOK, NEW s \in Streams, NEW frame \in Marks, Offer(s, frame)
  PROVE  /\ \A t \in Streams : t # s => frames'[t] = frames[t]
         /\ (\E i \in 1 .. Len(frames'[s]) : frames'[s][i] = "eof") =>
               frame = "eof" \/ \E i \in 1 .. Len(frames[s]) : frames[s][i] = "eof"
<1>1. CASE frames' = frames
  BY <1>1
<1>2. CASE frames' = [frames EXCEPT ![s] = Append(@, frame)]
  <2>1. frames[s] \in Seq(Marks) /\ frames'[s] = Append(frames[s], frame)
    BY <1>2 DEF TypeOK, Marks
  <2>2. ASSUME NEW i \in 1 .. Len(frames'[s])
        PROVE  frames'[s][i] = frame \/ (i \in 1 .. Len(frames[s]) /\ frames'[s][i] = frames[s][i])
    BY <2>1
  <2> QED
    BY <1>2, <2>2 DEF TypeOK
<1> QED
  BY <1>1, <1>2 DEF Offer

\* The steps of the endpoint, the driver and the generator.
LEMMA EndsStep == EndsInv /\ [Next]_vars => EndsInv'
<1> SUFFICES ASSUME EndsInv, [Next]_vars PROVE \A t \in Streams : EndsOf(t)'
  BY TypeStep DEF EndsInv
<1>0. TypeOK /\ \A t \in Streams : EndsOf(t)
  BY DEF EndsInv
<1> USE DEF At, shared, worker, carrier, browser, Close
<1>a. CASE /\ UNCHANGED <<mute, mine, drv, gen, frames>>
           /\ log' = log \/ log' = Append(log, turn + 1)
           /\ \A t \in Streams : conn'[t] => conn[t]
  BY <1>0, <1>a, OthersEnd
<1>1. ASSUME NEW s \in Streams, Enter(s) \/ Refuse(s) PROVE \A t \in Streams : EndsOf(t)'
  <2>1. UNCHANGED <<log, mute, mine, gen, frames, conn>> /\ gen[s] = "none" /\ drv'[s] \in {"slot", "over"}
        /\ \A t \in Streams : t # s => drv'[t] = drv[t]
    BY <1>0, <1>1 DEF Enter, Refuse, EndsOf, TypeOK
  <2>2. EndsOf(s)'
    BY <1>0, <2>1 DEF EndsOf, Ended, Published
  <2> QED
    BY <1>0, <2>1, <2>2, QuietEnds
<1>2. ASSUME NEW s \in Streams, Begin(s) PROVE \A t \in Streams : EndsOf(t)'
  <2>1. /\ UNCHANGED <<log, mute, frames, conn>> /\ drv[s] = "slot"
        /\ drv'[s] = "run" /\ gen'[s] = "new"
        /\ \A t \in Streams : t # s => drv'[t] = drv[t] /\ gen'[t] = gen[t] /\ mine'[t] = mine[t]
    BY <1>0, <1>2 DEF Begin, TypeOK
  <2>2. EndsOf(s)'
    BY <1>0, <2>1 DEF EndsOf, Ended
  <2> QED
    BY <1>0, <2>1, <2>2, OthersEnd
<1>3. ASSUME NEW s \in Streams, Emit(s) PROVE \A t \in Streams : EndsOf(t)'
  <2>1. UNCHANGED <<log, mute, mine, drv, gen, conn>> /\ Offer(s, "delta") /\ drv[s] = "run"
    BY <1>3 DEF Emit
  <2>2. EndsOf(s)'
    BY <1>0, <2>1, OfferedLast DEF EndsOf, Ended, Published, Marks
  <2> QED
    BY <1>0, <2>1, <2>2, QuietEnds, OfferedLast DEF Marks
<1>4. ASSUME NEW s \in Streams, Publish(s) \/ PublishRaises(s) PROVE \A t \in Streams : EndsOf(t)'
  <2>1. /\ UNCHANGED <<mine, gen, frames, conn>> /\ mute \subseteq mute'
        /\ log' = log \/ log' = Append(log, mine[s])
        /\ \A t \in Streams : t # s => drv'[t] = drv[t]
        /\ gen[s] # "none" /\ drv[s] \in {"run", "fail"} /\ drv'[s] \in {"end", "fail", "finally"}
    BY <1>0, <1>4 DEF Publish, PublishRaises, EndsOf, TypeOK
  <2>2. Ended(s)' => Published(s)'
    <3>1. CASE Publish(s)
      BY <1>0, <2>1, <3>1, LogTells DEF Publish
    <3>2. CASE PublishRaises(s)
      BY <1>0, <2>1, <3>2 DEF PublishRaises, Ended, Published, TypeOK
    <3> QED
      BY <1>4, <3>1, <3>2
  <2>3. Published(s) => Published(s)'
    BY <1>0, <2>1, LogGrows
  <2>4. EndsOf(s)'
    BY <1>0, <2>1, <2>2, <2>3 DEF EndsOf
  <2> QED
    BY <1>0, <2>1, <2>4, OthersEnd
<1>5. ASSUME NEW s \in Streams, OfferEnd(s) PROVE \A t \in Streams : EndsOf(t)'
  <2>1. /\ UNCHANGED <<log, mute, mine, gen, conn>> /\ Offer(s, "end") /\ drv[s] = "end"
        /\ drv'[s] = "finally" /\ \A t \in Streams : t # s => drv'[t] = drv[t]
    BY <1>0, <1>5 DEF OfferEnd, TypeOK
  <2>2. EndsOf(s)'
    BY <1>0, <2>1, OfferedLast DEF EndsOf, Ended, Published, Marks
  <2> QED
    BY <1>0, <2>1, <2>2, QuietEnds, OfferedLast DEF Marks
<1>6. ASSUME NEW s \in Streams, OfferEof(s) PROVE \A t \in Streams : EndsOf(t)'
  <2>1. /\ UNCHANGED <<log, mute, mine, gen, conn>> /\ Offer(s, "eof") /\ drv[s] = "eof"
        /\ drv'[s] = "over" /\ \A t \in Streams : t # s => drv'[t] = drv[t]
    BY <1>0, <1>6 DEF OfferEof, TypeOK
  <2>2. EndsOf(s)'
    BY <1>0, <2>1 DEF EndsOf, Ended, Published
  <2> QED
    BY <1>0, <2>1, <2>2, QuietEnds, OfferedLast DEF Marks
<1>7. ASSUME NEW s \in Streams, Stop(s) \/ StopRaises(s) PROVE \A t \in Streams : EndsOf(t)'
  <2>1. /\ UNCHANGED <<log, mute, mine, gen, conn, frames>> /\ drv[s] = "finally"
        /\ drv'[s] \in {"eof", "dead"} /\ \A t \in Streams : t # s => drv'[t] = drv[t]
    BY <1>0, <1>7 DEF Stop, StopRaises, TypeOK
  <2>2. EndsOf(s)'
    BY <1>0, <2>1 DEF EndsOf, Ended, Published
  <2> QED
    BY <1>0, <2>1, <2>2, QuietEnds
<1>8. ASSUME NEW s \in Streams, Get(s) PROVE \A t \in Streams : EndsOf(t)'
  <2>1. /\ UNCHANGED <<log, mute, mine, drv, conn>> /\ gen[s] = "get" /\ gen'[s] \in {"closed", "yield"}
        /\ gen'[s] = "closed" => Head(frames[s]) = "eof"
        /\ \A t \in Streams : t # s => gen'[t] = gen[t] /\ frames'[t] = frames[t]
    BY <1>0, <1>8 DEF Get, TypeOK
  <2>2. frames[s] \in Seq(Marks) /\ frames[s] # <<>> /\ frames'[s] = Tail(frames[s])
    BY <1>0, <1>8 DEF Get, TypeOK, Marks
  <2>3. /\ Head(frames[s]) = "eof" => \E i \in 1 .. Len(frames[s]) : frames[s][i] = "eof"
        /\ \A i \in 1 .. Len(frames'[s]) : frames'[s][i] = frames[s][i + 1] /\ i + 1 \in 1 .. Len(frames[s])
    BY <2>2
  <2>4. EndsOf(s)'
    BY <1>0, <2>1, <2>3 DEF EndsOf, Ended, Published
  <2> QED
    BY <1>0, <2>1, <2>4, QuietEnds
<1>9. ASSUME NEW s \in Streams, Start(s) \/ Drop(s) \/ TimesOut(s) \/ Check(s) \/ Resume(s)
      PROVE  \A t \in Streams : EndsOf(t)'
  <2>1. /\ UNCHANGED <<log, mute, mine, drv, conn, frames>> /\ gen[s] # "none"
        /\ gen'[s] \in {"get", "dropped", "empty", "yield", "closed"}
        /\ gen'[s] = "closed" => Done(s) \/ ~conn[s]
        /\ \A t \in Streams : t # s => gen'[t] = gen[t]
    BY <1>0, <1>9 DEF Start, Drop, TimesOut, Check, Resume, TypeOK
  <2>2. EndsOf(s)'
    BY <1>0, <2>1 DEF EndsOf, Ended, Published, Done
  <2> QED
    BY <1>0, <2>1, <2>2, QuietEnds
<1>10. ASSUME NEW s \in Streams, Expire(s) \/ Watch(s) \/ Disconnect(s) PROVE \A t \in Streams : EndsOf(t)'
  <2>1. UNCHANGED <<log, mute, mine, drv, gen, frames>> /\ \A t \in Streams : conn'[t] => conn[t]
    BY <1>0, <1>10 DEF Expire, Watch, Disconnect, Reconnect, WatchStart, Read, WatchBreaks, WatchEnds, TypeOK
  <2> QED
    BY <1>a, <2>1
<1>11. CASE PlainTurn \/ UNCHANGED vars
  BY <1>a, <1>11 DEF PlainTurn, vars
<1> QED
  BY <1>1, <1>2, <1>3, <1>4, <1>5, <1>6, <1>7, <1>8, <1>9, <1>10, <1>11
  DEF Next, Endpoint, Drive, Generate

\* A browser whose response ended without its terminal frame, although the connection
\* held, finds the end of its turn on the bus (chat.py:179).
THEOREM EndReachesTheBus == Spec => []EndIsOnTheBus
<1>1. EndsInv => EndIsOnTheBus
  BY DEF EndsInv, EndsOf, EndIsOnTheBus, Published
<1> QED
  BY <1>1, EndsInit, EndsStep, PTL DEF Spec

=============================================================================
