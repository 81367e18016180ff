---------------------------- MODULE RunLock_proof ----------------------------
(***************************************************************************)
(* What the lease lock guarantees for every set of leases, every TTL and   *)
(* every lag: types, exclusion of the in-process lock, what is left of it  *)
(* on a shared database, and that timely heartbeats never lose the lock.   *)
(***************************************************************************)
EXTENDS RunLock, TLAPS

USE TimeAssumption, NobodyAssumption

\* Init gives every variable a value of its type.
LEMMA TypeInit == Init => TypeOK
  BY DEF Init, TypeOK, NoLock, Lock, PCs, Beats

\* Every step keeps the types.
LEMMA TypeStep == TypeOK /\ [Next]_vars => TypeOK'
<1> SUFFICES ASSUME TypeOK, [Next]_vars PROVE TypeOK'
  OBVIOUS
<1> USE DEF TypeOK, PCs, Beats, Lock, NoLock
<1>1. CASE Tick
  BY <1>1 DEF Tick
<1>2. ASSUME NEW l \in Leases, LeaseStep(l) PROVE TypeOK'
  <2>1. CASE ReadClock(l)
    BY <2>1 DEF ReadClock
  <2>2. CASE Acquire(l)
    <3>1. CASE Start(l)
      BY <2>2, <3>1 DEF Acquire, Start
    <3>2. CASE Refuse(l)
      BY <2>2, <3>2 DEF Acquire, Refuse
    <3>3. CASE pc' = [pc EXCEPT ![l] = "verify"] /\ UNCHANGED <<until, beat, due>>
      BY <2>2, <3>3 DEF Acquire
    <3>4. CASE UNCHANGED <<pc, until, beat, due>>
      BY <2>2, <3>4 DEF Acquire
    <3> QED
      BY <2>2, <3>1, <3>2, <3>3, <3>4 DEF Acquire
  <2>3. CASE Verify(l)
    BY <2>3 DEF Verify, Start, Refuse
  <2>4. CASE OwnerOf(l)
    BY <2>4 DEF OwnerOf
  <2>5. CASE Cleanup(l)
    BY <2>5 DEF Cleanup
  <2>6. CASE Wake(l)
    BY <2>6 DEF Wake
  <2>7. CASE Renew(l)
    BY <2>7 DEF Renew
  <2>8. CASE RenewRefused(l)
    BY <2>8 DEF RenewRefused
  <2>9. CASE RenewRaises(l)
    BY <2>9 DEF RenewRaises
  <2>10. CASE Stop(l)
    BY <2>10 DEF Stop
  <2>11. CASE Release(l)
    BY <2>11 DEF Release
  <2>12. CASE Crash(l)
    BY <2>12 DEF Crash
  <2> QED
    BY <1>2, <2>1, <2>2, <2>3, <2>4, <2>5, <2>6, <2>7, <2>8, <2>9, <2>10, <2>11, <2>12
    DEF LeaseStep
<1>3. CASE UNCHANGED vars
  BY <1>3 DEF vars
<1> QED
  BY <1>1, <1>2, <1>3 DEF Next

\* Every variable of RunLock has its type in every reachable state.
THEOREM LockTypes == Spec => []TypeOK
<1> QED
  BY TypeInit, TypeStep, PTL DEF Spec

-----------------------------------------------------------------------------
(* Exclusion *)

\* What makes exclusion inductive: no step of the shared lock's split methods is
\* under way, the reading acquire works with is in the past, and a lease that drives
\* within its lifetime owns the row that says so.
ExclusionInv ==
  /\ TypeOK
  /\ \A l \in Leases :
       /\ pc[l] \notin {"verify", "cleanup"}
       /\ at[l] <= now
       /\ Drives(l) => row = Lock(l, until[l])

\* ExclusionInv holds at the start: nobody holds anything.
LEMMA ExclusionInit == Init => ExclusionInv
  BY TypeInit DEF Init, ExclusionInv, Drives, Held

\* Every step of the in-process lock keeps ExclusionInv.
LEMMA ExclusionStep ==
  ASSUME ~Shared PROVE ExclusionInv /\ [Next]_vars => ExclusionInv'
<1> SUFFICES ASSUME ExclusionInv, [Next]_vars PROVE ExclusionInv'
  OBVIOUS
<1>t. TypeOK'
  BY TypeStep DEF ExclusionInv
<1> USE <1>t DEF ExclusionInv, TypeOK, Drives, Held, Lock, NoLock
<1>1. CASE Tick
  BY <1>1 DEF Tick
<1>2. ASSUME NEW l \in Leases, LeaseStep(l) PROVE ExclusionInv'
  <2>1. CASE ReadClock(l)
    BY <2>1 DEF ReadClock
  <2>2. CASE Acquire(l)
    <3>1. CASE Free(l) /\ Start(l)
      <4>1. row' = Lock(l, at[l] + TTL) /\ until'[l] = at[l] + TTL
        BY <2>2, <3>1 DEF Acquire, Start
      <4>2. \A m \in Leases \ {l} : ~Drives(m)
        BY <3>1 DEF Free
      <4> QED
        BY <2>2, <3>1, <4>1, <4>2 DEF Acquire, Start
    <3>2. CASE ~Free(l) /\ Refuse(l)
      BY <2>2, <3>2 DEF Acquire, Refuse
    <3> QED
      BY <2>2, <3>1, <3>2 DEF Acquire
  <2>4. CASE OwnerOf(l)
    BY <2>4 DEF OwnerOf
  <2>6. CASE Wake(l)
    BY <2>6 DEF Wake
  <2>7. CASE Renew(l)
    <3>1. row' = Lock(l, read[l] + TTL) /\ until'[l] = read[l] + TTL /\ row.owner = l
      BY <2>7 DEF Renew, Renewable
    <3>2. \A m \in Leases \ {l} : ~Drives(m)
      BY <3>1
    <3> QED
      BY <2>7, <3>1, <3>2 DEF Renew
  <2>8. CASE RenewRefused(l)
    BY <2>8 DEF RenewRefused
  <2>9. CASE RenewRaises(l)
    BY <2>9 DEF RenewRaises
  <2>10. CASE Stop(l)
    BY <2>10 DEF Stop
  <2>11. CASE Release(l)
    BY <2>11 DEF Release
  <2>12. CASE Crash(l)
    BY <2>12 DEF Crash
  <2> QED
    BY <1>2, <2>1, <2>2, <2>4, <2>6, <2>7, <2>8, <2>9, <2>10, <2>11, <2>12
    DEF LeaseStep, Verify, Cleanup
<1>3. CASE UNCHANGED vars
  BY <1>3 DEF vars
<1> QED
  BY <1>1, <1>2, <1>3 DEF Next

\* The in-process lock never lets two leases drive a run within their lifetimes,
\* however late heartbeats are and whatever renewals raise (locking.py:1).
THEOREM LeaseExclusion == ASSUME ~Shared PROVE Spec => []Exclusive
<1>1. ExclusionInv => Exclusive
  BY DEF ExclusionInv, Exclusive, Lock
<1> QED
  BY ExclusionInit, ExclusionStep, <1>1, PTL DEF Spec

-----------------------------------------------------------------------------
(* Exclusion on a shared database *)

\* Readings are never from the future, and a lease that drives owns the row that says so
\* unless the DELETE of an owner_of took it.
SharedInv ==
  /\ TypeOK
  /\ \A l \in Leases :
       /\ at[l] <= now /\ read[l] <= now
       /\ Drives(l) => l \in wiped \/ row = Lock(l, until[l])

\* SharedInv holds at the start: nobody holds anything.
LEMMA SharedInit == Init => SharedInv
  BY TypeInit DEF Init, SharedInv, Drives, Held

\* Every step keeps SharedInv, in any deployment: whoever writes the row finds it expired,
\* or its own.
LEMMA SharedStep == SharedInv /\ [Next]_vars => SharedInv'
<1> SUFFICES ASSUME SharedInv, [Next]_vars PROVE SharedInv'
  OBVIOUS
<1>t. TypeOK'
  BY TypeStep DEF SharedInv
<1> USE <1>t DEF SharedInv, TypeOK, Drives, Held, Lock, NoLock
<1>1. CASE Tick
  BY <1>1 DEF Tick
<1>2. ASSUME NEW l \in Leases, LeaseStep(l) PROVE SharedInv'
  <2>1. CASE ReadClock(l)
    BY <2>1 DEF ReadClock
  <2>2. CASE Acquire(l)
    <3>1. Free(l) => \A m \in Leases : Drives(m) => m \in wiped
      BY DEF Free
    <3>2. CASE Free(l) /\ Start(l)
      <4>1. row' = Lock(l, at[l] + TTL) /\ until'[l] = at[l] + TTL
        BY <2>2, <3>2 DEF Acquire, Start
      <4> QED
        BY <2>2, <3>1, <3>2, <4>1 DEF Acquire, Start
    <3>3. CASE ~Free(l) /\ Refuse(l)
      BY <2>2, <3>3 DEF Acquire, Refuse
    <3>4. CASE pc' = [pc EXCEPT ![l] = "verify"] /\ UNCHANGED <<until, beat, due>>
      BY <2>2, <3>1, <3>4 DEF Acquire
    <3>5. CASE UNCHANGED <<pc, until, beat, due>>
      BY <2>2, <3>1, <3>5 DEF Acquire
    <3> QED
      BY <2>2, <3>2, <3>3, <3>4, <3>5 DEF Acquire
  <2>3. CASE Verify(l)
    <3>1. CASE row = Lock(l, at[l] + TTL) /\ Start(l)
      BY <2>3, <3>1 DEF Verify, Start
    <3>2. CASE Refuse(l)
      BY <2>3, <3>2 DEF Verify, Refuse
    <3> QED
      BY <2>3, <3>1, <3>2 DEF Verify
  <2>4. CASE OwnerOf(l)
    BY <2>4 DEF OwnerOf
  <2>5. CASE Cleanup(l)
    BY <2>5 DEF Cleanup
  <2>6. CASE Wake(l)
    BY <2>6 DEF Wake
  <2>7. CASE Renew(l)
    <3>1. row' = Lock(l, read[l] + TTL) /\ until'[l] = read[l] + TTL /\ row.owner = l
      BY <2>7 DEF Renew, Renewable
    <3>2. \A m \in Leases \ {l} : Drives(m) => m \in wiped
      BY <3>1
    <3> QED
      BY <2>7, <3>1, <3>2 DEF Renew
  <2>8. CASE RenewRefused(l) \/ RenewRaises(l)
    BY <2>8 DEF RenewRefused, RenewRaises
  <2>9. CASE Stop(l)
    BY <2>9 DEF Stop
  <2>10. CASE Release(l)
    BY <2>10 DEF Release
  <2>11. CASE Crash(l)
    BY <2>11 DEF Crash
  <2> QED
    BY <1>2, <2>1, <2>2, <2>3, <2>4, <2>5, <2>6, <2>7, <2>8, <2>9, <2>10, <2>11 DEF LeaseStep
<1>3. CASE UNCHANGED vars
  BY <1>3 DEF vars
<1> QED
  BY <1>1, <1>2, <1>3 DEF Next

\* In every deployment two leases drive a run at once only after an owner_of has deleted
\* the lock of one of them (store/sqlite.py:910, store/postgres.py:929).
THEOREM OverlapNeedsWipe == Spec => []OverlapOnlyOfWiped
<1>1. SharedInv => OverlapOnlyOfWiped
  BY DEF SharedInv, OverlapOnlyOfWiped, Lock
<1> QED
  BY SharedInit, SharedStep, <1>1, PTL DEF Spec

-----------------------------------------------------------------------------
(* Timely heartbeats *)

\* A held timely lease has its heartbeat running, and the expiry it obtained lies beyond
\* the latest time at which its next renewal is made; slow ones only have old readings.
TimelyInv ==
  /\ TypeOK
  /\ \A l \in Leases :
       /\ pc[l] \notin {"verify", "cleanup"}
       /\ at[l] <= now /\ read[l] <= now
  /\ \A l \in Leases \ Slow :
       /\ pc[l] = "acquire" => at[l] = due[l] /\ now <= due[l] + MaxLag
       /\ beat[l] = "renew" => due[l] <= read[l]
       /\ beat[l] \in {"wait", "renew"} => now <= due[l] + MaxLag
       /\ pc[l] = "held" =>
            /\ beat[l] \in {"wait", "renew"}
            /\ row = Lock(l, until[l])
            /\ until[l] + Interval + MaxLag >= due[l] + TTL
       /\ pc[l] \notin {"held", "stopping", "done"} => beat[l] = "off"

\* Nothing is held or pending at the start.
LEMMA TimelyInit == Init => TimelyInv
  BY TypeInit DEF Init, TimelyInv

\* The expiry of a timely lease's lock lies in the future.
LEMMA HeldIsLive ==
  ASSUME TimelyAssumption, TimelyInv, NEW l \in Leases \ Slow, pc[l] = "held"
  PROVE  row = Lock(l, until[l]) /\ until[l] > now
<1>1. now <= due[l] + MaxLag /\ until[l] + Interval + MaxLag >= due[l] + TTL
  BY DEF TimelyInv
<1>2. now \in Int /\ due[l] \in Int /\ until[l] \in Int
  BY DEF TimelyInv, TypeOK
<1> QED
  BY <1>1, <1>2 DEF TimelyInv, TimelyAssumption

\* Every step keeps TimelyInv while the lag is below a third of the TTL.
LEMMA TimelyStep ==
  ASSUME ~Shared, ~RenewFaults, TimelyAssumption
  PROVE  TimelyInv /\ [Next]_vars => TimelyInv'
<1> SUFFICES ASSUME TimelyInv, [Next]_vars PROVE TimelyInv'
  OBVIOUS
<1>t. TypeOK'
  BY TypeStep DEF TimelyInv
<1>h. \A m \in Leases \ Slow : pc[m] = "held" => row = Lock(m, until[m]) /\ until[m] > now
  BY HeldIsLive
<1> USE <1>t DEF TimelyInv, TypeOK, Lock, NoLock
<1>1. CASE Tick
  BY <1>1 DEF Tick, Pending
<1>2. ASSUME NEW l \in Leases, LeaseStep(l) PROVE TimelyInv'
  <2>1. CASE ReadClock(l)
    BY <2>1 DEF ReadClock
  <2>2. CASE Acquire(l)
    <3>1. CASE Free(l) /\ Start(l)
      <4>1. row' = Lock(l, at[l] + TTL) /\ until'[l] = at[l] + TTL /\ due'[l] = now + Interval
        BY <2>2, <3>1 DEF Acquire, Start
      <4>2. \A m \in Leases \ Slow : pc[m] # "held"
        BY <1>h, <3>1 DEF Free
      <4>3. l \in Slow \/ until'[l] + Interval + MaxLag >= due'[l] + TTL
        BY <2>2, <4>1 DEF Acquire
      <4> QED
        BY <2>2, <3>1, <4>1, <4>2, <4>3 DEF Acquire, Start
    <3>2. CASE ~Free(l) /\ Refuse(l)
      BY <2>2, <3>2 DEF Acquire, Refuse
    <3> QED
      BY <2>2, <3>1, <3>2 DEF Acquire
  <2>4. CASE OwnerOf(l)
    <3>1. row' = row \/ \A m \in Leases \ Slow : pc[m] # "held"
      BY <2>4, <1>h DEF OwnerOf
    <3> QED
      BY <2>4, <3>1 DEF OwnerOf
  <2>6. CASE Wake(l)
    BY <2>6 DEF Wake
  <2>7. CASE Renew(l)
    <3>1. /\ row' = Lock(l, read[l] + TTL) /\ until'[l] = read[l] + TTL
          /\ due'[l] = now + Interval /\ row.owner = l
      BY <2>7 DEF Renew, Renewable
    <3>2. \A m \in Leases \ (Slow \cup {l}) : pc[m] # "held"
      BY <3>1
    <3>3. l \in Slow \/ until'[l] + Interval + MaxLag >= due'[l] + TTL
      BY <2>7, <3>1 DEF Renew
    <3> QED
      BY <2>7, <3>1, <3>2, <3>3 DEF Renew
  <2>8. CASE RenewRefused(l)
    <3>1. l \in Slow \/ pc[l] # "held"
      BY <2>8, <1>h DEF RenewRefused, Renewable
    <3> QED
      BY <2>8, <3>1 DEF RenewRefused
  <2>10. CASE Stop(l)
    BY <2>10 DEF Stop
  <2>11. CASE Release(l)
    BY <2>11 DEF Release
  <2>12. CASE Crash(l)
    BY <2>12 DEF Crash
  <2> QED
    BY <1>2, <2>1, <2>2, <2>4, <2>6, <2>7, <2>8, <2>10, <2>11, <2>12
    DEF LeaseStep, Verify, Cleanup, RenewRaises
<1>3. CASE UNCHANGED vars
  BY <1>3 DEF vars
<1> QED
  BY <1>1, <1>2, <1>3 DEF Next

\* A lease whose steps are less than a third of the TTL late owns an unexpired lock for as
\* long as its drive takes, however slow the others are, if no renewal raises.
THEOREM HeartbeatKeepsLock ==
  ASSUME ~Shared, ~RenewFaults, TimelyAssumption PROVE Spec => []HolderKeepsLock
<1>1. TimelyInv => HolderKeepsLock
  BY HeldIsLive DEF HolderKeepsLock
<1> QED
  BY TimelyInit, TimelyStep, <1>1, PTL DEF Spec

-----------------------------------------------------------------------------
(* Refused acquisitions *)

\* Until it drives, a lease owns at most the row that it wrote with its one reading of
\* the clock; only a lease that has driven has a heartbeat.
OwnRowInv ==
  /\ TypeOK
  /\ \A l \in Leases :
       /\ pc[l] \in {"idle", "owner_of"} => row.owner # l
       /\ pc[l] = "acquire" /\ ~Shared => row.owner # l
       /\ pc[l] \in {"acquire", "verify"} /\ row.owner = l => row = Lock(l, at[l] + TTL)
       /\ beat[l] # "off" => pc[l] \in {"held", "stopping", "done"}

\* The lock is free at the start.
LEMMA OwnRowInit == Init => OwnRowInv
  BY TypeInit, NobodyAssumption DEF Init, OwnRowInv, NoLock, Lock

\* The steps of the shared lock keep OwnRowInv, a repeated acquire included.
LEMMA OwnRowStep == OwnRowInv /\ [Next]_vars => OwnRowInv'
<1> SUFFICES ASSUME OwnRowInv, [Next]_vars PROVE OwnRowInv'
  OBVIOUS
<1>t. TypeOK'
  BY TypeStep DEF OwnRowInv
<1> USE <1>t DEF OwnRowInv, TypeOK, Lock, NoLock
<1>1. CASE Tick
  BY <1>1 DEF Tick
<1>2. ASSUME NEW l \in Leases, LeaseStep(l) PROVE OwnRowInv'
  <2>1. CASE ReadClock(l)
    BY <2>1 DEF ReadClock
  <2>2. CASE Acquire(l)
    <3>1. CASE Free(l)
      <4>1. row' = Lock(l, at[l] + TTL) /\ at' = at
        BY <2>2, <3>1 DEF Acquire
      <4>2. \A m \in Leases \ {l} : row'.owner # m
        BY <4>1
      <4>3. \/ pc' = [pc EXCEPT ![l] = "held"]
            \/ pc' = [pc EXCEPT ![l] = "verify"] /\ beat' = beat
            \/ pc' = pc /\ beat' = beat /\ Shared
        BY <2>2, <3>1 DEF Acquire, Start
      <4>4. \A m \in Leases \ {l} : beat'[m] = beat[m] /\ pc'[m] = pc[m]
        BY <2>2, <3>1 DEF Acquire, Start
      <4> QED
        BY <2>2, <4>1, <4>2, <4>3, <4>4 DEF Acquire
    <3>2. CASE ~Free(l)
      <4>1. row.owner # l \/ Shared
        BY <2>2 DEF Acquire
      <4>2. row.owner = l => row = Lock(l, at[l] + TTL)
        BY <2>2 DEF Acquire
      <4> QED
        BY <2>2, <3>2, <4>1, <4>2 DEF Acquire, Refuse, Free
    <3> QED
      BY <3>1, <3>2
  <2>3. CASE Verify(l)
    BY <2>3 DEF Verify, Start, Refuse
  <2>4. CASE OwnerOf(l) \/ Cleanup(l)
    BY <2>4 DEF OwnerOf, Cleanup
  <2>6. CASE Wake(l)
    BY <2>6 DEF Wake
  <2>7. CASE Renew(l)
    BY <2>7 DEF Renew, Renewable
  <2>8. CASE RenewRefused(l) \/ RenewRaises(l)
    BY <2>8 DEF RenewRefused, RenewRaises
  <2>10. CASE Stop(l) \/ Release(l)
    BY <2>10 DEF Stop, Release
  <2>12. CASE Crash(l)
    BY <2>12 DEF Crash
  <2> QED
    BY <1>2, <2>1, <2>2, <2>3, <2>4, <2>6, <2>7, <2>8, <2>10, <2>12 DEF LeaseStep
<1>3. CASE UNCHANGED vars
  BY <1>3 DEF vars
<1> QED
  BY <1>1, <1>2, <1>3 DEF Next

\* In every deployment a lease that is turned away owns nothing, however often a broken
\* connection made acquire run again (store/sqlite.py:867, store/postgres.py).
THEOREM RefusedOwnsNothing == Spec => []NoOrphanedLock
<1>1. OwnRowInv => NoOrphanedLock
  BY DEF OwnRowInv, NoOrphanedLock
<1> QED
  BY OwnRowInit, OwnRowStep, <1>1, PTL DEF Spec

-----------------------------------------------------------------------------
(* Lost locks *)

\* The heartbeat of a held lease ends only after it has set the flag.
ToldInv == TypeOK /\ \A l \in Leases : pc[l] = "held" => lost[l] \/ beat[l] # "off"

\* Every step keeps ToldInv if no renewal raises.
LEMMA ToldStep ==
  ASSUME ~RenewFaults PROVE ToldInv /\ [Next]_vars => ToldInv'
<1> SUFFICES ASSUME ToldInv, [Next]_vars PROVE ToldInv'
  OBVIOUS
<1>t. TypeOK'
  BY TypeStep DEF ToldInv
<1> USE <1>t DEF ToldInv, TypeOK
<1>1. CASE Tick
  BY <1>1 DEF Tick
<1>2. ASSUME NEW l \in Leases, LeaseStep(l) PROVE ToldInv'
  <2>1. CASE ReadClock(l) \/ Cleanup(l) \/ OwnerOf(l)
    BY <2>1 DEF ReadClock, Cleanup, OwnerOf
  <2>2. CASE Acquire(l)
    BY <2>2 DEF Acquire, Start, Refuse
  <2>3. CASE Verify(l)
    BY <2>3 DEF Verify, Start, Refuse
  <2>4. CASE Wake(l) \/ Renew(l)
    BY <2>4 DEF Wake, Renew
  <2>5. CASE RenewRefused(l) \/ RenewRaises(l)
    BY <2>5 DEF RenewRefused, RenewRaises
  <2>6. CASE Stop(l) \/ Release(l) \/ Crash(l)
    BY <2>6 DEF Stop, Release, Crash
  <2> QED
    BY <1>2, <2>1, <2>2, <2>3, <2>4, <2>5, <2>6 DEF LeaseStep
<1>3. CASE UNCHANGED vars
  BY <1>3 DEF vars
<1> QED
  BY <1>1, <1>2, <1>3 DEF Next

\* Whatever took the lock away, its holder has been told or has a heartbeat that will
\* find out, if no renewal raises (locking.py:27, 270).
THEOREM HolderIsTold == ASSUME ~RenewFaults PROVE Spec => []LossIsNoticed
<1>1. Init => ToldInv
  BY TypeInit DEF Init, ToldInv
<1>2. ToldInv => LossIsNoticed
  BY DEF ToldInv, LossIsNoticed
<1> QED
  BY <1>1, <1>2, ToldStep, PTL DEF Spec

=============================================================================
