------------------------------- MODULE Limits -------------------------------
(***************************************************************************)
(* Rate windows, the daily quota and the concurrency slots of outbound     *)
(* requests (web/outbound.py), over the shared table of counters that the  *)
(* limit on incoming requests (web/ratelimit.py) uses as well.  A row of   *)
(* the table is the start of a fixed window and a count.  The limiters     *)
(* read time.monotonic, the sweeper of the table reads the wall clock.     *)
(***************************************************************************)
EXTENDS Integers, Sequences, FiniteSets

CONSTANTS Callers,    \* threads that want to send a request
          GlobalWindow, HostWindow,  \* seconds, of the gates a request passes
          GlobalMax, HostMax,        \* what they let through in a window
          MaxConcurrency,
          Boot,       \* the wall clock when the monotonic one was zero
          MaxAge,     \* rate_limit_max_age_s
          MaxLag,     \* how long acquire may take from its look at the clock (assumed)
          MaxClock    \* (bound)

VARIABLES
  clock,    \* time.monotonic
  row,      \* the rows of the gates, start and count, or None
  widest,   \* _rate_window_seconds
  at, now,  \* the gate a caller is before (0: none, one more: the slots), the time it has read
  holding,  \* the callers with a slot, local.held
  slots,    \* of the semaphore, free
  \* History: when each gate let a request through, since the sweep last took its row while
  \* the window might still count.
  passed

table == <<row, widest>>
thread == <<at, now>>
vars  == <<clock, table, thread, holding, slots, passed>>

\* The daily quota is a gate of the same kind.
Window == <<GlobalWindow, HostWindow>>
MaxRequests == <<GlobalMax, HostMax>>
Gates == DOMAIN Window
None == [start |-> 0, count |-> 0]

Init ==
  /\ clock = 0 /\ row = [g \in Gates |-> None] /\ widest = 0
  /\ at = [c \in Callers |-> 0] /\ now = [c \in Callers |-> 0]
  /\ holding = {} /\ slots = MaxConcurrency
  /\ passed = [g \in Gates |-> <<>>]

-----------------------------------------------------------------------------
Goto(c, g) == at' = [at EXCEPT ![c] = g]
Leave(c) == Goto(c, 0) /\ now' = [now EXCEPT ![c] = 0]

\* acquire reads the clock once for all its gates.
Acquire(c) ==
  /\ at[c] = 0 /\ c \notin holding
  /\ Goto(c, 1) /\ now' = [now EXCEPT ![c] = clock]
  /\ UNCHANGED <<clock, table, holding, slots, passed>>

\* Fault variant: the window is over as soon as its second is.
HitAnew(r, w, m, t) ==
  IF r = None \/ t - r.start > 0 THEN [start |-> t, count |-> 1]
  ELSE [r EXCEPT !.count = IF @ > m THEN @ ELSE @ + 1]

\* hit_rate_limit: a row whose window is over begins a new one.  Counts above m, the
\* most that is let through, are all the same.
Hit(r, w, m, t) ==
  IF r = None \/ t - r.start >= w THEN [start |-> t, count |-> 1]
  ELSE [r EXCEPT !.count = IF @ > m THEN @ ELSE @ + 1]

\* A refused request has been counted, here and by the gates before.
Gate(c) ==
  LET g == at[c]
      r == Hit(row[g], Window[g], MaxRequests[g], now[c])
  IN /\ g \in Gates
     /\ row' = [row EXCEPT ![g] = r]
     /\ widest' = IF Window[g] > widest THEN Window[g] ELSE widest
     /\ IF r.count =< MaxRequests[g]
        THEN /\ Goto(c, g + 1) /\ UNCHANGED now
             /\ passed' = [passed EXCEPT ![g] = Append(@, clock)]
        ELSE Leave(c) /\ UNCHANGED passed
     /\ UNCHANGED <<clock, holding, slots>>

\* The store raises; nothing is held yet.
GateRaises(c) ==
  /\ at[c] \in Gates /\ Leave(c)
  /\ UNCHANGED <<clock, table, holding, slots, passed>>

\* The semaphore, without waiting.
Slot(c) ==
  /\ at[c] = Len(Window) + 1 /\ Leave(c)
  /\ IF slots > 0 THEN slots' = slots - 1 /\ holding' = holding \cup {c}
     ELSE UNCHANGED <<slots, holding>>
  /\ UNCHANGED <<clock, table, passed>>

\* release, in a finally, of a request that was let through.
Release(c) ==
  /\ c \in holding /\ holding' = holding \ {c} /\ slots' = slots + 1
  /\ UNCHANGED <<clock, table, thread, passed>>

\* A request that has read its clock may still be of the window.
MayCount(g) == clock - row[g].start < Window[g] + MaxLag

\* sweep, purge_stale_rate_limits: the rows whose widest window is over by the wall clock,
\* which is far ahead: on most hosts that is every row.
Sweep ==
  LET gone == {g \in Gates : row[g] # None /\ row[g].start + widest =< clock + Boot - MaxAge}
  IN /\ gone # {} /\ row' = [g \in Gates |-> IF g \in gone THEN None ELSE row[g]]
     /\ passed' = [g \in Gates |-> IF g \in gone /\ MayCount(g) THEN <<>> ELSE passed[g]]
     /\ UNCHANGED <<clock, widest, thread, holding, slots>>

\* The process starts anew; the table and the host's clock stay.
Restart ==
  /\ widest' = 0 /\ widest # 0 /\ slots' = MaxConcurrency /\ holding' = {}
  /\ at' = [c \in Callers |-> 0] /\ now' = [c \in Callers |-> 0]
  /\ UNCHANGED <<clock, row, passed>>

Tick ==
  /\ clock < MaxClock /\ \A c \in Callers : at[c] \in Gates => clock - now[c] < MaxLag
  /\ clock' = clock + 1 /\ UNCHANGED <<table, thread, holding, slots, passed>>

Next ==
  \/ \E c \in Callers : Acquire(c) \/ Gate(c) \/ GateRaises(c) \/ Slot(c) \/ Release(c)
  \/ Sweep \/ Restart \/ Tick

Spec == Init /\ [][Next]_vars

-----------------------------------------------------------------------------
\* outbound.py:98-131, sqlite.py:738-765, maintenance.py:111: in any interval of a window a
\* gate opens at most twice as often as configured (two fixed windows may touch it), with
\* stale clock readings, refusals and restarts between, and again as often for every time
\* that the sweep takes its row while the window may still count, as it does whenever it
\* runs: the first and the last of one more request since such a sweep are a window apart,
\* less what a reading may be late beyond its second.  A sweep after that changes nothing.
WindowsHold ==
  \A g \in Gates : \A i \in 1 .. Len(passed[g]) - 2 * MaxRequests[g] :
    passed[g][i + 2 * MaxRequests[g]] >= passed[g][i] + Window[g] + 1 - MaxLag

\* outbound.py:133-155: no slot is lost or given back twice.
SlotsBalanced == slots + Cardinality(holding) = MaxConcurrency

LimitsHold == WindowsHold /\ SlotsBalanced

\* sqlite.py:711-713, "a window that is deleted cannot be in force any more".
LiveWindowsKept ==
  [][\A g \in Gates :
       row[g] # None /\ row'[g] = None => clock - row[g].start >= Window[g]]_vars
=============================================================================
