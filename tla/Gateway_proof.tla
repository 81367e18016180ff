--------------------------- MODULE Gateway_proof ---------------------------
(***************************************************************************)
(* What is decided of a request in front still holds when its handler      *)
(* acts, for any people, runs and requests: owners keep their runs, and a  *)
(* decision is of the ticket that was seen, once, and not by who asked.    *)
(***************************************************************************)
EXTENDS Gateway, FiniteSetTheorems, TLAPS

\* What the names stand for (NamesAssumption), cited by the lemmas that need it.
Names ==
  /\ None \notin Users \cup Runs \cup Requests
  /\ IsFiniteSet(Runs) /\ MaxTickets \in Nat /\ MaxRestarts \in Nat

-----------------------------------------------------------------------------
\* The types.
Single  == {"creating", "saving", "owning", "driving", "driven", "judging", "acting"}
Early   == {"new", "in", "locked"}
Labels  == Early \cup Single \cup {"removing", "erasing", "done"}

Records == [at : Labels, kind : Kinds, who : Users \cup {None}, on : SUBSET Runs, names : Nat,
            obj : Requests \cup {None}, cur : Runs \cup {None}]

Typed ==
  /\ row \in [Runs -> Users \cup {None}] /\ creator \in [Runs -> Users \cup {None}]
  /\ own \in [Requests -> Users \cup {None}]
  /\ sess \in [Runs -> Requests \cup {None}] /\ lock \in [Runs -> Requests \cup {None}]
  /\ ticket \in [Runs -> Nat] /\ held \in [Requests -> Nat]
  /\ torn \subseteq Runs /\ decided \subseteq Nat /\ issued \in Nat /\ restarts \in Nat
  /\ req \in [Requests -> Records]

\* Which kind of request may be where, and what it has with it there.
KindsAt(l) ==
  CASE l = "locked" -> {"chat", "decide"}
    [] l \in {"creating", "saving"} -> {"create"}
    [] l \in {"owning", "driving", "driven"} -> {"chat"}
    [] l \in {"judging", "acting"} -> {"decide"}
    [] l = "removing" -> {"batch"}
    [] l = "erasing" -> Deletes
    [] OTHER -> Kinds

Shaped(q) ==
  LET p == req[q] IN
  /\ p.kind \in KindsAt(p.at)
  /\ p.at \in {"new", "done"} => p.on = {}
  /\ p.at \notin {"new", "done"} => p.who \in Users
  /\ p.at \notin {"new", "done", "erasing"} /\ p.kind # "batch" => \E r \in Runs : p.on = {r}
  /\ p.obj \in Requests <=> p.at \in Single
  /\ p.at = "erasing" => p.cur \in Runs /\ (p.kind = "delete" => p.on = {})
  /\ p.at \notin {"erasing", "removing"} => p.cur = None

Shape == \A q \in Requests : Shaped(q)

\* The runs a request is about, and the objects of a run that somebody may still use.
On(q) == {r \in Runs : r \in req[q].on \/ r = req[q].cur}
Objects(r) == {o \in Requests : sess[r] = o \/ \E q \in Requests : r \in req[q].on /\ req[q].obj = o}

\* No object serves two runs, and none has the name of a request that has built nothing.
ObjectsApart ==
  /\ \A r, s \in Runs : \A o \in Objects(r) \cap Objects(s) : r = s
  /\ \A r \in Runs : \A o \in Objects(r) : req[o].at \notin Early

\* A handler between the run lock and its response has the lock.
Locked ==
  \A q \in Requests :
    req[q].at \in {"locked", "owning", "driving", "driven", "judging", "acting"} =>
      \A r \in req[q].on : lock[r] = q

\* Who deletes a run that is whole is alone with it, and has taken its object away first.
Alone ==
  \A r \in Runs \ torn : \A p \in Requests :
    r \in On(p) /\ req[p].kind \in Deletes =>
      /\ \A q \in Requests : r \in On(q) => q = p
      /\ req[p].cur = r => sess[r] = None

\* What was found of the caller when the request was let in is still so.
Entitled ==
  \A q \in Requests :
    LET u == req[q].who k == req[q].kind IN
    /\ req[q].at \notin {"new", "done"} /\ k # "read" => u \notin Viewers \ Admins
    /\ \A r \in On(q) \ torn :
         /\ k \notin Deletes /\ ~CrossesOwners(u, k) => OwnerOf(r, creator) = u
         /\ k = "delete" \/ req[q].at \in {"removing", "erasing"} => row[r] \in {None, u}

\* The object of a run that is whole is the one of all its requests, and agrees with the
\* database about owner and ticket.
Agrees ==
  \A r \in Runs \ torn :
    /\ \A o \in Objects(r) :
         sess[r] = o /\ own[o] \in {None, OwnerOf(r, creator)} /\ held[o] = ticket[r]
    /\ ticket[r] # 0 => row[r] # None /\ ticket[r] \notin decided

\* A driving session has an owner.
Owned == \A q \in Requests : req[q].at \in {"driving", "driven"} => own[req[q].obj] # None

\* Tickets are numbered through, and no two runs know of the same.
Knows(r, n) == n # 0 /\ (n = ticket[r] \/ \E o \in Objects(r) : n = held[o])
TicketsApart ==
  /\ \A r, s \in Runs, n \in Nat : Knows(r, n) /\ Knows(s, n) => r = s
  /\ \A r \in Runs, n \in Nat : Knows(r, n) => n =< issued
  /\ \A n \in decided : n =< issued

\* What a decision was judged by still holds when it is taken.
Judged ==
  \A q \in Requests : req[q].at = "acting" =>
    \A r \in req[q].on \ torn :
      /\ ticket[r] # 0 /\ req[q].names \in {0, ticket[r]}
      /\ AllowSelf \/ row[r] # req[q].who

GateInv ==
  ObjectsApart /\ Locked /\ Alone /\ Entitled /\ Agrees /\ Owned /\ TicketsApart /\ Judged

-----------------------------------------------------------------------------
\* At the start nothing is stored and nobody has asked for anything.
LEMMA GateInit == ASSUME Names PROVE Init => Typed /\ Shape /\ GateInv
<1> SUFFICES ASSUME Init PROVE Typed /\ Shape /\ GateInv
  OBVIOUS
<1> USE DEF Init, Unsent
<1>1. Typed
  BY DEF Typed, Records, Labels, Early, Kinds, Operation
<1>2. Shape
  BY DEF Names, Shape, Shaped, KindsAt, Kinds, Operation, Single
<1>3. \A r \in Runs : Objects(r) = {}
  BY DEF Names, Objects
<1>4. \A q \in Requests : req[q].at = "new" /\ On(q) = {}
  BY DEF Names, On
<1>5. ObjectsApart /\ Locked /\ Alone /\ Entitled
  BY <1>3, <1>4 DEF ObjectsApart, Locked, Alone, Entitled
<1>6. Agrees /\ Owned /\ TicketsApart /\ Judged
  BY <1>3 DEF Agrees, Owned, TicketsApart, Knows, Judged
<1> QED
  BY <1>1, <1>2, <1>5, <1>6 DEF GateInv

\* The kinds of request, listed.
LEMMA KindsAre == Kinds = {"read", "create", "chat", "decide", "delete", "batch"}
BY DEF Kinds, Operation

\* A request that was let in, and one that is over, are records of the type.
LEMMA Resting == Unsent \in Records /\ Done \in Records
BY KindsAre DEF Done, Unsent, Records, Labels, Early

\* A request that has just been let in is a record of the right type.
LEMMA LetIn ==
  ASSUME Typed, NEW u \in Users, NEW k \in Kinds, NEW rs \in SUBSET Runs, NEW n \in 0 .. issued
  PROVE  Entered(u, k, rs, n) \in Records
<1>1. n \in Nat /\ "in" \in Labels
  BY DEF Typed, Labels, Early
<1> QED
  BY <1>1 DEF Entered, Records

\* Moving a request on, with its object, keeps the type of its record.
LEMMA Built ==
  ASSUME NEW p \in Records, NEW l \in Labels, NEW o \in Requests
  PROVE  [p EXCEPT !.at = l, !.obj = o] \in Records
BY DEF Records

\* A request that goes on keeps the rest of its record.
LEMMA GoTyped ==
  ASSUME Typed, NEW q \in Requests, NEW l \in Labels, Go(q, l)
  PROVE  req' \in [Requests -> Records]
<1>1. [req[q] EXCEPT !.at = l] \in Records
  BY DEF Typed, Records
<1> QED
  BY <1>1, Resting DEF Typed, Go

\* An answer keeps the types of the requests and of the locks.
LEMMA AnswerTyped ==
  ASSUME Typed, NEW q \in Requests, Answer(q)
  PROVE  req' \in [Requests -> Records] /\ lock' \in [Runs -> Requests \cup {None}]
<1>1. "done" \in Labels
  BY DEF Labels
<1> QED
  BY <1>1, GoTyped DEF Answer, Typed

\* The run of a request that is about one.
LEMMA OneRun ==
  ASSUME NEW q \in Requests, NEW r, req[q].on = {r}
  PROVE  RunOf(q) = r
BY DEF RunOf

\* A request that is not a batch is about exactly one run.
LEMMA RunIsOne ==
  ASSUME Names, Typed, Shape, NEW q \in Requests,
         req[q].at \in Single \cup {"in", "locked"}, req[q].kind # "batch"
  PROVE  RunOf(q) \in Runs /\ req[q].on = {RunOf(q)}
<1>1. PICK r \in Runs : req[q].on = {r}
  BY DEF Shape, Shaped, Single
<1> QED
  BY <1>1, OneRun

\* So is one inside a handler of a single run, with its user and its object.
LEMMA HandlerOfOne ==
  ASSUME Names, Typed, Shape, NEW q \in Requests, req[q].at \in Single
  PROVE  /\ RunOf(q) \in Runs /\ req[q].on = {RunOf(q)} /\ req[q].obj \in Requests
         /\ req[q].who \in Users /\ req[q].cur = None
<1>1. req[q].kind # "batch"
  BY DEF Shape, Shaped, KindsAt, Single
<1> QED
  BY <1>1, RunIsOne DEF Shape, Shaped, Single

\* Every step keeps the types.
LEMMA TypedStep == ASSUME Names PROVE Typed /\ Shape /\ [Next]_vars => Typed'
<1> SUFFICES ASSUME Typed, Shape, [Next]_vars PROVE Typed'
  OBVIOUS
<1> USE DEF Names, database, registry
<1>0. {"in", "locked", "driving", "driven", "saving", "acting", "removing", "erasing", "done"}
        \subseteq Labels
  BY DEF Labels, Early, Single
<1>1. ASSUME NEW q \in Requests, Admit(q) PROVE Typed'
  <2> PICK u \in Users, k \in Kinds, rs \in SUBSET Runs, n \in 0 .. issued :
         /\ creator' = IF k = "batch" THEN creator ELSE Claim(u, rs)
         /\ req' = [req EXCEPT ![q] =
              IF \A r \in rs : Authorized(u, k, r, creator')
              THEN Entered(u, k, rs, n)
              ELSE Done]
         /\ torn' = torn \cup {r \in rs : \E p \in Requests : Overlaps(p, k, r)}
    BY <1>1, Zenon DEF Admit
  <2>1. creator' \in [Runs -> Users \cup {None}]
    BY DEF Typed, Claim
  <2>2. Done \in Records /\ Entered(u, k, rs, n) \in Records
    BY LetIn, Resting
  <2>3. req' \in [Requests -> Records]
    BY <2>2 DEF Typed
  <2> QED
    BY <1>1, <2>1, <2>3 DEF Admit, Typed
<1>2. ASSUME NEW q \in Requests, Refuse(q) \/ Lock(q) PROVE Typed'
  <2>1. CASE Refuse(q)
    BY <1>0, <2>1, GoTyped DEF Refuse, Typed
  <2>2. CASE Lock(q)
    BY <1>0, <2>2, GoTyped DEF Lock, Typed
  <2> QED
    BY <1>2, <2>1, <2>2
<1>3. ASSUME NEW q \in Requests, Find(q) PROVE Typed'
  <2> DEFINE r == RunOf(q) o == IF sess[r] # None THEN sess[r] ELSE q
  <2>1. req[q].at \in {"in", "locked"} /\ req[q].kind \in {"read", "create", "chat", "decide"}
    BY <1>3 DEF Find, Shape, Shaped, KindsAt
  <2>2. r \in Runs /\ o \in Requests
    BY <2>1, RunIsOne DEF Typed
  <2>3. req[q].kind # "read" => Handler[req[q].kind] \in Labels
    BY <2>1 DEF Handler, Labels, Single
  <2>4. req' \in [Requests -> Records]
    <3>1. CASE req[q].kind = "read"
      BY <1>3, <3>1, Resting DEF Find, Typed
    <3>2. CASE req[q].kind # "read"
      <4>1. [req[q] EXCEPT !.at = Handler[req[q].kind], !.obj = o] \in Records
        BY <2>2, <2>3, <3>2, Built DEF Typed
      <4> QED
        BY <1>3, <3>2, <4>1 DEF Find, Typed
    <3> QED
      BY <3>1, <3>2
  <2> QED
    BY <1>3, <2>2, <2>4 DEF Find, Typed
<1>4. ASSUME NEW q \in Requests, Own(q) \/ Drive(q) \/ Create(q) \/ Save(q) \/ Judge(q) PROVE Typed'
  <2>1. req[q].at \in Single
    BY <1>4 DEF Own, Drive, Create, Save, Judge, Single
  <2>2. RunOf(q) \in Runs /\ req[q].obj \in Requests /\ req[q].who \in Users
    BY <2>1, HandlerOfOne
  <2>3. CASE Own(q) \/ Drive(q) \/ Save(q)
    BY <1>0, <2>2, <2>3, GoTyped DEF Own, Drive, Save, Saved, Typed
  <2>4. CASE Create(q)
    BY <1>0, <2>2, <2>4, GoTyped DEF Create, Typed
  <2>5. CASE Judge(q)
    BY <1>0, <2>5, GoTyped, AnswerTyped DEF Judge, Typed
  <2> QED
    BY <1>4, <2>3, <2>4, <2>5
<1>5. ASSUME NEW q \in Requests, Finish(q) \/ Act(q) PROVE Typed'
  <2>1. req[q].at \in Single
    BY <1>5 DEF Finish, Act, Single
  <2>2. RunOf(q) \in Runs /\ req[q].obj \in Requests
    BY <2>1, HandlerOfOne
  <2>3. row' \in [Runs -> Users \cup {None}]
    BY <1>5, <2>2 DEF Finish, Act, Saved, Typed
  <2>4. ASSUME NEW n \in Nat, Holds(q, n)
        PROVE  held' \in [Requests -> Nat] /\ ticket' \in [Runs -> Nat] /\ issued' \in Nat
    BY <2>2, <2>4 DEF Holds, Typed
  <2>5. held[req[q].obj] \in Nat
    BY <2>2 DEF Typed
  <2> QED
    BY <1>5, <2>2, <2>3, <2>4, <2>5, AnswerTyped DEF Finish, Act, Typed
<1>6. ASSUME NEW q \in Requests, Check(q) \/ Erase(q) PROVE Typed'
  <2>1. CASE Check(q)
    BY <1>0, <2>1, GoTyped DEF Check, Typed
  <2>2. CASE Erase(q)
    <3>1. req' \in [Requests -> Records]
      BY <1>0, <2>2, GoTyped DEF Erase
    <3> QED
      BY <2>2, <3>1 DEF Erase, Typed
  <2> QED
    BY <1>6, <2>1, <2>2
<1>7. ASSUME NEW q \in Requests, Remove(q) PROVE Typed'
  <2> PICK r \in req[q].on :
         /\ req' = [req EXCEPT ![q].at = "erasing", ![q].cur = r, ![q].on = @ \ {r}]
         /\ sess' = [sess EXCEPT ![r] = None] /\ creator' = [creator EXCEPT ![r] = None]
    BY <1>7 DEF Remove
  <2>1. req' \in [Requests -> Records]
    BY <1>0 DEF Typed, Records
  <2> QED
    BY <1>7, <2>1 DEF Remove, Typed
<1>8. CASE Restart
  <2>1. Unsent \in Records /\ Done \in Records
    BY DEF Done, Unsent, Records, Labels, Early, Kinds, Operation
  <2> QED
    BY <1>8, <2>1 DEF Restart, Typed
<1>9. CASE UNCHANGED vars
  BY <1>9 DEF vars, Typed
<1> QED
  BY <1>1, <1>2, <1>3, <1>4, <1>5, <1>6, <1>7, <1>8, <1>9 DEF Next

-----------------------------------------------------------------------------
\* A step of one request leaves the records of the others alone.
Only(q) == \A p \in Requests \ {q} : req'[p] = req[p]

\* A request that goes on changes its own record alone.
LEMMA GoOnly ==
  ASSUME Typed, NEW q \in Requests, NEW l, Go(q, l)
  PROVE  /\ Only(q)
         /\ l = "done" => req'[q] = Done
         /\ l # "done" => req'[q] = [req[q] EXCEPT !.at = l]
BY DEF Typed, Go, Only

\* When one request moves, its shape is all there is to show again.
LEMMA ShapeOnly ==
  ASSUME Shape, NEW q \in Requests, Only(q), Shaped(q)'
  PROVE  Shape'
BY DEF Shape, Only, Shaped

\* A finished request has the shape of one.
LEMMA DoneShaped ==
  ASSUME Names, NEW q \in Requests, req'[q] = Done
  PROVE  Shaped(q)'
BY KindsAre DEF Names, Done, Unsent, Shaped, KindsAt, Single

\* A request that goes on in its handler.
LEMMA GoShaped ==
  ASSUME Names, Typed, Shape, NEW q \in Requests, NEW l \in Labels, Go(q, l), l \notin {"new", "erasing"},
         req[q].at \notin {"new", "done"},
         req[q].kind \in KindsAt(l), l \in Single <=> req[q].at \in Single,
         req[q].at \in {"erasing", "removing"} => l \in {"removing", "done"}
  PROVE  Shape'
<1>1. CASE l = "done"
  BY <1>1, GoOnly, DoneShaped, ShapeOnly
<1>2. CASE l # "done"
  <2>1. Only(q) /\ req'[q] = [req[q] EXCEPT !.at = l]
    BY <1>2, GoOnly
  <2>2. /\ req'[q].at = l /\ req'[q].kind = req[q].kind /\ req'[q].who = req[q].who
        /\ req'[q].on = req[q].on /\ req'[q].obj = req[q].obj /\ req'[q].cur = req[q].cur
    BY <2>1 DEF Typed, Records
  <2>3. Shaped(q)
    BY DEF Shape
  <2>4. req'[q].kind \in KindsAt(req'[q].at)
    BY <2>2
  <2>5. req'[q].at \notin {"new", "done", "erasing"} /\ req'[q].kind # "batch" =>
          \E r \in Runs : req'[q].on = {r}
    BY <1>2, <2>2, <2>3 DEF Shaped, KindsAt
  <2>6. Shaped(q)'
    BY <1>2, <2>2, <2>3, <2>4, <2>5 DEF Shaped, Single
  <2> QED
    BY <2>1, <2>6, ShapeOnly
<1> QED
  BY <1>1, <1>2

\* Every step keeps the shape of the requests.
LEMMA ShapeStep == ASSUME Names PROVE Typed /\ Shape /\ [Next]_vars => Shape'
<1> SUFFICES ASSUME Typed, Shape, [Next]_vars PROVE Shape'
  OBVIOUS
<1> USE DEF Names
<1>0. /\ {"locked", "creating", "driving", "driven", "saving", "acting", "removing", "done"} \subseteq Labels
      /\ "done" \notin Single /\ "removing" \notin Single /\ "locked" \notin Single
      /\ KindsAt("locked") = {"chat", "decide"} /\ KindsAt("saving") = {"create"}
      /\ KindsAt("driving") = {"chat"} /\ KindsAt("driven") = {"chat"}
      /\ KindsAt("acting") = {"decide"} /\ KindsAt("removing") = {"batch"} /\ KindsAt("done") = Kinds
      /\ KindsAt("erasing") = Deletes
  BY DEF Labels, Early, Single, KindsAt
<1>1. ASSUME NEW q \in Requests, Admit(q) PROVE Shape'
  <2> PICK u \in Users, k \in Kinds, rs \in SUBSET Runs, n \in 0 .. issued :
         /\ rs # {} /\ (k # "batch" => Cardinality(rs) = 1)
         /\ req' = [req EXCEPT ![q] =
              IF \A r \in rs : Authorized(u, k, r, creator') THEN Entered(u, k, rs, n) ELSE Done]
    BY <1>1, Zenon DEF Admit
  <2>1. Only(q) /\ (req'[q] = Done \/ req'[q] = Entered(u, k, rs, n))
    BY DEF Only, Typed
  <2>2. k # "batch" => \E r \in Runs : rs = {r}
    <3>1. IsFiniteSet(rs)
      BY FS_Subset
    <3> QED
      BY <3>1, FS_Singleton
  <2>3. ASSUME req'[q] = Entered(u, k, rs, n) PROVE Shaped(q)'
    <3>1. KindsAt("in") = Kinds /\ "in" \notin Single
      BY DEF KindsAt, Single
    <3> QED
      BY <2>2, <2>3, <3>1 DEF Entered, Shaped
  <2> QED
    BY <2>1, <2>3, DoneShaped, ShapeOnly
<1>2. ASSUME NEW q \in Requests, Refuse(q) \/ Lock(q) \/ Judge(q) \/ Save(q) PROVE Shape'
  <2>1. req[q].kind \in Kinds
    BY DEF Typed, Records
  <2>2. CASE Go(q, "done")
    BY <2>2, GoOnly, DoneShaped, ShapeOnly
  <2>3. CASE Lock(q)
    BY <1>0, <2>3, GoShaped DEF Lock, Single
  <2>4. CASE Judge(q) /\ Go(q, "acting")
    BY <1>0, <2>4, GoShaped DEF Judge, Single, Shape, Shaped, KindsAt
  <2> QED
    BY <1>2, <2>2, <2>3, <2>4 DEF Refuse, Judge, Save, Answer
<1>3. ASSUME NEW q \in Requests, Find(q) PROVE Shape'
  <2> DEFINE r == RunOf(q) o == IF sess[r] # None THEN sess[r] ELSE q
  <2>1. req[q].at \in {"in", "locked"} /\ req[q].kind \in {"read", "create", "chat", "decide"}
    BY <1>3 DEF Find, Shape, Shaped, KindsAt
  <2>2. r \in Runs /\ req[q].on = {r} /\ o \in Requests
    BY <2>1, RunIsOne DEF Typed
  <2>3. CASE req[q].kind = "read"
    <3>1. Only(q) /\ req'[q] = Done
      BY <1>3, <2>3 DEF Find, Only, Typed
    <3> QED
      BY <3>1, DoneShaped, ShapeOnly
  <2>4. CASE req[q].kind # "read"
    <3> DEFINE l == Handler[req[q].kind]
    <3>1. l \in Single /\ l \notin {"erasing", "removing", "new", "done"} /\ req[q].kind \in KindsAt(l)
      BY <2>1, <2>4 DEF Handler, Single, KindsAt
    <3>2. Only(q) /\ req'[q] = [req[q] EXCEPT !.at = l, !.obj = o]
      BY <1>3, <2>4 DEF Find, Only, Typed
    <3> HIDE DEF l, o
    <3>3. /\ req'[q].at = l /\ req'[q].kind = req[q].kind /\ req'[q].who = req[q].who
          /\ req'[q].on = req[q].on /\ req'[q].obj = o /\ req'[q].cur = req[q].cur
      BY <3>2 DEF Typed, Records
    <3>4. req[q].who \in Users /\ req[q].cur = None
      BY <2>1 DEF Shape, Shaped
    <3>5. Shaped(q)'
      BY <2>2, <3>1, <3>3, <3>4 DEF Shaped
    <3> QED
      BY <3>2, <3>5, ShapeOnly
  <2> QED
    BY <2>3, <2>4
<1>4. ASSUME NEW q \in Requests, Own(q) \/ Drive(q) \/ Create(q) PROVE Shape'
  <2>1. CASE Go(q, "done")
    BY <2>1, GoOnly, DoneShaped, ShapeOnly
  <2>2. CASE Own(q) \/ Drive(q)
    BY <1>0, <2>2, GoShaped DEF Own, Drive, Single, Shape, Shaped, KindsAt
  <2>3. CASE Create(q) /\ Go(q, "saving")
    BY <1>0, <2>3, GoShaped DEF Create, Single, Shape, Shaped, KindsAt
  <2> QED
    BY <1>4, <2>1, <2>2, <2>3 DEF Create
<1>5. ASSUME NEW q \in Requests, Finish(q) \/ Act(q) PROVE Shape'
  BY <1>5, GoOnly, DoneShaped, ShapeOnly DEF Finish, Act, Answer
<1>6. ASSUME NEW q \in Requests, Check(q) \/ Erase(q) PROVE Shape'
  <2>1. CASE Go(q, "done")
    BY <2>1, GoOnly, DoneShaped, ShapeOnly
  <2>2. CASE Check(q) /\ Go(q, "removing")
    BY <1>0, <2>2, GoShaped DEF Check, Single
  <2>3. CASE Erase(q) /\ req[q].on # {} /\ Go(q, "removing")
    <3>1. req[q].at = "erasing" /\ req[q].kind = "batch"
      BY <2>3 DEF Erase, Shape, Shaped, KindsAt, Deletes
    <3> QED
      BY <1>0, <2>3, <3>1, GoShaped DEF Single
  <2> QED
    BY <1>6, <2>1, <2>2, <2>3 DEF Check, Erase
<1>7. ASSUME NEW q \in Requests, Remove(q) PROVE Shape'
  <2> PICK r \in req[q].on :
         req' = [req EXCEPT ![q].at = "erasing", ![q].cur = r, ![q].on = @ \ {r}]
    BY <1>7 DEF Remove
  <2>1. /\ r \in Runs /\ req[q].who \in Users /\ req[q].obj \notin Requests
        /\ req[q].kind \in Deletes /\ (req[q].kind = "delete" => req[q].on = {r})
    BY <1>7 DEF Remove, Typed, Records, Shape, Shaped, Single, KindsAt, Deletes
  <2>2. /\ Only(q) /\ req'[q].at = "erasing" /\ req'[q].cur = r /\ req'[q].on = req[q].on \ {r}
        /\ req'[q].kind = req[q].kind /\ req'[q].who = req[q].who /\ req'[q].obj = req[q].obj
    BY DEF Only, Typed, Records
  <2>3. req'[q].kind \in KindsAt(req'[q].at) /\ (req[q].kind = "delete" => req'[q].on = {})
    BY <1>0, <2>1, <2>2
  <2>4. Shaped(q)'
    BY <2>1, <2>2, <2>3 DEF Shaped, Single
  <2> QED
    BY <2>2, <2>4, ShapeOnly
<1>8. CASE Restart
  <2>1. ASSUME NEW q \in Requests PROVE Shaped(q)'
    <3>1. req'[q] = Done \/ req'[q] = Unsent
      BY <1>8 DEF Restart
    <3> QED
      BY <3>1, DoneShaped, KindsAre DEF Unsent, Shaped, KindsAt, Single
  <2> QED
    BY <2>1 DEF Shape
<1>9. CASE UNCHANGED vars
  BY <1>9 DEF vars, Shape, Shaped
<1> QED
  BY <1>1, <1>2, <1>3, <1>4, <1>5, <1>6, <1>7, <1>8, <1>9 DEF Next

-----------------------------------------------------------------------------
\* What a step of one request keeps.  All but an arrival go on with what was let in.
Good == Typed /\ Shape /\ GateInv

Follows(q) ==
  /\ Only(q) /\ torn' = torn
  /\ On(q)' \subseteq On(q)
  /\ req[q].at \notin Early => req'[q].at \notin Early
  /\ \/ req'[q] = Done
     \/ /\ req'[q].kind = req[q].kind /\ req'[q].who = req[q].who /\ req'[q].names = req[q].names
        /\ req[q].at \notin {"new", "done"}

Shrinks == \A r \in Runs : Objects(r)' \subseteq Objects(r)

\* A request that finishes lets go of its runs and sets up nothing new.
LEMMA DoneFollows ==
  ASSUME Names, Typed, NEW q \in Requests, Only(q), req'[q] = Done, torn' = torn
  PROVE  /\ Follows(q) /\ On(q)' = {} /\ req'[q].at = "done" /\ req'[q].on = {}
         /\ sess' = sess => Shrinks
<1>1. req'[q].on = {} /\ req'[q].cur = None /\ req'[q].at = "done"
  BY DEF Done, Unsent
<1>2. On(q)' = {}
  BY <1>1 DEF On, Names
<1>3. ASSUME sess' = sess PROVE Shrinks
  BY <1>1, <1>3 DEF Shrinks, Objects, Only
<1> QED
  BY <1>1, <1>2, <1>3 DEF Follows, Early

\* A request that goes on keeps its kind, its user, its runs and its object.
LEMMA GoFollows ==
  ASSUME Names, Typed, Shape, NEW q \in Requests, NEW l, Go(q, l), torn' = torn,
         l \notin {"new", "in"}, req[q].at \notin {"new", "done"},
         l = "locked" => req[q].at = "in"
  PROVE  /\ Follows(q) /\ req'[q].at = l
         /\ sess' = sess => Shrinks
         /\ l # "done" => /\ req'[q].kind = req[q].kind /\ req'[q].who = req[q].who
                          /\ req'[q].names = req[q].names /\ req'[q].on = req[q].on
                          /\ req'[q].obj = req[q].obj /\ req'[q].cur = req[q].cur
<1>1. CASE l = "done"
  BY <1>1, GoOnly, DoneFollows
<1>2. CASE l # "done"
  <2>1. Only(q) /\ req'[q] = [req[q] EXCEPT !.at = l]
    BY <1>2, GoOnly
  <2>2. /\ req'[q].at = l /\ req'[q].kind = req[q].kind /\ req'[q].who = req[q].who
        /\ req'[q].names = req[q].names /\ req'[q].on = req[q].on
        /\ req'[q].obj = req[q].obj /\ req'[q].cur = req[q].cur
    BY <2>1 DEF Typed, Records
  <2>3. On(q)' = On(q)
    BY <2>2 DEF On
  <2>4. ASSUME NEW p \in Requests PROVE req'[p].on = req[p].on /\ req'[p].obj = req[p].obj
    BY <2>1, <2>2 DEF Only
  <2>5. ASSUME sess' = sess PROVE Shrinks
    BY <2>4, <2>5 DEF Shrinks, Objects
  <2> QED
    BY <2>1, <2>2, <2>3, <2>5 DEF Follows, Early
<1> QED
  BY <1>1, <1>2

\* An answer finishes its request.
LEMMA AnswerFollows ==
  ASSUME Names, Typed, NEW q \in Requests, Answer(q), torn' = torn
  PROVE  /\ Follows(q) /\ On(q)' = {} /\ req'[q].at = "done" /\ req'[q].on = {}
         /\ sess' = sess => Shrinks
BY GoOnly, DoneFollows DEF Answer

\* If no object is added, those of two runs stay apart.
LEMMA ObjectsKept ==
  ASSUME Typed, ObjectsApart, NEW q \in Requests, Follows(q), Shrinks
  PROVE  ObjectsApart'
<1>1. ASSUME NEW r \in Runs, NEW o \in Objects(r)' PROVE req'[o].at \notin Early
  <2>1. o \in Requests /\ o \in Objects(r)
    BY <1>1 DEF Shrinks, Objects
  <2>2. req[o].at \notin Early
    BY <2>1 DEF ObjectsApart
  <2> QED
    BY <2>1, <2>2 DEF Follows, Only
<1>2. ASSUME NEW r \in Runs, NEW s \in Runs, NEW o \in Objects(r)' \cap Objects(s)' PROVE r = s
  BY <1>2 DEF Shrinks, ObjectsApart
<1> QED
  BY <1>1, <1>2 DEF ObjectsApart

\* If no object comes to a run that is being deleted, its deletion stays alone.
LEMMA AloneKept ==
  ASSUME Names, Typed, Shape, Alone, NEW q \in Requests, Follows(q),
         \A r \in Runs \ torn :
           \/ sess'[r] = None
           \/ sess'[r] = sess[r] /\ (req'[q].cur = r => req[q].cur = r)
           \/ r \in On(q) /\ req[q].kind \notin Deletes
  PROVE  Alone'
<1> SUFFICES ASSUME NEW r \in Runs \ torn, NEW p \in Requests, r \in On(p)', req'[p].kind \in Deletes
             PROVE  /\ \A u \in Requests : r \in On(u)' => u = p
                    /\ req'[p].cur = r => sess'[r] = None
  BY DEF Follows, Alone
<1>1. ASSUME NEW u \in Requests, r \in On(u)' PROVE r \in On(u)
  BY <1>1 DEF Follows, Only, On
<1>2. req[p].kind \in Deletes
  <2>1. CASE p = q
    <3>1. On(q)' = {} \/ req'[q].kind = req[q].kind
      BY DEF Follows, Done, Unsent, On, Names
    <3> QED
      BY <2>1, <3>1
  <2>2. CASE p # q
    BY <2>2 DEF Follows, Only
  <2> QED
    BY <2>1, <2>2
<1>3. /\ \A u \in Requests : r \in On(u) => u = p
      /\ req[p].cur = r => sess[r] = None
  BY <1>1, <1>2 DEF Alone
<1>4. ASSUME req'[p].cur = r PROVE sess'[r] = None
  <2>1. CASE sess'[r] = sess[r] /\ (req'[q].cur = r => req[q].cur = r)
    <3>1. req[p].cur = r
      BY <1>4, <2>1 DEF Follows, Only
    <3> QED
      BY <1>3, <2>1, <3>1
  <2>2. CASE r \in On(q) /\ req[q].kind \notin Deletes
    BY <1>2, <1>3, <2>2
  <2> QED
    BY <2>1, <2>2
<1> QED
  BY <1>1, <1>3, <1>4

\* If owners stay, and rows change only for those who are about to write them, what was
\* found of the callers is still so.
LEMMA EntitledKept ==
  ASSUME Names, Typed, Shape, Shape', Alone, Entitled, NEW q \in Requests, Follows(q),
         req'[q].at \in {"removing", "erasing"} =>
           \/ req[q].at \in {"removing", "erasing"} \/ req[q].kind = "delete"
           \/ \A r \in On(q) \ torn : row[r] \in {None, req[q].who},
         \A r \in Runs \ torn :
           /\ \/ OwnerOf(r, creator)' = OwnerOf(r, creator)
              \/ r \in On(q) /\ req[q].kind \in Deletes
           /\ \/ row'[r] = row[r]
              \/ r \in On(q) /\ (req[q].kind \notin Deletes \/ row'[r] = None)
  PROVE  Entitled'
<1> SUFFICES ASSUME NEW p \in Requests
             PROVE
    /\ req'[p].at \notin {"new", "done"} /\ req'[p].kind # "read" => req'[p].who \notin Viewers \ Admins
    /\ \A r \in On(p)' \ torn :
         /\ req'[p].kind \notin Deletes /\ ~CrossesOwners(req'[p].who, req'[p].kind) =>
              OwnerOf(r, creator)' = req'[p].who
         /\ req'[p].kind = "delete" \/ req'[p].at \in {"removing", "erasing"} =>
              row'[r] \in {None, req'[p].who}
  BY DEF Entitled, Follows
<1>1. CASE p = q /\ req'[q] = Done
  BY <1>1 DEF Done, Unsent, On, Names
<1>2. CASE p = q /\ req'[q] # Done
  <2>1. /\ req'[q].kind = req[q].kind /\ req'[q].who = req[q].who
        /\ req[q].at \notin {"new", "done"} /\ On(q)' \subseteq On(q)
    BY <1>2 DEF Follows
  <2>2. req[q].kind # "read" => req[q].who \notin Viewers \ Admins
    BY <2>1 DEF Entitled
  <2>3. ASSUME NEW r \in On(q)' \ torn, req[q].kind \notin Deletes, ~CrossesOwners(req[q].who, req[q].kind)
        PROVE  OwnerOf(r, creator)' = req[q].who
    BY <2>1, <2>3 DEF Entitled, On
  <2>4. ASSUME NEW r \in On(q)' \ torn, req[q].kind = "delete" \/ req'[q].at \in {"removing", "erasing"}
        PROVE  row'[r] \in {None, req[q].who}
    <3>1. req'[q].kind \in KindsAt(req'[q].at)
      BY DEF Shape, Shaped
    <3>2. req[q].kind \in Deletes
      BY <2>1, <2>4, <3>1 DEF KindsAt, Deletes
    <3>3. r \in On(q) \ torn /\ r \in Runs /\ (row'[r] = row[r] \/ row'[r] = None)
      BY <2>1, <3>2 DEF On
    <3> QED
      BY <2>4, <3>3 DEF Entitled
  <2> QED
    BY <1>2, <2>1, <2>2, <2>3, <2>4, Zenon DEF CrossesOwners
<1>3. CASE p # q
  <2>1. req'[p] = req[p] /\ On(p)' = On(p)
    BY <1>3 DEF Follows, Only, On
  <2>2. ASSUME NEW r \in On(p) \ torn, req[p].kind = "delete" \/ req[p].at \in {"removing", "erasing"}
        PROVE  row'[r] = row[r]
    <3>1. req[p].kind \in Deletes
      BY <2>2 DEF Shape, Shaped, KindsAt, Deletes
    <3> QED
      BY <1>3, <2>2, <3>1 DEF Alone, On
  <2>3. ASSUME NEW r \in On(p) \ torn PROVE OwnerOf(r, creator)' = OwnerOf(r, creator)
    BY <1>3, <2>3 DEF Alone, On
  <2> QED
    BY <2>1, <2>2, <2>3 DEF Entitled, On
<1> QED
  BY <1>1, <1>2, <1>3

\* The run lock only comes to who finds it free, and only goes from who has it.
LEMMA LockedKept ==
  ASSUME Names, Typed, Locked, NEW q \in Requests, Follows(q),
         \A r \in Runs : lock'[r] = lock[r] \/ lock[r] \in {q, None},
         req'[q].at \in {"locked", "owning", "driving", "driven", "judging", "acting"} =>
           \A r \in req'[q].on : lock'[r] = q
  PROVE  Locked'
<1> SUFFICES ASSUME NEW p \in Requests, NEW r \in req'[p].on,
                    req'[p].at \in {"locked", "owning", "driving", "driven", "judging", "acting"}, p # q
             PROVE  lock'[r] = p
  BY DEF Locked
<1>1. req'[p] = req[p]
  BY DEF Follows, Only
<1>2. lock[r] = p /\ r \in Runs
  BY <1>1 DEF Locked, Typed, Records
<1> QED
  BY <1>2 DEF Names

\* If no session comes or goes and no ticket changes, memory and database go on agreeing.
LEMMA AgreesKept ==
  ASSUME Agrees, NEW q \in Requests, Follows(q), Shrinks,
         sess' = sess, held' = held, ticket' = ticket, decided' = decided,
         \A r \in Runs \ torn :
           /\ OwnerOf(r, creator)' = OwnerOf(r, creator)
           /\ row[r] # None => row'[r] # None
           /\ \A o \in Objects(r) : own'[o] \in {own[o], None, OwnerOf(r, creator)}
  PROVE  Agrees'
<1> SUFFICES ASSUME NEW r \in Runs \ torn
             PROVE
    /\ \A o \in Objects(r)' :
         sess'[r] = o /\ own'[o] \in {None, OwnerOf(r, creator)'} /\ held'[o] = ticket'[r]
    /\ ticket'[r] # 0 => row'[r] # None /\ ticket'[r] \notin decided'
  BY DEF Agrees, Follows
<1>1. ASSUME NEW o \in Objects(r)'
      PROVE  sess'[r] = o /\ own'[o] \in {None, OwnerOf(r, creator)'} /\ held'[o] = ticket'[r]
  <2>1. o \in Objects(r)
    BY <1>1 DEF Shrinks
  <2> QED
    BY <2>1 DEF Agrees
<1> QED
  BY <1>1 DEF Agrees

\* An object that has an owner keeps one.
LEMMA OwnedKept ==
  ASSUME Names, Typed, Shape, Owned, ObjectsApart, NEW q \in Requests, Follows(q),
         \A o \in Requests : own[o] # None /\ req[o].at \notin Early => own'[o] # None,
         req'[q].at \in {"driving", "driven"} => own'[req'[q].obj] # None
  PROVE  Owned'
<1> SUFFICES ASSUME NEW p \in Requests, req'[p].at \in {"driving", "driven"}, p # q
             PROVE  own'[req'[p].obj] # None
  BY DEF Owned
<1>1. req'[p] = req[p] /\ req[p].at \in Single
  BY DEF Follows, Only, Single
<1>2. req[p].obj \in Objects(RunOf(p)) /\ RunOf(p) \in Runs
  BY <1>1, HandlerOfOne DEF Objects
<1>3. req[req[p].obj].at \notin Early /\ req[p].obj \in Requests
  BY <1>2 DEF ObjectsApart, Objects
<1> QED
  BY <1>1, <1>3 DEF Owned

\* At most one run comes to know of one ticket, which has a new number.
LEMMA TicketsKept ==
  ASSUME Typed, TicketsApart, NEW R \in Runs, issued' \in {issued, issued + 1},
         \A r \in Runs, n \in Nat :
           Knows(r, n)' => Knows(r, n) \/ (r = R /\ n = issued + 1 /\ issued' = issued + 1),
         \A n \in decided' : n \in decided \/ n = 0 \/ Knows(R, n)
  PROVE  TicketsApart'
<1>1. issued \in Nat /\ issued' \in Nat /\ issued =< issued'
  BY DEF Typed
<1>2. ASSUME NEW r \in Runs, NEW n \in Nat, Knows(r, n)' PROVE n =< issued'
  BY <1>1, <1>2 DEF TicketsApart
<1>3. ASSUME NEW n \in decided' PROVE n =< issued'
  <2>1. CASE n \in decided
    BY <1>1, <2>1 DEF TicketsApart, Typed
  <2>2. CASE Knows(R, n)
    <3>1. n \in Nat
      BY <2>2 DEF Knows, Objects, Typed
    <3> QED
      BY <1>1, <2>2, <3>1 DEF TicketsApart
  <2>3. CASE n = 0
    BY <1>1, <2>3
  <2> QED
    BY <1>3, <2>1, <2>2, <2>3
<1>4. ASSUME NEW r \in Runs, NEW s \in Runs, NEW n \in Nat, Knows(r, n)', Knows(s, n)' PROVE r = s
  <2>1. CASE Knows(r, n) /\ Knows(s, n)
    BY <2>1 DEF TicketsApart
  <2>2. CASE n = issued + 1
    <3>1. ~Knows(r, n) /\ ~Knows(s, n)
      BY <1>1, <2>2 DEF TicketsApart
    <3> QED
      BY <1>4, <3>1
  <2> QED
    BY <1>4, <2>1, <2>2
<1> QED
  BY <1>2, <1>3, <1>4 DEF TicketsApart

\* Tickets stay apart while no new one is given out.
LEMMA TicketsStay ==
  ASSUME Typed, TicketsApart, Shrinks, UNCHANGED <<ticket, held, issued, decided>>
  PROVE  TicketsApart'
<1>1. ASSUME NEW r \in Runs, NEW n, Knows(r, n)' PROVE Knows(r, n)
  BY <1>1 DEF Knows, Shrinks
<1> QED
  BY <1>1 DEF TicketsApart

\* While a decision is judged, its run has a ticket and a row, and nobody else drives it.
LEMMA JudgedKept ==
  ASSUME Names, Typed, Shape, Alone, Locked, Agrees, Judged, NEW q \in Requests, Follows(q),
         \A r \in Runs \ torn :
           \/ ticket'[r] = ticket[r] /\ (row'[r] = row[r] \/ row[r] = None)
           \/ lock[r] = q
           \/ r \in On(q) /\ req[q].kind \in Deletes,
         req'[q].at # "acting"
  PROVE  Judged'
<1> SUFFICES ASSUME NEW p \in Requests, req'[p].at = "acting", NEW r \in req'[p].on \ torn
             PROVE  /\ ticket'[r] # 0 /\ req'[p].names \in {0, ticket'[r]}
                    /\ AllowSelf \/ row'[r] # req'[p].who
  BY DEF Judged, Follows
<1>1. p # q /\ req'[p] = req[p] /\ r \in Runs /\ r \in On(p)
  BY DEF Follows, Only, Typed, Records, On
<1>2. /\ ticket[r] # 0 /\ req[p].names \in {0, ticket[r]}
      /\ AllowSelf \/ row[r] # req[p].who
  BY <1>1 DEF Judged
<1>3. row[r] # None
  BY <1>1, <1>2 DEF Agrees
<1>4. lock[r] = p
  BY <1>1 DEF Locked
<1>5. ~(r \in On(q) /\ req[q].kind \in Deletes)
  BY <1>1 DEF Alone
<1> QED
  BY <1>1, <1>2, <1>3, <1>4, <1>5

\* A step that leaves sessions and tickets as they are.
LEMMA StepKept ==
  ASSUME Names, Good, Shape', NEW q \in Requests, Follows(q), Shrinks,
         UNCHANGED <<sess, held, ticket, decided, issued>>,
         req'[q].cur \in {None, req[q].cur},
         req'[q].at \in {"removing", "erasing"} =>
           \/ req[q].at \in {"removing", "erasing"} \/ req[q].kind = "delete"
           \/ \A r \in On(q) \ torn : row[r] \in {None, req[q].who},
         \A r \in Runs \ torn :
           /\ OwnerOf(r, creator)' = OwnerOf(r, creator)
           /\ row'[r] = row[r] \/ (row[r] = None /\ r \in On(q) /\ req[q].kind \notin Deletes)
           /\ \A o \in Objects(r) : own'[o] \in {own[o], None, OwnerOf(r, creator)},
         \A o \in Requests : own[o] # None => own'[o] # None,
         req'[q].at \in {"driving", "driven"} => own'[req'[q].obj] # None
  PROVE  /\ ObjectsApart' /\ Alone' /\ Entitled' /\ Agrees' /\ Owned' /\ TicketsApart'
         /\ req'[q].at # "acting" => Judged'
<1> USE DEF Good, GateInv
<1>1. ObjectsApart'
  BY ObjectsKept
<1>2. Alone'
  BY AloneKept DEF Names
<1>3. Entitled'
  BY EntitledKept
<1>4. Agrees'
  BY AgreesKept
<1>5. Owned'
  BY OwnedKept
<1>6. TicketsApart'
  BY TicketsStay
<1>7. req'[q].at # "acting" => Judged'
  BY JudgedKept
<1> QED
  BY <1>1, <1>2, <1>3, <1>4, <1>5, <1>6, <1>7

\* A refusal keeps the invariant of the gateway.
LEMMA RefuseKeeps ==
  ASSUME Names, Good, Shape', NEW q \in Requests, Refuse(q)
  PROVE  GateInv'
<1> USE DEF Good, GateInv, Refuse, database, registry
<1>1. Follows(q) /\ Shrinks /\ req'[q].at = "done" /\ req'[q].cur = None
  BY GoOnly, DoneFollows DEF Done, Unsent
<1>2. Locked'
  BY <1>1, LockedKept
<1>3. \A r \in Runs : OwnerOf(r, creator)' = OwnerOf(r, creator)
  BY DEF OwnerOf
<1> HIDE DEF Good
<1>4. ObjectsApart' /\ Alone' /\ Entitled' /\ Agrees' /\ Owned' /\ TicketsApart' /\ Judged'
  BY <1>1, <1>3, StepKept
<1> QED
  BY <1>2, <1>4

\* Taking the lock of a run keeps it.
LEMMA LockKeeps ==
  ASSUME Names, Good, Shape', NEW q \in Requests, Lock(q)
  PROVE  GateInv'
<1> USE DEF Good, GateInv, Lock, database, registry
<1>1. Follows(q) /\ Shrinks /\ req'[q].at = "locked" /\ req'[q].cur = req[q].cur /\ req'[q].on = req[q].on
  BY GoFollows
<1>2. RunOf(q) \in Runs /\ req[q].on = {RunOf(q)}
  BY RunIsOne
<1>3. Locked'
  BY <1>1, <1>2, LockedKept DEF Typed
<1>4. \A r \in Runs \ torn : OwnerOf(r, creator)' = OwnerOf(r, creator)
  BY DEF OwnerOf
<1> QED
  BY <1>1, <1>3, <1>4, StepKept

\* A handler that goes on without its lease changing.
LEMMA HandlerGoes ==
  ASSUME Names, Good, NEW q \in Requests, NEW l, Go(q, l), torn' = torn, lock' = lock,
         req[q].at \in Single, l \notin {"new", "in", "locked"},
         l \in {"owning", "driving", "driven", "judging", "acting"} =>
           req[q].at \in {"owning", "driving", "driven", "judging", "acting"}
  PROVE  /\ Follows(q) /\ req'[q].at = l /\ Locked'
         /\ sess' = sess => Shrinks
         /\ req'[q].cur = None
         /\ l # "done" => /\ req'[q].kind = req[q].kind /\ req'[q].who = req[q].who
                          /\ req'[q].names = req[q].names /\ req'[q].on = req[q].on
                          /\ req'[q].obj = req[q].obj
<1> USE DEF Good, GateInv
<1>1. req[q].at \notin {"new", "done"} /\ req[q].cur = None
  BY HandlerOfOne DEF Single
<1>2. /\ Follows(q) /\ req'[q].at = l
      /\ sess' = sess => Shrinks
      /\ l # "done" => /\ req'[q].kind = req[q].kind /\ req'[q].who = req[q].who
                       /\ req'[q].names = req[q].names /\ req'[q].on = req[q].on
                       /\ req'[q].obj = req[q].obj /\ req'[q].cur = req[q].cur
  BY <1>1, GoFollows
<1>3. l = "done" => req'[q].cur = None
  BY GoOnly DEF Done, Unsent
<1>4. Locked'
  BY <1>2, LockedKept DEF Locked
<1> QED
  BY <1>1, <1>2, <1>3, <1>4

\* A decision is judged under the lock, by the session that agrees with the database.
LEMMA JudgeKeeps ==
  ASSUME Names, Good, Shape', NEW q \in Requests, Judge(q)
  PROVE  GateInv'
<1> DEFINE o == req[q].obj r == RunOf(q)
<1>1. UNCHANGED <<row, ticket, decided, issued, creator, sess, own, held, torn>>
  BY DEF Judge, database, registry
<1>2. req[q].at = "judging" /\ req[q].at \in Single
  BY DEF Judge, Single
<1>3. \A s \in Runs : OwnerOf(s, creator)' = OwnerOf(s, creator)
  BY <1>1 DEF OwnerOf
<1>4. CASE Answer(q)
  <2>1. Follows(q) /\ Shrinks /\ req'[q].at = "done" /\ req'[q].cur = None
    BY <1>1, <1>4, AnswerFollows, GoOnly DEF Good, Answer, Done, Unsent
  <2>2. Locked'
    BY <1>4, <2>1, LockedKept DEF Good, GateInv, Answer, Typed
  <2> QED
    BY <1>1, <1>3, <2>1, <2>2, StepKept DEF GateInv
<1>5. CASE MayDecide(q) /\ Go(q, "acting") /\ lock' = lock
  <2>1. /\ Follows(q) /\ Shrinks /\ req'[q].at = "acting" /\ Locked' /\ req'[q].cur = None
        /\ req'[q].who = req[q].who /\ req'[q].names = req[q].names /\ req'[q].on = req[q].on
    BY <1>1, <1>2, <1>5, HandlerGoes
  <2>2. ObjectsApart' /\ Alone' /\ Entitled' /\ Agrees' /\ Owned' /\ TicketsApart'
    BY <1>1, <1>3, <2>1, StepKept
  <2>3. r \in Runs /\ req[q].on = {r} /\ o \in Requests /\ o \in Objects(r)
    BY <1>2, HandlerOfOne DEF Good, Objects
  <2>4. r \notin torn => held[o] = ticket[r]
    BY <2>3 DEF Good, GateInv, Agrees
  <2>5. Judged'
    <3> SUFFICES ASSUME NEW p \in Requests, req'[p].at = "acting", NEW s \in req'[p].on \ torn
                 PROVE  /\ ticket[s] # 0 /\ req'[p].names \in {0, ticket[s]}
                        /\ AllowSelf \/ row[s] # req'[p].who
      BY <1>1 DEF Judged
    <3>1. CASE p = q
      BY <1>5, <2>1, <2>3, <2>4, <3>1 DEF MayDecide
    <3>2. CASE p # q
      BY <2>1, <3>2 DEF Good, GateInv, Judged, Follows, Only
    <3> QED
      BY <3>1, <3>2
  <2> QED
    BY <2>1, <2>2, <2>5 DEF GateInv
<1> QED
  BY <1>4, <1>5 DEF Judge

\* A batch goes on if the caller owns the runs or nobody does.
LEMMA CheckKeeps ==
  ASSUME Names, Good, Shape', NEW q \in Requests, Check(q)
  PROVE  GateInv'
<1>1. UNCHANGED <<row, ticket, decided, issued, creator, sess, own, held, torn, lock>>
  BY DEF Check, database, registry
<1>2. \A s \in Runs : OwnerOf(s, creator)' = OwnerOf(s, creator)
  BY <1>1 DEF OwnerOf
<1>3. PICK l \in {"removing", "done"} :
         /\ Go(q, l)
         /\ l = "removing" => \A r \in req[q].on : OwnerAllows(req[q].who, r, creator)
  BY DEF Check
<1>4. Follows(q) /\ Shrinks /\ req'[q].at = l /\ (l # "done" => req'[q].cur = req[q].cur)
  BY <1>1, <1>3, GoFollows DEF Good, Check
<1>5. req[q].cur = None /\ req'[q].cur = None
  <2>1. Shaped(q) /\ Shaped(q)' /\ req[q].at = "in"
    BY DEF Good, Shape, Check
  <2> QED
    BY <1>4, <2>1 DEF Shaped
<1>6. l = "removing" => \A r \in On(q) : row[r] \in {None, req[q].who}
  BY <1>3, <1>5 DEF On, OwnerAllows, OwnerOf, Names
<1>7. Locked'
  BY <1>1, <1>4, LockedKept DEF Good, GateInv
<1> QED
  BY <1>1, <1>2, <1>4, <1>5, <1>6, <1>7, StepKept DEF GateInv

\* The object of a handler belongs to its run, and is in use.
LEMMA ItsObject ==
  ASSUME Names, Good, NEW q \in Requests, req[q].at \in Single
  PROVE  /\ RunOf(q) \in Runs /\ req[q].obj \in Objects(RunOf(q)) /\ RunOf(q) \in On(q)
         /\ req[q].kind \notin Deletes
         /\ \A r \in Runs : req[q].obj \in Objects(r) => r = RunOf(q)
         /\ RunOf(q) \notin torn =>
              /\ sess[RunOf(q)] = req[q].obj
              /\ own[req[q].obj] \in {None, OwnerOf(RunOf(q), creator)}
              /\ held[req[q].obj] = ticket[RunOf(q)]
<1>1. RunOf(q) \in Runs /\ req[q].obj \in Objects(RunOf(q)) /\ RunOf(q) \in On(q)
  BY HandlerOfOne DEF Good, Objects, On
<1>2. req[q].kind \notin Deletes
  BY DEF Good, Shape, Shaped, KindsAt, Single, Deletes
<1> QED
  BY <1>1, <1>2 DEF Good, GateInv, ObjectsApart, Agrees

\* The owner that is stored is who was found to be the owner before.
LEMMA SavedKept ==
  ASSUME Names, Good, NEW q \in Requests, req[q].at \in Single,
         Saved(RunOf(q), own[req[q].obj]), creator' = creator
  PROVE  /\ \A r \in Runs \ torn : OwnerOf(r, creator)' = OwnerOf(r, creator)
         /\ \A r \in Runs : row'[r] = row[r] \/ (row[r] = None /\ r = RunOf(q))
         /\ row'[RunOf(q)] = IF row[RunOf(q)] = None THEN own[req[q].obj] ELSE row[RunOf(q)]
<1>1. RunOf(q) \in Runs
  BY ItsObject
<1>2. /\ \A r \in Runs : row'[r] = row[r] \/ (row[r] = None /\ r = RunOf(q))
      /\ row'[RunOf(q)] = IF row[RunOf(q)] = None THEN own[req[q].obj] ELSE row[RunOf(q)]
  BY <1>1 DEF Saved, Good, Typed
<1>3. RunOf(q) \notin torn => own[req[q].obj] \in {None, OwnerOf(RunOf(q), creator)}
  BY ItsObject
<1> QED
  BY <1>2, <1>3 DEF OwnerOf

\* A handler writes the row of its run.
LEMMA SaveKeeps ==
  ASSUME Names, Good, Shape', NEW q \in Requests, Drive(q) \/ Save(q)
  PROVE  GateInv'
<1>1. UNCHANGED <<ticket, decided, issued, creator, sess, own, held, lock, torn>>
  BY DEF Drive, Save, registry
<1>2. req[q].at \in {"driving", "saving"} /\ req[q].at \in Single
  BY DEF Drive, Save, Single
<1>3. PICK l \in {"driven", "done"} : Go(q, l) /\ (l = "driven" => req[q].at = "driving")
  BY DEF Drive, Save
<1>4. /\ Follows(q) /\ Shrinks /\ req'[q].at = l /\ Locked' /\ req'[q].cur = None
      /\ l = "driven" => req'[q].obj = req[q].obj
  BY <1>1, <1>2, <1>3, HandlerGoes
<1>5. /\ \A r \in Runs \ torn : OwnerOf(r, creator)' = OwnerOf(r, creator)
      /\ \A r \in Runs : row'[r] = row[r] \/ (row[r] = None /\ r = RunOf(q))
  BY <1>1, <1>2, SavedKept DEF Drive, Save
<1>6. RunOf(q) \in On(q) /\ req[q].kind \notin Deletes
  BY <1>2, ItsObject
<1>7. req'[q].at \in {"driving", "driven"} => own'[req'[q].obj] # None
  BY <1>1, <1>3, <1>4 DEF Good, GateInv, Owned
<1> QED
  BY <1>1, <1>4, <1>5, <1>6, <1>7, StepKept DEF GateInv

\* A session without an owner becomes the caller's, whose run it was found to be.
LEMMA OwnKeeps ==
  ASSUME Names, Good, Shape', NEW q \in Requests, Own(q) \/ Create(q)
  PROVE  GateInv'
<1> DEFINE o == req[q].obj
<1>1. UNCHANGED <<row, ticket, decided, issued, creator, sess, held, lock, torn>>
  BY DEF Own, Create, database
<1>2. req[q].at \in {"owning", "creating"} /\ req[q].at \in Single
  BY DEF Own, Create, Single
<1>3. PICK l \in {"driving", "saving", "done"} : Go(q, l) /\ (l = "driving" => req[q].at = "owning")
  BY DEF Own, Create
<1>4. /\ Follows(q) /\ Shrinks /\ req'[q].at = l /\ Locked' /\ req'[q].cur = None
      /\ l = "driving" => req'[q].obj = o
  BY <1>1, <1>2, <1>3, HandlerGoes
<1>5. req[q].who \in Users /\ o \in Requests
  BY <1>2, HandlerOfOne DEF Good
<1>6. /\ \A p \in Requests \ {o} : own'[p] = own[p]
      /\ own'[o] \in {own[o], req[q].who}
      /\ l = "driving" => own'[o] # None
  BY <1>2, <1>3, <1>4, <1>5 DEF Own, Create, Good, Typed, Names
<1>7. ASSUME NEW r \in Runs \ torn, NEW p \in Objects(r)
      PROVE  own'[p] \in {own[p], None, OwnerOf(r, creator)}
  <2>1. CASE p = o
    <3>1. r = RunOf(q) /\ RunOf(q) \in On(q) /\ req[q].kind \in {"chat", "create"}
      BY <1>2, <1>7, <2>1, ItsObject DEF Good, Shape, Shaped, KindsAt
    <3>2. OwnerOf(r, creator) = req[q].who
      BY <3>1 DEF Good, GateInv, Entitled, CrossesOwners, Deletes
    <3> QED
      BY <1>6, <2>1, <3>2
  <2>2. CASE p # o
    BY <1>6, <2>2 DEF Objects
  <2> QED
    BY <2>1, <2>2
<1>8. \A p \in Requests : own[p] # None => own'[p] # None
  BY <1>5, <1>6 DEF Names
<1>9. \A r \in Runs : OwnerOf(r, creator)' = OwnerOf(r, creator)
  BY <1>1 DEF OwnerOf
<1>10. req'[q].at \in {"driving", "driven"} => own'[req'[q].obj] # None
  BY <1>4, <1>6
<1> HIDE DEF o
<1> QED
  BY <1>1, <1>3, <1>4, <1>7, <1>8, <1>9, <1>10, StepKept DEF GateInv

\* A drive that ends under the lock writes its ticket to the session and to the database.
LEMMA HoldsKeeps ==
  ASSUME Names, Good, Shape', NEW q \in Requests, NEW w \in Nat,
         \/ req[q].at = "driven" /\ w = held[req[q].obj] /\ decided' = decided
         \/ req[q].at = "acting" /\ w = 0 /\ decided' = decided \cup {held[req[q].obj]},
         Saved(RunOf(q), own[req[q].obj]), Holds(q, w), Answer(q),
         UNCHANGED <<creator, sess, own, torn>>
  PROVE  GateInv'
<1> DEFINE R == RunOf(q) o == req[q].obj
<1>1. req[q].at \in Single
  BY DEF Single
<1>2. /\ R \in Runs /\ o \in Requests /\ o \in Objects(R) /\ R \in On(q) /\ req[q].kind \notin Deletes
      /\ \A r \in Runs : o \in Objects(r) => r = R
      /\ R \notin torn => sess[R] = o /\ held[o] = ticket[R]
      /\ held[o] \in Nat /\ req[q].on = {R}
  BY <1>1, ItsObject, HandlerOfOne DEF Good, Typed
<1>3. PICK n \in Nat :
         /\ held' = [held EXCEPT ![o] = n] /\ ticket' = [ticket EXCEPT ![R] = n]
         /\ \/ n = w /\ issued' = issued
            \/ n = issued + 1 /\ issued' = issued + 1
  <2>1. issued \in Nat
    BY DEF Good, Typed
  <2> QED
    BY <2>1 DEF Holds
<1>4. /\ Follows(q) /\ Shrinks /\ req'[q].at = "done" /\ On(q)' = {} /\ req'[q].cur = None
  BY AnswerFollows, GoOnly DEF Good, Answer, Done, Unsent
<1>5. /\ \A r \in Runs \ torn : OwnerOf(r, creator)' = OwnerOf(r, creator)
      /\ \A r \in Runs : row'[r] = row[r] \/ (row[r] = None /\ r = R)
      /\ row'[R] = IF row[R] = None THEN own[o] ELSE row[R]
  BY <1>1, SavedKept
<1>6. lock[R] = q
  BY <1>2 DEF Good, GateInv, Locked
<1> HIDE DEF R, o
<1>7. ObjectsApart' /\ Locked'
  <2>1. \A r \in Runs : lock'[r] = lock[r] \/ lock[r] = q
    BY DEF Answer
  <2> QED
    BY <1>4, <2>1, ObjectsKept, LockedKept DEF Good, GateInv
<1>8. Alone' /\ Entitled'
  BY <1>2, <1>4, <1>5, AloneKept, EntitledKept DEF Good, GateInv, Names
<1>9. Owned'
  BY <1>4, OwnedKept DEF Good, GateInv
<1>10. Judged'
  <2>1. \A r \in Runs \ torn :
          (ticket'[r] = ticket[r] /\ (row'[r] = row[r] \/ row[r] = None)) \/ lock[r] = q
    BY <1>3, <1>5, <1>6 DEF Good, Typed
  <2> QED
    BY <1>4, <2>1, JudgedKept DEF Good, GateInv
<1>11. ASSUME NEW r \in Runs, r # R
       PROVE  ticket'[r] = ticket[r] /\ \A x \in Objects(r) : held'[x] = held[x]
  BY <1>2, <1>3, <1>11 DEF Good, Typed, Objects
<1>12. TicketsApart'
  <2>1. ASSUME NEW r \in Runs, NEW m \in Nat, Knows(r, m)', ~Knows(r, m)
        PROVE  r = R /\ m = issued + 1 /\ issued' = issued + 1
    <3>1. r = R
      BY <1>4, <1>11, <2>1 DEF Knows, Shrinks
    <3>2. \A x \in Objects(R) : held'[x] = held[x] \/ held'[x] = n
      BY <1>2, <1>3 DEF Objects, Good, Typed
    <3>3. m # 0 /\ m = n
      BY <1>3, <1>4, <2>1, <3>1, <3>2 DEF Knows, Shrinks, Good, Typed
    <3>4. n # w
      BY <1>2, <2>1, <3>1, <3>3 DEF Knows, o
    <3> QED
      BY <1>3, <3>1, <3>3, <3>4
  <2>2. issued' \in {issued, issued + 1}
    BY <1>3
  <2>3. \A m \in decided' : m \in decided \/ m = 0 \/ Knows(R, m)
    BY <1>2 DEF Knows, o
  <2> QED
    BY <1>2, <2>1, <2>2, <2>3, TicketsKept DEF Good, GateInv
<1>13. Agrees'
  <2> SUFFICES ASSUME NEW r \in Runs \ torn
               PROVE
      /\ \A x \in Objects(r)' :
           sess[r] = x /\ own[x] \in {None, OwnerOf(r, creator)} /\ held'[x] = ticket'[r]
      /\ ticket'[r] # 0 => row'[r] # None /\ ticket'[r] \notin decided'
    BY <1>5 DEF Agrees
  <2>1. /\ \A x \in Objects(r)' :
             x \in Objects(r) /\ sess[r] = x /\ own[x] \in {None, OwnerOf(r, creator)} /\ held[x] = ticket[r]
        /\ ticket[r] # 0 => row[r] # None /\ ticket[r] \notin decided
    BY <1>4 DEF Shrinks, Good, GateInv, Agrees
  <2>2. issued \in Nat /\ ticket[r] \in Nat /\ \A m \in decided : m =< issued
    BY DEF Good, Typed, GateInv, TicketsApart
  <2>3. CASE r # R
    <3>1. ticket[r] # 0 => ticket[r] # held[o]
      BY <1>2, <2>2, <2>3 DEF Knows, Good, GateInv, TicketsApart
    <3>2. ticket'[r] = ticket[r] /\ row'[r] = row[r] /\ \A x \in Objects(r) : held'[x] = held[x]
      BY <1>5, <1>11, <2>3
    <3> QED
      BY <2>1, <3>1, <3>2 DEF o
  <2>4. CASE r = R
    <3>1. ticket'[r] = n /\ \A x \in Objects(r)' : held'[x] = n
      BY <1>2, <1>3, <2>1, <2>4 DEF Good, Typed
    <3>2. ASSUME n # 0 PROVE row'[r] # None /\ n \notin decided'
      <4>1. held[o] =< issued
        BY <1>2, <2>2 DEF Knows, Good, GateInv, TicketsApart
      <4>2. CASE req[q].at = "driven" /\ w = held[o] /\ decided' = decided
        <5>1. own[o] # None
          BY <4>2 DEF Good, GateInv, Owned, o
        <5>2. n \notin decided
          BY <1>2, <1>3, <2>1, <2>2, <2>4, <3>2, <4>2
        <5> QED
          BY <1>5, <2>4, <4>2, <5>1, <5>2
      <4>3. CASE req[q].at = "acting" /\ w = 0 /\ decided' = decided \cup {held[o]}
        <5>1. ticket[r] # 0
          BY <1>2, <2>4, <4>3 DEF Good, GateInv, Judged
        <5>2. n = issued + 1
          BY <1>3, <3>2, <4>3
        <5> QED
          BY <1>2, <1>5, <2>1, <2>2, <2>4, <4>1, <4>3, <5>1, <5>2
      <4> QED
        BY <4>2, <4>3 DEF o
    <3> QED
      BY <2>1, <3>1, <3>2
  <2> QED
    BY <2>3, <2>4
<1> QED
  BY <1>7, <1>8, <1>9, <1>10, <1>12, <1>13 DEF GateInv

\* So does the end of a handler.
LEMMA FinishKeeps ==
  ASSUME Names, Good, Shape', NEW q \in Requests, Finish(q) \/ Act(q)
  PROVE  GateInv'
<1>1. req[q].at \in {"driven", "acting"} /\ req[q].at \in Single
  BY DEF Finish, Act, Single
<1>2. held[req[q].obj] \in Nat
  BY <1>1, HandlerOfOne DEF Good, Typed
<1>3. CASE Finish(q) /\ UNCHANGED <<held, ticket, issued>>
  <2>1. UNCHANGED <<ticket, decided, issued, creator, sess, own, held, torn>>
    BY <1>3 DEF Finish
  <2>2. Follows(q) /\ Shrinks /\ req'[q].at = "done" /\ req'[q].cur = None
    BY <1>3, <2>1, AnswerFollows, GoOnly DEF Good, Finish, Answer, Done, Unsent
  <2>3. Locked'
    BY <1>3, <2>2, LockedKept DEF Good, GateInv, Finish, Answer, Typed
  <2>4. /\ \A r \in Runs \ torn : OwnerOf(r, creator)' = OwnerOf(r, creator)
        /\ \A r \in Runs : row'[r] = row[r] \/ (row[r] = None /\ r = RunOf(q))
    BY <1>1, <1>3, <2>1, SavedKept DEF Finish
  <2>5. RunOf(q) \in On(q) /\ req[q].kind \notin Deletes
    BY <1>1, ItsObject
  <2> QED
    BY <2>1, <2>2, <2>3, <2>4, <2>5, StepKept DEF GateInv
<1>4. CASE Finish(q) /\ Holds(q, held[req[q].obj])
  BY <1>2, <1>4, HoldsKeeps DEF Finish
<1>5. CASE Act(q)
  BY <1>5, HoldsKeeps DEF Act
<1> QED
  BY <1>3, <1>4, <1>5 DEF Finish

\* A session that is built has what the database has.
LEMMA FindKeeps ==
  ASSUME Names, Good, Shape', NEW q \in Requests, Find(q)
  PROVE  GateInv'
<1> DEFINE R == RunOf(q) o == IF sess[R] # None THEN sess[R] ELSE q
<1>1. /\ req[q].at \in {"in", "locked"} /\ req[q].at \in Early
      /\ req[q].kind \in {"read", "create", "chat", "decide"}
      /\ req[q].kind \in {"chat", "decide"} => req[q].at = "locked"
  BY DEF Find, Good, Shape, Shaped, KindsAt, Early
<1>2. R \in Runs /\ req[q].on = {R} /\ o \in Requests /\ R \in On(q) /\ req[q].cur = None
  BY <1>1, RunIsOne DEF Good, Typed, On, Shape, Shaped
<1>3. UNCHANGED <<row, ticket, decided, issued, creator, lock, torn>>
  BY DEF Find, database
<1>4. /\ sess' = [sess EXCEPT ![R] = o]
      /\ own' = [own EXCEPT ![q] = IF o = q THEN row[R] ELSE @]
      /\ held' = [held EXCEPT ![q] = IF o = q THEN ticket[R] ELSE @]
      /\ req' = [req EXCEPT ![q] = IF @.kind = "read" THEN Done
                                   ELSE [@ EXCEPT !.at = Handler[req[q].kind], !.obj = o]]
  BY DEF Find
<1>5. /\ sess[R] # None => o = sess[R] /\ o \in Objects(R)
      /\ sess[R] = None => o = q
      /\ \A r \in Runs : q \notin Objects(r)
  BY <1>1, <1>2 DEF Objects, Good, GateInv, ObjectsApart
<1> HIDE DEF R, o
<1>6. /\ Only(q)
      /\ \/ req'[q] = Done
         \/ /\ req'[q].at \in {"creating", "owning", "judging"}
            /\ req'[q].at # "creating" => req[q].at = "locked"
            /\ req'[q].kind = req[q].kind /\ req'[q].who = req[q].who /\ req'[q].names = req[q].names
            /\ req'[q].on = req[q].on /\ req'[q].obj = o /\ req'[q].cur = req[q].cur
  <2>1. Only(q)
    BY <1>4 DEF Only, Good, Typed
  <2>2. CASE req[q].kind = "read"
    BY <1>4, <2>1, <2>2 DEF Good, Typed
  <2>3. CASE req[q].kind # "read"
    <3>1. req'[q] = [req[q] EXCEPT !.at = Handler[req[q].kind], !.obj = o]
      BY <1>4, <2>3 DEF Good, Typed
    <3>2. /\ Handler[req[q].kind] \in {"creating", "owning", "judging"}
          /\ Handler[req[q].kind] # "creating" => req[q].at = "locked"
      BY <1>1, <2>3 DEF Handler
    <3> QED
      BY <2>1, <3>1, <3>2 DEF Good, Typed, Records
  <2> QED
    BY <2>2, <2>3
<1>7. Done.at = "done" /\ Done.on = {} /\ Done.cur = None /\ Done.obj = None
  BY DEF Done, Unsent
<1>8. Follows(q) /\ req'[q].at \notin Early /\ req'[q].cur = None
  BY <1>1, <1>2, <1>3, <1>6, <1>7 DEF Follows, On, Early, Names
<1>9. /\ \A r \in Runs \ {R} : sess'[r] = sess[r]
      /\ sess'[R] = o
      /\ \A r \in Runs : \A x \in Objects(r)' : x \in Objects(r) \/ (r = R /\ x = o)
  <2>1. \A r \in Runs \ {R} : sess'[r] = sess[r]
    BY <1>4 DEF Good, Typed
  <2>2. sess'[R] = o
    BY <1>2, <1>4 DEF Good, Typed
  <2>3. ASSUME NEW r \in Runs, NEW x \in Objects(r)' PROVE x \in Objects(r) \/ (r = R /\ x = o)
    <3>1. x \in Requests
      BY DEF Objects
    <3>2. CASE sess'[r] = x
      BY <2>1, <2>2, <3>1, <3>2 DEF Objects
    <3>3. ASSUME NEW p \in Requests, r \in req'[p].on, req'[p].obj = x
          PROVE  x \in Objects(r) \/ (r = R /\ x = o)
      <4>1. CASE p = q
        BY <1>2, <1>6, <1>7, <3>3, <4>1
      <4>2. CASE p # q
        BY <1>6, <3>1, <3>3, <4>2 DEF Only, Objects
      <4> QED
        BY <4>1, <4>2
    <3> QED
      BY <3>2, <3>3 DEF Objects
  <2> QED
    BY <2>1, <2>2, <2>3
<1>10. ObjectsApart'
  <2>1. \A r \in Runs : \A x \in Objects(r)' : req'[x].at \notin Early
    <3> SUFFICES ASSUME NEW r \in Runs, NEW x \in Objects(r)', x # q PROVE req'[x].at \notin Early
      BY <1>8
    <3>1. x \in Objects(r) /\ x \in Requests
      BY <1>5, <1>9 DEF Objects
    <3> QED
      BY <1>6, <3>1 DEF Only, Good, GateInv, ObjectsApart
  <2>2. \A r, s \in Runs : \A x \in Objects(r)' \cap Objects(s)' : r = s
    BY <1>5, <1>9 DEF Good, GateInv, ObjectsApart
  <2> QED
    BY <2>1, <2>2 DEF ObjectsApart
<1>11. Locked'
  <2>1. req'[q].at \in {"locked", "owning", "driving", "driven", "judging", "acting"} =>
          \A r \in req'[q].on : lock'[r] = q
    BY <1>3, <1>6, <1>7 DEF Good, GateInv, Locked
  <2> QED
    BY <1>3, <1>8, <2>1, LockedKept DEF Good, GateInv
<1>12. Alone' /\ Entitled'
  <2>1. \A r \in Runs : OwnerOf(r, creator)' = OwnerOf(r, creator) /\ row'[r] = row[r]
    BY <1>3 DEF OwnerOf
  <2>2. req[q].kind \notin Deletes
    BY <1>1 DEF Deletes
  <2>3. req'[q].at \notin {"removing", "erasing"}
    BY <1>6, <1>7
  <2> QED
    BY <1>2, <1>8, <1>9, <2>1, <2>2, <2>3, AloneKept, EntitledKept DEF Good, GateInv, Names
<1>13. Owned'
  <2>1. \A x \in Requests \ {q} : own'[x] = own[x]
    BY <1>4 DEF Good, Typed
  <2>2. req'[q].at \notin {"driving", "driven"}
    BY <1>6, <1>7
  <2> QED
    BY <1>1, <1>8, <2>1, <2>2, OwnedKept DEF Good, GateInv
<1>14. /\ \A x \in Requests \ {q} : own'[x] = own[x] /\ held'[x] = held[x]
       /\ o = q => own'[o] = row[R] /\ held'[o] = ticket[R]
       /\ o # q => own'[o] = own[o] /\ held'[o] = held[o]
  BY <1>2, <1>4 DEF Good, Typed
<1>15. Agrees'
  <2> SUFFICES ASSUME NEW r \in Runs \ torn, NEW x \in Objects(r)'
               PROVE  sess'[r] = x /\ own'[x] \in {None, OwnerOf(r, creator)} /\ held'[x] = ticket[r]
    BY <1>3 DEF Agrees, OwnerOf, Good, GateInv
  <2>1. CASE x \in Objects(r)
    <3>1. x # q /\ x \in Requests /\ sess[r] = x
      BY <1>5, <2>1 DEF Objects, Good, GateInv, Agrees
    <3>2. sess'[r] = x
      BY <1>5, <1>9, <3>1 DEF Names
    <3> QED
      BY <1>14, <2>1, <3>1, <3>2 DEF Good, GateInv, Agrees
  <2>2. CASE x \notin Objects(r)
    <3>1. r = R /\ x = o /\ o = q
      BY <1>5, <1>9, <2>2
    <3> QED
      BY <1>9, <1>14, <3>1 DEF OwnerOf
  <2> QED
    BY <2>1, <2>2
<1>16. TicketsApart'
  <2>1. ASSUME NEW r \in Runs, NEW n \in Nat, Knows(r, n)' PROVE Knows(r, n)
    <3>1. ASSUME NEW x \in Objects(r)', n = held'[x] PROVE n = ticket[r] \/ \E y \in Objects(r) : n = held[y]
      <4>1. CASE x \in Objects(r)
        BY <1>5, <1>14, <3>1, <4>1 DEF Objects
      <4>2. CASE x \notin Objects(r)
        BY <1>5, <1>9, <1>14, <3>1, <4>2
      <4> QED
        BY <4>1, <4>2
    <3> QED
      BY <1>3, <2>1, <3>1 DEF Knows
  <2> QED
    BY <1>2, <1>3, <2>1, TicketsKept DEF Good, GateInv
<1>17. Judged'
  <2>1. req'[q].at # "acting"
    BY <1>6, <1>7
  <2> QED
    BY <1>3, <1>8, <2>1, JudgedKept DEF Good, GateInv
<1> QED
  BY <1>10, <1>11, <1>12, <1>13, <1>15, <1>16, <1>17 DEF GateInv

\* A deletion touches one run, of which nobody has an object if it is whole.
LEMMA DeletionAgrees ==
  ASSUME Agrees, NEW q \in Requests, Follows(q), Shrinks, NEW R \in Runs,
         UNCHANGED <<own, held, decided>>,
         R \notin torn => Objects(R)' = {},
         \/ ticket'[R] = 0
         \/ ticket'[R] = ticket[R] /\ row'[R] = row[R],
         \A r \in Runs \ {R} :
           /\ sess'[r] = sess[r] /\ ticket'[r] = ticket[r] /\ row'[r] = row[r]
           /\ OwnerOf(r, creator)' = OwnerOf(r, creator)
  PROVE  Agrees'
<1> SUFFICES ASSUME NEW r \in Runs \ torn
             PROVE
    /\ \A o \in Objects(r)' :
         sess'[r] = o /\ own'[o] \in {None, OwnerOf(r, creator)'} /\ held'[o] = ticket'[r]
    /\ ticket'[r] # 0 => row'[r] # None /\ ticket'[r] \notin decided'
  BY DEF Agrees, Follows
<1>1. CASE r = R
  BY <1>1 DEF Agrees
<1>2. CASE r # R
  <2>1. ASSUME NEW o \in Objects(r)'
        PROVE  sess'[r] = o /\ own'[o] \in {None, OwnerOf(r, creator)'} /\ held'[o] = ticket'[r]
    <3>1. o \in Objects(r)
      BY <2>1 DEF Shrinks
    <3> QED
      BY <1>2, <3>1 DEF Agrees
  <2> QED
    BY <1>2, <2>1 DEF Agrees
<1> QED
  BY <1>1, <1>2

\* So does the removal of a run.
LEMMA RemoveKeeps ==
  ASSUME Names, Good, Shape', NEW q \in Requests, Remove(q)
  PROVE  GateInv'
<1>1. UNCHANGED <<row, ticket, decided, issued, own, held, lock, torn>>
  BY DEF Remove, database
<1>2. PICK R \in req[q].on :
         /\ req' = [req EXCEPT ![q].at = "erasing", ![q].cur = R, ![q].on = @ \ {R}]
         /\ sess' = [sess EXCEPT ![R] = None] /\ creator' = [creator EXCEPT ![R] = None]
  BY DEF Remove
<1>3. /\ req[q].at \in {"in", "removing"} /\ req[q].kind \in Deletes
      /\ req[q].at = "in" => req[q].kind = "delete"
      /\ R \in Runs /\ R \in On(q) /\ req[q].obj \notin Requests
  BY DEF Remove, Good, Typed, Records, Shape, Shaped, KindsAt, Deletes, Single, On
<1>4. /\ Only(q)
      /\ req'[q].at = "erasing" /\ req'[q].cur = R /\ req'[q].on = req[q].on \ {R}
      /\ req'[q].kind = req[q].kind /\ req'[q].who = req[q].who /\ req'[q].names = req[q].names
      /\ req'[q].obj = req[q].obj
  BY <1>2 DEF Only, Good, Typed, Records
<1>5. /\ sess'[R] = None /\ \A r \in Runs \ {R} : sess'[r] = sess[r] /\ creator'[r] = creator[r]
  BY <1>2, <1>3 DEF Good, Typed
<1>6. On(q)' \subseteq On(q)
  BY <1>3, <1>4 DEF On
<1>7. Follows(q)
  BY <1>1, <1>3, <1>4, <1>6 DEF Follows, Early
<1>8. Shrinks
  <2> SUFFICES ASSUME NEW r \in Runs, NEW o \in Objects(r)' PROVE o \in Objects(r)
    BY DEF Shrinks
  <2>1. o \in Requests
    BY DEF Objects
  <2>2. ASSUME sess'[r] = o PROVE sess[r] = o
    BY <1>5, <2>1, <2>2 DEF Names
  <2>3. ASSUME NEW p \in Requests, r \in req'[p].on, req'[p].obj = o PROVE r \in req[p].on /\ req[p].obj = o
    BY <1>4, <2>3 DEF Only
  <2> QED
    BY <2>1, <2>2, <2>3 DEF Objects
<1>9. ObjectsApart' /\ Locked'
  BY <1>1, <1>4, <1>7, <1>8, ObjectsKept, LockedKept DEF Good, GateInv
<1>10. \A r \in Runs \ {R} : OwnerOf(r, creator)' = OwnerOf(r, creator)
  BY <1>1, <1>5 DEF OwnerOf
<1>11. Alone'
  <2>1. \A r \in Runs \ torn : sess'[r] = None \/ (sess'[r] = sess[r] /\ (req'[q].cur = r => req[q].cur = r))
    BY <1>4, <1>5
  <2> QED
    BY <1>7, <2>1, AloneKept DEF Good, GateInv
<1>12. Entitled'
  <2>1. \A r \in Runs \ torn :
          /\ OwnerOf(r, creator)' = OwnerOf(r, creator) \/ (r \in On(q) /\ req[q].kind \in Deletes)
          /\ row'[r] = row[r]
    BY <1>1, <1>3, <1>10
  <2> QED
    BY <1>3, <1>7, <2>1, EntitledKept DEF Good, GateInv
<1>13. Owned' /\ TicketsApart' /\ Judged'
  BY <1>1, <1>4, <1>7, <1>8, OwnedKept, TicketsStay, JudgedKept DEF Good, GateInv
<1>14. ASSUME R \notin torn PROVE Objects(R)' = {}
  <2>1. \A p \in Requests : R \notin req'[p].on
    BY <1>3, <1>4, <1>14 DEF Only, Good, GateInv, Alone, On
  <2> QED
    BY <1>5, <2>1 DEF Objects, Names
<1>15. Agrees'
  BY <1>1, <1>3, <1>5, <1>7, <1>8, <1>10, <1>14, DeletionAgrees DEF Good, GateInv
<1> QED
  BY <1>9, <1>11, <1>12, <1>13, <1>15 DEF GateInv

\* So does the erasure of a batch of runs.
LEMMA EraseKeeps ==
  ASSUME Names, Good, Shape', NEW q \in Requests, Erase(q)
  PROVE  GateInv'
<1>0. PICK R \in Runs : R = req[q].cur
  BY DEF Erase, Good, Shape, Shaped
<1>1. UNCHANGED <<decided, issued, creator, sess, own, held, lock, torn>>
  BY DEF Erase, registry
<1>2. /\ req[q].at = "erasing" /\ req[q].kind \in Deletes /\ R \in On(q)
      /\ req[q].obj \notin Requests
  BY <1>0 DEF Erase, Good, Shape, Shaped, KindsAt, Single, On
<1>3. PICK l \in {"done", "removing"} : Go(q, l)
  BY DEF Erase
<1>4. /\ Follows(q) /\ Shrinks /\ req'[q].at = l
      /\ l # "done" => req'[q].cur = R
  BY <1>0, <1>1, <1>2, <1>3, GoFollows DEF Good
<1>5. l = "done" => req'[q].cur = None
  BY <1>3, GoOnly DEF Good, Done, Unsent
<1>6. /\ row'[R] = None /\ ticket'[R] = 0
      /\ \A r \in Runs \ {R} : row'[r] = row[r] /\ ticket'[r] = ticket[r]
  BY <1>0 DEF Erase, Good, Typed
<1>7. ObjectsApart' /\ Locked'
  BY <1>1, <1>4, ObjectsKept, LockedKept DEF Good, GateInv
<1>8. Alone'
  <2>1. \A r \in Runs : sess'[r] = sess[r] /\ (req'[q].cur = r => req[q].cur = r)
    BY <1>0, <1>1, <1>4, <1>5 DEF Names
  <2> QED
    BY <1>4, <2>1, AloneKept DEF Good, GateInv
<1>9. \A r \in Runs \ {R} : OwnerOf(r, creator)' = OwnerOf(r, creator)
  BY <1>1, <1>6 DEF OwnerOf
<1>10. Entitled'
  BY <1>2, <1>4, <1>6, <1>9, EntitledKept DEF Good, GateInv
<1>11. Owned'
  BY <1>1, <1>4, OwnedKept DEF Good, GateInv
<1>12. Judged'
  BY <1>2, <1>4, <1>6, JudgedKept DEF Good, GateInv
<1>13. TicketsApart'
  <2>1. ASSUME NEW r \in Runs, NEW n \in Nat, Knows(r, n)' PROVE Knows(r, n)
    BY <1>1, <1>4, <1>6, <2>1 DEF Knows, Shrinks
  <2> QED
    BY <1>1, <1>2, <2>1, TicketsKept DEF Good, GateInv
<1>14. ASSUME R \notin torn PROVE Objects(R)' = {}
  <2>1. sess[R] = None /\ \A p \in Requests : R \in req[p].on => p = q
    BY <1>0, <1>2, <1>14 DEF Good, GateInv, Alone, On
  <2>2. Objects(R) = {}
    BY <1>2, <2>1 DEF Objects, Names
  <2> QED
    BY <1>2, <1>4, <2>2 DEF Shrinks
<1>15. Agrees'
  BY <1>1, <1>2, <1>4, <1>6, <1>9, <1>14, DeletionAgrees DEF Good, GateInv
<1> QED
  BY <1>7, <1>8, <1>10, <1>11, <1>12, <1>13, <1>15 DEF GateInv

\* Who asks first for a run that nobody has becomes its owner; who has one stays.
LEMMA AdmitKeeps ==
  ASSUME Names, Good, NEW q \in Requests, Admit(q)
  PROVE  GateInv'
<1> PICK u \in Users, k \in Kinds, rs \in SUBSET Runs, n \in 0 .. issued :
       /\ rs # {} /\ (k # "batch" => Cardinality(rs) = 1)
       /\ creator' = IF k = "batch" THEN creator ELSE Claim(u, rs)
       /\ req' = [req EXCEPT ![q] =
            IF \A r \in rs : Authorized(u, k, r, creator') THEN Entered(u, k, rs, n) ELSE Done]
       /\ torn' = torn \cup {r \in rs : \E p \in Requests : Overlaps(p, k, r)}
  BY Zenon DEF Admit
<1>1. UNCHANGED <<row, ticket, decided, issued, sess, own, held, lock>> /\ req[q].at = "new"
  BY DEF Admit, database
<1>2. req[q].on = {} /\ req[q].obj \notin Requests /\ req[q].cur = None /\ On(q) = {}
  BY <1>1 DEF Good, Shape, Shaped, Single, On, Names
<1>3. Only(q) /\ torn \subseteq torn'
  BY DEF Only, Good, Typed
<1>4. \/ req'[q] = Done
      \/ req'[q] = Entered(u, k, rs, n) /\ \A r \in rs : Authorized(u, k, r, creator')
  BY DEF Good, Typed
<1>5. /\ req'[q].at \in {"in", "done"} /\ req'[q].obj = None /\ req'[q].cur = None
      /\ req'[q].at = "in" =>
           /\ req'[q].kind = k /\ req'[q].who = u /\ req'[q].on = rs
           /\ \A r \in rs : Authorized(u, k, r, creator')
      /\ req'[q].at = "done" => req'[q].on = {}
  BY <1>4 DEF Entered, Done, Unsent
<1>6. On(q)' \subseteq rs /\ (req'[q].at = "done" => On(q)' = {})
  BY <1>5 DEF On, Names
<1>7. \A r \in Runs : creator'[r] = creator[r] \/ (creator[r] = None /\ creator'[r] = u)
  BY DEF Claim, Good, Typed
<1>8. \A r \in Runs : OwnerOf(r, creator) # None => OwnerOf(r, creator)' = OwnerOf(r, creator)
  BY <1>1, <1>7 DEF OwnerOf
<1>9. \A r \in Runs : Objects(r)' = Objects(r)
  <2>1. \A p \in Requests, r \in Runs, o \in Requests :
          (r \in req'[p].on /\ req'[p].obj = o) <=> (r \in req[p].on /\ req[p].obj = o)
    BY <1>2, <1>3, <1>5 DEF Only, Names
  <2> QED
    BY <1>1, <2>1 DEF Objects
<1>10. \A r \in Runs : \A o \in Objects(r) : o # q /\ o \in Requests
  BY <1>1 DEF Good, GateInv, ObjectsApart, Early, Objects
<1>11. ObjectsApart'
  <2>1. \A r \in Runs : \A o \in Objects(r)' : req'[o].at \notin Early
    BY <1>3, <1>9, <1>10 DEF Only, Good, GateInv, ObjectsApart
  <2> QED
    BY <1>9, <2>1 DEF Good, GateInv, ObjectsApart
<1>12. Locked' /\ Owned'
  BY <1>1, <1>3, <1>5 DEF Only, Good, GateInv, Locked, Owned
<1>13. Alone'
  <2> SUFFICES ASSUME NEW r \in Runs \ torn', NEW p \in Requests, r \in On(p)', req'[p].kind \in Deletes
               PROVE  /\ \A v \in Requests : r \in On(v)' => v = p
                      /\ req'[p].cur = r => sess[r] = None
    BY <1>1 DEF Alone
  <2>1. \A v \in Requests \ {q} : req'[v] = req[v] /\ (r \in On(v)' <=> r \in On(v))
    BY <1>3 DEF Only, On
  <2>2. \A v \in Requests : r \in On(v) => r \in req[v].on \cup {req[v].cur}
    BY DEF On
  <2>3. CASE p = q
    <3>1. r \in rs /\ req'[q].at = "in" /\ k \in Deletes
      BY <1>5, <1>6, <2>3
    <3>2. \A v \in Requests : r \notin On(v)
      BY <2>2, <3>1 DEF Overlaps
    <3> QED
      BY <1>5, <2>1, <2>3, <3>2 DEF Names
  <2>4. CASE p # q
    <3>1. r \in On(p) /\ req[p].kind \in Deletes
      BY <2>1, <2>4
    <3>2. r \notin On(q)'
      BY <1>6, <2>2, <3>1 DEF Overlaps
    <3> QED
      BY <1>3, <2>1, <2>4, <3>1, <3>2 DEF Good, GateInv, Alone
  <2> QED
    BY <2>3, <2>4
<1>14. Entitled'
  <2> SUFFICES ASSUME NEW p \in Requests
               PROVE
      /\ req'[p].at \notin {"new", "done"} /\ req'[p].kind # "read" => req'[p].who \notin Viewers \ Admins
      /\ \A r \in On(p)' \ torn' :
           /\ req'[p].kind \notin Deletes /\ ~CrossesOwners(req'[p].who, req'[p].kind) =>
                OwnerOf(r, creator)' = req'[p].who
           /\ req'[p].kind = "delete" \/ req'[p].at \in {"removing", "erasing"} =>
                row[r] \in {None, req'[p].who}
    BY <1>1 DEF Entitled
  <2>1. CASE p # q
    <3>1. req'[p] = req[p] /\ On(p)' = On(p)
      BY <1>3, <2>1 DEF Only, On
    <3>2. ASSUME NEW r \in On(p) \ torn', req[p].kind \notin Deletes, ~CrossesOwners(req[p].who, req[p].kind)
          PROVE  OwnerOf(r, creator)' = req[p].who
      <4>1. r \in Runs /\ OwnerOf(r, creator) = req[p].who
        BY <1>3, <3>2 DEF On, Good, GateInv, Entitled
      <4>2. req[p].who \in Users
        BY <3>2 DEF On, Names, Good, Shape, Shaped
      <4> QED
        BY <1>8, <4>1, <4>2 DEF Names
    <3> QED
      BY <1>3, <3>1, <3>2 DEF Good, GateInv, Entitled
  <2>2. CASE p = q /\ req'[q].at = "done"
    BY <1>6, <2>2
  <2>3. CASE p = q /\ req'[q].at = "in"
    <3>1. \A r \in rs : RoleAllows(u, k) /\ (CrossesOwners(u, k) \/ k = "batch" \/ OwnerAllows(u, r, creator'))
      BY <1>5, <2>3 DEF Authorized
    <3>2. k # "read" => u \notin Viewers \ Admins
      BY <3>1, KindsAre DEF RoleAllows, Role, Operation, ReadOps
    <3>3. ASSUME NEW r \in rs \ torn', k \notin Deletes, ~CrossesOwners(u, k)
          PROVE  OwnerOf(r, creator)' = u
      <4>1. OwnerOf(r, creator') \in {None, u} /\ k # "batch" /\ r \in Runs
        BY <3>1, <3>3 DEF OwnerAllows, Deletes
      <4>2. creator'[r] # None
        BY <4>1 DEF Claim, Names
      <4> QED
        BY <1>1, <4>1, <4>2 DEF OwnerOf
    <3>4. ASSUME NEW r \in rs, k = "delete" PROVE row[r] \in {None, u}
      BY <1>1, <3>1, <3>4 DEF CrossesOwners, OwnerAllows, OwnerOf
    <3> QED
      BY <1>5, <1>6, <2>3, <3>2, <3>3, <3>4
  <2> QED
    BY <1>5, <2>1, <2>2, <2>3
<1>15. Agrees'
  <2> SUFFICES ASSUME NEW r \in Runs \ torn', NEW o \in Objects(r)
               PROVE  sess[r] = o /\ own[o] \in {None, OwnerOf(r, creator)'} /\ held[o] = ticket[r]
    BY <1>1, <1>3, <1>9 DEF Good, GateInv, Agrees
  <2> QED
    BY <1>3, <1>8 DEF Good, GateInv, Agrees
<1>16. TicketsApart'
  BY <1>1, <1>9 DEF Good, GateInv, TicketsApart, Knows
<1>17. Judged'
  BY <1>1, <1>3, <1>5 DEF Only, Good, GateInv, Judged
<1> QED
  BY <1>11, <1>12, <1>13, <1>14, <1>15, <1>16, <1>17 DEF GateInv

\* After a restart nothing is left of the requests and of the sessions.
LEMMA RestartKeeps == ASSUME Names, Good, Restart PROVE GateInv'
<1>1. /\ \A r \in Runs : sess'[r] = None
      /\ \A q \in Requests : req'[q] \in {Unsent, Done}
      /\ UNCHANGED <<row, ticket, decided, issued, own, held, torn>>
  BY DEF Restart, database
<1>2. \A q \in Requests : req'[q].at \in {"new", "done"} /\ req'[q].on = {} /\ req'[q].cur = None
  BY <1>1 DEF Done, Unsent
<1>3. \A r \in Runs : Objects(r)' = {}
  BY <1>1, <1>2 DEF Objects, Names
<1>4. \A q \in Requests : On(q)' = {}
  BY <1>2 DEF On, Names
<1>5. ObjectsApart' /\ Locked' /\ Alone' /\ Entitled' /\ Owned' /\ Judged'
  BY <1>2, <1>3, <1>4 DEF ObjectsApart, Locked, Alone, Entitled, Owned, Judged
<1>6. Agrees'
  BY <1>1, <1>3 DEF Good, GateInv, Agrees
<1>7. TicketsApart'
  <2>1. ASSUME NEW r \in Runs, NEW n \in Nat, Knows(r, n)' PROVE Knows(r, n)
    BY <1>1, <1>3, <2>1 DEF Knows
  <2> QED
    BY <1>1, <2>1 DEF Good, GateInv, TicketsApart
<1> QED
  BY <1>5, <1>6, <1>7 DEF GateInv

\* Every step keeps the invariant.
LEMMA GateStep == ASSUME Names PROVE Good /\ [Next]_vars => Good'
<1> SUFFICES ASSUME Good, [Next]_vars PROVE Good'
  OBVIOUS
<1>1. Typed' /\ Shape'
  BY TypedStep, ShapeStep DEF Good
<1>2. GateInv'
  <2>1. CASE UNCHANGED vars
    BY <2>1 DEF vars, Good, GateInv, ObjectsApart, Objects, Locked, Alone, On, Entitled, Agrees,
                OwnerOf, Owned, TicketsApart, Knows, Judged
  <2>2. CASE Next
    BY <1>1, <2>2, AdmitKeeps, RefuseKeeps, LockKeeps, FindKeeps, OwnKeeps, SaveKeeps, FinishKeeps,
       JudgeKeeps, CheckKeeps, RemoveKeeps, EraseKeeps, RestartKeeps DEF Next
  <2> QED
    BY <2>1, <2>2
<1> QED
  BY <1>1, <1>2 DEF Good

\* The invariant holds throughout every behaviour.
LEMMA GateAlways == ASSUME Names PROVE Spec => []Good
<1>1. Init => Good
  BY GateInit DEF Good
<1> QED
  BY <1>1, GateStep, PTL DEF Spec

\* Who writes is the owner, or decides as an administrator.
LEMMA OwnersStep == ASSUME Names, Good PROVE OwnersKeep
<1> SUFFICES ASSUME NEW q \in Requests, req[q].at \in {"driving", "driven", "saving", "acting", "erasing"}
             PROVE  LET r == Target(q) u == req[q].who IN
                    /\ \/ row[r] \in {None, u}
                       \/ req[q].kind = "decide" /\ u \in Admins
                       \/ r \in torn
                    /\ u \notin Viewers \ Admins
  BY DEF OwnersKeep, Writes
<1>1. req[q].who \notin Viewers \ Admins
  BY DEF Good, GateInv, Entitled, Shape, Shaped, KindsAt, Deletes
<1>2. CASE req[q].at = "erasing"
  <2>1. Target(q) = req[q].cur /\ req[q].cur \in On(q)
    BY <1>2 DEF Target, On, Good, Shape, Shaped
  <2> QED
    BY <1>1, <1>2, <2>1 DEF Good, GateInv, Entitled
<1>3. CASE req[q].at # "erasing"
  <2>1. Target(q) = RunOf(q) /\ RunOf(q) \in On(q) /\ req[q].kind \notin Deletes
    BY <1>3, ItsObject DEF Target, Single
  <2>2. CrossesOwners(req[q].who, req[q].kind) => req[q].kind = "decide" /\ req[q].who \in Admins
    BY DEF CrossesOwners, Role
  <2>3. CASE RunOf(q) \notin torn /\ ~CrossesOwners(req[q].who, req[q].kind)
    <3>1. OwnerOf(RunOf(q), creator) = req[q].who
      BY <2>1, <2>3 DEF Good, GateInv, Entitled
    <3> QED
      BY <1>1, <2>1, <3>1 DEF OwnerOf
  <2> QED
    BY <1>1, <2>1, <2>2, <2>3
<1> QED
  BY <1>2, <1>3

\* What a decision was judged by holds when it is taken.
LEMMA StandsStep == ASSUME Names, Good PROVE Stands
<1> SUFFICES ASSUME NEW q \in Requests, req[q].at = "acting", RunOf(q) \notin torn
             PROVE  LET r == RunOf(q) pending == held[req[q].obj] IN
                    /\ req[q].names \in {0, pending} /\ pending = ticket[r] /\ pending \notin decided
                    /\ AllowSelf \/ row[r] # req[q].who
  BY DEF Stands
<1>1. /\ RunOf(q) \in Runs /\ RunOf(q) \in req[q].on
      /\ held[req[q].obj] = ticket[RunOf(q)]
  BY ItsObject, HandlerOfOne DEF Single, Good
<1> QED
  BY <1>1 DEF Good, GateInv, Judged, Agrees

\* A run with an owner is written for the owner or decided on by an administrator, unless
\* a deletion of it overlapped with another request for it; viewers write nothing; and a
\* decision is of the ticket that was seen, once, and not by who asked - although the
\* middleware looks the owner up once, in front of the handler (server.py:676-706,
\* routes/approvals.py:67-119).
THEOREM AuthorizationStands == Spec => AccessHolds
<1>0. Names
  BY NamesAssumption DEF Names
<1>1. Good /\ [Next]_vars => [OwnersKeep]_vars /\ [Stands]_vars
  BY <1>0, OwnersStep, StandsStep
<1>2. Spec => []Good
  BY <1>0, GateAlways
<1> QED
  BY <1>1, <1>2, PTL DEF Spec, AccessHolds, OwnersKeepTheirs, DecisionsStand

=============================================================================
