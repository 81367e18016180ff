---------------------------- MODULE Prompt_proof ----------------------------
(***************************************************************************)
(* What a request to the model is made of, for any number of messages,     *)
(* calls, vectors and characters: the history with its results, the best   *)
(* hits whichever index finds them, and the chunks of the documents.  What *)
(* is computed element by element is reasoned about by induction, which    *)
(* comes from the least element that every set of numbers has.             *)
(***************************************************************************)
EXTENDS MCRecords, Sequences, FiniteSetTheorems, WellFoundedInduction, TLAPS

-----------------------------------------------------------------------------
(***************************************************************************)
(* Induction and recursion over numbers, stated for sets and functions.    *)
(***************************************************************************)
LEMMA LeastOf == ASSUME NEW T \in SUBSET Nat, T # {} PROVE \E x \in T : \A y \in T : x =< y
<1> DEFINE R == {ss \in Nat \X Nat : ss[1] < ss[2]}
<1>1. IsWellFoundedOn(R, Nat)
  BY NatLessThanWellFounded DEF OpToRel
<1> HIDE DEF R
<1>2. PICK x \in T : \A y \in T : <<y, x>> \notin R
  BY <1>1, WFMin
<1>3. \A y \in T : ~(y < x)
  BY <1>2 DEF R
<1> QED
  BY <1>3

\* Induction over the numbers, told of a set.
LEMMA Induction == ASSUME NEW T \in SUBSET Nat, 0 \in T, \A n \in T : n + 1 \in T PROVE T = Nat
<1> SUFFICES ASSUME Nat \ T # {} PROVE FALSE
  OBVIOUS
<1>1. PICK x \in Nat \ T : \A y \in Nat \ T : x =< y
  BY LeastOf
<1>2. x # 0 /\ x - 1 \in Nat /\ x - 1 \in T
  BY <1>1
<1> QED
  BY <1>1, <1>2

\* What is computed element by element exists.
RuleOn(A, N) == [(1 .. N) \X A -> A]
Run(g, A, N, origin, rule) ==
  g \in [0 .. N -> A] /\ g[0] = origin /\ \A n \in 1 .. N : g[n] = rule[<<n, g[n - 1]>>]

\* Every rule for the next value has a run of it of any length.
LEMMA Recursion ==
  ASSUME NEW A, NEW N, N \in Nat, NEW origin, origin \in A, NEW rule, rule \in RuleOn(A, N)
  PROVE  \E g : Run(g, A, N, origin, rule)
<1>0. rule \in [(1 .. N) \X A -> A]
  BY DEF RuleOn
<1> DEFINE Upto(k, g) == /\ g \in [0 .. k -> A] /\ g[0] = origin
                         /\ \A n \in 1 .. k : g[n] = rule[<<n, g[n - 1]>>]
           T == {k \in Nat : k =< N => \E g : Upto(k, g)}
<1>1. 0 \in T
  <2>1. Upto(0, [n \in 0 .. 0 |-> origin])
    OBVIOUS
  <2> QED
    BY <2>1
<1>2. ASSUME NEW k \in T PROVE k + 1 \in T
  <2> SUFFICES ASSUME k + 1 =< N PROVE \E h : Upto(k + 1, h)
    <3> HIDE DEF Upto
    <3> QED
      OBVIOUS
  <2>1. PICK g : Upto(k, g)
    <3> HIDE DEF Upto
    <3> QED
      OBVIOUS
  <2> DEFINE h == [n \in 0 .. k + 1 |-> IF n = k + 1 THEN rule[<<n, g[n - 1]>>] ELSE g[n]]
  <2>2. k + 1 \in 1 .. N /\ g[k] \in A
    BY <2>1
  <2>3. rule[<<k + 1, g[k]>>] \in A
    BY <1>0, <2>2
  <2>4. h \in [0 .. k + 1 -> A]
    BY <2>1, <2>3
  <2>5. h[0] = origin
    BY <2>1
  <2>6. \A n \in 1 .. k + 1 : h[n] = rule[<<n, h[n - 1]>>]
    <3> TAKE n \in 1 .. k + 1
    <3>1. n - 1 \in 0 .. k /\ h[n - 1] = g[n - 1]
      OBVIOUS
    <3>2. h[n] = rule[<<n, g[n - 1]>>]
      BY <2>1
    <3> QED
      BY <3>1, <3>2
  <2>7. Upto(k + 1, h)
    BY <2>4, <2>5, <2>6
  <2> QED
    BY <2>7
<1>3. T = Nat
  <2> HIDE DEF T
  <2> QED
    BY <1>1, <1>2, Induction DEF T
<1>4. PICK g : Upto(N, g)
  <2> HIDE DEF Upto
  <2>1. N \in T
    BY <1>3
  <2> QED
    BY <2>1
<1> QED
  BY <1>4 DEF Run

\* A sequence over a set is one over every larger set.
LEMMA Wider == \A S, T : S \subseteq T => Seq(S) \subseteq Seq(T)
OBVIOUS

\* What is to be sent: each call of the model is answered, by tool messages alone from the
\* call up to its result; a call that is open is followed by tool messages alone.
Answered(s, i) == \E j \in i + 1 .. Len(s) : s[j].call = s[i].call /\ \A k \in i + 1 .. j : s[k].role = "tool"
Called(s, i) == s[i].role = "assistant" /\ s[i].call # 0
AllAnswered(s) == \A i \in 1 .. Len(s) : Called(s, i) => Answered(s, i)
HeldOpen(s, i, open) == open = s[i].call /\ \A k \in i + 1 .. Len(s) : s[k].role = "tool"
Filled(acc) ==
  \A i \in 1 .. Len(acc.out) :
    Called(acc.out, i) => Answered(acc.out, i) \/ HeldOpen(acc.out, i, acc.open)

\* Messages, among them what a call that is open is answered with.
Said(M) == (\A m \in M : m.call \in Nat) /\ \A c \in Nat : Story!Filler(c) \in M

\* A call that is answered stays so when more is said.
LEMMA AnsweredStays ==
  ASSUME NEW M, NEW s \in Seq(M), NEW m \in M, NEW i \in 1 .. Len(s), Answered(s, i)
  PROVE  Answered(Append(s, m), i)
<1> DEFINE a == Append(s, m)
<1>1. Len(a) = Len(s) + 1 /\ \A k \in 1 .. Len(s) : a[k] = s[k]
  OBVIOUS
<1>2. Len(s) \in Nat
  OBVIOUS
<1> HIDE DEF a
<1>3. PICK j \in i + 1 .. Len(s) : s[j].call = s[i].call /\ \A k \in i + 1 .. j : s[k].role = "tool"
  BY DEF Answered
<1>4. j \in i + 1 .. Len(a) /\ a[j] = s[j] /\ a[i] = s[i] /\ \A k \in i + 1 .. j : a[k] = s[k]
  BY <1>1, <1>2
<1>5. Answered(a, i)
  BY <1>3, <1>4 DEF Answered
<1> QED
  BY <1>5 DEF a

\* A message of a tool.
LEMMA ToolTaken ==
  ASSUME NEW M, Said(M), NEW s \in Seq(M), NEW open \in Nat, NEW m \in M, m.role = "tool",
         Filled([out |-> s, open |-> open])
  PROVE  Filled([out |-> Append(s, m), open |-> IF m.call = open THEN 0 ELSE open])
<1> DEFINE a == Append(s, m)
           o == IF m.call = open THEN 0 ELSE open
<1>1. /\ Len(a) = Len(s) + 1 /\ Len(s) \in Nat /\ a[Len(s) + 1] = m
      /\ \A k \in 1 .. Len(s) : a[k] = s[k]
  OBVIOUS
<1>2. ASSUME NEW i \in 1 .. Len(a), Called(a, i) PROVE Answered(a, i) \/ HeldOpen(a, i, o)
  <2> HIDE DEF a
  <2>1. i \in 1 .. Len(s) /\ a[i] = s[i]
    BY <1>1, <1>2 DEF Called
  <2>2. Answered(s, i) \/ HeldOpen(s, i, open)
    BY <1>2, <2>1 DEF Filled, Called
  <2>3. CASE Answered(s, i)
    BY <2>1, <2>3, AnsweredStays DEF a
  <2>4. CASE HeldOpen(s, i, open)
    <3>1. \A k \in i + 1 .. Len(a) : a[k].role = "tool"
      BY <1>1, <2>1, <2>4 DEF HeldOpen
    <3>2. CASE m.call = open
      <4>1. Len(a) \in i + 1 .. Len(a) /\ a[Len(a)].call = a[i].call
        BY <1>1, <2>1, <2>4, <3>2 DEF HeldOpen
      <4> QED
        BY <3>1, <4>1 DEF Answered
    <3>3. CASE m.call # open
      BY <2>1, <2>4, <3>1, <3>3 DEF HeldOpen
    <3> QED
      BY <3>2, <3>3
  <2> QED
    BY <2>2, <2>3, <2>4
<1> HIDE DEF a, o
<1>3. Filled([out |-> a, open |-> o])
  BY <1>2 DEF Filled
<1> QED
  BY <1>3 DEF a, o

\* The call that is open is answered.
LEMMA FillAnswers ==
  ASSUME NEW M, Said(M), NEW s \in Seq(M), NEW open \in Nat, Filled([out |-> s, open |-> open])
  PROVE  s \o Story!Fill(open) \in Seq(M) /\ AllAnswered(s \o Story!Fill(open))
<1>1. CASE open = 0
  <2>1. s \o Story!Fill(open) = s
    BY <1>1 DEF Story!Fill
  <2>2. ASSUME NEW i \in 1 .. Len(s), Called(s, i) PROVE Answered(s, i)
    BY <1>1, <2>2 DEF Filled, HeldOpen, Called
  <2> QED
    BY <2>1, <2>2 DEF AllAnswered
<1>2. CASE open # 0
  <2> DEFINE m == Story!Filler(open)
  <2>1. m \in M /\ m.role = "tool" /\ m.call = open
    BY DEF Said, Story!Filler
  <2>2. s \o Story!Fill(open) = Append(s, m)
    BY <1>2, <2>1 DEF Story!Fill
  <2> HIDE DEF m
  <2>3. Filled([out |-> Append(s, m), open |-> 0])
    <3>1. (IF m.call = open THEN 0 ELSE open) = 0
      BY <2>1
    <3> QED
      BY <2>1, <3>1, ToolTaken
  <2>4. Append(s, m) \in Seq(M)
    BY <2>1
  <2> DEFINE a == Append(s, m)
  <2> HIDE DEF a
  <2>5. ASSUME NEW i \in 1 .. Len(a), Called(a, i) PROVE Answered(a, i)
    <3>1. Filled([out |-> a, open |-> 0])
      BY <2>3 DEF a
    <3> QED
      BY <2>5, <3>1 DEF Filled, HeldOpen, Called
  <2>6. AllAnswered(Append(s, m))
    BY <2>5 DEF AllAnswered, a
  <2> QED
    BY <2>2, <2>4, <2>6
<1> QED
  BY <1>1, <1>2

\* A message of somebody else.
LEMMA OtherTaken ==
  ASSUME NEW M, NEW s \in Seq(M), AllAnswered(s), NEW m \in M
  PROVE  Filled([out |-> Append(s, m), open |-> m.call])
<1> DEFINE a == Append(s, m)
<1>1. /\ Len(a) = Len(s) + 1 /\ Len(s) \in Nat /\ a[Len(s) + 1] = m
      /\ \A k \in 1 .. Len(s) : a[k] = s[k]
  OBVIOUS
<1>2. ASSUME NEW i \in 1 .. Len(a), Called(a, i) PROVE Answered(a, i) \/ HeldOpen(a, i, m.call)
  <2> HIDE DEF a
  <2>1. CASE i = Len(s) + 1
    BY <1>1, <2>1 DEF HeldOpen
  <2>2. CASE i # Len(s) + 1
    <3>1. i \in 1 .. Len(s) /\ a[i] = s[i]
      BY <1>1, <2>2
    <3> QED
      BY <1>2, <3>1, AnsweredStays DEF AllAnswered, Called, a
  <2> QED
    BY <2>1, <2>2
<1> HIDE DEF a
<1>3. Filled([out |-> a, open |-> m.call])
  BY <1>2 DEF Filled
<1> QED
  BY <1>3 DEF a

Took(M) == [out : Seq(M), open : Nat]

\* What taking one more message does to the messages so far and the open call.
LEMMA TakeTypes ==
  ASSUME NEW M, Said(M), NEW acc \in Took(M), NEW m \in M
  PROVE  /\ Story!Take(acc, m) \in Took(M)
         /\ m.role = "tool" =>
              Story!Take(acc, m) = [out |-> Append(acc.out, m), open |-> IF m.call = acc.open THEN 0 ELSE acc.open]
         /\ m.role # "tool" =>
              Story!Take(acc, m) = [out |-> Append(acc.out \o Story!Fill(acc.open), m), open |-> m.call]
<1>1. acc.out \in Seq(M) /\ acc.open \in Nat /\ m.call \in Nat
  BY DEF Took, Said
<1>2. Story!Fill(acc.open) \in Seq(M)
  BY <1>1 DEF Story!Fill, Said
<1>3. CASE m.role = "tool"
  BY <1>1, <1>3 DEF Story!Take, Took
<1>4. CASE m.role # "tool"
  <2> DEFINE s == acc.out
             f == Story!Fill(acc.open)
  <2>1. s \in Seq(M) /\ f \in Seq(M)
    BY <1>1, <1>2
  <2> HIDE DEF s, f
  <2>2. s \o Append(f, m) = Append(s \o f, m) /\ Append(s \o f, m) \in Seq(M)
    BY <2>1
  <2>3. Story!Take(acc, m) = [out |-> s \o Append(f, m), open |-> m.call]
    BY <1>4 DEF Story!Take, s, f
  <2>4. Story!Take(acc, m) \in Took(M)
    BY <1>1, <2>2, <2>3 DEF Took
  <2> QED
    BY <1>4, <2>2, <2>3, <2>4 DEF s, f
<1> QED
  BY <1>3, <1>4

\* The list is computed message by message.
LEMMA EnsureFold ==
  ASSUME NEW M, Said(M), NEW said \in Seq(M)
  PROVE  \E acc \in [0 .. Len(said) -> Took(M)] :
           /\ acc[0] = [out |-> <<>>, open |-> 0]
           /\ \A n \in 1 .. Len(said) : acc[n] = Story!Take(acc[n - 1], said[n])
           /\ Story!EnsureToolResults(said) = acc[Len(said)].out \o Story!Fill(acc[Len(said)].open)
<1> DEFINE N == Len(said)
           zero == [out |-> <<>>, open |-> 0]
           rule == [p \in (1 .. N) \X Took(M) |-> Story!Take(p[2], said[p[1]])]
           Def(h) == [n \in 0 .. N |-> IF n = 0 THEN zero ELSE Story!Take(h[n - 1], said[n])]
           upto == CHOOSE h : h = Def(h)
<1>1. N \in Nat /\ zero \in Took(M) /\ \A n \in 1 .. N : said[n] \in M
  BY DEF Took
<1>2. rule \in [(1 .. N) \X Took(M) -> Took(M)]
  BY <1>1, TakeTypes
<1>3. PICK g \in [0 .. N -> Took(M)] : g[0] = zero /\ \A n \in 1 .. N : g[n] = rule[<<n, g[n - 1]>>]
  <2>1. rule \in RuleOn(Took(M), N)
    BY <1>2 DEF RuleOn
  <2> HIDE DEF rule, zero, N
  <2>2. \E g : Run(g, Took(M), N, zero, rule)
    BY <1>1, <2>1, Recursion
  <2> QED
    BY <2>2 DEF Run
<1>4. \A n \in 1 .. N : g[n] = Story!Take(g[n - 1], said[n])
  <2> TAKE n \in 1 .. N
  <2>1. n - 1 \in 0 .. N /\ g[n - 1] \in Took(M)
    BY <1>1
  <2> QED
    BY <1>3, <2>1
<1> HIDE DEF rule, zero, N
<1>5. g = Def(g)
  BY <1>1, <1>3, <1>4
<1>6. upto = Def(upto)
  <2> HIDE DEF Def
  <2> QED
    BY <1>5
<1>7. /\ upto[0] = zero /\ \A n \in 1 .. N : upto[n] = Story!Take(upto[n - 1], said[n])
      /\ upto = [n \in 0 .. N |-> upto[n]]
  <2> HIDE DEF upto
  <2>1. upto = [n \in 0 .. N |-> IF n = 0 THEN zero ELSE Story!Take(upto[n - 1], said[n])]
    BY <1>6
  <2> QED
    BY <1>1, <2>1
<1>8. \A n \in 0 .. N : upto[n] \in Took(M)
  <2> HIDE DEF upto
  <2> DEFINE T == {n \in Nat : n =< N => upto[n] \in Took(M)}
  <2>1. 0 \in T
    BY <1>1, <1>7
  <2>2. ASSUME NEW n \in T PROVE n + 1 \in T
    <3> SUFFICES ASSUME n + 1 =< N PROVE upto[n + 1] \in Took(M)
      OBVIOUS
    <3>1. n + 1 \in 1 .. N /\ upto[n] \in Took(M) /\ (n + 1) - 1 = n
      BY <1>1
    <3>2. upto[n + 1] = Story!Take(upto[n], said[n + 1])
      BY <1>7, <3>1
    <3> QED
      BY <1>1, <3>1, <3>2, TakeTypes
  <2>3. T = Nat
    <3> HIDE DEF T
    <3> QED
      BY <2>1, <2>2, Induction DEF T
  <2> QED
    BY <1>1, <2>3
<1>9. Story!EnsureToolResults(said) = upto[Len(said)].out \o Story!Fill(upto[Len(said)].open)
  BY DEF Story!EnsureToolResults, zero, N
<1> HIDE DEF upto
<1>10. upto \in [0 .. N -> Took(M)]
  BY <1>7, <1>8
<1> QED
  BY <1>7, <1>9, <1>10 DEF zero, N

\* The prompt, and behind it what was said.
Spoken == {"user", "assistant", "tool"}
Led(s) == Len(s) >= 1 /\ s[1].role = "system" /\ \A i \in 2 .. Len(s) : s[i].role \in Spoken

\* A conversation stays led by its calls when somebody speaks.
LEMMA StaysLed ==
  ASSUME NEW M, NEW s \in Seq(M), Led(s), NEW m \in M, m.role \in Spoken
  PROVE  Led(Append(s, m))
<1> DEFINE a == Append(s, m)
<1>1. /\ Len(a) = Len(s) + 1 /\ Len(s) \in Nat /\ a[Len(s) + 1] = m
      /\ \A k \in 1 .. Len(s) : a[k] = s[k]
  OBVIOUS
<1> HIDE DEF a
<1>2. Len(a) >= 1 /\ a[1] = s[1]
  BY <1>1 DEF Led
<1>3. ASSUME NEW i \in 2 .. Len(a) PROVE a[i].role \in Spoken
  <2>1. CASE i = Len(s) + 1
    BY <1>1, <2>1
  <2>2. CASE i # Len(s) + 1
    BY <1>1, <2>2 DEF Led
  <2> QED
    BY <2>1, <2>2
<1>4. Led(a)
  BY <1>2, <1>3 DEF Led
<1> QED
  BY <1>4 DEF a

\* And when the missing result of a call is filled in.
LEMMA FillStaysLed ==
  ASSUME NEW M, Said(M), NEW s \in Seq(M), Led(s), NEW open \in Nat
  PROVE  Led(s \o Story!Fill(open))
<1>1. CASE open = 0
  BY <1>1 DEF Story!Fill
<1>2. CASE open # 0
  <2>1. s \o Story!Fill(open) = Append(s, Story!Filler(open))
    BY <1>2 DEF Story!Fill
  <2>2. Story!Filler(open) \in M /\ Story!Filler(open).role \in Spoken
    BY DEF Said, Story!Filler, Spoken
  <2> QED
    BY <2>1, <2>2, StaysLed
<1> QED
  BY <1>1, <1>2

\* EnsureToolResults leaves every call answered and every result led by its call.
LEMMA Ensured ==
  ASSUME NEW M, Said(M), NEW said \in Seq(M), Led(said)
  PROVE  LET sent == Story!EnsureToolResults(said)
         IN sent \in Seq(M) /\ AllAnswered(sent) /\ Led(sent)
<1> DEFINE N == Len(said)
<1>1. PICK acc \in [0 .. N -> Took(M)] :
           /\ acc[0] = [out |-> <<>>, open |-> 0]
           /\ \A n \in 1 .. N : acc[n] = Story!Take(acc[n - 1], said[n])
           /\ Story!EnsureToolResults(said) = acc[N].out \o Story!Fill(acc[N].open)
  BY EnsureFold
<1>2. N \in Nat /\ N >= 1 /\ \A n \in 1 .. N : said[n] \in M
  BY DEF Led
<1> HIDE DEF N
<1> DEFINE Good(n) == Filled(acc[n]) /\ (n >= 1 => Led(acc[n].out))
           T == {n \in Nat : n =< N => Good(n)}
<1>3. Good(0)
  BY <1>1 DEF Filled
<1>4. ASSUME NEW n \in Nat, n + 1 =< N, Good(n) PROVE Good(n + 1)
  <2> DEFINE s == acc[n].out
             open == acc[n].open
             m == said[n + 1]
             f == s \o Story!Fill(open)
  <2>1. /\ n \in 0 .. N /\ n + 1 \in 1 .. N /\ (n + 1) - 1 = n
        /\ acc[n] \in Took(M) /\ m \in M
    BY <1>1, <1>2, <1>4
  <2>2. s \in Seq(M) /\ open \in Nat /\ acc[n] = [out |-> s, open |-> open]
    BY <2>1 DEF Took
  <2>3. acc[n + 1] = Story!Take(acc[n], m)
    BY <1>1, <2>1
  <2>4. m.role = (IF n = 0 THEN "system" ELSE m.role) /\ (n # 0 => m.role \in Spoken)
    BY <1>2, <2>1 DEF Led, N
  <2>5. Filled([out |-> s, open |-> open])
    BY <1>4, <2>2
  <2>0. acc[n].out = s /\ acc[n].open = open
    OBVIOUS
  <2> HIDE DEF s, open, m
  <2>6. f \in Seq(M) /\ AllAnswered(f)
    BY <2>2, <2>5, FillAnswers
  <2>7. CASE m.role = "tool"
    <3>1. acc[n + 1] = [out |-> Append(s, m), open |-> IF m.call = open THEN 0 ELSE open]
      BY <2>1, <2>3, <2>7, <2>0, TakeTypes
    <3>2. Filled(acc[n + 1])
      BY <2>1, <2>2, <2>5, <2>7, <3>1, ToolTaken
    <3>3. n >= 1 /\ Led(s)
      BY <1>4, <2>4, <2>7 DEF s
    <3>4. Led(Append(s, m))
      BY <2>1, <2>2, <2>4, <3>3, StaysLed
    <3> QED
      BY <3>1, <3>2, <3>4
  <2>8. CASE m.role # "tool"
    <3> HIDE DEF f
    <3>1. acc[n + 1] = [out |-> Append(f, m), open |-> m.call]
      BY <2>1, <2>3, <2>8, <2>0, TakeTypes DEF f
    <3>2. Filled(acc[n + 1])
      BY <2>1, <2>6, <3>1, OtherTaken
    <3>3. CASE n = 0
      <4>1. f = <<>>
        BY <1>1, <3>3 DEF f, s, open, Story!Fill
      <4>2. Append(f, m) = <<m>> /\ m.role = "system"
        BY <2>4, <3>3, <4>1
      <4>3. Led(<<m>>)
        BY <4>2 DEF Led
      <4> QED
        BY <3>1, <3>2, <4>2, <4>3
    <3>4. CASE n # 0
      <4>1. Led(s)
        BY <1>4, <3>4 DEF s
      <4>2. Led(f)
        BY <2>2, <4>1, FillStaysLed DEF f
      <4>3. Led(Append(f, m))
        BY <2>1, <2>4, <2>6, <3>4, <4>2, StaysLed
      <4> QED
        BY <3>1, <3>2, <4>3
    <3> QED
      BY <3>3, <3>4
  <2> QED
    BY <2>7, <2>8
<1> HIDE DEF Good
<1>5. 0 \in T /\ \A n \in T : n + 1 \in T
  BY <1>2, <1>3, <1>4
<1>6. T = Nat
  <2> HIDE DEF T
  <2> QED
    BY <1>5, Induction DEF T
<1>7. Filled(acc[N]) /\ Led(acc[N].out)
  BY <1>2, <1>6 DEF Good
<1>8. acc[N].out \in Seq(M) /\ acc[N].open \in Nat /\ acc[N] = [out |-> acc[N].out, open |-> acc[N].open]
  BY <1>1, <1>2 DEF Took
<1> QED
  BY <1>1, <1>7, <1>8, FillAnswers, FillStaysLed DEF N

\* The messages of some roles are kept one by one.
KeptSoFar(acc, S, said, N, roles) ==
  /\ acc \in [0 .. N -> S] /\ acc[0] = <<>>
  /\ \A n \in 1 .. N :
       acc[n] = IF said[n].role \in roles THEN Append(acc[n - 1], said[n]) ELSE acc[n - 1]
  /\ Story!WithRole(said, roles) = acc[N]

\* The fold that keeps the messages of some roles has a run.
LEMMA RoleFold ==
  ASSUME NEW M, NEW said \in Seq(M), NEW roles
  PROVE  \E acc : KeptSoFar(acc, Seq(M), said, Len(said), roles)
<1> DEFINE N == Len(said)
           S == Seq(M)
           zero == <<>>
           Grow(s, m) == IF m.role \in roles THEN Append(s, m) ELSE s
           rule == [p \in (1 .. N) \X S |-> Grow(p[2], said[p[1]])]
           Def(h) == [n \in 0 .. N |-> IF n = 0 THEN zero ELSE Grow(h[n - 1], said[n])]
           upto == CHOOSE h : h = Def(h)
<1>1. /\ N \in Nat /\ zero \in S /\ \A n \in 1 .. N : said[n] \in M
      /\ \A s \in S, m \in M : Grow(s, m) \in S
  OBVIOUS
<1>2. Story!WithRole(said, roles) = upto[N]
  BY DEF Story!WithRole
<1> HIDE DEF Grow, N, S, zero
<1>3. rule \in RuleOn(S, N)
  BY <1>1 DEF RuleOn
<1>4. PICK g : g \in [0 .. N -> S] /\ g[0] = zero /\ \A n \in 1 .. N : g[n] = rule[<<n, g[n - 1]>>]
  <2> HIDE DEF rule
  <2>1. \E g : Run(g, S, N, zero, rule)
    BY <1>1, <1>3, Recursion
  <2> QED
    BY <2>1 DEF Run
<1>5. \A n \in 1 .. N : g[n] = Grow(g[n - 1], said[n])
  <2> TAKE n \in 1 .. N
  <2>1. n - 1 \in 0 .. N /\ g[n - 1] \in S
    BY <1>1, <1>4
  <2> QED
    BY <1>4, <2>1
<1> HIDE DEF rule
<1>6. g = Def(g)
  BY <1>1, <1>4, <1>5
<1>7. upto = Def(upto)
  <2> HIDE DEF Def
  <2> QED
    BY <1>6
<1>8. /\ upto[0] = zero /\ \A n \in 1 .. N : upto[n] = Grow(upto[n - 1], said[n])
      /\ upto = [n \in 0 .. N |-> upto[n]]
  <2> HIDE DEF upto
  <2> DEFINE Item(n) == IF n = 0 THEN zero ELSE Grow(upto[n - 1], said[n])
  <2>1. upto = [n \in 0 .. N |-> Item(n)]
    BY <1>7
  <2>2. Item(0) = zero /\ \A n \in 1 .. N : Item(n) = Grow(upto[n - 1], said[n])
    OBVIOUS
  <2> HIDE DEF Item
  <2>3. 0 \in 0 .. N /\ \A n \in 1 .. N : n \in 0 .. N
    BY <1>1
  <2> QED
    BY ONLY <2>1, <2>2, <2>3
<1> HIDE DEF upto
<1>9. \A n \in 0 .. N : upto[n] \in S
  <2> DEFINE T == {n \in Nat : n =< N => upto[n] \in S}
  <2>1. 0 \in T
    BY <1>1, <1>8
  <2>2. ASSUME NEW n \in T PROVE n + 1 \in T
    <3> SUFFICES ASSUME n + 1 =< N PROVE upto[n + 1] \in S
      OBVIOUS
    <3>1. n + 1 \in 1 .. N /\ upto[n] \in S /\ (n + 1) - 1 = n
      BY <1>1
    <3> QED
      BY <1>1, <1>8, <3>1
  <2>3. T = Nat
    <3> HIDE DEF T
    <3> QED
      BY <2>1, <2>2, Induction DEF T
  <2> QED
    BY <1>1, <2>3
<1>10. upto \in [0 .. N -> S]
  BY <1>8, <1>9
<1>11. KeptSoFar(upto, S, said, N, roles)
  BY <1>2, <1>8, <1>10 DEF KeptSoFar, Grow, zero
<1> QED
  BY <1>11 DEF N, S

\* Nothing of another role is kept.
LEMMA KeepsRole ==
  ASSUME NEW M, NEW said \in Seq(M), NEW roles
  PROVE  LET left == Story!WithRole(said, roles)
         IN left \in Seq(M) /\ \A i \in 1 .. Len(left) : left[i].role \in roles
<1> DEFINE N == Len(said)
           Only(s) == \A i \in 1 .. Len(s) : s[i].role \in roles
<1>1. PICK acc : KeptSoFar(acc, Seq(M), said, N, roles)
  BY RoleFold
<1>2. N \in Nat /\ \A n \in 1 .. N : said[n] \in M
  OBVIOUS
<1>3. ASSUME NEW s \in Seq(M), NEW m \in M, m.role \in roles, Only(s) PROVE Only(Append(s, m))
  <2>1. Len(Append(s, m)) = Len(s) + 1 /\ \A i \in 1 .. Len(s) : Append(s, m)[i] = s[i]
    OBVIOUS
  <2>2. Append(s, m)[Len(s) + 1] = m
    OBVIOUS
  <2> QED
    BY <1>3, <2>1, <2>2
<1> HIDE DEF N, Only
<1> DEFINE T == {n \in Nat : n =< N => Only(acc[n])}
<1>4. 0 \in T
  BY <1>1 DEF Only, KeptSoFar
<1>5. ASSUME NEW n \in T PROVE n + 1 \in T
  <2> SUFFICES ASSUME n + 1 =< N PROVE Only(acc[n + 1])
    OBVIOUS
  <2>1. n + 1 \in 1 .. N /\ acc[n] \in Seq(M) /\ Only(acc[n]) /\ (n + 1) - 1 = n
    BY <1>1, <1>2 DEF KeptSoFar
  <2> QED
    BY <1>1, <1>2, <1>3, <2>1 DEF KeptSoFar
<1>6. T = Nat
  <2> HIDE DEF T
  <2> QED
    BY <1>4, <1>5, Induction DEF T
<1>7. Only(acc[N])
  BY <1>2, <1>6
<1>8. acc[N] \in Seq(M) /\ Story!WithRole(said, roles) = acc[N]
  BY <1>1, <1>2 DEF KeptSoFar
<1> QED
  BY <1>7, <1>8 DEF Only

\* What was said stays as it is when what stands in front of it is taken away.
LEMMA KeepsSaid ==
  ASSUME NEW M, NEW front \in Seq(M), NEW t \in Seq(M),
         \A i \in 1 .. Len(front) : front[i].role = "system",
         \A i \in 1 .. Len(t) : t[i].role \in Spoken
  PROVE  Story!WithRole(front \o t, Spoken) = t
<1> DEFINE said == front \o t
           N == Len(said)
           F == Len(front)
<1>1. /\ said \in Seq(M) /\ F \in Nat /\ Len(t) \in Nat /\ N = F + Len(t)
      /\ \A i \in 1 .. F : said[i] = front[i]
      /\ \A i \in 1 .. Len(t) : said[F + i] = t[i]
  OBVIOUS
<1>2. PICK acc : KeptSoFar(acc, Seq(M), said, N, Spoken)
  BY <1>1, RoleFold
<1> DEFINE Part(n) == IF n =< F THEN <<>> ELSE SubSeq(t, 1, n - F)
<1> HIDE DEF said, N, F
<1> DEFINE T == {n \in Nat : n =< N => acc[n] = Part(n)}
<1>3. 0 \in T
  BY <1>1, <1>2 DEF KeptSoFar
<1>4. ASSUME NEW n \in T PROVE n + 1 \in T
  <2> SUFFICES ASSUME n + 1 =< N PROVE acc[n + 1] = Part(n + 1)
    OBVIOUS
  <2>1. n + 1 \in 1 .. N /\ acc[n] = Part(n) /\ (n + 1) - 1 = n
    BY <1>1
  <2>2. acc[n + 1] = IF said[n + 1].role \in Spoken THEN Append(acc[n], said[n + 1]) ELSE acc[n]
    BY <1>2, <2>1 DEF KeptSoFar
  <2>3. CASE n + 1 =< F
    <3>1. said[n + 1].role = "system"
      <4>1. n + 1 \in 1 .. F
        BY <1>1, <2>1, <2>3
      <4> QED
        BY <1>1, <4>1 DEF F
    <3> QED
      BY <1>1, <2>1, <2>2, <2>3, <3>1 DEF Spoken
  <2>4. CASE n + 1 > F
    <3> DEFINE k == n + 1 - F
    <3>1. k \in 1 .. Len(t) /\ said[n + 1] = t[k] /\ t[k].role \in Spoken
      <4>1. k \in 1 .. Len(t) /\ n + 1 = F + k
        BY <1>1, <2>1, <2>4
      <4> QED
        BY <1>1, <4>1
    <3>2. acc[n + 1] = Append(acc[n], t[k])
      BY <2>2, <3>1
    <3>3. acc[n] = SubSeq(t, 1, k - 1)
      BY <1>1, <2>1, <2>4
    <3>4. Append(SubSeq(t, 1, k - 1), t[k]) = SubSeq(t, 1, k)
      BY <3>1
    <3>5. Part(n + 1) = SubSeq(t, 1, k)
      BY <1>1, <2>4
    <3> QED
      BY <3>2, <3>3, <3>4, <3>5
  <2> QED
    BY <1>1, <2>3, <2>4
<1>5. T = Nat
  <2> HIDE DEF T
  <2> QED
    BY <1>3, <1>4, Induction DEF T
<1>6. acc[N] = Part(N)
  BY <1>1, <1>5
<1>7. Part(N) = t
  <2>1. CASE Len(t) = 0
    <3>1. t = <<>>
      BY <2>1
    <3> QED
      BY <1>1, <2>1, <3>1
  <2>2. CASE Len(t) # 0
    <3>1. Part(N) = SubSeq(t, 1, Len(t))
      BY <1>1, <2>2
    <3>2. SubSeq(t, 1, Len(t)) = t
      OBVIOUS
    <3> QED
      BY <3>1, <3>2
  <2> QED
    BY <2>1, <2>2
<1> QED
  BY <1>2, <1>6, <1>7 DEF said, KeptSoFar

\* A part of a list up to its end is answered as the list is.
LEMMA RestAnswered ==
  ASSUME NEW M, NEW s \in Seq(M), NEW t \in Seq(M), NEW c \in Nat, Len(t) = Len(s) - c,
         \A i \in 1 .. Len(t) : t[i] = s[i + c], AllAnswered(s)
  PROVE  AllAnswered(t)
<1>1. Len(s) \in Nat /\ Len(t) \in Nat
  OBVIOUS
<1> SUFFICES ASSUME NEW i \in 1 .. Len(t), Called(t, i) PROVE Answered(t, i)
  BY DEF AllAnswered
<1>2. i + c \in 1 .. Len(s) /\ t[i] = s[i + c]
  BY <1>1
<1>3. PICK j \in i + c + 1 .. Len(s) :
        s[j].call = s[i + c].call /\ \A k \in i + c + 1 .. j : s[k].role = "tool"
  BY <1>2 DEF AllAnswered, Called, Answered
<1>4. /\ j - c \in i + 1 .. Len(t) /\ (j - c) + c = j /\ j - c \in 1 .. Len(t)
      /\ \A k \in i + 1 .. j - c : k \in 1 .. Len(t) /\ k + c \in i + c + 1 .. j
  BY <1>1, <1>3
<1>5. t[j - c] = s[j] /\ \A k \in i + 1 .. j - c : t[k].role = "tool"
  BY <1>3, <1>4
<1> QED
  BY <1>2, <1>3, <1>4, <1>5 DEF Answered

\* So is a list behind messages that call nothing.
LEMMA BehindAnswered ==
  ASSUME NEW M, NEW front \in Seq(M), NEW t \in Seq(M), AllAnswered(t),
         \A i \in 1 .. Len(front) : front[i].role = "system"
  PROVE  front \o t \in Seq(M) /\ AllAnswered(front \o t)
<1> DEFINE s == front \o t
           c == Len(front)
<1>1. /\ s \in Seq(M) /\ c \in Nat /\ Len(t) \in Nat /\ Len(s) = c + Len(t)
      /\ \A i \in 1 .. c : s[i] = front[i]
      /\ \A i \in 1 .. Len(t) : s[c + i] = t[i]
  OBVIOUS
<1>2. \A i \in 1 .. c : s[i].role = "system"
  BY <1>1
<1> HIDE DEF s, c
<1>3. ASSUME NEW n \in 1 .. Len(s), Called(s, n) PROVE Answered(s, n)
  <2> DEFINE i == n - c
  <2>1. n \notin 1 .. c
    BY <1>2, <1>3 DEF Called
  <2>2. i \in 1 .. Len(t) /\ n = c + i
    BY <1>1, <2>1
  <2>3. s[n] = t[i]
    BY <1>1, <2>2
  <2> HIDE DEF i
  <2>4. PICK j \in i + 1 .. Len(t) : t[j].call = t[i].call /\ \A k \in i + 1 .. j : t[k].role = "tool"
    BY <1>3, <2>2, <2>3 DEF AllAnswered, Called, Answered
  <2>5. /\ c + j \in n + 1 .. Len(s) /\ s[c + j] = t[j]
        /\ \A k \in n + 1 .. c + j : k - c \in i + 1 .. j /\ k - c \in 1 .. Len(t) /\ c + (k - c) = k
    BY <1>1, <2>2, <2>4
  <2>6. ASSUME NEW k \in n + 1 .. c + j PROVE s[k].role = "tool"
    <3> DEFINE q == k - c
    <3>1. q \in i + 1 .. j /\ q \in 1 .. Len(t) /\ c + q = k
      BY <2>5
    <3> HIDE DEF q
    <3>2. s[k] = t[q]
      BY <1>1, <3>1
    <3> QED
      BY <2>4, <3>1, <3>2
  <2> QED
    BY <2>3, <2>4, <2>5, <2>6 DEF Answered
<1>4. AllAnswered(s)
  BY <1>3 DEF AllAnswered
<1> QED
  BY <1>1, <1>4 DEF s

\* What is sent is the list with what it needs in front of it, or less of its beginning.
LEMMA SentAnswered ==
  ASSUME NEW M, NEW e \in Seq(M), AllAnswered(e), Led(e), Story!System("summary") \in M,
         NEW extra \in Seq(M), \A i \in 1 .. Len(extra) : extra[i].role = "system"
  PROVE  LET combined == <<Head(e)>> \o extra \o Tail(e)
         IN /\ combined \in Seq(M) /\ AllAnswered(combined)
            /\ Story!manage_context(combined) \in Seq(M) /\ AllAnswered(Story!manage_context(combined))
<1> DEFINE front == <<Head(e)>> \o extra
           t == Tail(e)
           all == Story!Others(front \o t)
           sys == Story!Systems(front \o t)
           more == <<Story!System("summary")>>
           cut == Len(all) - KeepRecent
           u == SubSeq(t, cut + 1, Len(t))
<1>1. /\ t \in Seq(M) /\ Len(t) = Len(e) - 1 /\ (\A i \in 1 .. Len(t) : t[i] = e[i + 1])
      /\ Head(e) \in M /\ Head(e).role = "system" /\ \A i \in 1 .. Len(t) : t[i].role \in Spoken
  BY DEF Led
<1>2. AllAnswered(t)
  <2> HIDE DEF t
  <2> QED
    BY <1>1, RestAnswered
<1>3. front \in Seq(M) /\ \A i \in 1 .. Len(front) : front[i].role = "system"
  <2>1. front \in Seq(M) /\ Len(front) = 1 + Len(extra) /\ front[1] = Head(e)
        /\ \A i \in 1 .. Len(extra) : front[1 + i] = extra[i]
    BY <1>1
  <2> HIDE DEF front
  <2>2. ASSUME NEW i \in 1 .. Len(front) PROVE front[i].role = "system"
    <3>1. CASE i = 1
      BY <1>1, <2>1, <3>1
    <3>2. CASE i # 1
      <4>1. i - 1 \in 1 .. Len(extra) /\ 1 + (i - 1) = i
        BY <2>1, <3>2
      <4> QED
        BY <2>1, <4>1
    <3> QED
      BY <3>1, <3>2
  <2> QED
    BY <2>1, <2>2
<1> HIDE DEF front, t
<1>4. front \o t \in Seq(M) /\ AllAnswered(front \o t)
  BY <1>1, <1>2, <1>3, BehindAnswered
<1>5. all = t
  BY <1>1, <1>3, KeepsSaid DEF Story!Others, Spoken
<1>6. sys \in Seq(M) /\ \A i \in 1 .. Len(sys) : sys[i].role = "system"
  <2>1. sys = Story!WithRole(front \o t, {"system"})
    BY DEF Story!Systems
  <2>2. sys \in Seq(M) /\ \A i \in 1 .. Len(sys) : sys[i].role \in {"system"}
    <3> HIDE DEF sys
    <3> QED
      BY <1>4, <2>1, KeepsRole
  <2> QED
    BY <2>2
<1>7. Story!manage_context(front \o t) = IF cut =< 0 THEN sys \o t ELSE sys \o more \o u
  BY <1>5 DEF Story!manage_context
<1>8. cut = Len(t) - KeepRecent /\ cut \in Int /\ cut =< Len(t) /\ Len(t) \in Nat
  BY <1>1, <1>5, StoryAssumption
<1> HIDE DEF all, sys, cut
<1>9. CASE cut =< 0
  BY <1>1, <1>2, <1>4, <1>6, <1>7, <1>9, BehindAnswered DEF front, t
<1>10. CASE ~(cut =< 0)
  <2>1. cut \in Nat
    BY <1>8, <1>10
  <2>2. u \in Seq(M) /\ Len(u) = Len(t) - cut /\ \A i \in 1 .. Len(u) : u[i] = t[i + cut]
    BY <1>1, <1>8, <1>10
  <2> HIDE DEF u
  <2>3. AllAnswered(u)
    BY <1>1, <1>2, <2>1, <2>2, RestAnswered
  <2> DEFINE v == sys \o more
  <2>4. v \in Seq(M) /\ Len(v) = Len(sys) + 1 /\ v[Len(sys) + 1] = Story!System("summary")
        /\ \A i \in 1 .. Len(sys) : v[i] = sys[i]
    BY <1>6
  <2> HIDE DEF v
  <2>5. ASSUME NEW i \in 1 .. Len(v) PROVE v[i].role = "system"
    <3>1. CASE i \in 1 .. Len(sys)
      BY <1>6, <2>4, <3>1
    <3>2. CASE i \notin 1 .. Len(sys)
      <4>1. i = Len(sys) + 1
        BY <1>6, <2>4, <3>2
      <4> QED
        BY <2>4, <4>1 DEF Story!System
    <3> QED
      BY <3>1, <3>2
  <2>6. v \o u \in Seq(M) /\ AllAnswered(v \o u)
    BY <2>2, <2>3, <2>4, <2>5, BehindAnswered
  <2> QED
    BY <1>4, <1>7, <1>10, <2>6 DEF v, front, t
<1> QED
  BY <1>9, <1>10

-----------------------------------------------------------------------------
(***************************************************************************)
(* The history of a run: a row for every message, in the order in which    *)
(* they were said first.                                                   *)
(***************************************************************************)
StoryTypes ==
  /\ calls \in Nat /\ ticket \in Nat
  /\ \E M : messages \in Seq(M) /\ rows \in Seq(M) /\ \A m \in M : m.role \in Spoken /\ m.call \in Nat

StoryInv == StoryTypes /\ Story!NothingNewLost

\* The initial states of the conversation satisfy its invariant.
LEMMA StoryInit == Story!Init => StoryInv
<1> SUFFICES ASSUME Story!Init PROVE StoryInv
  OBVIOUS
<1>1. messages \in Seq({}) /\ rows \in Seq({}) /\ calls \in Nat /\ ticket \in Nat
  BY DEF Story!Init
<1>2. StoryTypes
  BY <1>1 DEF StoryTypes
<1> QED
  BY <1>2 DEF Story!Init, StoryInv, Story!NothingNewLost, Story!ToSet

\* What appending one element does to a sequence and to its set.
LEMMA SetOfAppended ==
  ASSUME NEW S, NEW s \in Seq(S), NEW e \in S
  PROVE  /\ Story!ToSet(Append(s, e)) = Story!ToSet(s) \union {e}
         /\ Append(s, e) \in Seq(S) /\ Len(Append(s, e)) = Len(s) + 1 /\ Append(s, e)[Len(s) + 1] = e
         /\ \A i \in 1 .. Len(s) : Append(s, e)[i] = s[i]
<1>1. /\ Append(s, e) \in Seq(S) /\ Len(Append(s, e)) = Len(s) + 1 /\ Append(s, e)[Len(s) + 1] = e
      /\ \A i \in 1 .. Len(s) : Append(s, e)[i] = s[i]
  OBVIOUS
<1> DEFINE a == Append(s, e)
<1>2. Story!ToSet(a) = {a[i] : i \in 1 .. Len(s) + 1} /\ Story!ToSet(s) = {s[i] : i \in 1 .. Len(s)}
  BY <1>1 DEF Story!ToSet
<1>3. Len(s) \in Nat
  OBVIOUS
<1> HIDE DEF a
<1>4. {a[i] : i \in 1 .. Len(s) + 1} = {a[i] : i \in 1 .. Len(s)} \union {a[Len(s) + 1]}
  BY ONLY <1>3
<1>5. a[Len(s) + 1] = e /\ \A i \in 1 .. Len(s) : a[i] = s[i]
  BY <1>1 DEF a
<1>6. {a[i] : i \in 1 .. Len(s)} = {s[i] : i \in 1 .. Len(s)}
  BY <1>5
<1>7. Story!ToSet(a) = Story!ToSet(s) \union {e}
  BY <1>2, <1>4, <1>5, <1>6
<1> QED
  BY <1>1, <1>7 DEF a

\* A message is said, and stored unless it is stored already.
LEMMA StorySays ==
  ASSUME StoryInv, NEW m, m.role \in Spoken, m.call \in Nat, Story!Say(m), calls' \in Nat, ticket' \in Nat
  PROVE  StoryInv'
<1> PICK M : messages \in Seq(M) /\ rows \in Seq(M) /\ \A n \in M : n.role \in Spoken /\ n.call \in Nat
  BY DEF StoryInv, StoryTypes
<1> DEFINE N == M \union {m}
<1>1. messages \in Seq(N) /\ rows \in Seq(N) /\ m \in N /\ \A n \in N : n.role \in Spoken /\ n.call \in Nat
  BY Wider
<1>2. messages' = Append(messages, m) /\ rows' = IF m \in Story!ToSet(rows) THEN rows ELSE Append(rows, m)
  BY DEF Story!Say, Story!Stored, Story!ToSet
<1> HIDE DEF N
<1>3. /\ Story!ToSet(messages') = Story!ToSet(messages) \union {m} /\ messages' \in Seq(N)
      /\ Len(messages') = Len(messages) + 1
      /\ \A i \in 1 .. Len(messages) : messages'[i] = messages[i]
  BY <1>1, <1>2, SetOfAppended
<1>4. /\ Story!ToSet(rows) = Story!ToSet(messages) /\ Len(messages) \in Nat /\ Len(rows) \in Nat
      /\ DOMAIN rows = 1 .. Len(rows) /\ DOMAIN messages = 1 .. Len(messages)
      /\ DOMAIN messages' = 1 .. Len(messages) + 1
  BY <1>1, <1>3 DEF StoryInv, Story!NothingNewLost
<1>4a. \A i, j \in 1 .. Len(rows) : i < j =>
           \E a \in 1 .. Len(messages) : messages[a] = rows[i] /\ \A b \in 1 .. a : messages[b] # rows[j]
  <2>1. \A i, j \in DOMAIN rows : i < j =>
           \E a \in DOMAIN messages : messages[a] = rows[i] /\ \A b \in 1 .. a : messages[b] # rows[j]
    BY DEF StoryInv, Story!NothingNewLost
  <2> QED
    BY ONLY <2>1, <1>4
<1>5. ASSUME NEW i \in 1 .. Len(rows), NEW j \in 1 .. Len(rows), i < j
      PROVE  \E a \in DOMAIN messages' : messages'[a] = rows[i] /\ \A b \in 1 .. a : messages'[b] # rows[j]
  <2>1. PICK a \in 1 .. Len(messages) : messages[a] = rows[i] /\ \A b \in 1 .. a : messages[b] # rows[j]
    BY <1>4a, <1>5
  <2>2. a \in DOMAIN messages' /\ \A b \in 1 .. a : b \in 1 .. Len(messages)
    BY <1>4
  <2> QED
    BY <1>3, <2>1, <2>2
<1>6. CASE m \in Story!ToSet(rows)
  <2>1. rows' = rows
    BY <1>2, <1>6
  <2>2. Story!ToSet(rows') = Story!ToSet(messages')
    BY <1>3, <1>4, <1>6, <2>1
  <2>3. Story!NothingNewLost'
    BY <1>4, <1>5, <2>1, <2>2 DEF Story!NothingNewLost
  <2> QED
    BY <1>1, <1>3, <2>1, <2>3 DEF StoryInv, StoryTypes
<1>7. CASE m \notin Story!ToSet(rows)
  <2>1. rows' = Append(rows, m)
    BY <1>2, <1>7
  <2>2. /\ Story!ToSet(rows') = Story!ToSet(rows) \union {m} /\ rows' \in Seq(N)
        /\ Len(rows') = Len(rows) + 1 /\ rows'[Len(rows) + 1] = m
        /\ \A i \in 1 .. Len(rows) : rows'[i] = rows[i]
    BY <1>1, <2>1, SetOfAppended
  <2>3. \A b \in 1 .. Len(messages) : messages[b] # m
    BY <1>4, <1>7 DEF Story!ToSet
  <2>4. ASSUME NEW i \in 1 .. Len(rows) + 1, NEW j \in 1 .. Len(rows) + 1, i < j
        PROVE  \E a \in DOMAIN messages' : messages'[a] = rows'[i] /\ \A b \in 1 .. a : messages'[b] # rows'[j]
    <3>1. i \in 1 .. Len(rows) /\ rows'[i] = rows[i]
      BY <1>4, <2>2, <2>4
    <3>2. CASE j \in 1 .. Len(rows)
      BY <1>5, <2>2, <2>4, <3>1, <3>2
    <3>3. CASE j \notin 1 .. Len(rows)
      <4>1. rows'[j] = m
        <5>1. j = Len(rows) + 1
          BY <1>4, <3>3
        <5> QED
          BY <2>2, <5>1
      <4>2. PICK a \in 1 .. Len(messages) : messages[a] = rows[i]
        <5>1. rows[i] \in Story!ToSet(rows)
          BY <1>4, <3>1 DEF Story!ToSet
        <5>2. rows[i] \in Story!ToSet(messages)
          BY <1>4, <5>1
        <5>3. Story!ToSet(messages) = {messages[k] : k \in 1 .. Len(messages)}
          BY <1>4 DEF Story!ToSet
        <5> QED
          BY ONLY <5>2, <5>3
      <4>3. a \in DOMAIN messages' /\ \A b \in 1 .. a : b \in 1 .. Len(messages)
        BY <1>4
      <4> QED
        BY <1>3, <2>3, <3>1, <4>1, <4>2, <4>3
    <3> QED
      BY <3>2, <3>3
  <2>5. DOMAIN rows' = 1 .. Len(rows) + 1
    BY <2>2
  <2>6. Story!ToSet(rows') = Story!ToSet(messages')
    BY <1>3, <1>4, <2>2
  <2>7. Story!NothingNewLost'
    BY <2>4, <2>5, <2>6 DEF Story!NothingNewLost
  <2>8. StoryTypes'
    BY ONLY <1>1, <1>3, <2>2, calls' \in Nat, ticket' \in Nat DEF StoryTypes
  <2> QED
    BY <2>7, <2>8 DEF StoryInv
<1> QED
  BY <1>6, <1>7

\* Every step of the conversation keeps its invariant.
LEMMA StoryStep == StoryInv /\ [Story!Next]_historyVars => StoryInv'
<1> SUFFICES ASSUME StoryInv, [Story!Next]_historyVars PROVE StoryInv'
  OBVIOUS
<1>0. calls \in Nat /\ ticket \in Nat
  BY DEF StoryInv, StoryTypes
<1>1. ASSUME UNCHANGED <<messages, rows>>, calls' \in Nat, ticket' \in Nat PROVE StoryInv'
  BY <1>1 DEF StoryInv, StoryTypes, Story!NothingNewLost
<1>2. CASE Story!Reload
  <2>1. messages' = rows /\ rows' = rows /\ UNCHANGED <<calls, ticket>>
    BY <1>2 DEF Story!Reload
  <2>2. PICK M : rows \in Seq(M) /\ \A m \in M : m.role \in Spoken /\ m.call \in Nat
    BY DEF StoryInv, StoryTypes
  <2>3. \A i, j \in DOMAIN rows : i < j =>
          \E a \in DOMAIN rows : rows[a] = rows[i] /\ \A b \in 1 .. a : rows[b] # rows[j]
    <3> SUFFICES ASSUME NEW i \in DOMAIN rows, NEW j \in DOMAIN rows, i < j
                 PROVE  \A b \in 1 .. i : rows[b] # rows[j]
      OBVIOUS
    <3> TAKE b \in 1 .. i
    <3>1. i \in 1 .. Len(rows) /\ j \in 1 .. Len(rows) /\ b \in DOMAIN rows /\ b < j
      BY <2>2
    <3>2. PICK a \in DOMAIN messages : messages[a] = rows[b] /\ \A d \in 1 .. a : messages[d] # rows[j]
      BY <3>1 DEF StoryInv, Story!NothingNewLost
    <3>3. a \in 1 .. a
      BY DEF StoryInv, StoryTypes
    <3> QED
      BY <3>2, <3>3
  <2> QED
    BY <1>0, <2>1, <2>2, <2>3 DEF StoryInv, StoryTypes, Story!NothingNewLost
<1>3. ASSUME NEW t \in Texts, Story!Chat(t) PROVE StoryInv'
  <2>1. UNCHANGED <<calls, ticket>> /\ (UNCHANGED <<messages, rows>> \/ Story!Say(Story!User(t)))
    BY <1>3 DEF Story!Chat
  <2>2. Story!User(t).role \in Spoken /\ Story!User(t).call \in Nat
    BY DEF Story!User, Spoken
  <2> QED
    BY <1>0, <1>1, <2>1, <2>2, StorySays
<1>4. ASSUME NEW t \in Texts, Story!ModelAnswers(t) PROVE StoryInv'
  <2>1. UNCHANGED <<calls, ticket>> /\ Story!Say(Story!Answer(t))
    BY <1>4 DEF Story!ModelAnswers
  <2>2. Story!Answer(t).role \in Spoken /\ Story!Answer(t).call \in Nat
    BY DEF Story!Answer, Spoken
  <2> QED
    BY <1>0, <2>1, <2>2, StorySays
<1>5. CASE Story!ModelCalls
  <2>1. calls' = calls + 1 /\ UNCHANGED ticket /\ Story!Say(Story!Note(calls + 1))
    BY <1>5 DEF Story!ModelCalls
  <2>2. Story!Note(calls + 1).role \in Spoken /\ Story!Note(calls + 1).call \in Nat
    BY <1>0 DEF Story!Note, Spoken
  <2> QED
    BY <1>0, <2>1, <2>2, StorySays
<1>6. CASE Story!ToolResult \/ Story!ApprovedResult \/ Story!Reject
  <2>1. PICK c \in {calls, ticket} : calls' = calls /\ ticket' \in {0, ticket} /\ Story!Say(Story!Result(c))
    BY <1>6 DEF Story!ToolResult, Story!ApprovedResult, Story!Reject
  <2>2. Story!Result(c).role \in Spoken /\ Story!Result(c).call \in Nat
    BY <1>0, <2>1 DEF Story!Result, Spoken
  <2> QED
    BY <1>0, <2>1, <2>2, StorySays
<1>7. CASE Story!ModelFails \/ Story!ToolDenied \/ Story!Hold \/ Story!Approve \/ Story!Resume
           \/ UNCHANGED historyVars
  <2>1. UNCHANGED <<messages, rows, calls>> /\ ticket' \in {ticket, calls}
    BY <1>7 DEF Story!ModelFails, Story!ToolDenied, Story!Hold, Story!Approve, Story!Resume, historyVars
  <2> QED
    BY <1>0, <1>1, <2>1
<1> QED
  BY <1>2, <1>3, <1>4, <1>5, <1>6, <1>7 DEF Story!Next

\* So each call that is sent to the model has its result behind it.
LEMMA StoryTold == StoryInv => Story!CallsPaired
<1> SUFFICES ASSUME StoryInv, NEW sent \in Story!RequestLists, NEW i \in DOMAIN sent,
                    sent[i].role = "assistant", sent[i].call # 0
             PROVE  \E m \in Story!Following(sent, i) : m.call = sent[i].call
  BY DEF Story!CallsPaired
<1>1. PICK extra \in Story!Contexts, long \in BOOLEAN : sent = Story!_request_messages(extra, long)
  BY DEF Story!RequestLists
<1>2. PICK L : messages \in Seq(L) /\ \A m \in L : m.role \in Spoken /\ m.call \in Nat
  BY DEF StoryInv, StoryTypes
<1> DEFINE prompt == Story!System("prompt")
           more == {prompt, Story!System("memory"), Story!System("plan"), Story!System("summary")}
           M == L \union more \union {Story!Filler(c) : c \in Nat}
           said == <<prompt>> \o messages
           e == Story!EnsureToolResults(said)
           combined == <<Head(e)>> \o extra \o Tail(e)
<1>3. Said(M)
  <2>1. \A m \in more : m.call = 0
    BY DEF Story!System
  <2>2. \A c \in Nat : Story!Filler(c) \in M /\ Story!Filler(c).call = c
    BY DEF Story!Filler
  <2>3. \A m \in M : m \in L \/ m \in more \/ \E c \in Nat : m = Story!Filler(c)
    OBVIOUS
  <2> HIDE DEF more, M
  <2>4. \A m \in M : m.call \in Nat
    BY <1>2, <2>1, <2>2, <2>3
  <2> QED
    BY <2>2, <2>4 DEF Said
<1>4. L \subseteq M /\ more \subseteq M
  OBVIOUS
<1>5. extra \in Seq(more) /\ \A n \in 1 .. Len(extra) : extra[n].role = "system"
  <2>1. \A m \in more : m.role = "system"
    BY DEF Story!System
  <2> DEFINE one == Story!System("memory")
             two == Story!System("plan")
  <2>2. one \in more /\ two \in more
    OBVIOUS
  <2>3. extra \in {<<>>, <<one>>, <<two>>, <<one, two>>}
    BY DEF Story!Contexts
  <2> HIDE DEF more, one, two
  <2>4. extra \in Seq(more)
    <3>1. <<>> \in Seq(more) /\ <<one>> \in Seq(more) /\ <<two>> \in Seq(more)
      BY <2>2
    <3>2. <<one, two>> \in Seq(more)
      BY <2>2
    <3> QED
      BY ONLY <2>3, <3>1, <3>2
  <2> QED
    BY <2>1, <2>4
<1> HIDE DEF more, M
<1>6. messages \in Seq(M) /\ extra \in Seq(M) /\ prompt \in M /\ Story!System("summary") \in M
  <2>1. prompt \in more /\ Story!System("summary") \in more
    BY DEF more
  <2> QED
    BY <1>2, <1>4, <1>5, <2>1, Wider
<1>7. said \in Seq(M) /\ Led(said)
  <2>1. /\ said \in Seq(M) /\ Len(said) = 1 + Len(messages) /\ said[1] = prompt /\ Len(messages) \in Nat
        /\ \A n \in 1 .. Len(messages) : said[1 + n] = messages[n]
    BY <1>6
  <2>2. prompt.role = "system"
    BY DEF Story!System
  <2> HIDE DEF said, prompt
  <2>3. ASSUME NEW n \in 2 .. Len(said) PROVE said[n].role \in Spoken
    <3>1. n - 1 \in 1 .. Len(messages) /\ 1 + (n - 1) = n
      BY <2>1
    <3>2. said[n] = messages[n - 1] /\ messages[n - 1] \in L
      BY <1>2, <2>1, <3>1
    <3> QED
      BY <1>2, <3>2
  <2> QED
    BY <2>1, <2>2, <2>3 DEF Led
<1>8. e \in Seq(M) /\ AllAnswered(e) /\ Led(e)
  <2> HIDE DEF said
  <2> QED
    BY <1>3, <1>7, Ensured
<1>9. sent = IF long THEN Story!manage_context(combined) ELSE combined
  BY <1>1 DEF Story!_request_messages
<1>10. sent \in Seq(M) /\ AllAnswered(sent)
  <2> HIDE DEF e
  <2> QED
    BY <1>5, <1>6, <1>8, <1>9, SentAnswered
<1> HIDE DEF e, said, combined
<1>11. i \in 1 .. Len(sent) /\ DOMAIN sent = 1 .. Len(sent) /\ Len(sent) \in Nat
  BY <1>10
<1>12. PICK j \in i + 1 .. Len(sent) : sent[j].call = sent[i].call /\ \A k \in i + 1 .. j : sent[k].role = "tool"
  BY <1>10, <1>11 DEF AllAnswered, Called, Answered
<1>13. sent[j] \in Story!Following(sent, i)
  BY <1>12 DEF Story!Following
<1> QED
  BY <1>12, <1>13

-----------------------------------------------------------------------------
(***************************************************************************)
(* The chunks of a text, whatever its length, their size and overlap.      *)
(***************************************************************************)
LEMMA LesserOf == ASSUME NEW i \in Int, NEW j \in Int PROVE Index!Min({i, j}) = IF i =< j THEN i ELSE j
<1> DEFINE S == {i, j}
           x == IF i =< j THEN i ELSE j
<1>1. x \in S /\ x \in Int /\ \A y \in S : x =< y
  OBVIOUS
<1>2. \A z \in S : (\A y \in S : z =< y) => z = x
  OBVIOUS
<1>3. Index!Min(S) = CHOOSE z \in S : \A y \in S : z =< y
  BY DEF Index!Min
<1> HIDE DEF x, S
<1>4. Index!Min(S) = x
  BY ONLY <1>1, <1>2, <1>3
<1> QED
  BY <1>4 DEF x, S

\* The multiple of d that a number reaches.
LEMMA MultipleReached ==
  ASSUME NEW i \in Nat, NEW d \in Nat, d > 0
  PROVE  \E k \in Nat : k =< i /\ i < k + d /\ k % d = 0
<1> DEFINE q == i \div d
           k == d * q
<1>1. q \in Nat /\ i = k + (i % d) /\ i % d \in 0 .. d - 1
  OBVIOUS
<1>2. k \in Nat /\ k % d = 0
  <2> HIDE DEF q
  <2> QED
    BY <1>1
<1>3. k =< i /\ i < k + d
  BY <1>1, <1>2
<1> QED
  BY <1>2, <1>3

\* knowledge.py:434-443: for texts of every length, every size of a chunk and every
\* overlap below it, the chunks cover the text, and any two characters less than an
\* common apart stand in one chunk: nothing that short is cut in two.
THEOREM ChunksAlwaysCover ==
  ASSUME NEW n \in Nat, NEW size \in Nat \ {0}, NEW common \in 0 .. size - 1
  PROVE  Index!Covered(n, size, common)
<1> SUFFICES ASSUME NEW a \in 1 .. n, NEW b \in 1 .. n, a =< b, b = a \/ b < a + common
             PROVE  \E c \in Index!Chunks(n, size, common) : c[1] =< a /\ b =< c[2]
  BY DEF Index!Covered
<1>1. CASE n =< size
  <2>1. <<1, n>> \in Index!Chunks(n, size, common)
    BY <1>1 DEF Index!Chunks
  <2> QED
    BY <2>1
<1>2. CASE ~(n =< size)
  <2> DEFINE d == size - common
  <2>1. d \in Nat /\ d > 0 /\ a - 1 \in Nat
    OBVIOUS
  <2>2. PICK k \in Nat : k =< a - 1 /\ a - 1 < k + d /\ k % d = 0
    BY <2>1, MultipleReached
  <2> DEFINE first == k + 1
             last == Index!Min({first + size - 1, n})
  <2>3. first \in 1 .. n /\ first - 1 = k /\ first =< a
    BY <2>2
  <2>4. b =< first + size - 1
    BY <2>2
  <2>5. last = IF first + size - 1 =< n THEN first + size - 1 ELSE n
    BY <2>3, LesserOf
  <2>6. <<first, last>> \in Index!Chunks(n, size, common)
    <3>1. Index!Chunks(n, size, common)
            = {<<p, Index!Min({p + size - 1, n})>> : p \in {p \in 1 .. n : (p - 1) % (size - common) = 0}}
      BY <1>2 DEF Index!Chunks
    <3>2. first \in {p \in 1 .. n : (p - 1) % (size - common) = 0}
      BY <2>2, <2>3
    <3> HIDE DEF first
    <3> QED
      BY ONLY <3>1, <3>2
  <2>7. b =< last
    BY <2>4, <2>5
  <2> HIDE DEF last, first
  <2>8. <<first, last>>[1] =< a /\ b =< <<first, last>>[2]
    BY <2>3, <2>7
  <2> QED
    BY <2>6, <2>8
<1> QED
  BY <1>1, <1>2

-----------------------------------------------------------------------------
(***************************************************************************)
(* Rankings.  In a strict total order of finitely many things, the number  *)
(* of those before it is the place of each, and each place is taken.       *)
(***************************************************************************)
Orders(R, S) ==
  /\ \A x \in S : <<x, x>> \notin R
  /\ \A x, y \in S : x # y => <<x, y>> \in R \/ <<y, x>> \in R
  /\ \A x, y, z \in S : <<x, y>> \in R /\ <<y, z>> \in R => <<x, z>> \in R

Ahead(R, S, x) == {y \in S : <<y, x>> \in R}
Place(R, S, x) == Cardinality(Ahead(R, S, x))

\* A total order gives each element of a finite set a place of its own, without gaps.
LEMMA Ranked ==
  ASSUME NEW S, IsFiniteSet(S), NEW R, Orders(R, S)
  PROVE  /\ \A x \in S : Place(R, S, x) \in 0 .. Cardinality(S) - 1
         /\ \A x, y \in S : Place(R, S, x) = Place(R, S, y) => x = y
         /\ \A n \in 0 .. Cardinality(S) - 1 : \E x \in S : Place(R, S, x) = n
<1> DEFINE N == Cardinality(S)
<1>0. N \in Nat
  BY FS_CardinalityType
<1>1. ASSUME NEW x \in S PROVE Place(R, S, x) \in 0 .. N - 1 /\ IsFiniteSet(Ahead(R, S, x))
  <2>1. Ahead(R, S, x) \in SUBSET (S \ {x})
    BY DEF Ahead, Orders
  <2>2. IsFiniteSet(S \ {x}) /\ Cardinality(S \ {x}) = N - 1
    BY FS_RemoveElement
  <2> HIDE DEF N
  <2>3. IsFiniteSet(Ahead(R, S, x)) /\ Place(R, S, x) =< N - 1
    BY <2>1, <2>2, FS_Subset DEF Place
  <2>4. Place(R, S, x) \in Nat
    BY <2>3, FS_CardinalityType DEF Place
  <2> QED
    BY <1>0, <2>3, <2>4
<1>2. ASSUME NEW x \in S, NEW y \in S, <<x, y>> \in R PROVE Place(R, S, x) < Place(R, S, y)
  <2>1. x \notin Ahead(R, S, x) /\ Ahead(R, S, x) \union {x} \in SUBSET Ahead(R, S, y)
    BY <1>2 DEF Ahead, Orders
  <2>2. Cardinality(Ahead(R, S, x) \union {x}) = Place(R, S, x) + 1
    BY <1>1, <2>1, FS_AddElement DEF Place
  <2>3. Cardinality(Ahead(R, S, x) \union {x}) =< Place(R, S, y)
    BY <1>1, <2>1, FS_Subset DEF Place
  <2> QED
    BY <1>1, <2>2, <2>3
<1>3. ASSUME NEW x \in S, NEW y \in S, Place(R, S, x) = Place(R, S, y) PROVE x = y
  <2> SUFFICES ASSUME x # y PROVE FALSE
    OBVIOUS
  <2>1. <<x, y>> \in R \/ <<y, x>> \in R
    BY DEF Orders
  <2> QED
    BY <1>1, <1>2, <1>3, <2>1
<1>4. ASSUME NEW n \in 0 .. N - 1 PROVE \E x \in S : Place(R, S, x) = n
  <2> DEFINE f == [x \in S |-> Place(R, S, x)]
             T == 0 .. N - 1
  <2>1. f \in Injection(S, T)
    <3>1. \A x \in S : f[x] = Place(R, S, x) /\ f[x] \in T
      BY <1>1
    <3>2. \A x, y \in S : f[x] = f[y] => x = y
      BY <1>3
    <3>3. f \in [S -> T]
      BY <3>1
    <3> HIDE DEF f, T
    <3> QED
      BY <3>2, <3>3 DEF Injection, IsInjective
  <2>2. IsFiniteSet(T) /\ Cardinality(T) = N
    BY <1>0, FS_Interval
  <2> HIDE DEF f, T
  <2>3. f \in Surjection(S, T)
    BY <2>1, <2>2, FS_Injection
  <2>4. n \in T
    BY DEF T
  <2>5. PICK x \in S : f[x] = n
    BY <2>3, <2>4 DEF Surjection
  <2> QED
    BY <2>5 DEF f
<1> QED
  BY <1>1, <1>3, <1>4

\* The cardinality seen through the instance is the cardinality.
LEMMA SameSize == \A S : Index!Cardinality(S) = Cardinality(S)
BY DEF Index!Cardinality, Cardinality

-----------------------------------------------------------------------------
(***************************************************************************)
(* The index.  Its postings are those of the vectors, so that a vector     *)
(* that no posting of the query names has nothing in common with it.       *)
(***************************************************************************)
IndexInv ==
  /\ vectors \in Seq(Index!Vector) /\ Len(vectors) =< MaxVectors
  /\ postings = [d \in 1 .. Dims |-> {i \in 1 .. Len(vectors) : vectors[i][d] # 0}]

\* The constants of the index, as the proofs use them.
LEMMA IndexFacts == Dims \in Nat /\ MaxVectors \in Nat /\ RrfK \in Nat /\ Index!Vector \subseteq [1 .. Dims -> Nat]
BY IndexAssumption DEF IndexAssumption, Index!Vector

\* The initial states of the vector index satisfy its invariant.
LEMMA IndexInit == Index!Init => IndexInv
<1> SUFFICES ASSUME Index!Init PROVE IndexInv
  OBVIOUS
<1>1. vectors \in Seq(Index!Vector) /\ Len(vectors) = 0 /\ postings = [d \in 1 .. Dims |-> {}]
  BY DEF Index!Init
<1> QED
  BY <1>1, IndexFacts DEF IndexInv

\* Every step of the vector index keeps its invariant.
LEMMA IndexStep == IndexInv /\ [Index!Next]_indexVars => IndexInv'
<1> SUFFICES ASSUME IndexInv, [Index!Next]_indexVars PROVE IndexInv'
  OBVIOUS
<1>1. CASE UNCHANGED <<vectors, postings>>
  BY <1>1 DEF IndexInv
<1>2. ASSUME NEW v \in Index!Vector, Index!Add(v) PROVE IndexInv'
  <2> DEFINE n == Len(vectors) + 1
  <2>1. /\ vectors' = Append(vectors, v) /\ postings' = Index!Posted(v, n)
        /\ Len(vectors) \in Nat /\ Len(vectors) < MaxVectors
    BY <1>2 DEF Index!Add, IndexInv
  <2>2. /\ vectors' \in Seq(Index!Vector) /\ Len(vectors') = n /\ vectors'[n] = v
        /\ \A i \in 1 .. Len(vectors) : vectors'[i] = vectors[i]
    BY <2>1 DEF IndexInv
  <2>3. ASSUME NEW d \in 1 .. Dims
        PROVE  postings'[d] = {i \in 1 .. n : vectors'[i][d] # 0}
    <3>1. postings[d] = {i \in 1 .. Len(vectors) : vectors[i][d] # 0}
      BY DEF IndexInv
    <3>2. postings'[d] = IF v[d] # 0 THEN postings[d] \union {n} ELSE postings[d]
      BY <2>1 DEF Index!Posted
    <3>3. \A i \in 1 .. n : i # n => i \in 1 .. Len(vectors)
      BY <2>1
    <3>4. n \in 1 .. n /\ \A i \in 1 .. Len(vectors) : i \in 1 .. n /\ i # n
      BY <2>1
    <3> HIDE DEF n
    <3> QED
      BY <2>2, <3>1, <3>2, <3>3, <3>4
  <2>4. postings' = [d \in 1 .. Dims |-> postings'[d]]
    BY <2>1 DEF Index!Posted
  <2>5. n =< MaxVectors
    BY <2>1, IndexFacts
  <2> HIDE DEF n
  <2> QED
    BY <2>2, <2>3, <2>4, <2>5 DEF IndexInv
<1> QED
  BY <1>1, <1>2 DEF Index!Next, Index!Reopen, indexVars

\* A sum of products of numbers is nothing exactly if each of them is nothing.
LEMMA DotTells ==
  ASSUME NEW a \in [1 .. Dims -> Nat], NEW b \in [1 .. Dims -> Nat]
  PROVE  /\ Index!Dot(a, b) \in Nat
         /\ Index!Dot(a, b) = 0 <=> \A d \in 1 .. Dims : a[d] = 0 \/ b[d] = 0
<1> DEFINE rule == [e \in (1 .. Dims) \X Nat |-> e[2] + a[e[1]] * b[e[1]]]
           Def(h) == [d \in 0 .. Dims |-> IF d = 0 THEN 0 ELSE h[d - 1] + a[d] * b[d]]
           sum == CHOOSE h : h = Def(h)
<1>0. Dims \in Nat
  BY IndexFacts
<1>1. rule \in RuleOn(Nat, Dims)
  BY DEF RuleOn
<1>2. PICK g : Run(g, Nat, Dims, 0, rule)
  <2> HIDE DEF rule
  <2> QED
    BY <1>0, <1>1, Recursion
<1>3. g = Def(g)
  <2>1. /\ g \in [0 .. Dims -> Nat] /\ g[0] = 0
        /\ \A d \in 1 .. Dims : g[d] = rule[<<d, g[d - 1]>>]
    BY <1>2 DEF Run
  <2>2. ASSUME NEW d \in 1 .. Dims PROVE g[d] = g[d - 1] + a[d] * b[d]
    <3>1. <<d, g[d - 1]>> \in (1 .. Dims) \X Nat
      BY <1>0, <2>1
    <3> QED
      BY <2>1, <3>1
  <2> HIDE DEF rule
  <2>3. \A d \in 0 .. Dims : g[d] = IF d = 0 THEN 0 ELSE g[d - 1] + a[d] * b[d]
    <3> TAKE d \in 0 .. Dims
    <3>1. d = 0 \/ d \in 1 .. Dims
      BY <1>0
    <3> QED
      BY <2>1, <2>2, <3>1
  <2>4. g = [d \in 0 .. Dims |-> g[d]]
    BY <2>1
  <2> QED
    BY <2>3, <2>4
<1>4. sum = Def(sum)
  <2> HIDE DEF Def
  <2> QED
    BY <1>3
<1>5. Index!Dot(a, b) = sum[Dims]
  BY DEF Index!Dot
<1>6. sum[0] = 0 /\ \A d \in 1 .. Dims : sum[d] = sum[d - 1] + a[d] * b[d]
  <2> HIDE DEF sum
  <2> QED
    BY <1>0, <1>4
<1> HIDE DEF sum, rule
<1> DEFINE Good(n) == sum[n] \in Nat /\ (sum[n] = 0 <=> \A d \in 1 .. n : a[d] = 0 \/ b[d] = 0)
           T == {n \in Nat : n =< Dims => Good(n)}
<1>7. 0 \in T
  BY <1>6
<1>8. ASSUME NEW n \in T PROVE n + 1 \in T
  <2> SUFFICES ASSUME n + 1 =< Dims PROVE Good(n + 1)
    OBVIOUS
  <2>1. Good(n) /\ n + 1 \in 1 .. Dims /\ n \in Nat /\ (n + 1) - 1 = n
    BY <1>0
  <2>2. sum[n + 1] = sum[n] + a[n + 1] * b[n + 1]
    BY <1>6, <2>1
  <2> DEFINE x == a[n + 1]
             y == b[n + 1]
  <2>3. x \in Nat /\ y \in Nat
    BY <2>1
  <2>4. sum[n + 1] = sum[n] + x * y
    BY <2>2
  <2>5. (\A d \in 1 .. n + 1 : a[d] = 0 \/ b[d] = 0) <=> (\A d \in 1 .. n : a[d] = 0 \/ b[d] = 0) /\ (x = 0 \/ y = 0)
    <3>1. 1 .. n + 1 = (1 .. n) \union {n + 1}
      BY <2>1
    <3> QED
      BY <3>1
  <2> HIDE DEF x, y
  <2>6. x * y \in Nat /\ (x * y = 0 <=> x = 0 \/ y = 0)
    BY <2>3
  <2> QED
    BY <2>1, <2>4, <2>5, <2>6
<1>9. T = Nat
  <2> HIDE DEF Good
  <2> QED
    BY <1>7, <1>8, Induction
<1>10. Good(Dims)
  <2> HIDE DEF Good
  <2> QED
    BY <1>0, <1>9
<1> QED
  BY <1>5, <1>10

\* What a list of hits has at its n-th place.
Hits(S) ==
  /\ IsFiniteSet(S) /\ \A x \in S : x.at \in Nat /\ x.score \in Nat
  /\ \A x, y \in S : x.at = y.at => x = y
Stands(S, x, n) == Index!Cardinality({y \in S : Index!Better(y, x)}) = n - 1
Best(S, k) == IF k =< Cardinality(S) THEN k ELSE Cardinality(S)

\* An interval from one is finite and has as many elements as its end.
LEMMA Counted == \A n \in Nat : IsFiniteSet(1 .. n) /\ Cardinality(1 .. n) = n
BY FS_Interval

\* Top(S, k) is the sequence of the k best hits, each standing at its own place.
LEMMA TopIs ==
  ASSUME NEW S, Hits(S), NEW k \in Nat
  PROVE  /\ Best(S, k) \in Nat /\ Index!Top(S, k) \in Seq(S) /\ Len(Index!Top(S, k)) = Best(S, k)
         /\ \A n \in 1 .. Best(S, k) : Stands(S, Index!Top(S, k)[n], n)
         /\ \A n \in Nat, x, y \in S : Stands(S, x, n) /\ Stands(S, y, n) => x = y
<1> DEFINE R == {p \in S \X S : Index!Better(p[1], p[2])}
           m == Best(S, k)
           At(n) == CHOOSE x \in S : Stands(S, x, n)
           t == [n \in 1 .. m |-> At(n)]
<1>0. Cardinality(S) \in Nat /\ IsFiniteSet(S)
  BY FS_CardinalityType DEF Hits
<1>1. Orders(R, S)
  <2>1. \A x, y \in S : <<x, y>> \in R <=> Index!Better(x, y)
    OBVIOUS
  <2>2. \A x \in S : x.at \in Nat /\ x.score \in Nat
    BY DEF Hits
  <2>3. \A x \in S : ~Index!Better(x, x)
    BY <2>2 DEF Index!Better
  <2>4. \A x, y \in S : x # y => Index!Better(x, y) \/ Index!Better(y, x)
    BY <2>2 DEF Index!Better, Hits
  <2>5. \A x, y, z \in S : Index!Better(x, y) /\ Index!Better(y, z) => Index!Better(x, z)
    BY <2>2 DEF Index!Better
  <2> HIDE DEF R
  <2> QED
    BY <2>1, <2>3, <2>4, <2>5 DEF Orders
<1>2. \A x \in S, n \in Int : Stands(S, x, n) <=> Place(R, S, x) = n - 1
  <2> SUFFICES ASSUME NEW x \in S PROVE Ahead(R, S, x) = {y \in S : Index!Better(y, x)}
    BY SameSize DEF Stands, Place
  <2> QED
    BY DEF Ahead
<1> HIDE DEF R
<1>3. /\ \A x, y \in S : Place(R, S, x) = Place(R, S, y) => x = y
      /\ \A n \in 0 .. Cardinality(S) - 1 : \E x \in S : Place(R, S, x) = n
  BY <1>0, <1>1, Ranked
<1>4. m \in Nat /\ m =< Cardinality(S)
  BY <1>0 DEF Best
<1>5. Index!Top(S, k) = t
  <2>1. Index!Min({k, Cardinality(S)}) = m
    BY <1>0, LesserOf DEF Best
  <2> QED
    BY <2>1, SameSize DEF Index!Top, Stands
<1> HIDE DEF m
<1>6. ASSUME NEW n \in 1 .. m PROVE At(n) \in S /\ Stands(S, At(n), n)
  <2>1. n - 1 \in 0 .. Cardinality(S) - 1 /\ n \in Int
    BY <1>0, <1>4
  <2>2. PICK x \in S : Place(R, S, x) = n - 1
    BY <1>3, <2>1
  <2>3. Stands(S, x, n)
    BY <1>2, <2>1, <2>2
  <2> QED
    BY <2>3
<1> HIDE DEF At
<1>7. t \in Seq(S) /\ Len(t) = m
  BY <1>4, <1>6
<1>8. \A n \in 1 .. m : t[n] = At(n)
  OBVIOUS
<1> HIDE DEF t
<1>9. ASSUME NEW n \in Nat, NEW x \in S, NEW y \in S, Stands(S, x, n), Stands(S, y, n) PROVE x = y
  BY <1>2, <1>3, <1>9
<1> QED
  BY <1>4, <1>5, <1>6, <1>7, <1>8, <1>9 DEF m

\* What an index says of a vector; and with what shares no dimension with the query, either
\* list of hits is that of all vectors.
AllHits(q) == {Index!Hit(q, i) : i \in 1 .. Len(vectors)}

\* The hits of a query are finitely many, one for each vector.
LEMMA HitTypes ==
  ASSUME IndexInv, NEW q \in Index!Vector
  PROVE  /\ Hits(AllHits(q)) /\ Cardinality(AllHits(q)) =< MaxVectors
         /\ \A x \in AllHits(q) : x.at \in 1 .. Len(vectors) /\ x = Index!Hit(q, x.at)
         /\ \A i \in 1 .. Len(vectors) : Index!Hit(q, i) \in AllHits(q) /\ Index!Hit(q, i).at = i
<1>1. Len(vectors) \in Nat /\ Len(vectors) =< MaxVectors /\ MaxVectors \in Nat
  BY IndexFacts DEF IndexInv
<1>2. ASSUME NEW i \in 1 .. Len(vectors)
      PROVE  Index!Hit(q, i).at = i /\ Index!Hit(q, i).score \in Nat
  <2>1. vectors[i] \in [1 .. Dims -> Nat] /\ q \in [1 .. Dims -> Nat]
    BY IndexFacts DEF IndexInv
  <2> QED
    BY <2>1, DotTells DEF Index!Hit
<1>3. \A x \in AllHits(q) : x.at \in 1 .. Len(vectors) /\ x = Index!Hit(q, x.at)
  BY <1>2 DEF AllHits
<1>4. IsFiniteSet(AllHits(q)) /\ Cardinality(AllHits(q)) =< Len(vectors)
  <2> DEFINE f == [i \in 1 .. Len(vectors) |-> Index!Hit(q, i)]
             I == 1 .. Len(vectors)
  <2>1. f \in Surjection(I, AllHits(q))
    <3>1. \A i \in I : f[i] = Index!Hit(q, i) /\ f[i] \in AllHits(q)
      BY DEF AllHits
    <3>2. \A x \in AllHits(q) : \E i \in I : f[i] = x
      BY DEF AllHits
    <3>3. f \in [I -> AllHits(q)]
      BY <3>1
    <3> HIDE DEF f, I
    <3> QED
      BY <3>2, <3>3 DEF Surjection
  <2>2. IsFiniteSet(I) /\ Cardinality(I) = Len(vectors)
    BY <1>1, Counted
  <2> HIDE DEF f, I
  <2> QED
    BY <2>1, <2>2, FS_Surjection
<1>5. Cardinality(AllHits(q)) \in Nat
  BY <1>4, FS_CardinalityType
<1>6. \A i \in 1 .. Len(vectors) : Index!Hit(q, i) \in AllHits(q)
  BY DEF AllHits
<1>7. Hits(AllHits(q))
  BY <1>1, <1>2, <1>3, <1>4 DEF Hits
<1> QED
  BY <1>1, <1>2, <1>3, <1>4, <1>5, <1>6, <1>7

\* A part of the hits is again a set of hits.
LEMMA FewerHits == ASSUME NEW S, Hits(S), NEW T \in SUBSET S PROVE Hits(T) /\ Cardinality(T) =< Cardinality(S)
BY FS_Subset DEF Hits

\* The inverted search and the linear one return the same hits for every query.
LEMMA SameForAny ==
  ASSUME IndexInv, NEW q \in Index!Vector, NEW k \in Nat
  PROVE  Index!Inverted(q, k) = Index!Top(AllHits(q), k) /\ Index!Linear(q, k) = Index!Top(AllHits(q), k)
<1> DEFINE C == Index!Candidates(q)
           A == AllHits(q)
           F == {Index!Hit(q, i) : i \in C}
           O == {[at |-> i, score |-> 0] : i \in (1 .. Len(vectors)) \ C}
<1>1. DOMAIN vectors = 1 .. Len(vectors) /\ DOMAIN q = 1 .. Dims /\ q \in [1 .. Dims -> Nat]
  BY IndexFacts DEF IndexInv
<1>2. Index!Linear(q, k) = Index!Top(A, k)
  BY <1>1 DEF Index!Linear, AllHits
<1>3. C \subseteq 1 .. Len(vectors)
      /\ \A i \in 1 .. Len(vectors) : i \in C <=> \E d \in 1 .. Dims : q[d] # 0 /\ vectors[i][d] # 0
  BY DEF Index!Candidates, IndexInv
<1>4. ASSUME NEW i \in 1 .. Len(vectors) PROVE Index!Hit(q, i).score = 0 <=> i \notin C
  <2>1. vectors[i] \in [1 .. Dims -> Nat]
    BY IndexFacts DEF IndexInv
  <2>2. Index!Dot(q, vectors[i]) = 0 <=> \A d \in 1 .. Dims : q[d] = 0 \/ vectors[i][d] = 0
    BY <1>1, <2>1, DotTells
  <2> HIDE DEF C
  <2> QED
    BY <1>3, <2>2 DEF Index!Hit
<1> HIDE DEF C
<1>5. O = {Index!Hit(q, i) : i \in (1 .. Len(vectors)) \ C}
  <2>1. \A i \in (1 .. Len(vectors)) \ C : [at |-> i, score |-> 0] = Index!Hit(q, i)
    BY <1>4 DEF Index!Hit
  <2> QED
    BY <2>1
<1>6. F \union O = A /\ F \subseteq A
  BY <1>3, <1>5 DEF AllHits
<1>7. /\ Hits(A) /\ \A x \in A : x.at \in 1 .. Len(vectors) /\ x = Index!Hit(q, x.at)
      /\ \A i \in 1 .. Len(vectors) : Index!Hit(q, i).at = i
  BY HitTypes
<1>8. \A x \in A : (x \in F <=> x.score > 0) /\ (x \notin F <=> x.score = 0)
  <2> TAKE x \in A
  <2>1. x.at \in 1 .. Len(vectors) /\ x = Index!Hit(q, x.at) /\ x.score \in Nat
    BY <1>7 DEF Hits
  <2>2. x \in F <=> x.at \in C
    BY <1>3, <1>7, <2>1
  <2> HIDE DEF F
  <2>3. x.score = 0 <=> x.at \notin C
    BY <1>4, <2>1
  <2> QED
    BY <2>1, <2>2, <2>3
<1>9. Index!Inverted(q, k) = Index!Top(IF Cardinality(F) < k THEN F \union O ELSE {h \in F : h.score > 0}, k)
  <2>1. \A S : Index!Cardinality(S) = Cardinality(S)
    BY SameSize
  <2> QED
    BY <1>1, <2>1 DEF Index!Inverted, C
<1> HIDE DEF F, O
<1>10. CASE Cardinality(F) < k
  BY <1>2, <1>6, <1>9, <1>10
<1>11. CASE ~(Cardinality(F) < k)
  <2>1. Hits(F) /\ IsFiniteSet(F) /\ Cardinality(F) =< Cardinality(A)
        /\ Cardinality(A) \in Nat /\ Cardinality(F) \in Nat
    <3>1. Hits(F) /\ Cardinality(F) =< Cardinality(A)
      BY <1>6, <1>7, FewerHits
    <3> QED
      BY <3>1, <1>7, FS_CardinalityType DEF Hits
  <2>2. Index!Inverted(q, k) = Index!Top(F, k)
    <3>1. {h \in F : h.score > 0} = F
      BY <1>6, <1>8
    <3> QED
      BY <1>9, <1>11, <3>1
  <2>3. Best(F, k) = k /\ Best(A, k) = k
    BY <1>11, <2>1 DEF Best
  <2> DEFINE s == Index!Top(F, k)
             t == Index!Top(A, k)
  <2>4. s \in Seq(F) /\ Len(s) = k /\ \A n \in 1 .. k : Stands(F, s[n], n)
    BY <2>1, <2>3, TopIs
  <2>5. /\ t \in Seq(A) /\ Len(t) = k /\ \A n \in 1 .. k : Stands(A, t[n], n)
        /\ \A n \in Nat, x, y \in A : Stands(A, x, n) /\ Stands(A, y, n) => x = y
    BY <1>7, <2>3, TopIs
  <2> HIDE DEF s, t, A
  <2>6. ASSUME NEW n \in 1 .. k PROVE s[n] = t[n]
    <3>1. s[n] \in F /\ s[n] \in A /\ t[n] \in A /\ Stands(F, s[n], n) /\ Stands(A, t[n], n)
      BY <1>6, <2>4, <2>5
    <3>2. \A y \in A : Index!Better(y, s[n]) => y \in F
      BY <1>7, <1>8, <3>1 DEF Index!Better, Hits
    <3>3. {y \in A : Index!Better(y, s[n])} = {y \in F : Index!Better(y, s[n])}
      BY <1>6, <3>2
    <3>4. Stands(A, s[n], n)
      BY <3>1, <3>3 DEF Stands
    <3> QED
      BY <2>5, <3>1, <3>4
  <2>7. s = t
    BY <2>4, <2>5, <2>6
  <2> QED
    BY <1>2, <2>2, <2>7 DEF s, t, A
<1> QED
  BY <1>10, <1>11

\* Hence SameHits.
LEMMA SameHitsHold == IndexInv => Index!SameHits
<1> SUFFICES ASSUME IndexInv, NEW q \in Index!Vector, NEW k \in 1 .. MaxVectors + 1
             PROVE  Index!Inverted(q, k) = Index!Linear(q, k)
  BY DEF Index!SameHits
<1>1. k \in Nat
  OBVIOUS
<1> QED
  BY <1>1, SameForAny

-----------------------------------------------------------------------------
(***************************************************************************)
(* Two rankings as one.  Scores are fractions, compared by cross products. *)
(***************************************************************************)
Fraction == [num : Nat, den : Nat \ {0}]

\* Products of numbers are numbers, positive when both factors are.
LEMMA Product == \A x, y \in Nat : x * y \in Nat /\ (x > 0 /\ y > 0 => x * y > 0)
OBVIOUS

\* Scaling by a positive number keeps the order.
LEMMA Scaled ==
  \A x, y \in Nat, z \in Nat \ {0} : (x > y <=> x * z > y * z) /\ (x >= y <=> x * z >= y * z)
OBVIOUS

\* The sum of two fractions is a fraction.
LEMMA SumOf == \A x, y \in Fraction : Index!Sum(x, y) \in Fraction
<1> SUFFICES ASSUME NEW x \in Fraction, NEW y \in Fraction PROVE Index!Sum(x, y) \in Fraction
  OBVIOUS
<1>1. /\ x.num \in Nat /\ x.den \in Nat /\ x.den > 0
      /\ y.num \in Nat /\ y.den \in Nat /\ y.den > 0
  BY DEF Fraction
<1>2. x.num * y.den \in Nat /\ y.num * x.den \in Nat /\ x.den * y.den \in Nat /\ x.den * y.den > 0
  BY ONLY <1>1, Product
<1> DEFINE a == x.num * y.den
           b == y.num * x.den
           c == x.den * y.den
<1>3. a \in Nat /\ b \in Nat /\ c \in Nat \ {0}
  BY <1>2
<1>4. Index!Sum(x, y) = [num |-> a + b, den |-> c]
  BY DEF Index!Sum
<1> HIDE DEF a, b, c
<1> QED
  BY <1>3, <1>4 DEF Fraction

\* More is the strict part of a total order.
LEMMA MoreOrders ==
  ASSUME NEW x \in Fraction, NEW y \in Fraction, NEW z \in Fraction
  PROVE  /\ ~(Index!More(x, y) /\ Index!More(y, x))
         /\ Index!More(x, y) /\ Index!More(y, z) => Index!More(x, z)
         /\ Index!More(x, y) /\ ~Index!More(z, y) => Index!More(x, z)
         /\ ~Index!More(y, x) /\ Index!More(y, z) => Index!More(x, z)
         /\ ~Index!More(y, x) /\ ~Index!More(z, y) => ~Index!More(z, x)
<1> DEFINE a == x.num
           b == x.den
           c == y.num
           d == y.den
           e == z.num
           f == z.den
<1>1. /\ a \in Nat /\ b \in Nat \ {0} /\ c \in Nat /\ d \in Nat \ {0} /\ e \in Nat /\ f \in Nat \ {0}
  BY DEF Fraction
<1>2. /\ Index!More(x, y) <=> a * d > c * b
      /\ Index!More(y, x) <=> c * b > a * d
      /\ Index!More(y, z) <=> c * f > e * d
      /\ Index!More(z, y) <=> e * d > c * f
      /\ Index!More(x, z) <=> a * f > e * b
      /\ Index!More(z, x) <=> e * b > a * f
  BY DEF Index!More
<1> HIDE DEF a, b, c, d, e, f
<1> DEFINE ad == a * d
           cb == c * b
           cf == c * f
           ed == e * d
           af == a * f
           eb == e * b
<1>3. /\ ad \in Nat /\ cb \in Nat /\ cf \in Nat /\ ed \in Nat /\ af \in Nat /\ eb \in Nat
  BY <1>1, Product
<1>4. ad * f = af * d /\ cb * f = cf * b /\ ed * b = eb * d
  BY <1>1
<1>5. /\ ad > cb <=> ad * f > cb * f
      /\ cb > ad <=> cb * f > ad * f
      /\ cf > ed <=> cf * b > ed * b
      /\ ed > cf <=> ed * b > cf * b
      /\ af > eb <=> af * d > eb * d
      /\ eb > af <=> eb * d > af * d
  <2> HIDE DEF ad, cb, cf, ed, af, eb
  <2> QED
    BY <1>1, <1>3, Scaled
<1>6. ad * f \in Nat /\ cb * f \in Nat /\ ed * b \in Nat
  <2> HIDE DEF ad, cb, cf, ed, af, eb
  <2> QED
    BY <1>1, <1>3, Product
<1>7. /\ Index!More(x, y) <=> ad > cb
      /\ Index!More(y, x) <=> cb > ad
      /\ Index!More(y, z) <=> cf > ed
      /\ Index!More(z, y) <=> ed > cf
      /\ Index!More(x, z) <=> af > eb
      /\ Index!More(z, x) <=> eb > af
  BY <1>2
<1> HIDE DEF ad, cb, cf, ed, af, eb
<1> DEFINE X == ad * f
           Y == cb * f
           Z == ed * b
<1>8. /\ Index!More(x, y) <=> X > Y
      /\ Index!More(y, x) <=> Y > X
      /\ Index!More(y, z) <=> Y > Z
      /\ Index!More(z, y) <=> Z > Y
      /\ Index!More(x, z) <=> X > Z
      /\ Index!More(z, x) <=> Z > X
  BY <1>4, <1>5, <1>7
<1>9. X \in Nat /\ Y \in Nat /\ Z \in Nat
  BY <1>6
<1> HIDE DEF X, Y, Z
<1> QED
  BY <1>8, <1>9

\* Rank one is that of the first hit alone.
LEMMA RankIs ==
  ASSUME NEW S, NEW r \in Seq(S), NEW i
  PROVE  /\ Index!RankOf(r, i) \in Nat
         /\ Len(r) >= 1 /\ r[1].at = i => Index!RankOf(r, i) = 1
         /\ Len(r) >= 1 /\ r[1].at # i => Index!RankOf(r, i) # 1
<1> DEFINE P == {n \in 1 .. Len(r) : r[n].at = i}
<1>1. Index!RankOf(r, i) = IF P = {} THEN 0 ELSE CHOOSE n \in P : \A k \in P : n =< k
  <2>1. DOMAIN r = 1 .. Len(r)
    OBVIOUS
  <2>2. Index!RankOf(r, i) = IF P = {} THEN 0 ELSE Index!Min(P)
    BY <2>1 DEF Index!RankOf
  <2> HIDE DEF P
  <2> QED
    BY <2>2 DEF Index!Min
<1>2. P \in SUBSET Nat
  OBVIOUS
<1>3. ASSUME P # {} PROVE \E n \in P : \A k \in P : n =< k
  <2> HIDE DEF P
  <2> QED
    BY <1>2, <1>3, LeastOf
<1>4. P = {} => Index!RankOf(r, i) = 0
  BY <1>1
<1>5. P # {} => Index!RankOf(r, i) \in P /\ \A k \in P : Index!RankOf(r, i) =< k
  <2> HIDE DEF P
  <2> QED
    BY <1>1, <1>3
<1>6. /\ Len(r) >= 1 /\ r[1].at = i => 1 \in P
      /\ r[1].at # i => 1 \notin P
      /\ \A k \in P : k >= 1
  OBVIOUS
<1> HIDE DEF P
<1>7. CASE P = {}
  BY <1>4, <1>6, <1>7
<1>8. CASE P # {}
  <2>1. Index!RankOf(r, i) \in P /\ Index!RankOf(r, i) >= 1 /\ Index!RankOf(r, i) \in Nat
    BY <1>2, <1>5, <1>6, <1>8
  <2>2. 1 \in P => Index!RankOf(r, i) =< 1
    BY <1>5, <1>8
  <2> QED
    BY <1>6, <2>1, <2>2
<1> QED
  BY <1>7, <1>8

\* The first rank has the share 1 / (RrfK + 1), every other one less.
LEMMA ShareIs ==
  ASSUME NEW n \in Nat
  PROVE  /\ Index!Share(n) \in Fraction
         /\ n = 1 => Index!Share(n) = [num |-> 1, den |-> RrfK + 1]
         /\ n # 1 => Index!Share(n).num * (RrfK + 1) < Index!Share(n).den
<1>1. RrfK \in Nat
  BY IndexFacts
<1>2. CASE n = 0
  <2>1. Index!Share(n) = [num |-> 0, den |-> 1]
    BY <1>2 DEF Index!Share
  <2> QED
    BY <1>1, <1>2, <2>1 DEF Fraction
<1>3. CASE n # 0
  <2>1. Index!Share(n) = [num |-> 1, den |-> RrfK + n]
    BY <1>3 DEF Index!Share
  <2> QED
    BY <1>1, <1>3, <2>1 DEF Fraction
<1> QED
  BY <1>2, <1>3

\* Twice the share of a first place is more than two lesser shares.
LEMMA TwiceFirst ==
  ASSUME NEW a \in Fraction, NEW b \in Fraction, NEW k \in Nat \ {0},
         a.num * k < a.den, b.num * k < b.den
  PROVE  Index!More(Index!Sum([num |-> 1, den |-> k], [num |-> 1, den |-> k]), Index!Sum(a, b))
<1> DEFINE m == a.num
           p == a.den
           l == b.num
           q == b.den
<1>1. m \in Nat /\ l \in Nat /\ p \in Nat \ {0} /\ q \in Nat \ {0} /\ m * k < p /\ l * k < q
  BY DEF Fraction
<1>2. Index!More(Index!Sum([num |-> 1, den |-> k], [num |-> 1, den |-> k]), Index!Sum(a, b))
        <=> (1 * k + 1 * k) * (p * q) > (m * q + l * p) * (k * k)
  BY DEF Index!More, Index!Sum
<1> HIDE DEF m, p, l, q
<1> DEFINE u == m * k
           v == l * k
           pq == p * q
<1>3. u \in Nat /\ v \in Nat /\ pq \in Nat
  BY <1>1, Product
<1>4. u * q < pq /\ v * p < pq /\ u * q \in Nat /\ v * p \in Nat
  <2>1. p * q > u * q /\ q * p > v * p
    <3> HIDE DEF u, v
    <3>1. p > u /\ q > v
      BY <1>1 DEF u, v
    <3> QED
      BY <1>1, <1>3, <3>1, Scaled
  <2>2. q * p = p * q
    BY <1>1
  <2>3. u * q \in Nat /\ v * p \in Nat
    <3> HIDE DEF u, v
    <3> QED
      BY <1>1, <1>3, Product
  <2> QED
    BY <2>1, <2>2, <2>3
<1> DEFINE w == u * q + v * p
<1>5. w \in Nat /\ pq + pq > w
  <2> DEFINE y == u * q
             z == v * p
  <2>1. y \in Nat /\ z \in Nat /\ pq \in Nat /\ y < pq /\ z < pq
    BY <1>3, <1>4
  <2> HIDE DEF y, z, pq
  <2>2. y + z \in Nat /\ pq + pq > y + z
    BY <2>1
  <2> QED
    BY <2>2 DEF y, z
<1>6. (m * q + l * p) * (k * k) = w * k
  BY <1>1
<1>7. (1 * k + 1 * k) * (p * q) = (pq + pq) * k
  BY <1>1
<1> HIDE DEF w, pq
<1>8. (pq + pq) * k > w * k
  <2>1. pq + pq \in Nat
    BY <1>3
  <2> DEFINE x == pq + pq
  <2> HIDE DEF x
  <2>2. x \in Nat /\ x > w
    BY <1>5, <2>1 DEF x
  <2>3. x * k > w * k
    BY <1>5, <2>2, Scaled
  <2> QED
    BY <2>3 DEF x
<1> QED
  BY <1>2, <1>6, <1>7, <1>8

Named(r, s) == {r[n].at : n \in DOMAIN r} \union {s[n].at : n \in DOMAIN s}

\* The scores of two rankings put what either names in a total order.
LEMMA BeforeOrders ==
  ASSUME NEW S, NEW r \in Seq(S), NEW s \in Seq(S), NEW I \in SUBSET Nat
  PROVE  /\ \A i \in I : Index!Score(r, s, i) \in Fraction
         /\ \A i \in I : ~Index!Before(r, s, i, i)
         /\ \A i, j \in I : i # j => Index!Before(r, s, i, j) \/ Index!Before(r, s, j, i)
         /\ \A i, j, h \in I : Index!Before(r, s, i, j) /\ Index!Before(r, s, j, h) => Index!Before(r, s, i, h)
<1> DEFINE X(i) == Index!Score(r, s, i)
           B(i, j) == Index!Before(r, s, i, j)
<1>1. ASSUME NEW i \in I PROVE X(i) \in Fraction
  <2>1. Index!RankOf(r, i) \in Nat /\ Index!RankOf(s, i) \in Nat
    BY RankIs
  <2>2. Index!Share(Index!RankOf(r, i)) \in Fraction /\ Index!Share(Index!RankOf(s, i)) \in Fraction
    BY <2>1, ShareIs
  <2> QED
    BY <2>2, SumOf DEF Index!Score
<1>2. \A i, j : B(i, j) <=> Index!More(X(i), X(j)) \/ (~Index!More(X(j), X(i)) /\ i < j)
  BY DEF Index!Before
<1> HIDE DEF X, B
<1>3. \A x \in Fraction : ~Index!More(x, x)
  BY MoreOrders
<1>4. ASSUME NEW i \in I PROVE ~B(i, i)
  BY <1>1, <1>2, <1>3
<1>5. ASSUME NEW i \in I, NEW j \in I, i # j PROVE B(i, j) \/ B(j, i)
  <2>1. i < j \/ j < i
    BY <1>5
  <2> QED
    BY <1>2, <2>1
<1>6. ASSUME NEW i \in I, NEW j \in I, NEW h \in I, B(i, j), B(j, h) PROVE B(i, h)
  <2>1. /\ Index!More(X(i), X(j)) \/ (~Index!More(X(j), X(i)) /\ i < j)
        /\ Index!More(X(j), X(h)) \/ (~Index!More(X(h), X(j)) /\ j < h)
    BY <1>2, <1>6
  <2>2. X(i) \in Fraction /\ X(j) \in Fraction /\ X(h) \in Fraction
    BY <1>1
  <2>3. /\ Index!More(X(i), X(j)) /\ Index!More(X(j), X(h)) => Index!More(X(i), X(h))
        /\ Index!More(X(i), X(j)) /\ ~Index!More(X(h), X(j)) => Index!More(X(i), X(h))
        /\ ~Index!More(X(j), X(i)) /\ Index!More(X(j), X(h)) => Index!More(X(i), X(h))
        /\ ~Index!More(X(j), X(i)) /\ ~Index!More(X(h), X(j)) => ~Index!More(X(h), X(i))
    BY <2>2, MoreOrders
  <2>4. i < j /\ j < h => i < h
    OBVIOUS
  <2> QED
    BY <1>2, <2>1, <2>3, <2>4
<1> QED
  BY <1>1, <1>4, <1>5, <1>6 DEF X, B

\* The fusion returns each hit of either list once, and first what is first in both.
LEMMA FusedIs ==
  ASSUME NEW S, NEW r \in Seq(S), NEW s \in Seq(S), NEW L \in Nat, Named(r, s) \subseteq 1 .. L,
         NEW k \in Nat, L =< k
  PROVE  LET f == Index!Fused(r, s, k)
         IN  /\ f \in Seq(Named(r, s)) /\ {f[n] : n \in 1 .. Len(f)} = Named(r, s)
             /\ Len(r) >= 1 /\ Len(s) >= 1 /\ r[1].at = s[1].at => f[1] = r[1].at
<1> DEFINE I == Named(r, s)
           B(i, j) == Index!Before(r, s, i, j)
           R == {p \in I \X I : B(p[1], p[2])}
           m == Cardinality(I)
           At(n) == CHOOSE i \in I : Index!Cardinality({j \in I : B(j, i)}) = n - 1
           f == [n \in 1 .. m |-> At(n)]
<1>1. IsFiniteSet(I) /\ m \in Nat /\ m =< k
  <2>1. IsFiniteSet(1 .. L) /\ Cardinality(1 .. L) = L
    BY Counted
  <2>2. I \in SUBSET (1 .. L)
    OBVIOUS
  <2> HIDE DEF I
  <2>3. IsFiniteSet(I) /\ Cardinality(I) =< L
    BY <2>1, <2>2, FS_Subset
  <2> QED
    BY <2>3, FS_CardinalityType
<1>2. I \in SUBSET Nat
  OBVIOUS
<1>3. Index!Fused(r, s, k) = f
  <2>3. Index!Fused(r, s, k) =
          [n \in 1 .. Index!Min({k, Index!Cardinality(I)}) |->
             CHOOSE i \in I : Index!Cardinality({j \in I : B(j, i)}) = n - 1]
    BY DEF Index!Fused, Named
  <2> HIDE DEF I, B
  <2>4. Index!Min({k, Index!Cardinality(I)}) = m
    BY <1>1, LesserOf, SameSize
  <2> QED
    BY <2>3, <2>4
<1>4. Orders(R, I)
  <2> HIDE DEF I
  <2>1. /\ \A i \in I : ~B(i, i)
        /\ \A i, j \in I : i # j => B(i, j) \/ B(j, i)
        /\ \A i, j, h \in I : B(i, j) /\ B(j, h) => B(i, h)
    BY <1>2, BeforeOrders
  <2> HIDE DEF B
  <2>2. \A i, j \in I : <<i, j>> \in R <=> B(i, j)
    OBVIOUS
  <2> HIDE DEF R
  <2> QED
    BY <2>1, <2>2 DEF Orders
<1>5. \A i \in I : Index!Cardinality({j \in I : B(j, i)}) = Place(R, I, i)
  <2> SUFFICES ASSUME NEW i \in I PROVE Ahead(R, I, i) = {j \in I : B(j, i)}
    BY SameSize DEF Place
  <2> HIDE DEF I, B
  <2> QED
    BY DEF Ahead
<1> HIDE DEF R, I, B
<1>6. /\ \A i \in I : Place(R, I, i) \in 0 .. m - 1
      /\ \A i, j \in I : Place(R, I, i) = Place(R, I, j) => i = j
      /\ \A n \in 0 .. m - 1 : \E i \in I : Place(R, I, i) = n
  BY <1>1, <1>4, Ranked
<1> HIDE DEF m
<1>7. ASSUME NEW n \in 1 .. m PROVE At(n) \in I /\ Place(R, I, At(n)) = n - 1
  <2>1. n - 1 \in 0 .. m - 1
    BY <1>1
  <2>2. PICK i \in I : Place(R, I, i) = n - 1
    BY <1>6, <2>1
  <2>3. Index!Cardinality({j \in I : B(j, i)}) = n - 1
    BY <1>5, <2>2
  <2>4. At(n) \in I /\ Index!Cardinality({j \in I : B(j, At(n))}) = n - 1
    BY <2>3
  <2> HIDE DEF At
  <2> QED
    BY <1>5, <2>4
<1> HIDE DEF At
<1>8. f \in Seq(I) /\ Len(f) = m /\ \A n \in 1 .. m : f[n] = At(n)
  BY <1>1, <1>7
<1> HIDE DEF f
<1>9. ASSUME NEW i \in I PROVE \E n \in 1 .. m : f[n] = i
  <2> DEFINE n == Place(R, I, i) + 1
  <2>1. Place(R, I, i) \in 0 .. m - 1
    BY <1>6
  <2>2. n \in 1 .. m /\ n - 1 = Place(R, I, i)
    BY <1>1, <2>1
  <2> HIDE DEF n
  <2>3. f[n] = At(n) /\ At(n) \in I /\ Place(R, I, At(n)) = Place(R, I, i)
    BY <1>7, <1>8, <2>2
  <2> QED
    BY <1>6, <2>2, <2>3
<1>10. {f[n] : n \in 1 .. Len(f)} = I
  <2>1. \A n \in 1 .. m : f[n] \in I
    BY <1>7, <1>8
  <2> QED
    BY <1>8, <1>9, <2>1
<1>11. ASSUME Len(r) >= 1, Len(s) >= 1, r[1].at = s[1].at PROVE f[1] = r[1].at
  <2> DEFINE i == r[1].at
  <2>1. i \in I
    <3>1. 1 \in DOMAIN r
      BY <1>11
    <3> QED
      BY <3>1 DEF I, Named
  <2>2. ASSUME NEW j \in I, j # i PROVE ~B(j, i)
    <3> DEFINE a == Index!Share(Index!RankOf(r, j))
               b == Index!Share(Index!RankOf(s, j))
    <3>1. /\ Index!RankOf(r, i) = 1 /\ Index!RankOf(s, i) = 1
          /\ Index!RankOf(r, j) # 1 /\ Index!RankOf(s, j) # 1
          /\ Index!RankOf(r, j) \in Nat /\ Index!RankOf(s, j) \in Nat
      BY <1>11, <2>2, RankIs
    <3>2. Index!Score(r, s, i) = Index!Sum([num |-> 1, den |-> RrfK + 1], [num |-> 1, den |-> RrfK + 1])
      BY <3>1, ShareIs DEF Index!Score
    <3>3. /\ a \in Fraction /\ b \in Fraction
          /\ a.num * (RrfK + 1) < a.den /\ b.num * (RrfK + 1) < b.den
      BY <3>1, ShareIs
    <3>4. Index!Score(r, s, j) = Index!Sum(a, b)
      BY DEF Index!Score
    <3>5. RrfK + 1 \in Nat \ {0}
      BY IndexFacts
    <3> HIDE DEF a, b, i
    <3>6. Index!More(Index!Score(r, s, i), Index!Score(r, s, j))
      BY <3>2, <3>3, <3>4, <3>5, TwiceFirst
    <3>7. Index!Score(r, s, i) \in Fraction /\ Index!Score(r, s, j) \in Fraction
      BY <1>2, <2>1, <2>2, BeforeOrders
    <3>8. ~Index!More(Index!Score(r, s, j), Index!Score(r, s, i))
      BY <3>6, <3>7, MoreOrders
    <3> QED
      BY <3>6, <3>8 DEF B, Index!Before
  <2>3. ~B(i, i)
    BY <1>2, <2>1, BeforeOrders DEF B
  <2> HIDE DEF i
  <2>4. {j \in I : B(j, i)} = {}
    BY <2>2, <2>3
  <2>5. Place(R, I, i) = 0
    BY <1>5, <2>1, <2>4, SameSize, FS_EmptySet
  <2>6. 1 \in 1 .. m
    <3>1. 0 \in 0 .. m - 1
      BY <1>6, <2>1, <2>5
    <3> QED
      BY <1>1, <3>1
  <2>7. f[1] \in I /\ Place(R, I, f[1]) = 0
    BY <1>7, <1>8, <2>6
  <2>8. f[1] = i
    BY <1>6, <2>1, <2>5, <2>7
  <2> QED
    BY <2>8 DEF i
<1> QED
  BY <1>3, <1>8, <1>10, <1>11 DEF I

\* Hence FusedFairly.
LEMMA FusedFairlyHold == IndexInv => Index!FusedFairly
<1> SUFFICES ASSUME IndexInv, NEW q \in Index!Vector, NEW w \in Index!Vector
             PROVE  LET r == Index!Search(q, MaxVectors)
                        s == Index!Lexical(w, MaxVectors)
                        f == Index!Fused(r, s, MaxVectors)
                    IN /\ r # <<>> /\ s # <<>> /\ r[1].at = s[1].at => f[1] = r[1].at
                       /\ {h.at : h \in Index!ToSet(r) \union Index!ToSet(s)} = Index!ToSet(f)
  BY DEF Index!FusedFairly
<1> DEFINE A == AllHits(q)
           W == AllHits(w)
           D == {h \in W : h.score > 0}
           r == Index!Search(q, MaxVectors)
           s == Index!Lexical(w, MaxVectors)
           f == Index!Fused(r, s, MaxVectors)
           S == A \union W
<1>0. MaxVectors \in Nat /\ Len(vectors) \in Nat /\ Len(vectors) =< MaxVectors /\ DOMAIN vectors = 1 .. Len(vectors)
  BY IndexFacts DEF IndexInv
<1>1. r = Index!Top(A, MaxVectors)
  BY <1>0, SameForAny DEF Index!Search
<1>2. s = Index!Top(D, MaxVectors)
  BY <1>0 DEF Index!Lexical, AllHits
<1>3. /\ Hits(A) /\ \A x \in A : x.at \in 1 .. Len(vectors)
      /\ Hits(W) /\ \A x \in W : x.at \in 1 .. Len(vectors)
  BY HitTypes
<1>4. D \in SUBSET W /\ Hits(D)
  <2>1. D \in SUBSET W
    OBVIOUS
  <2> HIDE DEF D, W
  <2> QED
    BY <1>3, <2>1, FewerHits
<1> HIDE DEF A, W, D
<1>5. r \in Seq(A) /\ s \in Seq(D)
  <2> HIDE DEF r, s
  <2> QED
    BY <1>0, <1>1, <1>2, <1>3, <1>4, TopIs
<1> HIDE DEF r, s
<1>6. r \in Seq(S) /\ s \in Seq(S)
  <2>1. A \subseteq S /\ D \subseteq S
    BY <1>4
  <2> QED
    BY <1>5, <2>1, Wider
<1>7. Named(r, s) \subseteq 1 .. Len(vectors)
  <2>1. \A x \in S : x.at \in 1 .. Len(vectors)
    BY <1>3
  <2>2. \A n \in DOMAIN r : r[n] \in S
    BY <1>6
  <2>3. \A n \in DOMAIN s : s[n] \in S
    BY <1>6
  <2> HIDE DEF S
  <2> QED
    BY <2>1, <2>2, <2>3 DEF Named
<1>8. /\ f \in Seq(Named(r, s)) /\ {f[n] : n \in 1 .. Len(f)} = Named(r, s)
      /\ Len(r) >= 1 /\ Len(s) >= 1 /\ r[1].at = s[1].at => f[1] = r[1].at
  <2> HIDE DEF S
  <2> QED
    BY <1>0, <1>6, <1>7, FusedIs
<1> HIDE DEF f
<1>9. r # <<>> /\ s # <<>> => Len(r) >= 1 /\ Len(s) >= 1
  BY <1>5
<1>10. Index!ToSet(f) = Named(r, s)
  <2>1. DOMAIN f = 1 .. Len(f)
    BY <1>8
  <2> QED
    BY <1>8, <2>1 DEF Index!ToSet
<1>11. {h.at : h \in Index!ToSet(r) \union Index!ToSet(s)} = Named(r, s)
  BY DEF Index!ToSet, Named
<1> QED
  BY <1>8, <1>9, <1>10, <1>11 DEF r, s, f

\* The invariant of the vector index implies the properties stated of it.
LEMMA IndexTold == IndexInv => Index!SameHits /\ Index!FusedFairly
BY SameHitsHold, FusedFairlyHold

-----------------------------------------------------------------------------
(***************************************************************************)
(* All together.  A part that is not run keeps its state, so that each     *)
(* part's invariant holds in every behaviour of the records.               *)
(***************************************************************************)
LEMMA ChunksCoverHolds == Index!ChunksCover
<1> SUFFICES ASSUME NEW n \in 1 .. MaxText, NEW size \in 1 .. MaxText, NEW common \in 0 .. size - 1
             PROVE  Index!Covered(n, size, common)
  BY DEF Index!ChunksCover
<1>1. n \in Nat /\ size \in Nat \ {0}
  OBVIOUS
<1> QED
  BY <1>1, ChunksAlwaysCover

\* Whatever was refused, held, repeated, interrupted or read back, and wherever the list was
\* cut, each call in a list that is sent to the model has its result right behind it, and the
\* rows of a run are its messages in the order in which each was said first, each once; and
\* for any number of dimensions and of vectors that are added, either index gives every query
\* the same hits, the fused ranking is led by what leads both and loses nothing, and chunks
\* cover their text (session.py:107-139, 519-546, cognition.py:43-67, sqlite.py:307-333,
\* vector_index.py:72-120, hybrid.py:92-112, knowledge.py:434-443).
THEOREM PromptIsBuiltSoundly == RecordsSpec => []PromptIsSound
<1>1. RecordsInit => StoryInv /\ IndexInv
  BY StoryInit, IndexInit DEF RecordsInit
<1>2. StoryInv /\ IndexInv /\ [RecordsNext]_recordsVars => StoryInv' /\ IndexInv'
  <2>1. [RecordsNext]_recordsVars => [Story!Next]_historyVars /\ [Index!Next]_indexVars
    BY DEF RecordsNext, recordsVars
  <2> QED
    BY <2>1, StoryStep, IndexStep
<1>3. StoryInv /\ IndexInv => PromptIsSound
  <2>1. StoryInv => Story!CallsPaired /\ Story!NothingNewLost
    BY StoryTold DEF StoryInv
  <2> QED
    BY <2>1, IndexTold, ChunksCoverHolds DEF PromptIsSound
<1> QED
  BY <1>1, <1>2, <1>3, PTL DEF RecordsSpec
=============================================================================
