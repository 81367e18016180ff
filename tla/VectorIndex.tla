---------------------------- MODULE VectorIndex ----------------------------
(***************************************************************************)
(* Retrieval (rag/): texts are cut into overlapping chunks, each chunk has *)
(* a vector, and a search ranks them by an index, by the words they share, *)
(* or by both rankings fused.  Scores are exact; the code's are floats.    *)
(***************************************************************************)
EXTENDS Integers, Sequences, FiniteSets, FiniteSetsExt, SequencesExt

CONSTANTS Dims,       \* the number of a vector's components
          Weights,    \* of a vector's components
          MaxVectors, \* (bound)
          RrfK,       \* RRF_K
          MaxText     \* length of a text (bound)

VARIABLES
  vectors,   \* added so far
  postings,  \* of the inverted index: of each dimension the vectors with a part in it
  kind       \* of the index in use: "linear" or "inverted"

indexVars == <<vectors, postings, kind>>

Vector == [1 .. Dims -> Weights]
Init == vectors = <<>> /\ postings = [d \in 1 .. Dims |-> {}] /\ kind = "linear"

-----------------------------------------------------------------------------
Dot(a, b) ==
  LET sum[d \in 0 .. Dims] == IF d = 0 THEN 0 ELSE sum[d - 1] + a[d] * b[d] IN sum[Dims]
Sparse(v) == 2 * Cardinality({d \in 1 .. Dims : v[d] = 0}) >= Dims

Posted(v, i) == [d \in 1 .. Dims |-> IF v[d] # 0 THEN postings[d] \cup {i} ELSE postings[d]]
Add(v) ==
  /\ Len(vectors) < MaxVectors
  /\ vectors' = Append(vectors, v) /\ postings' = Posted(v, Len(vectors) + 1)
  /\ UNCHANGED kind

\* build_index, when the store is opened again: the first vector decides.  (The third
\* kind begins at 512 vectors.)
Reopen ==
  /\ vectors # <<>> /\ kind' = IF Sparse(vectors[1]) THEN "inverted" ELSE "linear"
  /\ kind' # kind /\ UNCHANGED <<vectors, postings>>

Next == Reopen \/ \E v \in Vector : Add(v)
Spec == Init /\ [][Next]_indexVars

-----------------------------------------------------------------------------
\* Rankings: the best first, and equals in the order they were added; hits are
\* [at |-> vector, score |-> number].
Better(x, y) == x.score > y.score \/ (x.score = y.score /\ x.at < y.at)
Hit(q, i) == [at |-> i, score |-> Dot(q, vectors[i])]
Top(hits, k) ==
  [n \in 1 .. Min({k, Cardinality(hits)}) |->
     CHOOSE x \in hits : Cardinality({y \in hits : Better(y, x)}) = n - 1]

Linear(q, k) == Top({Hit(q, i) : i \in DOMAIN vectors}, k)

\* The words a chunk shares with a query rank it likewise, those that share none are left out.
Lexical(w, k) == Top({h \in {Hit(w, i) : i \in DOMAIN vectors} : h.score > 0}, k)

Candidates(q) == UNION {postings[d] : d \in {d \in 1 .. Dims : q[d] # 0}}

\* Fault variant: no vector is added where too few share a dimension with the query.
InvertedShort(q, k) == Top({h \in {Hit(q, i) : i \in Candidates(q)} : h.score > 0}, k)

\* Where too few do, the others follow with nothing.
Inverted(q, k) ==
  LET found == {Hit(q, i) : i \in Candidates(q)}
      others == {[at |-> i, score |-> 0] : i \in DOMAIN vectors \ Candidates(q)}
  IN Top(IF Cardinality(found) < k THEN found \cup others
         ELSE {h \in found : h.score > 0}, k)

Search(q, k) == IF kind = "inverted" THEN Inverted(q, k) ELSE Linear(q, k)

\* rrf_fuse of two rankings: 1 / (K + rank) of each, as numerator and denominator.
RankOf(r, i) == LET at == {n \in DOMAIN r : r[n].at = i} IN IF at = {} THEN 0 ELSE Min(at)
Share(n) == [num |-> IF n = 0 THEN 0 ELSE 1, den |-> IF n = 0 THEN 1 ELSE RrfK + n]
Sum(x, y) == [num |-> x.num * y.den + y.num * x.den, den |-> x.den * y.den]
Score(r, s, i) == Sum(Share(RankOf(r, i)), Share(RankOf(s, i)))
More(x, y) == x.num * y.den > y.num * x.den
Before(r, s, i, j) ==
  LET x == Score(r, s, i)
      y == Score(r, s, j)
  IN More(x, y) \/ (~More(y, x) /\ i < j)
Fused(r, s, k) ==
  LET all == {r[n].at : n \in DOMAIN r} \cup {s[n].at : n \in DOMAIN s}
  IN [n \in 1 .. Min({k, Cardinality(all)}) |->
        CHOOSE i \in all : Cardinality({j \in all : Before(r, s, j, i)}) = n - 1]

\* _chunk_text: the pieces of a text of n characters, as intervals of positions.
Chunks(n, size, overlap) ==
  IF n =< size THEN {p \in {<<1, n>>} : n > 0}
  ELSE {<<a, Min({a + size - 1, n})>> : a \in {a \in 1 .. n : (a - 1) % (size - overlap) = 0}}

-----------------------------------------------------------------------------
\* vector_index.py:72-120, "exact, not approximate": with the weights of the built-in
\* embedder, none of them negative, either index gives every query the same hits.
SameHits == \A q \in Vector, k \in 1 .. MaxVectors + 1 : Inverted(q, k) = Linear(q, k)

\* hybrid.py:99-112: what leads both rankings leads the fused one, and nothing that
\* either has is lost while there is room.
FusedFairly ==
  \A q, w \in Vector :
    LET r == Search(q, MaxVectors)
        s == Lexical(w, MaxVectors)
        f == Fused(r, s, MaxVectors)
    IN /\ r # <<>> /\ s # <<>> /\ r[1].at = s[1].at => f[1] = r[1].at
       /\ {h.at : h \in ToSet(r) \cup ToSet(s)} = ToSet(f)

\* The chunks of a text cover it, and each boundary is covered by an overlap: any two
\* characters less than an overlap apart are in one chunk.
Covered(n, size, overlap) ==
  \A a, b \in 1 .. n :
    a =< b /\ (b = a \/ b < a + overlap) => \E c \in Chunks(n, size, overlap) : c[1] =< a /\ b =< c[2]

\* knowledge.py:434-443, for every size and every overlap below it.
ChunksCover ==
  \A n \in 1 .. MaxText, size \in 1 .. MaxText : \A overlap \in 0 .. size - 1 :
    Covered(n, size, overlap)
=============================================================================
