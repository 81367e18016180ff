--------------------------- MODULE KnowledgeIndex ---------------------------
(***************************************************************************)
(* The index of the knowledge base (rag/): a process that starts opens the *)
(* stored index and serves it if its fingerprint is that of the source,    *)
(* else it empties the store and adds the source piece by piece.           *)
(***************************************************************************)
EXTENDS Integers, Sequences, FiniteSets, SequencesExt

CONSTANTS Servers,   \* processes over one file
          Sources,   \* 1 .. n: what the knowledge directory contains, in the order of deployments
          Pieces,    \* chunks of each source
          Returns,   \* may an earlier source be deployed again?
          MaxCrashes \* (bound)

VARIABLES
  source,   \* deployed
  rows,     \* rag_chunks
  meta,     \* the fingerprint in rag_meta, 0 if there is none
  at,       \* "off", "opened", "indexing", "serving"
  config,   \* the source the process has found
  chunks,   \* its own list
  crashes

knowledgeVars == <<source, rows, meta, at, config, chunks, crashes>>

Piece(s, i) == [source |-> s, piece |-> i]
Whole(s) == [i \in 1 .. Pieces |-> Piece(s, i)]

Init ==
  /\ source = 1 /\ rows = <<>> /\ meta = 0 /\ crashes = 0
  /\ at = [p \in Servers |-> "off"] /\ config = [p \in Servers |-> 1]
  /\ chunks = [p \in Servers |-> <<>>]

-----------------------------------------------------------------------------
Goto(p, step) == at' = [at EXCEPT ![p] = step]

Deploy(s) ==
  /\ s # source /\ (Returns \/ s > source) /\ \A p \in Servers : at[p] = "off"
  /\ source' = s /\ UNCHANGED <<rows, meta, at, config, chunks, crashes>>

\* The store is opened and its rows are read; the fingerprint is of the source as it is.
OpenStore(p) ==
  /\ at[p] = "off" /\ Goto(p, "opened")
  /\ chunks' = [chunks EXCEPT ![p] = rows] /\ config' = [config EXCEPT ![p] = source]
  /\ UNCHANGED <<source, rows, meta, crashes>>

\* Fault variant: whatever has been stored is served.
ReusableAny(p) == chunks[p] # <<>>

\* _reuse_persisted
Reusable(p) == chunks[p] # <<>> /\ meta = config[p]

Reuse(p) ==
  /\ at[p] = "opened" /\ Reusable(p) /\ Goto(p, "serving")
  /\ UNCHANGED <<source, rows, meta, config, chunks, crashes>>

\* reset() empties the rows, not the fingerprint; an empty store needs none.
Reset(p) ==
  /\ at[p] = "opened" /\ ~Reusable(p) /\ Goto(p, "indexing")
  /\ rows' = IF chunks[p] = <<>> THEN rows ELSE <<>>
  /\ chunks' = [chunks EXCEPT ![p] = <<>>]
  /\ UNCHANGED <<source, meta, config, crashes>>

\* A piece is in memory and committed before the next.
AddPiece(p) ==
  /\ at[p] = "indexing" /\ Len(chunks[p]) < Pieces
  /\ LET new == Piece(config[p], Len(chunks[p]) + 1)
     IN chunks' = [chunks EXCEPT ![p] = Append(@, new)] /\ rows' = Append(rows, new)
  /\ UNCHANGED <<source, meta, at, config, crashes>>

\* set_meta, when all has been added.
Finish(p) ==
  /\ at[p] = "indexing" /\ Len(chunks[p]) = Pieces
  /\ meta' = config[p] /\ Goto(p, "serving")
  /\ UNCHANGED <<source, rows, config, chunks, crashes>>

\* The process stops, or dies in the middle: the endpoint that embeds may fail.
Stop(p) ==
  /\ at[p] # "off" /\ Goto(p, "off") /\ chunks' = [chunks EXCEPT ![p] = <<>>]
  /\ IF at[p] = "serving" THEN UNCHANGED crashes
     ELSE crashes < MaxCrashes /\ crashes' = crashes + 1
  /\ UNCHANGED <<source, rows, meta, config>>

Next ==
  \/ \E s \in Sources : Deploy(s)
  \/ \E p \in Servers :
       OpenStore(p) \/ Reuse(p) \/ Reset(p) \/ AddPiece(p) \/ Finish(p) \/ Stop(p)

Spec == Init /\ [][Next]_knowledgeVars

-----------------------------------------------------------------------------
\* rag/loader.py:24, "a source that has changed drops the old index, so that no old
\* document is mixed in": what a process serves is its source, whole and once.
ServesItsSource == \A p \in Servers : at[p] = "serving" => chunks[p] = Whole(config[p])
=============================================================================
