--------------------------- MODULE MCAgentSession ---------------------------
(* Instances of AgentSession for TLC. *)
EXTENDS AgentSession, TLC

TwoTools == {"shell", "http"}

\* Every call names the same tool: a rebuilt session can take one call for another.
SameTool == [c \in 1..MaxCalls |-> "shell"]

\* Consecutive calls name different tools.
OtherTool == [c \in 1..MaxCalls |-> IF c % 2 = 1 THEN "shell" ELSE "http"]

\* Replicas are interchangeable in the safety runs.
SymmetricReplicas == Permutations(Replicas)

=============================================================================
