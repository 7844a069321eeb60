---------------------------- MODULE KeyPoolCases ----------------------------
(* Instances of LlmKeyPool for TLC. *)
EXTENDS LlmKeyPool

CONSTANT env

\* Threads are alike, and so are the texts and the keys but the environment's.
Alike ==
  {threads @@ texts @@ others :
     threads \in Permutations(Worker),
     texts \in Permutations(Message),
     others \in Permutations(Secret \ {env})}
=============================================================================
