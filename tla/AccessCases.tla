----------------------------- MODULE AccessCases -----------------------------
(* Instances of GroupAccess for TLC. *)
EXTENDS GroupAccess, TLC

CONSTANTS g1, g2

\* Threads are alike, administrators are alike, the two WhatsApp groups are.
Alike ==
  {threads @@ admins @@ groups :
     threads \in Permutations(Worker),
     admins \in Permutations(Admins),
     groups \in Permutations({g1, g2})}

Nobody == {{}}
=============================================================================
