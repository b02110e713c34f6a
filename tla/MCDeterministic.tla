--------------------------- MODULE MCDeterministic ---------------------------
(* Instances of DeterministicCoordinator for TLC: two accounts and the       *)
(* transactions that make every kind of conflict between them.               *)
EXTENDS DeterministicCoordinator

Program(g, p, d) == [gets |-> g, puts |-> p, dels |-> d]

\* Write skew in both directions, an update that deletes, and a blind write.
Conflicting ==
    {Program({1}, {2}, {}), Program({2}, {1}, {}), Program({1}, {2}, {1}),
     Program({}, {1}, {})}
=============================================================================
