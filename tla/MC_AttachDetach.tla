-------------------------- MODULE MC_AttachDetach --------------------------
(* Model-checking instance of AttachDetach. *)
EXTENDS AttachDetach, TLC

CONSTANTS r1, r2, w1, w2

\* The upstream scheduler only promotes a replica.
PromoteOnly == {<<"Replica", "Primary">>}

\* The scheduler demotes a primary to a replica.
DemoteOnly == {<<"Primary", "Replica">>}

Sym == Permutations({w1, w2})
=============================================================================
