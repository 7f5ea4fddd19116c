------------------------------- MODULE MCFeed -------------------------------
(* An instance of OperatorFeed small enough to be searched exhaustively.   *)
EXTENDS OperatorFeed, TLC

\* The members of each set are only ever compared.
Symmetry ==
    UNION {Permutations(S) : S \in {Viewers, Symbols, Frames, Tasks, Emitters}}
=============================================================================
