----------------------------- MODULE MCMapping -----------------------------
(* An instance of MappingCache small enough to be searched exhaustively.  *)
EXTENDS MappingCache, TLC

\* Accounts, signatures, symbols and specifications are only ever compared.
Symmetry ==
    Permutations(Accounts) \cup Permutations(Sigs)
        \cup Permutations(Symbols) \cup Permutations(Specs)
=============================================================================
