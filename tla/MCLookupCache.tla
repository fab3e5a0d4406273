---------------------------- MODULE MCLookupCache ----------------------------
(***************************************************************************)
(* LookupCache for TLC.                                                    *)
(***************************************************************************)
EXTENDS LookupCache, TLC

\* Callers and the calls named after them may be permuted.
Symmetry == Permutations(Callers)

=============================================================================
