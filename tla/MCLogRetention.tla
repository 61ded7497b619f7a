--------------------------- MODULE MCLogRetention ---------------------------
(***************************************************************************)
(* LogRetention for TLC.                                                    *)
(***************************************************************************)
EXTENDS LogRetention, TLC

\* Jobs and requests are interchangeable.
Symmetry == Permutations(Jobs) \union Permutations(Readers)

\* A timeout within the retention, and one beyond it.
ShortAndLong == {1, 3}
=============================================================================
