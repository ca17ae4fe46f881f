--------------------------- MODULE MCStreamConsumer ---------------------------
(***************************************************************************)
(* TLC instance of StreamConsumer.  The two workers are interchangeable.   *)
(***************************************************************************)
EXTENDS StreamConsumer, TLC

CONSTANTS w1, w2

Symmetry == Permutations(Worker)

=============================================================================
