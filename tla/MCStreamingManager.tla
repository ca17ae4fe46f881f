-------------------------- MODULE MCStreamingManager --------------------------
(***************************************************************************)
(* TLC instance of StreamingManager: one worker, because managers meet     *)
(* only in Redis, which MCStreamConsumer checks with two.                  *)
(***************************************************************************)
EXTENDS StreamingManager

CONSTANT w1

=============================================================================
