----------------------------- MODULE MCHttpRetry -----------------------------
(* HttpRetry with the numbers of the code. *)
EXTENDS HttpRetry, TLC

(* 2 + 4 + ... + 2^k *)
MCBackoff == [k \in 0..RetryCount |-> 2 ^ (k + 1) - 2]

=============================================================================
