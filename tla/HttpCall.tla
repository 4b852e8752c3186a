------------------------------ MODULE HttpCall ------------------------------
(***************************************************************************)
(* What a caller may rely on when it makes one call of Axomo or BambooHR,  *)
(* with no clock, pause or attempt in sight: the request goes out once and *)
(* is repeated a bounded number of times, the service executes each copy   *)
(* at most once (possibly after the caller has given up), and the call     *)
(* ends in one of four ways.  It is the call CreditIssuing makes: Repeat   *)
(* is its PostRetried, the four endings its PostAccepted, PostRefused,     *)
(* PostGarbled or PostExhausted, and PostTimesOut.                         *)
(***************************************************************************)
EXTENDS Naturals

CONSTANT RetryCount

VARIABLES outcome,    \* "open", or how the call ended
          tries,      \* repetitions
          executed    \* copies the service executed

vars == <<outcome, tries, executed>>

Endings == {"accepted", "refused", "failed", "timedOut"}

Init == outcome = "open" /\ tries = 0 /\ executed = 0

Repeat ==
    /\ outcome = "open"
    /\ tries < RetryCount
    /\ tries' = tries + 1
    /\ UNCHANGED <<outcome, executed>>

Execute ==
    /\ executed <= tries
    /\ executed' = executed + 1
    /\ UNCHANGED <<outcome, tries>>

(* Nobody is told of success for a request no copy of which was executed. *)
End(result) ==
    /\ outcome = "open"
    /\ result = "accepted" => executed > 0
    /\ outcome' = result
    /\ UNCHANGED <<tries, executed>>

Next == Repeat \/ Execute \/ \E result \in Endings : End(result)

Spec == Init /\ [][Next]_vars

=============================================================================
