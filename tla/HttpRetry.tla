------------------------------ MODULE HttpRetry ------------------------------
(***************************************************************************)
(* One call of the typed HTTP clients (DependencyInjection.cs) on the time *)
(* line, in seconds since it began.  Polly repeats the request after a     *)
(* transient failure, with pauses of 2, 4 and 8 seconds, inside the        *)
(* handler chain; HttpClient.Timeout is outside of it and spans all        *)
(* attempts and pauses and the reading of the body.                        *)
(*                                                                         *)
(* The policy also names TaskCanceledException.  It is what an attempt     *)
(* throws when the timeout fires; the policy then counts a retry and       *)
(* pauses with the cancelled token, which throws at once, so nothing is    *)
(* sent again and the call ends.  The service itself and the network are   *)
(* external: a copy of the request that is on its way may be executed at   *)
(* any time, also late, or never.                                          *)
(***************************************************************************)
EXTENDS Naturals

CONSTANTS RetryCount,   \* WaitAndRetryAsync's first argument
          Backoff,      \* Backoff[k]: length of the first k pauses together
          Timeout,      \* HttpClient.Timeout
          Faults        \* which of AllFaults may happen

AllFaults == {"transient", "brokenBody", "cancel"}

ASSUME RetryAssumption ==
    /\ RetryCount \in Nat
    /\ Backoff \in [0..RetryCount -> Nat]
    /\ Backoff[0] = 0
    /\ \A k \in 0..RetryCount :
        /\ Backoff[k] <= Backoff[RetryCount]
        /\ k > 0 => Backoff[k - 1] < Backoff[k]
    /\ Timeout \in Nat \ {0}
    /\ Faults \subseteq AllFaults

VARIABLES phase,      \* where the call is, or how it ended
          now,        \* the clock
          tries,      \* retries the policy has made
          resume,     \* when the pause ends
          arrived,    \* the service executed the current attempt
          late,       \* copies of abandoned attempts still on their way
          executed,   \* copies the service executed
          held        \* seconds the service, not a pause, took

clock == <<now, resume, held>>
vars == <<phase, clock, tries, arrived, late, executed>>

Active == {"sending", "reading", "pausing"}

Endings == {"accepted", "refused", "failed", "timedOut", "cancelled"}

-----------------------------------------------------------------------------
Init ==
    /\ phase = "sending"
    /\ now = 0
    /\ tries = 0
    /\ resume = 0
    /\ arrived = FALSE
    /\ late = 0
    /\ executed = 0
    /\ held = 0

(* A second passes; a pause is not overslept and the timeout not overrun.   *)
Tick ==
    /\ phase \in Active
    /\ phase = "pausing" => now < resume
    /\ now < Timeout
    /\ now' = now + 1
    /\ held' = IF phase = "pausing" THEN held ELSE held + 1
    /\ UNCHANGED <<phase, tries, resume, arrived, late, executed>>

Execute ==
    /\ phase = "sending" /\ ~arrived
    /\ arrived' = TRUE
    /\ executed' = executed + 1
    /\ UNCHANGED <<phase, clock, tries, late>>

ExecuteLate ==
    /\ late > 0
    /\ late' = late - 1
    /\ executed' = executed + 1
    /\ UNCHANGED <<phase, clock, tries, arrived>>

(* The headers of an answer that is neither a 5xx nor a 408 are there: the  *)
(* policy returns, and what happens to the body is not its business.        *)
Headers ==
    /\ phase = "sending"
    /\ phase' = "reading"
    /\ UNCHANGED <<clock, tries, arrived, late, executed>>

(* Mutant of Body: a 4xx is taken for a success. *)
BodyTaken ==
    /\ phase = "reading"
    /\ phase' = "accepted"
    /\ UNCHANGED <<clock, tries, arrived, late, executed>>

(* The body is there: a success for an executed request, or a refusal. *)
Body ==
    /\ phase = "reading"
    /\ phase' = IF arrived THEN "accepted" ELSE "refused"
    /\ UNCHANGED <<clock, tries, arrived, late, executed>>

(* The connection breaks in the body, or the body is unreadable. *)
BodyBreaks ==
    /\ "brokenBody" \in Faults
    /\ phase = "reading"
    /\ phase' = "failed"
    /\ UNCHANGED <<clock, tries, arrived, late, executed>>

(* An attempt the client no longer waits for may still reach the service.   *)
Abandon ==
    /\ late' = IF phase = "sending" /\ ~arrived THEN late + 1 ELSE late
    /\ UNCHANGED <<arrived, executed>>

(* Mutants of Retry: one more than configured; without a pause; with the    *)
(* pauses so far added to each.                                             *)
RetryOnceMore ==
    /\ "transient" \in Faults
    /\ phase = "sending"
    /\ tries <= RetryCount
    /\ phase' = "pausing"
    /\ tries' = tries + 1
    /\ resume' = now + (IF tries = RetryCount THEN 0 ELSE Backoff[tries + 1] - Backoff[tries])
    /\ Abandon
    /\ UNCHANGED <<now, held>>

RetryAtOnce ==
    /\ "transient" \in Faults
    /\ phase = "sending"
    /\ tries < RetryCount
    /\ phase' = "pausing"
    /\ tries' = tries + 1
    /\ resume' = now
    /\ Abandon
    /\ UNCHANGED <<now, held>>

RetryLate ==
    /\ "transient" \in Faults
    /\ phase = "sending"
    /\ tries < RetryCount
    /\ phase' = "pausing"
    /\ tries' = tries + 1
    /\ resume' = now + Backoff[tries + 1]
    /\ Abandon
    /\ UNCHANGED <<now, held>>

(* A 5xx, a 408 or a broken connection, whether the request was executed or *)
(* not.  The policy pauses ...                                              *)
Retry ==
    /\ "transient" \in Faults
    /\ phase = "sending"
    /\ tries < RetryCount
    /\ phase' = "pausing"
    /\ tries' = tries + 1
    /\ resume' = now + (Backoff[tries + 1] - Backoff[tries])
    /\ Abandon
    /\ UNCHANGED <<now, held>>

(* ... sends the request again ... *)
Resend ==
    /\ phase = "pausing"
    /\ now = resume
    /\ phase' = "sending"
    /\ arrived' = FALSE
    /\ UNCHANGED <<clock, tries, late, executed>>

(* ... or hands the last failure to its caller. *)
GiveUp ==
    /\ "transient" \in Faults
    /\ phase = "sending"
    /\ tries = RetryCount
    /\ phase' = "failed"
    /\ Abandon
    /\ UNCHANGED <<clock, tries>>

(* Mutant of TimeOut: a pause is not interrupted. *)
TimeOutOfAttempt ==
    /\ phase \in {"sending", "reading"}
    /\ now = Timeout
    /\ phase' = "timedOut"
    /\ Abandon
    /\ UNCHANGED <<clock, tries>>

(* The client's timeout, in an attempt, in the body or in a pause. *)
TimeOut ==
    /\ phase \in Active
    /\ now = Timeout
    /\ phase' = "timedOut"
    /\ Abandon
    /\ UNCHANGED <<clock, tries>>

(* Hangfire cancels the job's token: the server is shutting down. *)
Cancel ==
    /\ "cancel" \in Faults
    /\ phase \in Active
    /\ phase' = "cancelled"
    /\ Abandon
    /\ UNCHANGED <<clock, tries>>

Next ==
    \/ Tick \/ Execute \/ ExecuteLate \/ Headers \/ Body \/ BodyBreaks
    \/ Retry \/ Resend \/ GiveUp \/ TimeOut \/ Cancel

Spec == Init /\ [][Next]_vars

(* Time passes, and timers fire. *)
Fairness == WF_vars(Tick) /\ WF_vars(Resend) /\ WF_vars(TimeOut)

FairSpec == Spec /\ Fairness

-----------------------------------------------------------------------------
TypeOK ==
    /\ phase \in Active \cup Endings
    /\ now \in 0..Timeout
    /\ tries \in 0..RetryCount
    /\ resume \in Nat
    /\ arrived \in BOOLEAN
    /\ late \in 0..(RetryCount + 1)
    /\ executed \in 0..(RetryCount + 1)
    /\ held \in 0..Timeout

(* The backoff is real: the attempt after k retries does not go out before  *)
(* the first k pauses have passed, whatever the attempts before it took.    *)
BackoffKept == phase = "sending" => now >= Backoff[tries]

(* The pauses alone never cut a call off: one that is timed out was held by *)
(* the service for all of the timeout but the pauses (16 of 30 seconds), so *)
(* four attempts that fail within four seconds each are all made.           *)
TimedOutWasHeld ==
    phase = "timedOut" => held + Backoff[RetryCount] >= Timeout

Outcome ==
    IF phase \in Active THEN "open"
    ELSE IF phase = "cancelled" THEN "timedOut" ELSE phase

Call == INSTANCE HttpCall WITH outcome <- Outcome

(* To its caller it is one call with at most RetryCount + 1 executions,     *)
(* none of which is unannounced and no success of which is made up.         *)
KeepsHttpCall == Call!Spec

(* No call hangs: it ends although the service may never answer. *)
CallEnds == <>(phase \in Endings)

=============================================================================
