--------------------------- MODULE HttpRetryProofs ---------------------------
(***************************************************************************)
(* Theorems about HttpRetry, for any number of retries, any pauses and any *)
(* timeout, with or without faults.                                        *)
(***************************************************************************)
EXTENDS HttpRetry, TLAPS

-----------------------------------------------------------------------------
(* Time: what has passed is what the service held plus the pauses made so   *)
(* far, of which the current one may be under way.                          *)
TimeInv ==
    /\ held <= now
    /\ phase \in {"sending", "reading"} => now = held + Backoff[tries]
    /\ phase = "pausing" => resume = held + Backoff[tries] /\ now <= resume
    /\ phase = "timedOut" => now = Timeout /\ now <= held + Backoff[tries]

(* Copies: the service executed, or still may execute, one for every        *)
(* attempt that was sent, and the current one is not counted before it      *)
(* arrives or is abandoned.                                                 *)
CopyInv ==
    /\ executed + late <=
          IF phase = "pausing" \/ (phase = "sending" /\ ~arrived) THEN tries ELSE tries + 1
    /\ arrived => executed > 0

CallInv == TypeOK /\ TimeInv /\ CopyInv

LEMMA BackoffType ==
    ASSUME NEW k \in 0..RetryCount
    PROVE  /\ Backoff[k] \in Nat
           /\ Backoff[k] <= Backoff[RetryCount]
           /\ k < RetryCount => Backoff[k + 1] \in Nat /\ Backoff[k] < Backoff[k + 1]
<1>1. RetryCount \in Nat /\ Backoff \in [0..RetryCount -> Nat]
  BY RetryAssumption
<1>2. ASSUME k < RetryCount PROVE Backoff[k + 1] \in Nat /\ Backoff[k] < Backoff[k + 1]
  <2>1. k + 1 \in 0..RetryCount /\ k + 1 > 0 /\ (k + 1) - 1 = k
    BY <1>1, <1>2
  <2> QED  BY <1>1, <2>1, RetryAssumption
<1> QED  BY <1>1, <1>2, RetryAssumption

LEMMA CallInit == Init => CallInv
<1>1. RetryCount \in Nat /\ Timeout \in Nat /\ Backoff[0] = 0
  BY RetryAssumption
<1>2. Init => TypeOK
  <2>1. 0 \in 0..RetryCount /\ 0 \in 0..(RetryCount + 1) /\ 0 \in 0..Timeout /\ 0 \in Nat
    BY <1>1
  <2> QED  BY <2>1 DEF Init, TypeOK, Active, Endings
<1>3. Init => TimeInv /\ CopyInv
  BY <1>1 DEF Init, TimeInv, CopyInv
<1> QED  BY <1>2, <1>3 DEF CallInv

LEMMA CallNext == CallInv /\ [Next]_vars => CallInv'
<1> SUFFICES ASSUME CallInv, [Next]_vars PROVE CallInv'
  OBVIOUS
<1> USE DEF CallInv, TypeOK, TimeInv, CopyInv, Active, Endings
<1>1. /\ RetryCount \in Nat /\ Timeout \in Nat \ {0}
      /\ Backoff[tries] \in Nat
      /\ tries < RetryCount => Backoff[tries + 1] \in Nat /\ Backoff[tries] < Backoff[tries + 1]
  BY RetryAssumption, BackoffType
<1>2. CASE Tick
  BY <1>1, <1>2 DEF Tick
<1>3. CASE Execute
  BY <1>1, <1>3 DEF Execute, clock
<1>4. CASE ExecuteLate
  BY <1>1, <1>4 DEF ExecuteLate, clock
<1>5. CASE Headers \/ Body \/ BodyBreaks
  BY <1>1, <1>5 DEF Headers, Body, BodyBreaks, clock
<1>6. CASE Retry
  <2>1. resume' = held' + Backoff[tries'] /\ now' <= resume' /\ resume' \in Nat
    BY <1>1, <1>6 DEF Retry
  <2>2. executed' + late' <= tries' /\ late' \in 0..(RetryCount + 1)
    BY <1>1, <1>6 DEF Retry, Abandon
  <2> QED  BY <1>1, <1>6, <2>1, <2>2 DEF Retry, Abandon
<1>7. CASE Resend
  BY <1>1, <1>7 DEF Resend, clock
<1>8. CASE GiveUp
  BY <1>1, <1>8 DEF GiveUp, Abandon, clock
<1>9. CASE TimeOut
  BY <1>1, <1>9 DEF TimeOut, Abandon, clock
<1>10. CASE Cancel
  BY <1>1, <1>10 DEF Cancel, Abandon, clock
<1>11. CASE UNCHANGED vars
  BY <1>11 DEF vars, clock
<1> QED
  BY <1>2, <1>3, <1>4, <1>5, <1>6, <1>7, <1>8, <1>9, <1>10, <1>11 DEF Next

LEMMA CallInvariant == Spec => []CallInv
BY CallInit, CallNext, PTL DEF Spec

-----------------------------------------------------------------------------
(* The clock stays within the timeout, the retries within their number, and *)
(* the service executes no more copies than were sent.                      *)
THEOREM TypeCorrect == Spec => []TypeOK
<1>1. CallInv => TypeOK
  BY DEF CallInv
<1> QED  BY <1>1, CallInvariant, PTL

(* No attempt goes out before the pauses that precede it have passed.       *)
THEOREM BackoffKeptHolds == Spec => []BackoffKept
<1>1. CallInv => BackoffKept
  BY RetryAssumption, BackoffType DEF CallInv, TypeOK, TimeInv, BackoffKept
<1> QED  BY <1>1, CallInvariant, PTL

(* A call that was timed out was held by the service for all of the timeout *)
(* but the pauses.                                                          *)
THEOREM TimedOutWasHeldHolds == Spec => []TimedOutWasHeld
<1>1. CallInv => TimedOutWasHeld
  <2> SUFFICES ASSUME CallInv, phase = "timedOut"
               PROVE  held + Backoff[RetryCount] >= Timeout
    BY DEF TimedOutWasHeld
  <2>1. Timeout <= held + Backoff[tries] /\ held \in Nat /\ tries \in 0..RetryCount
    BY RetryAssumption DEF CallInv, TypeOK, TimeInv
  <2>2. /\ Backoff[tries] \in Nat /\ Backoff[RetryCount] \in Nat
        /\ Backoff[tries] <= Backoff[RetryCount] /\ Timeout \in Nat
    BY <2>1, BackoffType, RetryAssumption
  <2> QED  BY <2>1, <2>2
<1> QED  BY <1>1, CallInvariant, PTL

(* To its caller, a call with pauses, retries, late copies and a timeout is *)
(* a call of HttpCall: each step is one of that specification, or none.     *)
THEOREM KeepsHttpCallHolds == Spec => KeepsHttpCall
<1> USE DEF Outcome, Active, Endings
<1>1. Init => Call!Init
  BY DEF Init, Call!Init
<1>2. CallInv /\ [Next]_vars => [Call!Next]_(Call!vars)
  <2> SUFFICES ASSUME CallInv, [Next]_vars PROVE Call!Next \/ UNCHANGED Call!vars
    OBVIOUS
  <2> USE DEF Call!vars
  <2>0. phase \in Active \cup Endings
    BY DEF CallInv, TypeOK
  <2>1. CASE Tick \/ Headers \/ Resend \/ UNCHANGED vars
    BY <2>1 DEF Tick, Headers, Resend, clock, vars
  <2>2. CASE Execute \/ ExecuteLate
    <3>1. executed <= tries
      BY <2>2, RetryAssumption DEF Execute, ExecuteLate, CallInv, TypeOK, CopyInv
    <3>2. executed' = executed + 1 /\ UNCHANGED <<phase, tries>>
      BY <2>2 DEF Execute, ExecuteLate
    <3>3. Call!Execute
      BY <3>1, <3>2 DEF Call!Execute
    <3> QED  BY <3>3 DEF Call!Next
  <2>3. CASE Retry
    <3>1. Call!Repeat
      BY <2>3 DEF Retry, Abandon, Call!Repeat
    <3> QED  BY <3>1 DEF Call!Next
  <2>4. CASE Body \/ BodyBreaks \/ GiveUp \/ TimeOut \/ Cancel
    <3>1. Outcome = "open" /\ Outcome' \in Call!Endings /\ UNCHANGED <<tries, executed>>
      BY <2>4 DEF Body, BodyBreaks, GiveUp, TimeOut, Cancel, Abandon, clock, Call!Endings
    <3>2. Outcome' = "accepted" => executed > 0
      BY <2>4 DEF Body, BodyBreaks, GiveUp, TimeOut, Cancel, CallInv, CopyInv
    <3>3. Call!End(Outcome')
      BY <3>1, <3>2 DEF Call!End
    <3> QED  BY <3>1, <3>3 DEF Call!Next
  <2> QED  BY <2>1, <2>2, <2>3, <2>4 DEF Next
<1> QED  BY <1>1, <1>2, CallInvariant, PTL DEF Spec, KeepsHttpCall, Call!Spec

=============================================================================
