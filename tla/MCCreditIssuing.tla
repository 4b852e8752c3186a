--------------------------- MODULE MCCreditIssuing ---------------------------
(* Small instances of CreditIssuing for TLC. *)
EXTENDS CreditIssuing, TLC

CONSTANTS w1, w2, e1, e2, m1, m2, mBad, d1, d2

MCWorkers == {w1, w2}
MCOneWorker == {w1}
MCEmployees == {e1, e2}
MCMailboxes == {m1, m2, mBad}
MCMalformed == {mBad}
MCDescriptions == {d1, d2}

Symmetry == Permutations(Workers)

-----------------------------------------------------------------------------
(* Configurations. *)

Live == [enableCredit |-> TRUE, enableImport |-> TRUE, paused |-> FALSE,
         dryRun |-> FALSE, baseline |-> FALSE,
         stagingMode |-> FALSE, stagingBoxes |-> {}, description |-> d1]

LiveOnly == {Live}

Paused == [Live EXCEPT !.paused = TRUE]
DryRun == [Live EXCEPT !.dryRun = TRUE]
Staged(boxes) == [Live EXCEPT !.stagingMode = TRUE, !.stagingBoxes = boxes]

(* The switches a run looks at; for the empty list see MCStoreCreditor. *)
Switches == {Live, Paused, DryRun, Staged({m2})}

-----------------------------------------------------------------------------
(* Contents of EmployeeStaging. *)

Queued(box, time) ==
    [email |-> [box |-> box, leading |-> FALSE],
     active |-> TRUE, processed |-> FALSE, created |-> time]

Baselined(box) == [Queued(box, 0) EXCEPT !.active = FALSE, !.processed = TRUE]

TwoHires == {e1 :> Queued(m1, 1) @@ e2 :> Queued(m2, 1)}

(* Two people with one mailbox; a hire behind a malformed, an inactive and  *)
(* a baselined row.                                                         *)
MixedRows ==
    {e1 :> Queued(m1, 1) @@ e2 :> Queued(m1, 2)} \cup
    {e1 :> r @@ e2 :> Queued(m2, 1) :
        r \in {Queued(mBad, 1), Baselined(m1), [Queued(m1, 1) EXCEPT !.active = FALSE]}}

=============================================================================
