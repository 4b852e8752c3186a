--------------------------- MODULE MCStoreCreditor ---------------------------
(* Small instances of StoreCreditor for TLC. *)
EXTENDS StoreCreditor, TLC

CONSTANTS w1, w2, i1, e1, e2, m1, m2, d1

MCTwoWorkers == {w1, w2}
MCOneWorker == {w1}
MCImporters == {i1}
MCEmployees == {e1, e2}
MCMailboxes == {m1, m2}
MCDescriptions == {d1}

NobodyStaged == {<<>>}

-----------------------------------------------------------------------------
Live == [enableCredit |-> TRUE, enableImport |-> TRUE, paused |-> FALSE,
         dryRun |-> FALSE, baseline |-> FALSE,
         stagingMode |-> FALSE, stagingBoxes |-> {}, description |-> d1]

LiveOnly == {Live}

(* The roll-out the README describes: an empty staging list, dry run and    *)
(* baseline first, live then.                                               *)
RollOut == {Live, [Live EXCEPT !.dryRun = TRUE, !.baseline = TRUE],
            [Live EXCEPT !.stagingMode = TRUE]}

-----------------------------------------------------------------------------
Listed(e, box) ==
    [id |-> e, email |-> [box |-> box, leading |-> FALSE],
     active |-> TRUE, storable |-> TRUE]

(* e1 alone, then a second record with the same mailbox as well. *)
Rehiring == {<<Listed(e1, m1)>>, <<Listed(e1, m1), Listed(e2, m1)>>}

(* e1 is always there; the mailbox of e2 varies. *)
BothListed == {<<Listed(e1, m1), Listed(e2, m2)>>, <<Listed(e2, m1), Listed(e1, m1)>>}

=============================================================================
