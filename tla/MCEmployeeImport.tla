-------------------------- MODULE MCEmployeeImport --------------------------
(* Small instances of EmployeeImport for TLC. *)
EXTENDS EmployeeImport, TLC

CONSTANTS i1, i2, e1, e2, m1, m2, d1

MCImporters == {i1, i2}
MCEmployees == {e1, e2}
MCMailboxes == {m1, m2}
MCDescriptions == {d1}

Symmetry == Permutations(Importers)

-----------------------------------------------------------------------------
On == [enableCredit |-> TRUE, enableImport |-> TRUE, paused |-> FALSE,
       dryRun |-> FALSE, baseline |-> FALSE,
       stagingMode |-> FALSE, stagingBoxes |-> {}, description |-> d1]

(* Every switch the import looks at; a pause and a disabled import are one. *)
AllSwitches == {On, [On EXCEPT !.enableImport = FALSE],
                [On EXCEPT !.baseline = TRUE], [On EXCEPT !.stagingMode = TRUE],
                [On EXCEPT !.stagingMode = TRUE, !.stagingBoxes = {m1}]}

-----------------------------------------------------------------------------
Listed(e, box) ==
    [id |-> e, email |-> [box |-> box, leading |-> FALSE],
     active |-> TRUE, storable |-> TRUE]

(* Directories as they should be: every id once, everything fits. *)
CleanDirectories ==
    {<<Listed(e1, m1), Listed(e2, m2)>>,
     <<[Listed(e2, m2) EXCEPT !.active = FALSE], Listed(e1, m1)>>}

(* ... and as they may be: shorter, an address or an id missing, an id      *)
(* twice, a text too long for its column.                                   *)
AnyDirectories == CleanDirectories \cup
    {<<Listed(e2, m1)>>,
     <<[Listed(e1, m1) EXCEPT !.email = NoEmail], Listed(e2, m2), Listed(NoEmployee, m1)>>,
     <<Listed(e1, m1), Listed(e1, m2)>>,
     <<Listed(e1, m1), [Listed(e2, m2) EXCEPT !.storable = FALSE]>>}

=============================================================================
