---------------------------- MODULE CreditLedger ----------------------------
(***************************************************************************)
(* What the system promises about its books, with no job, query or         *)
(* transaction in sight.  People are enrolled with a mailbox, some of them *)
(* as existing staff who are never to be credited.  Everyone else is       *)
(* settled in one of two ways: by an attempt, which is booked in the same  *)
(* instant, or because an attempt for the person or for the mailbox is     *)
(* already booked.  The book is append-only and has at most one success    *)
(* per person and purpose.                                                 *)
(***************************************************************************)
EXTENDS Naturals, Sequences

CONSTANTS People, Boxes, Purposes

VARIABLES mailbox,   \* of everyone enrolled
          existing,  \* enrolled as existing staff
          settled,   \* no longer waiting for a credit
          book       \* the attempts, in order

vars == <<mailbox, existing, settled, book>>

Attempts == [person : People, box : Boxes, purpose : Purposes, success : BOOLEAN]

Booked == {book[k] : k \in DOMAIN book}

Init ==
    /\ DOMAIN mailbox \subseteq People
    /\ mailbox \in [DOMAIN mailbox -> Boxes]
    /\ existing \in SUBSET DOMAIN mailbox
    /\ settled = existing
    /\ book = <<>>

(* A group joins, all of it as new hires or all of it as existing staff. *)
Enrol(newcomers, boxes) ==
    /\ mailbox' = [p \in DOMAIN mailbox \cup newcomers |->
                     IF p \in newcomers THEN boxes[p] ELSE mailbox[p]]
    /\ \/ UNCHANGED <<existing, settled>>
       \/ /\ existing' = existing \cup newcomers
          /\ settled' = settled \cup newcomers
    /\ UNCHANGED book

Attempt(a) ==
    /\ a.person \in DOMAIN mailbox \ existing
    /\ a.box = mailbox[a.person]
    /\ a.success => ~\E b \in Booked :
                        b.person = a.person /\ b.purpose = a.purpose /\ b.success
    /\ book' = Append(book, a)
    /\ settled' = settled \cup {a.person}
    /\ UNCHANGED <<mailbox, existing>>

SettleWithout(p) ==
    /\ p \in DOMAIN mailbox \ settled
    /\ \E b \in Booked : b.person = p \/ b.box = mailbox[p]
    /\ settled' = settled \cup {p}
    /\ UNCHANGED <<mailbox, existing, book>>

Next ==
    \/ \E newcomers \in SUBSET (People \ DOMAIN mailbox) :
           \E boxes \in [newcomers -> Boxes] : Enrol(newcomers, boxes)
    \/ \E a \in Attempts : Attempt(a)
    \/ \E p \in People : SettleWithout(p)

Spec == Init /\ [][Next]_vars

=============================================================================
