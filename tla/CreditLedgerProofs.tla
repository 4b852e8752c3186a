-------------------------- MODULE CreditLedgerProofs --------------------------
(***************************************************************************)
(* What follows from keeping books as CreditLedger says, for any people,   *)
(* mailboxes and purposes.  StoreCreditorProofs carries it over to the     *)
(* tables of the two jobs, which are such books.                           *)
(***************************************************************************)
EXTENDS CreditLedger, TLAPS

LedgerTypeOK ==
    /\ DOMAIN mailbox \subseteq People
    /\ mailbox \in [DOMAIN mailbox -> Boxes]
    /\ existing \subseteq settled
    /\ settled \subseteq DOMAIN mailbox
    /\ book \in Seq(Attempts)

(* An attempt is for somebody enrolled as a new hire, at the mailbox the    *)
(* person was enrolled with, and it settles the person.                     *)
AttemptsInOrder ==
    \A b \in Booked :
        /\ b.person \in settled \ existing
        /\ b.box = mailbox[b.person]

(* A new hire waits no longer only with an attempt to show for it.          *)
SettledHaveAttempt ==
    \A p \in settled \ existing : \E b \in Booked : b.person = p \/ b.box = mailbox[p]

(* No purpose is met twice for a person.                                    *)
OneSuccess ==
    \A i, j \in DOMAIN book :
        /\ book[i].success /\ book[j].success
        /\ book[i].person = book[j].person /\ book[i].purpose = book[j].purpose
        => i = j

LedgerInv == LedgerTypeOK /\ AttemptsInOrder /\ SettledHaveAttempt /\ OneSuccess

(* Nothing written is changed, nobody enrolled leaves, moves or changes     *)
(* sides, nobody settled waits again.                                       *)
OnlyGrows ==
    /\ Len(book) <= Len(book')
    /\ \A k \in DOMAIN book : k \in DOMAIN book' /\ book'[k] = book[k]
    /\ settled \subseteq settled'
    /\ \A p \in DOMAIN mailbox :
        /\ p \in DOMAIN mailbox' /\ mailbox'[p] = mailbox[p]
        /\ p \in existing' <=> p \in existing

LEMMA LedgerInit == Init => LedgerInv
BY DEF Init, LedgerInv, LedgerTypeOK, AttemptsInOrder, SettledHaveAttempt, OneSuccess, Booked

(* An entry goes to the end of the book. *)
LEMMA BookEffect ==
    ASSUME book \in Seq(Attempts), NEW a \in Attempts, book' = Append(book, a)
    PROVE  /\ book' \in Seq(Attempts)
           /\ Len(book') = Len(book) + 1 /\ Len(book) \in Nat
           /\ DOMAIN book' = DOMAIN book \cup {Len(book) + 1}
           /\ Len(book) + 1 \notin DOMAIN book
           /\ book'[Len(book) + 1] = a
           /\ \A k \in DOMAIN book : book'[k] = book[k]
           /\ Booked' = Booked \cup {a}
<1>1. /\ book' \in Seq(Attempts)
      /\ Len(book') = Len(book) + 1 /\ Len(book) \in Nat
      /\ DOMAIN book' = DOMAIN book \cup {Len(book) + 1}
      /\ Len(book) + 1 \notin DOMAIN book
  OBVIOUS
<1>2. /\ book'[Len(book) + 1] = a
      /\ \A k \in DOMAIN book : book'[k] = book[k]
  OBVIOUS
<1> QED  BY <1>1, <1>2 DEF Booked

(* What one step does to the books. *)
LEMMA LedgerStep ==
    ASSUME LedgerInv, [Next]_vars
    PROVE  LedgerInv' /\ OnlyGrows
<1>1. CASE UNCHANGED vars
  BY <1>1 DEF vars, LedgerInv, LedgerTypeOK, AttemptsInOrder, SettledHaveAttempt, OneSuccess,
     Booked, OnlyGrows
<1>2. ASSUME NEW newcomers \in SUBSET (People \ DOMAIN mailbox),
             NEW boxes \in [newcomers -> Boxes], Enrol(newcomers, boxes)
      PROVE  LedgerInv' /\ OnlyGrows
  <2>1. /\ DOMAIN mailbox' = DOMAIN mailbox \cup newcomers
        /\ mailbox' \in [DOMAIN mailbox' -> Boxes]
        /\ \A p \in DOMAIN mailbox : mailbox'[p] = mailbox[p] /\ p \notin newcomers
    BY <1>2 DEF Enrol, LedgerInv, LedgerTypeOK
  <2>2. /\ book' = book /\ Booked' = Booked
        /\ existing \subseteq existing' /\ settled \subseteq settled'
        /\ existing' \subseteq existing \cup newcomers
        /\ settled' \ existing' = settled \ existing
        /\ existing' \subseteq settled' /\ settled' \subseteq DOMAIN mailbox \cup newcomers
    BY <1>2, <2>1 DEF Enrol, Booked, LedgerInv, LedgerTypeOK
  <2>3. LedgerTypeOK'
    BY <2>1, <2>2 DEF LedgerInv, LedgerTypeOK
  <2>4. AttemptsInOrder' /\ SettledHaveAttempt'
    BY <2>1, <2>2 DEF LedgerInv, LedgerTypeOK, AttemptsInOrder, SettledHaveAttempt
  <2>5. OneSuccess'
    BY <2>2 DEF LedgerInv, OneSuccess
  <2>6. OnlyGrows
    BY <2>1, <2>2 DEF OnlyGrows, LedgerInv, LedgerTypeOK
  <2> QED  BY <2>3, <2>4, <2>5, <2>6 DEF LedgerInv
<1>3. ASSUME NEW a \in Attempts, Attempt(a) PROVE LedgerInv' /\ OnlyGrows
  <2>1. /\ a.person \in DOMAIN mailbox \ existing /\ a.box = mailbox[a.person]
        /\ settled' = settled \cup {a.person} /\ UNCHANGED <<mailbox, existing>>
    BY <1>3 DEF Attempt
  <2>2. /\ book' \in Seq(Attempts)
        /\ Len(book') = Len(book) + 1 /\ Len(book) \in Nat
        /\ DOMAIN book' = DOMAIN book \cup {Len(book) + 1}
        /\ Len(book) + 1 \notin DOMAIN book
        /\ book'[Len(book) + 1] = a
        /\ \A k \in DOMAIN book : book'[k] = book[k]
        /\ Booked' = Booked \cup {a}
    BY <1>3, BookEffect DEF Attempt, LedgerInv, LedgerTypeOK
  <2>3. LedgerTypeOK'
    BY <2>1, <2>2 DEF LedgerInv, LedgerTypeOK
  <2>4. AttemptsInOrder' /\ SettledHaveAttempt'
    BY <2>1, <2>2 DEF LedgerInv, AttemptsInOrder, SettledHaveAttempt
  <2>5. OneSuccess'
    <3>1. a.success => \A k \in DOMAIN book :
              ~(book[k].success /\ book[k].person = a.person /\ book[k].purpose = a.purpose)
      BY <1>3 DEF Attempt, Booked
    <3> QED  BY <2>2, <3>1 DEF LedgerInv, OneSuccess
  <2>6. OnlyGrows
    BY <2>1, <2>2 DEF OnlyGrows
  <2> QED  BY <2>3, <2>4, <2>5, <2>6 DEF LedgerInv
<1>4. ASSUME NEW p \in People, SettleWithout(p) PROVE LedgerInv' /\ OnlyGrows
  <2>1. /\ p \in DOMAIN mailbox \ settled
        /\ \E b \in Booked : b.person = p \/ b.box = mailbox[p]
        /\ settled' = settled \cup {p} /\ UNCHANGED <<mailbox, existing, book>>
    BY <1>4 DEF SettleWithout
  <2> QED  BY <2>1 DEF LedgerInv, LedgerTypeOK, AttemptsInOrder, SettledHaveAttempt, OneSuccess,
              Booked, OnlyGrows
<1> QED  BY <1>1, <1>2, <1>3, <1>4 DEF Next

(* The books are in order at any time ...                                   *)
THEOREM BooksInOrder == Spec => []LedgerInv
BY LedgerInit, LedgerStep, PTL DEF Spec

(* ... and whatever is in them stays.                                       *)
THEOREM BooksOnlyGrow == Spec => [][OnlyGrows]_vars
<1>1. LedgerInv /\ [Next]_vars => [OnlyGrows]_vars
  BY LedgerStep
<1> QED  BY <1>1, BooksInOrder, PTL DEF Spec

=============================================================================
