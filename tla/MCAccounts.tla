----------------------------- MODULE MCAccounts -----------------------------
(* Small instances of Accounts for TLC. *)
EXTENDS Accounts, TLC

CONSTANTS b1, b2, b3, u1, u2, u3

MCBrowsers == {b1, b2, b3}
MCEmails == {u1, u2, u3}

Symmetry == Permutations(Browsers) \cup Permutations(Emails)

=============================================================================
