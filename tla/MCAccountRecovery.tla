-------------------------- MODULE MCAccountRecovery --------------------------
(* A small instance of AccountRecovery for TLC. *)
EXTENDS AccountRecovery, TLC

CONSTANTS b1, b2, p1, p2

MCBrowsers == {b1, b2}
MCPasswords == {p1, p2}

Symmetry == Permutations(MCBrowsers) \cup Permutations(MCPasswords)

=============================================================================
