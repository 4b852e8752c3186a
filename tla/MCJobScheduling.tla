--------------------------- MODULE MCJobScheduling ---------------------------
(* A small instance of JobScheduling for TLC. *)
EXTENDS JobScheduling, TLC

(* A good text, one that lacks a field, a blank, a malformed one, and a day *)
(* that does not come.                                                      *)
MCTexts == {"0 5 * * *", "0 6 * *", " ", "at dawn", "0 0 30 2 *"}

MCCrons == MCTexts \cup {"0 6 * * *", "default"}

MCTrimmed == [t \in MCTexts |-> t]

MCWithFifth == [t \in MCTexts |-> IF t = "0 6 * *" THEN "0 6 * * *" ELSE t]

MCFallback == [j \in Jobs |-> "default"]

Settings(import, credit) ==
    [j \in Jobs |-> IF j = "employee-import" THEN import ELSE credit]

MCConfigs == {Settings("0 5 * * *", "0 6 * *"), Settings(" ", "at dawn"),
              Settings("at dawn", "0 0 30 2 *")}

=============================================================================
