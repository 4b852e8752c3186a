---------------------------- MODULE FeatureFlags ----------------------------
(***************************************************************************)
(* The settings both jobs read through IOptionsMonitor: FeatureFlagOptions *)
(* and the description of CreditOptions.  The staging list is the set      *)
(* GetStagingEmployeeEmailSet builds: blanks dropped, trimmed, compared    *)
(* without case, that is, a set of mailboxes.                              *)
(***************************************************************************)
CONSTANTS Mailboxes,     \* trimmed, case-folded e-mail addresses
          Descriptions   \* values of Credit:NewEmployeeDescription

Config == [enableCredit : BOOLEAN, enableImport : BOOLEAN, paused : BOOLEAN,
           dryRun : BOOLEAN, baseline : BOOLEAN, stagingMode : BOOLEAN,
           stagingBoxes : SUBSET Mailboxes, description : Descriptions]

CreditsOn(c) == c.enableCredit /\ ~c.paused

ImportOn(c) == c.enableImport /\ ~c.paused

(* Mutant of NobodyInScope: the mode itself is not looked at. *)
NobodyListed(c) == c.stagingBoxes = {}

(* Staging mode with an empty list: each job refuses to do anything. *)
NobodyInScope(c) == c.stagingMode /\ c.stagingBoxes = {}

InScope(c, email) == c.stagingMode => email.box \in c.stagingBoxes

=============================================================================
