SPECIFICATION FairSpec
CONSTANTS
    Texts <- MCTexts
    BlankTexts = {" "}
    FourFields = {"0 6 * *"}
    Crons <- MCCrons
    Trimmed <- MCTrimmed
    WithFifth <- MCWithFifth
    Accepted = {"0 5 * * *", "0 6 * * *", "0 0 30 2 *", "default"}
    Fallback <- MCFallback
    NeverDue = {"0 0 30 2 *"}
    Configs <- MCConfigs
    Faults = {"storage", "crash"}
INVARIANTS TypeOK OneConfiguration NothingUnscheduled
PROPERTIES EditsNotLost EditTakesEffect RunsKeepComing
