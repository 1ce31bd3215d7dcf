SPECIFICATION FairSpec
CONSTANT
    WIFI_MAX_RETRY = 10
INVARIANTS
    FailAfterRetries
    GivesUpForGood
PROPERTIES
    WifiDecides
CHECK_DEADLOCK FALSE
