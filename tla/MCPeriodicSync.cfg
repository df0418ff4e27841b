SPECIFICATION FairSpec
CONSTANTS
    Periods = {0, 1, 2}
    MaxPeriod = 2
    MaxBackoff = 2
    MaxEdits = 3
    MaxLag = 3
    None = None
    Off = Off
INVARIANTS TypeOK NoLostWakeup
PROPERTIES KeepsSyncing DeletedComesToRest
