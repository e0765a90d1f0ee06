SPECIFICATION PicoFairSpec
CONSTANTS
    Busy <- MCBusy
    Strangers <- MCStrangers
    StartMasks <- MCStartMasks
    MaxEvents = 3
    MaxFaults = 1
    MaxHost = 2
    Depth = 2
INVARIANT PicoTypeOK
INVARIANT ResyncWithinOne
INVARIANT ReportsInOrder
INVARIANT NothingFromBeforeMount
INVARIANT NoLostWakeup
INVARIANT KeyIdentified
PROPERTY CommandsDrain
