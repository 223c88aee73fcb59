SPECIFICATION Spec
CONSTANTS
    HoldLast = 1
    FutureWindow = 3
    MaxAge = 2
    InputWindow = 2
    TargetLead = 0
    LeadSlack = 0
    DilationSamples = 2
    PaceInterval = 2
    Commands = 2
    MaxLabel = 3
    LastTick = 3
    Components <- GameComponents
    Values <- ButtonsAndLight
    Zero = 0
    Step <- GameStep
    Emits <- GameEmits
    Shoved <- GameShoved
    EffectKinds = {"sound", "hit"}
    ConfirmedKinds = {"hit"}
    PredictionWindow = 3
    EffectLedger = 6
    ResendAfter = 3
    MaxShoves = 1
INVARIANTS InTheirTicks BaseIsServers ShownIsEmitted HoldsAlike
PROPERTY EffectsOnce
CHECK_DEADLOCK FALSE
