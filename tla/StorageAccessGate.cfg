CONSTANTS
    Users = {u1, u2, u3}
    Pauser = pauser
SPECIFICATION FairSpec
INVARIANTS PausedMeansDrained NoEntryWakeupLost NoPauseWakeupLost
PROPERTIES ImplementsGate PauseEnds EntryEnds
