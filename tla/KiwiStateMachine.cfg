CONSTANTS
    k1 = k1
    k2 = k2
    Keys = {k1, k2}
    Users = {u1}
    LogLen = 3
    Log <- MCLog
    Member = member
    Blank = blank
    NoFile = NoFile
    Broken = Broken
    MaxBuilds = 1
    OrderedRenames = TRUE
SPECIFICATION FairSpec
INVARIANTS CommandsSeeLiveStorage ReplicaMatchesLog RestartIsSafe ArchiveIsReplayable ReportedIsReadable
PROPERTIES AppliedNeverRegresses InstallEnds
