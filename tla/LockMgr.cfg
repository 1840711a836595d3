CONSTANTS
    Tasks = {t1, t2, t3}
    Keys = {1, 2, 3}
    PoolSize = 4
    index_for <- MCindex_for
    Moves <- MCMovesInOrder
SPECIFICATION FairSpec
INVARIANTS CommandsAreExclusive NoDeadlock
PROPERTIES CommandsRun
