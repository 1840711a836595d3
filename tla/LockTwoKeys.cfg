CONSTANTS
    Tasks = {t1, t2}
    Keys = {1, 2, 3}
    PoolSize = 4
    index_for <- MCindex_for
    Moves <- MCMovesAny
SPECIFICATION Spec
INVARIANT NoDeadlock
