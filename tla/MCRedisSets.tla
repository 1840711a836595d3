----------------------------- MODULE MCRedisSets -----------------------------
EXTENDS RedisSets, TLC

CONSTANTS k1, k2, a, b

MCKeys == {k1, k2}
MCMembers == {a, b}
MCUtf8 == [m \in MCMembers |-> m]
MCSaddArgs == {<<a>>, <<b, a, b>>}
MCSremArgs == {<<a>>, <<a, b>>}
MCQueries == {<<k1, k2>>}
=============================================================================
