------------------------- MODULE MCKiwiStateMachine -------------------------
EXTENDS KiwiStateMachine, TLC, Sequences

CONSTANTS k1, k2

\* A write to each of two instances, with a membership change between them.
MCLog == <<k1, Member, k2>>
=============================================================================
