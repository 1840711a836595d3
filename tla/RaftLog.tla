------------------------------ MODULE RaftLog ------------------------------
(***************************************************************************)
(* What OpenRaft requires of a log store: a log that grows at its end, is  *)
(* cut at its end above what is committed and at its beginning below it,   *)
(* a vote that never goes back, and nothing else, whatever restarts and    *)
(* failed writes there are.  A power loss ends the contract: what the      *)
(* store holds after it is not promised here.                              *)
(***************************************************************************)
EXTENDS Integers, Sequences

CONSTANTS Leaders, MaxIndex

VARIABLES
    base,       \* the index of the last purged entry, 0 if there is none
    entries,    \* the leader of each entry after it
    floor,      \* no entry up to this index is ever cut off the end
    ballot,     \* the vote
    intact      \* has there been no power loss?

logVars == <<base, entries, floor, ballot, intact>>

End == base + Len(entries)

LogInit ==
    /\ base = 0
    /\ entries = <<>>
    /\ floor = 0
    /\ ballot = 0
    /\ intact = TRUE

Extend(new) ==
    /\ entries' = entries \o new
    /\ UNCHANGED <<base, floor, ballot>>

\* Keep the entries up to index i.
CutEnd(i) ==
    /\ i \in floor..End
    /\ entries' = SubSeq(entries, 1, i - base)
    /\ UNCHANGED <<base, floor, ballot>>

\* Drop the entries up to index i: they are part of a snapshot.
CutBeginning(i) ==
    /\ i > base
    /\ base' = i
    /\ entries' = SubSeq(entries, i - base + 1, Len(entries))
    /\ floor' = IF floor < i THEN i ELSE floor
    /\ UNCHANGED ballot

Secure(i) ==
    /\ i \in floor..End
    /\ floor' = i
    /\ UNCHANGED <<base, entries, ballot>>

Promise(v) ==
    /\ v > ballot
    /\ ballot' = v
    /\ UNCHANGED <<base, entries, floor>>

Operation ==
    \/ \E n \in 1..2 : \E new \in [1..n -> Leaders] : Extend(new)
    \/ \E i \in 0..MaxIndex : CutEnd(i) \/ CutBeginning(i) \/ Secure(i)
    \/ \E v \in Leaders : Promise(v)

LogNext == intact /\ (~intact' \/ (Operation /\ intact'))

LogSpec == LogInit /\ [][LogNext]_logVars
=============================================================================
