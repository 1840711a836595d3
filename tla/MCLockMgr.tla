----------------------------- MODULE MCLockMgr -----------------------------
(* Three keys and four mutexes: keys 1 and 3 share a mutex, and the order of
   the mutexes is not that of the keys. *)
EXTENDS LockMgr, TLC

MCindex_for == 1 :> 1 @@ 2 :> 0 @@ 3 :> 1

\* Moves whose keys are in the order of their mutexes, or are the same key.
MCMovesInOrder == {<<2, 3>>, <<3, 2>>, <<1, 1>>}

MCMovesAny == Keys \X Keys

=============================================================================
