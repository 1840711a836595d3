---------------------------- MODULE RequestHealth ----------------------------
(***************************************************************************)
(* What a StorageClient remembers of its failures: the circuit breaker and   *)
(* the recovery manager, as operators on their values.                       *)
(*                                                                           *)
(* The counters of failures are only compared with zero and with their       *)
(* thresholds, so they stop at the threshold.  Whether the time an instant   *)
(* is waited for has passed is a value of its own, set by the passing of     *)
(* time: elapsed of an open breaker, waited of a manager, which is true as    *)
(* long as there was no success at all.                                      *)
(***************************************************************************)
EXTENDS Naturals

CONSTANTS
    BreakerThreshold,   \* failure_threshold of the CircuitBreaker
    RecoveryThreshold   \* failure_threshold of the RecoveryConfig

ASSUME ThresholdsAssumption == BreakerThreshold \in Nat \ {0} /\ RecoveryThreshold \in Nat \ {0}

CountedUpTo(n, threshold) == IF n < threshold THEN n + 1 ELSE threshold

-----------------------------------------------------------------------------
(* CircuitBreaker. *)

NewBreaker == [state |-> "Closed", failures |-> 0, elapsed |-> FALSE]

should_allow_request(b) == b.state # "Open" \/ b.elapsed

\* Being asked is what turns an open breaker whose time has passed half open.
BreakerAsked(b) ==
    IF b.state = "Open" /\ b.elapsed THEN [b EXCEPT !.state = "HalfOpen", !.elapsed = FALSE]
    ELSE b

BreakerSuccess(b) == NewBreaker

BreakerFailure(b) ==
    LET failures == CountedUpTo(b.failures, BreakerThreshold)
    IN  IF failures < BreakerThreshold THEN [b EXCEPT !.failures = failures]
        ELSE [state |-> "Open", failures |-> failures, elapsed |-> FALSE]

-----------------------------------------------------------------------------
(* RecoveryManager. *)

NewManager == [state |-> "Healthy", failures |-> 0, waited |-> TRUE]

RecoverySuccessKeepsCount(m) ==
    [state |-> IF m.state \in {"Degraded", "Unavailable"} THEN "Recovering"
               ELSE IF m.state = "Recovering" /\ m.failures = 0 THEN "Healthy" ELSE m.state,
     failures |-> IF m.state = "Healthy" THEN 0 ELSE m.failures,
     waited |-> FALSE]
\* A success forgets the failures except in the state Recovering, which ends
\* with the first success after the one that led to it.
RecoverySuccess(m) ==
    [state |-> IF m.state \in {"Degraded", "Unavailable"} THEN "Recovering"
               ELSE IF m.state = "Recovering" /\ m.failures = 0 THEN "Healthy" ELSE m.state,
     failures |-> IF m.state = "Recovering" THEN m.failures ELSE 0,
     waited |-> FALSE]

RecoveryFailure(m) ==
    LET failures == CountedUpTo(m.failures, RecoveryThreshold)
    IN  [m EXCEPT
          !.failures = failures,
          !.state = IF @ = "Healthy" /\ failures >= RecoveryThreshold \div 2 THEN "Degraded"
                    ELSE IF @ = "Degraded" /\ failures >= RecoveryThreshold THEN "Unavailable"
                    ELSE IF @ = "Recovering" THEN "Unavailable"
                    ELSE @]

should_attempt_recovery(m) == m.state = "Unavailable" /\ m.waited

=============================================================================
