---------------------------- MODULE StorageClient ----------------------------
(***************************************************************************)
(* The client of the storage runtime: every call goes through the retries,   *)
(* the circuit breaker, the recovery manager and the queue for requests that *)
(* cannot be sent.  What becomes of an attempt in the channel and in the     *)
(* server is the subject of StorageServer; here an attempt succeeds, fails   *)
(* in the storage, or fails on the way, and while there is trouble any of    *)
(* these may happen.                                                         *)
(*                                                                           *)
(* A task is a caller, which makes one call after the other, or a pass over  *)
(* the queue.                                                                *)
(***************************************************************************)
EXTENDS RequestHealth, FiniteSetsExt

CONSTANTS
    Callers,        \* connections that call the client
    Passes,         \* bound: passes over the queue that run at once
    MaxRetries,     \* max_retries of the RetryConfig
    QueueSize,      \* max_size of the RequestQueue
    PassSize        \* requests that one pass processes

ASSUME ClientAssumption ==
    /\ Callers \cap Passes = {}
    /\ MaxRetries \in Nat
    /\ QueueSize \in Nat \ {0} /\ PassSize \in Nat \ {0}

VARIABLES
    breaker,    \* circuit_breaker
    manager,    \* recovery_manager
    queue,      \* the number of requests in the request_queue
    task,       \* what every caller and every pass is doing
    trouble     \* whether attempts may still fail

vars == <<breaker, manager, queue, task, trouble>>

Tasks == Callers \cup Passes
Idle == [pc |-> "idle", mode |-> "none", n |-> 0]

Init ==
    /\ breaker = NewBreaker /\ manager = NewManager
    /\ queue = 0
    /\ task = [t \in Tasks |-> Idle]
    /\ trouble = TRUE

At(t, pc) == task[t].pc = pc
Goto(t, pc) == task' = [task EXCEPT ![t].pc = pc]
Again(t, pc) == task' = [task EXCEPT ![t].pc = pc, ![t].n = @ + 1]
Return(p) == task' = [task EXCEPT ![p] = Idle]

\* A caller in degraded mode keeps the lock of the recovery manager while it
\* sleeps.
ManagerFree == \A p \in Callers : ~(At(p, "sleeping") /\ task[p].mode = "degraded")

-----------------------------------------------------------------------------
(* RequestQueue. *)

\* How many requests may be left when the expired ones are gone.
remove_expired == 0..queue

\* The caller is told of an error whether its request was queued or the queue
\* is full.
queue_request_for_later(p) ==
    /\ \E q \in remove_expired : queue' = IF q < QueueSize THEN q + 1 ELSE q
    /\ Return(p)

-----------------------------------------------------------------------------
(* send_request_with_priority. *)

\* The state of the manager is read once, before the first attempt.
send_request_with_priority(p) ==
    /\ At(p, "idle") /\ ManagerFree
    /\ task' = [task EXCEPT ![p] =
          CASE manager.state = "Unavailable" -> [Idle EXCEPT !.pc = "ask", !.mode = "recovery"]
            [] manager.state = "Degraded" -> [Idle EXCEPT !.pc = "trying", !.mode = "degraded"]
            [] OTHER -> [Idle EXCEPT !.pc = "ask", !.mode = "normal"]]
    /\ UNCHANGED <<breaker, manager, queue, trouble>>

AskBreaker(p) ==
    /\ At(p, "ask") /\ task[p].mode = "normal"
    /\ breaker' = BreakerAsked(breaker)
    /\ IF should_allow_request(breaker) THEN Goto(p, "trying") /\ UNCHANGED queue
       ELSE queue_request_for_later(p)
    /\ UNCHANGED <<manager, trouble>>

\* handle_storage_unavailable, up to the recovery request.
AskRecovery(p) ==
    /\ At(p, "ask") /\ task[p].mode = "recovery" /\ ManagerFree
    /\ IF should_attempt_recovery(manager) THEN Goto(p, "trying") /\ UNCHANGED queue
       ELSE queue_request_for_later(p)
    /\ UNCHANGED <<breaker, manager, trouble>>

-----------------------------------------------------------------------------
(* What a caller does with the result of an attempt. *)

\* try_send_request: the answer, an error of the storage, an error of the
\* channel or a timeout.
try_send_request(t, mode, reply) ==
    /\ At(t, "trying") /\ task[t].mode = mode
    /\ reply \in {"Ok"} \cup (IF trouble THEN {"Storage", "Channel"} ELSE {})

NormalOk(p) ==
    /\ try_send_request(p, "normal", "Ok")
    /\ breaker' = BreakerSuccess(breaker)
    /\ Goto(p, "credit")
    /\ UNCHANGED <<manager, queue, trouble>>

\* A pass over the queue is spawned with every success.
Credit(p) ==
    /\ At(p, "credit") /\ ManagerFree
    /\ manager' = RecoverySuccess(manager)
    /\ \E s \in Passes :
          /\ At(s, "idle")
          /\ task' = [task EXCEPT ![p] = Idle, ![s] = [Idle EXCEPT !.pc = "next"]]
    /\ UNCHANGED <<breaker, queue, trouble>>

\* Errors of the storage are not retried, nor is anything when the time of the
\* call is used up.  The sleep before a retry is part of the next attempt.
NormalErr(p) ==
    /\ ManagerFree
    /\ \E reply \in {"Storage", "Channel"} :
          /\ try_send_request(p, "normal", reply)
          /\ \/ Goto(p, "close")
             \/ reply # "Storage" /\ task[p].n < MaxRetries /\ Again(p, "trying")
    /\ manager' = RecoveryFailure(manager)
    /\ UNCHANGED <<breaker, queue, trouble>>

Close(p) ==
    /\ At(p, "close")
    /\ breaker' = BreakerFailure(breaker)
    /\ Return(p)
    /\ UNCHANGED <<manager, queue, trouble>>

\* Every error is retried, twice at most, and the breaker is left alone.
handle_degraded_storage(p) ==
    /\ ManagerFree
    /\ \/ /\ try_send_request(p, "degraded", "Ok")
          /\ manager' = RecoverySuccess(manager)
          /\ Return(p)
       \/ /\ \E reply \in {"Storage", "Channel"} : try_send_request(p, "degraded", reply)
          /\ manager' = RecoveryFailure(manager)
          /\ IF task[p].n < Min({MaxRetries, 2}) THEN Again(p, "sleeping") ELSE Return(p)
    /\ UNCHANGED <<breaker, queue, trouble>>

WakeRelocks(p) ==
    /\ At(p, "sleeping") /\ ManagerFree
    /\ Goto(p, "trying")
    /\ UNCHANGED <<breaker, manager, queue, trouble>>
\* The lock is given up before the next attempt.
Wake(p) ==
    /\ At(p, "sleeping")
    /\ Goto(p, "trying")
    /\ UNCHANGED <<breaker, manager, queue, trouble>>

handle_storage_unavailable(p) ==
    /\ \/ /\ try_send_request(p, "recovery", "Ok")
          /\ ManagerFree
          /\ manager' = RecoverySuccess(manager)
          /\ Return(p) /\ UNCHANGED queue
       \/ /\ \E reply \in {"Storage", "Channel"} : try_send_request(p, "recovery", reply)
          /\ queue_request_for_later(p) /\ UNCHANGED manager
    /\ UNCHANGED <<breaker, trouble>>

-----------------------------------------------------------------------------
(* process_queued_requests.  Nobody receives what it answers. *)

\* The next queued request is tried when enough of its time is left; otherwise
\* it is answered without being tried, and not counted.
Dequeue(s) ==
    /\ At(s, "next")
    /\ \E q \in remove_expired :
          \/ q = 0 /\ queue' = 0 /\ Return(s)
          \/ q > 0 /\ queue' = q - 1 /\ Goto(s, "trying")
    /\ UNCHANGED <<breaker, manager, trouble>>

DequeueLate(s) ==
    /\ At(s, "next")
    /\ \E q \in remove_expired : q > 0 /\ queue' = q - 1
    /\ UNCHANGED <<breaker, manager, task, trouble>>

\* Whatever the result is.
Processed(s) ==
    /\ At(s, "trying")
    /\ IF task[s].n + 1 < PassSize THEN Again(s, "next") ELSE Return(s)
    /\ UNCHANGED <<breaker, manager, queue, trouble>>

-----------------------------------------------------------------------------
(* Time passes, and from some point on the storage answers in time.           *)

TroubleEnds ==
    /\ trouble /\ trouble' = FALSE
    /\ UNCHANGED <<breaker, manager, queue, task>>

BreakerElapses ==
    /\ breaker.state = "Open" /\ ~breaker.elapsed
    /\ breaker' = [breaker EXCEPT !.elapsed = TRUE]
    /\ UNCHANGED <<manager, queue, task, trouble>>

DelayElapses ==
    /\ manager.state = "Unavailable" /\ ~manager.waited
    /\ manager' = [manager EXCEPT !.waited = TRUE]
    /\ UNCHANGED <<breaker, queue, task, trouble>>

-----------------------------------------------------------------------------
Call(p) ==
    \/ send_request_with_priority(p) \/ AskBreaker(p) \/ AskRecovery(p)
    \/ NormalOk(p) \/ Credit(p) \/ NormalErr(p) \/ Close(p)
    \/ handle_degraded_storage(p) \/ Wake(p) \/ handle_storage_unavailable(p)

process_queued_requests(s) == Dequeue(s) \/ Processed(s)

Next ==
    \/ \E p \in Callers : Call(p)
    \/ \E s \in Passes : process_queued_requests(s) \/ DequeueLate(s)
    \/ TroubleEnds \/ BreakerElapses \/ DelayElapses

\* Callers keep calling, and every task runs on: the mutexes are handed out in
\* the order they were asked for, an attempt ends at its timeout at the latest,
\* a pass does not meet late requests only, and clocks do not stop.
Fairness ==
    /\ \A p \in Callers : SF_vars(Call(p))
    /\ \A s \in Passes : SF_vars(process_queued_requests(s))
    /\ WF_vars(BreakerElapses) /\ WF_vars(DelayElapses)

Spec == Init /\ [][Next]_vars /\ Fairness

-----------------------------------------------------------------------------
(* Properties. *)

\* Every call returns, also when another caller sleeps with the lock of the
\* recovery manager (handle_degraded_storage).
CallsEnd == \A p \in Callers : ~At(p, "idle") ~> At(p, "idle")

\* When the storage answers again and calls keep coming, the recovery manager
\* becomes Healthy and the breaker closes, for good: the two, which are updated
\* one after the other and not by the same calls, never keep each other from
\* letting a request through.
Recovers ==
    [](~trouble => <>[](manager.state = "Healthy" /\ breaker.state = "Closed"))

=============================================================================
