---------------------------- MODULE StartControl ----------------------------
(***************************************************************************)
(* StartControl of sessions.rs, one per StartKey, and the handlers that use *)
(* it: login and the services (start_login, start_service_session) hold its *)
(* mutex through the launch; login_begin (begin_after_approval) drops it    *)
(* while the login is pending and takes it again to hand off (hand_off) or  *)
(* to record how the login ended (finish).  Time passes at every await.     *)
(***************************************************************************)
EXTENDS Integers, Functions, FiniteSets

CONSTANTS
    Task,         \* launch requests of one StartKey, numbered as they come to its mutex
    MaxAttempts,  \* MAX_START_ATTEMPTS, at least 1
    Window,       \* START_ATTEMPT_WINDOW_SECS, at least 1
    Delay,        \* the backoff after the 1st, 2nd and every further failure
    MaxTime,      \* bound: the clock stops here
    NoOne

VARIABLES
    now,
    attempts,   \* request -> the time of its launch, if that counts towards the limit
    failures,   \* consecutive_failures
    retryAt,    \* retry_at; -1 when there is none
    gate,       \* who holds the mutex
    pc,
    stepwise,   \* whether the request is a login_begin
    launches    \* history: the time of every launch

vars == <<now, attempts, failures, retryAt, gate, pc, stepwise, launches>>

Init ==
    /\ now = 0
    /\ attempts = << >>
    /\ failures = 0
    /\ retryAt = -1
    /\ gate = NoOne
    /\ pc = [t \in Task |-> "new"]
    /\ stepwise \in [Task -> BOOLEAN]
    /\ launches = [t \in Task |-> -1]

Goto(t, to) == pc' = [pc EXCEPT ![t] = to]

Drop(t) == gate' = IF gate = t THEN NoOne ELSE gate

-----------------------------------------------------------------------------
(* sessions.rs *)

\* prune_attempts
Pruned == Restrict(attempts, {t \in DOMAIN attempts : now - attempts[t] < Window})

\* is_limited
Limited == Cardinality(DOMAIN Pruned) >= MaxAttempts \/ retryAt > now

RecordAttempt(t) ==
    attempts' = [u \in DOMAIN Pruned \cup {t} |-> IF u = t THEN now ELSE attempts[u]]

RecordSuccess ==
    /\ failures' = 0
    /\ retryAt' = -1

RecordFailure ==
    /\ failures' = failures + 1
    /\ retryAt' = now + Delay[IF failures' > 3 THEN 3 ELSE failures']

Unrecorded == UNCHANGED <<failures, retryAt>>

-----------------------------------------------------------------------------
(* The handlers. *)

Lock(t) ==
    /\ gate = NoOne
    /\ gate' = t
    /\ \/ /\ pc[t] = "new" /\ \A u \in Task : u < t => pc[u] # "new"
          /\ Goto(t, "check")
       \/ pc[t] = "done" /\ Goto(t, "handing off")
       \/ pc[t] = "failing" /\ Goto(t, "failed")
    /\ UNCHANGED <<now, attempts, stepwise, launches>> /\ Unrecorded

\* RATE_LIMITED.  is_limited prunes.
RateLimit(t) ==
    /\ pc[t] = "check"
    /\ Limited
    /\ attempts' = Pruned
    /\ Goto(t, "over") /\ Drop(t)
    /\ UNCHANGED <<now, stepwise, launches>> /\ Unrecorded

Admit(t) ==
    /\ pc[t] = "check"
    /\ ~Limited
    /\ attempts' = Pruned
    /\ Goto(t, "resolving")
    /\ UNCHANGED <<now, gate, stepwise, launches>> /\ Unrecorded

\* The credential does not resolve: no attempt is counted.
Unresolved(t) ==
    /\ pc[t] = "resolving"
    /\ Goto(t, "over") /\ Drop(t)
    /\ UNCHANGED <<now, attempts, stepwise, launches>> /\ Unrecorded

\* Faulty variant: a login_begin is not counted until it is done.
Launch_CountLater(t) ==
    /\ pc[t] = "resolving"
    /\ IF stepwise[t] THEN UNCHANGED attempts ELSE RecordAttempt(t)
    /\ launches' = [launches EXCEPT ![t] = now]
    /\ Goto(t, "launching")
    /\ UNCHANGED <<now, gate, stepwise>> /\ Unrecorded

Launch(t) ==
    /\ pc[t] = "resolving"
    /\ RecordAttempt(t)
    /\ launches' = [launches EXCEPT ![t] = now]
    /\ Goto(t, "launching")
    /\ UNCHANGED <<now, gate, stepwise>> /\ Unrecorded

LaunchFails(t) ==
    /\ pc[t] = "launching"
    /\ RecordFailure
    /\ Goto(t, "over") /\ Drop(t)
    /\ UNCHANGED <<now, attempts, stepwise, launches>>

\* A launch that is not stepwise has succeeded.  A login_begin succeeds later,
\* or is `done` at once.
LaunchOk(t) ==
    /\ pc[t] = "launching"
    /\ \/ ~stepwise[t] /\ RecordSuccess /\ Goto(t, "over") /\ Drop(t)
       \/ stepwise[t] /\ Unrecorded /\ Goto(t, "pending") /\ Drop(t)
       \/ stepwise[t] /\ Unrecorded /\ Goto(t, "handing off") /\ UNCHANGED gate
    /\ UNCHANGED <<now, attempts, stepwise, launches>>

\* A login_step settles the pending login, or it ends: with a failure that
\* counts, or, aborted or terminated, without.
Settle(t) ==
    /\ pc[t] = "pending"
    /\ \E to \in {"done", "failing", "over"} : Goto(t, to)
    /\ UNCHANGED <<now, attempts, gate, stepwise, launches>> /\ Unrecorded

\* hand_off: a registration that fails counts neither as success nor failure.
HandOff(t) ==
    /\ pc[t] = "handing off"
    /\ RecordSuccess \/ Unrecorded
    /\ Goto(t, "over") /\ Drop(t)
    /\ UNCHANGED <<now, attempts, stepwise, launches>>

\* finish
RecordEnd(t) ==
    /\ pc[t] = "failed"
    /\ RecordFailure
    /\ Goto(t, "over") /\ Drop(t)
    /\ UNCHANGED <<now, attempts, stepwise, launches>>

Tick ==
    /\ now < MaxTime
    /\ now' = now + 1
    /\ UNCHANGED <<attempts, gate, pc, stepwise, launches>> /\ Unrecorded

Next ==
    \/ \E t \in Task : Lock(t) \/ RateLimit(t) \/ Admit(t) \/ Unresolved(t)
          \/ Launch(t) \/ LaunchFails(t) \/ LaunchOk(t) \/ Settle(t)
          \/ HandOff(t) \/ RecordEnd(t)
    \/ Tick

Spec == Init /\ [][Next]_vars

-----------------------------------------------------------------------------
\* Never more than MaxAttempts launches within one window, over all launches of
\* the key and all kinds of requests, although a request is admitted before it
\* resolves its credential and counted after.
LaunchesLimited ==
    \A t \in Task : launches[t] # -1 =>
        Cardinality({u \in Task : launches[u] # -1
                        /\ launches[u] \in (launches[t] - Window + 1)..launches[t]})
            <= MaxAttempts
=============================================================================
