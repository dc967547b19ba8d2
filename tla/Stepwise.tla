------------------------------ MODULE Stepwise ------------------------------
(***************************************************************************)
(* stepwise.rs: the ledger of stepwise logins.  login_begin launches an     *)
(* executor and registers it as pending; login_step calls drive it, one at  *)
(* a time through the mutex of the entry's slot; the login ends by hand-off *)
(* to a session, failure, abort or expiry, or because lock_vault, a peer    *)
(* revocation or the shutdown of the daemon sweeps it away.                 *)
(*                                                                          *)
(* A login's ledger entry and the executor in its slot are under different  *)
(* locks.  Whoever removes the entry ends the login: end_entry waits for    *)
(* the slot, takes the executor out and goes on to finish.  Such an ending  *)
(* is a record in `ends`.                                                   *)
(***************************************************************************)
EXTENDS Integers, FiniteSets, Functions

CONSTANTS
    Login,       \* stepwise logins, each with its executor and login_id
    Call,        \* login_step calls, numbered in the order in which they claim
    Namespace,
    Principal,   \* remote peers; a local user is one that is never revoked
    NamespaceOf, \* Login -> Namespace
    PrincipalOf, \* Login -> Principal
    MaxSteps,    \* MAX_STEPS
    Idle,        \* stepwise_idle_secs
    Max,         \* stepwise_max_secs
    MaxTime,     \* bound: the clock stops here
    LastLaunch,  \* bound: no login is launched after this time
    NoOne

ASSUME StepwiseAssumption ==
    /\ NamespaceOf \in [Login -> Namespace]
    /\ PrincipalOf \in [Login -> Principal]
    /\ MaxSteps \in Nat \ {0} /\ Idle \in Nat \ {0} /\ Max \in Nat \ {0}
    /\ MaxTime \in Nat /\ LastLaunch \in Nat
    /\ Call \subseteq Nat /\ NoOne \notin Call \cup Login

VARIABLES
    now,
    entries,   \* the ledger: login -> Entry
    slot,      \* whether the login's slot holds its executor
    holder,    \* the call that holds the slot's mutex
    exec,      \* the login's executor
    started,   \* browser_started_at
    begin,     \* where login_begin stands
    step,      \* where each login_step call stands
    on,        \* the login a call is about
    ends,      \* endings under way
    audits,    \* history: how many ends of the login were audited
    failed,    \* history: how many failures were recorded for it
    aborted,   \* history: logins taken by an abort
    locked,    \* whether the namespace's provider is locked
    vault,     \* where lock_vault of a namespace stands
    peer,      \* where the revocation of a principal stands
    down       \* where the daemon's shutdown stands

calls == <<step, on>>
world == <<locked, vault, peer, down>>
history == <<audits, failed, aborted>>
vars == <<now, entries, slot, holder, exec, started, begin, calls, ends,
          history, world>>

\* The ways a login ends, and those that count as a login failure.
Reason == {"rejected", "expired", "aborted", "bad credential", "failed",
           "lock_vault", "shutdown", "peer_revoked"}

CountsAsFailure(reason) == reason \in {"rejected", "expired", "bad credential"}

Init ==
    /\ now = 0
    /\ entries = << >>
    /\ slot = [l \in Login |-> FALSE]
    /\ holder = [l \in Login |-> NoOne]
    /\ exec = [l \in Login |-> "none"]
    /\ started = [l \in Login |-> 0]
    /\ begin = [l \in Login |-> "new"]
    /\ step = [c \in Call |-> "new"]
    /\ on = [c \in Call |-> NoOne]
    /\ ends = {}
    /\ audits = [l \in Login |-> 0]
    /\ failed = [l \in Login |-> 0]
    /\ aborted = {}
    /\ locked = [n \in Namespace |-> FALSE]
    /\ vault = [n \in Namespace |-> "idle"]
    /\ peer = [p \in Principal |-> "active"]
    /\ down = "up"

-----------------------------------------------------------------------------
(* The ledger. *)

Without(ls) == Restrict(entries, DOMAIN entries \ ls)

\* is_expired
Expired(l) ==
    \/ now >= started[l] + Max
    \/ entries[l].inFlight = 0 /\ now >= entries[l].active + Idle

\* end_entry for the logins ls, which leave the ledger.
EndEntries(ls, reason) ==
    /\ entries' = Without(ls)
    /\ ends' = ends \cup {[login |-> l, reason |-> reason, at |-> "slot"] : l \in ls}

\* The call goes on without the slot.
Leave(c, to) ==
    /\ step' = [step EXCEPT ![c] = to]
    /\ holder' = [holder EXCEPT ![on[c]] = NoOne]
    /\ UNCHANGED on

-----------------------------------------------------------------------------
(* login_begin *)

\* begin_after_approval.  The caller was admitted before the wait for the
\* approval: it may be revoked, or the daemon shutting down, by now.
Begin(l) ==
    /\ begin[l] = "new"
    /\ now <= LastLaunch
    /\ begin' = [begin EXCEPT ![l] = "launched"]
    /\ exec' = [exec EXCEPT ![l] = "live"]
    /\ started' = [started EXCEPT ![l] = now]
    /\ UNCHANGED <<now, entries, slot, holder, calls, ends, history, world>>

\* The executor reports success at once and is handed off, or cannot be.
BeginDone(l) ==
    /\ begin[l] = "launched"
    /\ begin' = [begin EXCEPT ![l] = "over"]
    /\ \E to \in {"handed off", "stopped"} : exec' = [exec EXCEPT ![l] = to]
    /\ UNCHANGED <<now, entries, slot, holder, started, calls, ends, history, world>>

\* register_pending: first the entry ...
Register(l) ==
    /\ begin[l] = "launched"
    /\ entries' = [m \in DOMAIN entries \cup {l} |->
                      IF m = l THEN [active |-> now, inFlight |-> 0, steps |-> 0]
                               ELSE entries[m]]
    /\ slot' = [slot EXCEPT ![l] = TRUE]
    /\ begin' = [begin EXCEPT ![l] = "registered"]
    /\ UNCHANGED <<now, holder, exec, started, calls, ends, history, world>>

\* Faulty variant: the state is checked before the entry is inserted.
CheckLock_Skip(l) ==
    /\ begin[l] = "registered"
    /\ begin' = [begin EXCEPT ![l] = "respond"]
    /\ UNCHANGED <<now, entries, slot, holder, exec, started, calls, ends,
                   history, world>>

\* ... then immediate_end_reason: the provider's lock, ...
CheckLock(l) ==
    /\ begin[l] = "registered"
    /\ begin' = [begin EXCEPT ![l] = IF locked[NamespaceOf[l]] THEN "lock_vault"
                                                               ELSE "unlocked"]
    /\ UNCHANGED <<now, entries, slot, holder, exec, started, calls, ends,
                   history, world>>

\* ... the peer ledger and the shutdown flag.
CheckPeer(l) ==
    /\ begin[l] = "unlocked"
    /\ begin' = [begin EXCEPT ![l] =
                    IF peer[PrincipalOf[l]] # "active" THEN "peer_revoked"
                    ELSE IF down # "up" THEN "shutdown" ELSE "respond"]
    /\ UNCHANGED <<now, entries, slot, holder, exec, started, calls, ends,
                   history, world>>

\* Faulty variant: the entry is taken out, but the login not ended.
EndItself_Forget(l) ==
    /\ begin[l] \in Reason
    /\ entries' = Without({l})
    /\ begin' = [begin EXCEPT ![l] = "over"]
    /\ UNCHANGED <<now, slot, holder, exec, started, calls, ends, history, world>>

\* A login that is already a termination target ends itself, unless it was
\* taken meanwhile.
EndItself(l) ==
    /\ begin[l] \in Reason
    /\ EndEntries({l} \cap DOMAIN entries, begin[l])
    /\ begin' = [begin EXCEPT ![l] = "over"]
    /\ UNCHANGED <<now, slot, holder, exec, started, calls, history, world>>

\* The response goes out: from now on the caller knows the login_id.
Deliver(l) ==
    /\ begin[l] = "respond"
    /\ begin' = [begin EXCEPT ![l] = "pending"]
    /\ UNCHANGED <<now, entries, slot, holder, exec, started, calls, ends,
                   history, world>>

\* The scan of a pending response, of login_begin or of a login_step, found a
\* secret in it (end_leaked).
EndLeaked(l) ==
    /\ \/ /\ begin[l] = "respond"
          /\ begin' = [begin EXCEPT ![l] = "over"]
          /\ UNCHANGED step
       \/ \E c \in Call :
             /\ step[c] = "respond" /\ on[c] = l
             /\ step' = [step EXCEPT ![c] = "over"]
             /\ UNCHANGED begin
    /\ EndEntries({l} \cap DOMAIN entries, "rejected")
    /\ UNCHANGED <<now, slot, holder, exec, started, on, history, world>>

-----------------------------------------------------------------------------
(* login_step *)

\* The step now admitted would exceed the limit.
Exhausted(l) == entries[l].steps + 1 > MaxSteps

\* claim
Claim(c, l) ==
    /\ step[c] = "new"
    /\ \A d \in Call : d < c => step[d] # "new"
    /\ begin[l] = "pending"
    /\ on' = [on EXCEPT ![c] = l]
    /\ \/ /\ l \notin DOMAIN entries
          /\ step' = [step EXCEPT ![c] = "over"]
          /\ UNCHANGED <<entries, ends>>
       \/ /\ l \in DOMAIN entries
          /\ Expired(l)
          /\ EndEntries({l}, "expired")
          /\ step' = [step EXCEPT ![c] = "over"]
       \/ /\ l \in DOMAIN entries
          /\ ~Expired(l) /\ Exhausted(l)
          /\ EndEntries({l}, "failed")
          /\ step' = [step EXCEPT ![c] = "over"]
       \/ /\ l \in DOMAIN entries
          /\ ~Expired(l) /\ ~Exhausted(l)
          /\ entries' = [entries EXCEPT ![l].steps = @ + 1, ![l].inFlight = @ + 1]
          /\ step' = [step EXCEPT ![c] = "slot"]
          /\ UNCHANGED ends
    /\ UNCHANGED <<now, slot, holder, exec, started, begin, history, world>>

LockSlot(c) ==
    /\ step[c] = "slot"
    /\ holder[on[c]] = NoOne
    /\ holder' = [holder EXCEPT ![on[c]] = c]
    /\ step' = [step EXCEPT ![c] = "check"]
    /\ UNCHANGED <<now, entries, slot, exec, started, begin, on, ends, history, world>>

\* A login that ended while the call waited for the slot is not found.
CheckCurrent(c) ==
    /\ step[c] = "check"
    /\ IF on[c] \in DOMAIN entries /\ slot[on[c]]
       THEN step' = [step EXCEPT ![c] = "ready"] /\ UNCHANGED <<holder, on>>
       ELSE Leave(c, "over")
    /\ UNCHANGED <<now, entries, slot, exec, started, begin, ends, history, world>>

\* abort: the executor is taken out and the slot's mutex dropped ...
AbortTake(c) ==
    /\ step[c] = "ready"
    /\ slot' = [slot EXCEPT ![on[c]] = FALSE]
    /\ aborted' = aborted \cup {on[c]}
    /\ Leave(c, "aborting")
    /\ UNCHANGED <<now, entries, exec, started, begin, ends, audits,
                   failed, world>>

\* ... then the entry is removed, if it is still there, and the login finished.
AbortRemove(c) ==
    /\ step[c] = "aborting"
    /\ entries' = Without({on[c]})
    /\ ends' = ends \cup {[login |-> on[c], reason |-> "aborted", at |-> "stop"]}
    /\ step' = [step EXCEPT ![c] = "over"]
    /\ UNCHANGED <<now, slot, holder, exec, started, begin, on, history, world>>

\* Ledger::release: one step less in progress, and the idle time starts again.
Released(l) == [entries EXCEPT ![l].inFlight = @ - 1, ![l].active = now]

\* The TOTP code of the step could not be resolved.
TotpFails(c) ==
    /\ step[c] = "ready"
    /\ entries' = IF on[c] \in DOMAIN entries THEN Released(on[c]) ELSE entries
    /\ Leave(c, "over")
    /\ UNCHANGED <<now, slot, exec, started, begin, ends, history, world>>

SendStep(c) ==
    /\ step[c] = "ready"
    /\ step' = [step EXCEPT ![c] = "exchange"]
    /\ UNCHANGED <<now, entries, slot, holder, exec, started, begin, on, ends,
                   history, world>>

\* The response, or the end of the wait for it, finds that the login ended.
ReplyTooLate(c) ==
    /\ step[c] = "exchange"
    /\ on[c] \notin DOMAIN entries
    /\ Leave(c, "over")
    /\ UNCHANGED <<now, entries, slot, exec, started, begin, ends, history, world>>

ReplyPending(c) ==
    /\ step[c] = "exchange"
    /\ on[c] \in DOMAIN entries
    /\ entries' = Released(on[c])
    /\ Leave(c, "respond")
    /\ UNCHANGED <<now, slot, exec, started, begin, ends, history, world>>

DeliverStep(c) ==
    /\ step[c] = "respond"
    /\ step' = [step EXCEPT ![c] = "over"]
    /\ UNCHANGED <<now, entries, slot, holder, exec, started, begin, on, ends,
                   history, world>>

ReplyDone(c) ==
    /\ step[c] = "exchange"
    /\ on[c] \in DOMAIN entries
    /\ entries' = Without({on[c]})
    /\ slot' = [slot EXCEPT ![on[c]] = FALSE]
    /\ Leave(c, "handoff")
    /\ UNCHANGED <<now, exec, started, begin, ends, history, world>>

\* Faulty variant: a step that fails does not look whether the login ended.
ReplyEnds_Unchecked(c) ==
    /\ step[c] = "exchange"
    /\ entries' = Without({on[c]})
    /\ slot' = [slot EXCEPT ![on[c]] = FALSE]
    /\ \E reason \in {"rejected", "bad credential", "failed"} :
          ends' = ends \cup {[login |-> on[c], reason |-> reason, at |-> "stop"]}
    /\ Leave(c, "over")
    /\ UNCHANGED <<now, exec, started, begin, history, world>>

\* A failure of the step, a timeout or a dead executor ends the login.
ReplyEnds(c) ==
    /\ step[c] = "exchange"
    /\ on[c] \in DOMAIN entries
    /\ entries' = Without({on[c]})
    /\ slot' = [slot EXCEPT ![on[c]] = FALSE]
    /\ \E reason \in {"rejected", "bad credential", "failed"} :
          ends' = ends \cup {[login |-> on[c], reason |-> reason, at |-> "stop"]}
    /\ Leave(c, "over")
    /\ UNCHANGED <<now, exec, started, begin, history, world>>

\* hand_off_step, once it holds the start control: the executor becomes the one
\* of a session, or is stopped because it could not be registered.
HandOff(c) ==
    /\ step[c] = "handoff"
    /\ \/ exec' = [exec EXCEPT ![on[c]] = "handed off"] /\ UNCHANGED ends
       \/ /\ exec' = [exec EXCEPT ![on[c]] = "stopped"]
          /\ ends' = ends \cup {[login |-> on[c], reason |-> "failed", at |-> "record"]}
    /\ step' = [step EXCEPT ![c] = "over"]
    /\ UNCHANGED <<now, entries, slot, holder, started, begin, on, history, world>>

-----------------------------------------------------------------------------
(* Endings *)

Move(e, to) == ends' = (ends \ {e}) \cup {[e EXCEPT !.at = to]}

\* Faulty variant: the ending does not wait for a step in progress.
TakeSlot_NoWait(e) ==
    /\ e.at = "slot"
    /\ slot' = [slot EXCEPT ![e.login] = FALSE]
    /\ Move(e, IF slot[e.login] THEN "stop" ELSE "record")
    /\ UNCHANGED <<now, entries, holder, exec, started, begin, calls, history, world>>

\* end_entry: wait for the slot and take the executor, if it is still there.
TakeSlot(e) ==
    /\ e.at = "slot"
    /\ holder[e.login] = NoOne
    /\ slot' = [slot EXCEPT ![e.login] = FALSE]
    /\ Move(e, IF slot[e.login] THEN "stop" ELSE "record")
    /\ UNCHANGED <<now, entries, holder, exec, started, begin, calls, history, world>>

\* finish: stop the executor, ...
Stop(e) ==
    /\ e.at = "stop"
    /\ exec' = [exec EXCEPT ![e.login] = "stopped"]
    /\ Move(e, "record")
    /\ UNCHANGED <<now, entries, slot, holder, started, begin, calls, history, world>>

\* ... record the failure, if it is one, and audit the end.
Record(e) ==
    /\ e.at = "record"
    /\ failed' = [failed EXCEPT ![e.login] = @ + (IF CountsAsFailure(e.reason) THEN 1 ELSE 0)]
    /\ audits' = [audits EXCEPT ![e.login] = @ + 1]
    /\ ends' = ends \ {e}
    /\ UNCHANGED <<now, entries, slot, holder, exec, started, begin, calls,
                   aborted, world>>

ExecutorExits(l) ==
    /\ exec[l] = "live"
    /\ exec' = [exec EXCEPT ![l] = "stopped"]
    /\ UNCHANGED <<now, entries, slot, holder, started, begin, calls, ends,
                   history, world>>

\* spawn_reaper, once a second.
Reaper ==
    LET old == {l \in DOMAIN entries : Expired(l)} IN
    /\ old # {}
    /\ EndEntries(old, "expired")
    /\ UNCHANGED <<now, slot, holder, exec, started, begin, calls, history, world>>

-----------------------------------------------------------------------------
(* Sweeps: a flag is set first, and the ledger swept later. *)

\* lock_vault locks the provider ...
Lock(n) ==
    /\ vault[n] # "locking"
    /\ vault' = [vault EXCEPT ![n] = "locking"]
    /\ locked' = [locked EXCEPT ![n] = TRUE]
    /\ UNCHANGED <<now, entries, slot, holder, exec, started, begin, calls, ends,
                   history, peer, down>>

\* ... ends the namespace's browsers (Sessions), then its stepwise logins.
\* "locked": swept, and not unlocked since the lock.
LockSweep(n) ==
    /\ vault[n] = "locking"
    /\ vault' = [vault EXCEPT ![n] = IF locked[n] THEN "locked" ELSE "idle"]
    /\ EndEntries({l \in DOMAIN entries : NamespaceOf[l] = n}, "lock_vault")
    /\ UNCHANGED <<now, slot, holder, exec, started, begin, calls, history,
                   locked, peer, down>>

\* Another request resolves a credential, which unlocks the provider.
Unlock(n) ==
    /\ locked[n]
    /\ locked' = [locked EXCEPT ![n] = FALSE]
    /\ vault' = [vault EXCEPT ![n] = IF @ = "locked" THEN "idle" ELSE @]
    /\ UNCHANGED <<now, entries, slot, holder, exec, started, begin, calls, ends,
                   history, peer, down>>

\* The provider locks itself when its time is up; nothing is swept.
AutoLock(n) ==
    /\ ~locked[n]
    /\ locked' = [locked EXCEPT ![n] = TRUE]
    /\ UNCHANGED <<now, entries, slot, holder, exec, started, begin, calls, ends,
                   history, vault, peer, down>>

Revoke(p) ==
    /\ peer[p] = "active"
    /\ peer' = [peer EXCEPT ![p] = "revoked"]
    /\ UNCHANGED <<now, entries, slot, holder, exec, started, begin, calls, ends,
                   history, locked, vault, down>>

RevokeSweep(p) ==
    /\ peer[p] = "revoked"
    /\ peer' = [peer EXCEPT ![p] = "swept"]
    /\ EndEntries({l \in DOMAIN entries : PrincipalOf[l] = p}, "peer_revoked")
    /\ UNCHANGED <<now, slot, holder, exec, started, begin, calls, history,
                   locked, vault, down>>

ShutDown ==
    /\ down = "up"
    /\ down' = "stopping"
    /\ UNCHANGED <<now, entries, slot, holder, exec, started, begin, calls, ends,
                   history, locked, vault, peer>>

ShutDownSweep ==
    /\ down = "stopping"
    /\ down' = "swept"
    /\ EndEntries(DOMAIN entries, "shutdown")
    /\ UNCHANGED <<now, slot, holder, exec, started, begin, calls, history,
                   locked, vault, peer>>

Tick ==
    /\ now < MaxTime
    /\ now' = now + 1
    /\ UNCHANGED <<entries, slot, holder, exec, started, begin, calls, ends,
                   history, world>>

-----------------------------------------------------------------------------
BeginStep(l) ==
    \/ BeginDone(l) \/ Register(l) \/ CheckLock(l) \/ CheckPeer(l)
    \/ EndItself(l) \/ Deliver(l)

CallStep(c) ==
    \/ LockSlot(c) \/ CheckCurrent(c) \/ AbortTake(c) \/ AbortRemove(c)
    \/ TotpFails(c) \/ SendStep(c) \/ ReplyTooLate(c) \/ ReplyPending(c)
    \/ DeliverStep(c) \/ ReplyDone(c) \/ ReplyEnds(c) \/ HandOff(c)

Ending(l) == \E e \in ends : e.login = l /\ (TakeSlot(e) \/ Stop(e) \/ Record(e))

Sweeps ==
    \/ \E n \in Namespace : Lock(n) \/ LockSweep(n) \/ Unlock(n) \/ AutoLock(n)
    \/ \E p \in Principal : Revoke(p) \/ RevokeSweep(p)
    \/ ShutDown \/ ShutDownSweep

Next ==
    \/ \E l \in Login : Begin(l) \/ BeginStep(l) \/ EndLeaked(l)
                          \/ ExecutorExits(l) \/ Ending(l)
    \/ \E c \in Call : CallStep(c) \/ \E l \in Login : Claim(c, l)
    \/ Reaper
    \/ Sweeps
    \/ Tick

\* The executor runs, and its first request is not answered yet.
Unanswered(l) == begin[l] = "launched" /\ exec[l] = "live"

\* Handlers and endings run on: their waits have timeouts and the slot is
\* handed over in order.  Only the launch has a wait without one, for an executor
\* that runs and does not read its first line (Sessions, ExecutorConnection).
\* Callers, operators and crashes decide the rest.
Fairness ==
    /\ \A l \in Login : WF_vars(~Unanswered(l) /\ BeginStep(l)) /\ WF_vars(Ending(l))
    /\ \A c \in Call : WF_vars(CallStep(c))
    /\ WF_vars(Reaper)
    /\ WF_vars(Tick)

Spec == Init /\ [][Next]_vars

FairSpec == Spec /\ Fairness

-----------------------------------------------------------------------------
\* An executor that runs is never lost: it is still with login_begin, in the
\* slot of a ledger entry, in the slot of a login about to be ended, or with the
\* one call or ending that took it out.  A live executor has exactly one of
\* these.
ExecutorOwned ==
    \A l \in Login : exec[l] = "live" =>
        LET takers == {c \in Call : on[c] = l /\ step[c] \in {"aborting", "handoff"}}
            stops == {e \in ends : e.login = l /\ e.at = "stop"}
        IN IF slot[l]
           THEN /\ takers = {} /\ stops = {}
                /\ l \in DOMAIN entries
                     \/ \E e \in ends : e.login = l /\ e.at = "slot"
           ELSE Cardinality(takers) + Cardinality(stops)
                  + (IF begin[l] = "launched" THEN 1 ELSE 0) = 1

\* An ending does not pull the executor away from under a step: end_entry waits
\* for a step in progress.
StepUndisturbed ==
    \A c \in Call : step[c] \in {"ready", "exchange"} =>
        /\ holder[on[c]] = c
        /\ slot[on[c]]

\* Without an abort, the end of a login is audited once and at most one failure
\* is recorded for it, although the reaper, a step, a sweep and the login itself
\* may all want to end it.
EndsOnce ==
    \A l \in Login : l \notin aborted =>
        audits[l] + Cardinality({e \in ends : e.login = l}) <= 1

\* No sweep is outrun: once lock_vault (until the provider is unlocked again), a
\* revocation or the shutdown has swept the ledger, a login_begin that was
\* starting its executor meanwhile does not leave a pending login behind.
NoneAfterSweep ==
    \A l \in Login : l \in DOMAIN entries /\ begin[l] \in {"respond", "pending"} =>
        /\ vault[NamespaceOf[l]] # "locked"
        /\ peer[PrincipalOf[l]] # "swept"
        /\ down # "swept"


\* docs/mcp-tools.md: "`abort` does not count as a failure."
AbortIsNoFailure ==
    \A l \in aborted : failed[l] = 0
=============================================================================
