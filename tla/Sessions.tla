------------------------------ MODULE Sessions ------------------------------
(***************************************************************************)
(* The session ledger of the tegatad daemon: the three maps `browsers`,     *)
(* `shared_browsers` and `ports` of DaemonState, the requests that add to   *)
(* them (login, login_begin with its hand-off, open_api_proxy and           *)
(* open_mcp_server), everything that removes from them (disconnect, the     *)
(* session reaper, lock_vault, peer revocation, the executor reaper, a      *)
(* service that ends by itself), and the executors behind them.             *)
(*                                                                          *)
(* A handler holds the state mutex only between two awaits, so one action   *)
(* is one stretch of code between two acquisitions of that mutex.  A        *)
(* request starts at most one executor and obtains at most one session, so  *)
(* the request's own identity names its executor, its browser and its       *)
(* session: browser b is the one whose executor request b started.          *)
(***************************************************************************)
EXTENDS Integers, FiniteSets, Functions

CONSTANTS
    Task,         \* requests; also executors, browser ids and session ids
    Key,          \* BrowserKeys: records principal, namespace, cred_id
    Principal,    \* callers
    Peer,         \* the callers that authenticate with a revocable token
    Namespace,    \* credential namespaces
    CredId,       \* credentials
    Request,      \* the requests that callers make
    Ttl,          \* session_ttl
    MaxLifetime,  \* browser_max_lifetime
    LastLaunch,   \* bound: no executor is launched after this time
    NoOne         \* "no task"

Kind == {"login", "stepwise", "service"}

\* The clock stops once every deadline has passed.
Horizon == LastLaunch + MaxLifetime

ASSUME KeyAssumption ==
    Key \subseteq [principal : Principal, namespace : Namespace, cred_id : CredId]
ASSUME RequestAssumption ==
    /\ Request \subseteq [key : Key, kind : Kind, exclusive : BOOLEAN]
    /\ \A r \in Request : r.kind = "service" => r.exclusive
    /\ Request # {}
ASSUME PeerAssumption == Peer \subseteq Principal
ASSUME TimeAssumption ==
    /\ Ttl \in Nat
    /\ MaxLifetime \in Nat \ {0}
    /\ LastLaunch \in Nat
ASSUME NoOneAssumption == NoOne \notin Task

VARIABLES
    now,       \* the monotonic clock, in seconds
    browsers,  \* browser id -> Browser
    shared,    \* shared_browsers: BrowserKey -> browser id
    ports,     \* session id -> the principal and the browser it may tunnel to
    gate,      \* start control -> the request holding its mutex, if any
    pc,        \* where each request's handler stands
    req,       \* what each request asks for
    at,        \* the browser a joining request looked up
    started,   \* browser_started_at of a request that launched an executor
    expires,   \* expires_at of the lease a request is about to register
    exec,      \* each request's executor
    jobs,      \* teardowns under way, of leases already out of the ledger
    ended,     \* how many times the end of a session has been recorded
    vault,     \* where lock_vault stands
    locking,   \* the namespaces that call is about
    peer       \* where the revocation of each peer stands

ledger == <<browsers, shared, ports>>
vars == <<now, browsers, shared, ports, gate, pc, req, at, started, expires,
          exec, jobs, ended, vault, locking, peer>>

\* Source of a teardown.  "spawn" is a task of its own that nobody awaits.
Agent == {"reaper", "spawn", "disconnect", "vault", "peer"}

\* StartKey: logins of one BrowserKey share a start control; a service has its
\* own.
StartKey == {"browser", "service"} \X Key

StartKeyOf(r) == <<IF r.kind = "service" THEN "service" ELSE "browser", r.key>>

PC == {"idle", "gate", "join", "leasing", "expire", "attach", "closing",
       "start", "writing", "starting", "pending", "regate", "handoff", "ports", "insert",
       "done"}

Port == [principal : Principal, port : Task]

Job == [exec : Task, sessions : SUBSET Task, stop : BOOLEAN,
        phase : {"stop", "audit"}, by : Agent \cup Task]

AnyRequest == CHOOSE r \in Request : TRUE

Init ==
    /\ now = 0
    /\ browsers = << >>
    /\ shared = << >>
    /\ ports = << >>
    /\ gate = [k \in StartKey |-> NoOne]
    /\ pc = [t \in Task |-> "idle"]
    /\ req = [t \in Task |-> AnyRequest]
    /\ at = [t \in Task |-> NoOne]
    /\ started = [t \in Task |-> 0]
    /\ expires = [t \in Task |-> 0]
    /\ exec = [t \in Task |-> "none"]
    /\ jobs = {}
    /\ ended = [t \in Task |-> 0]
    /\ vault = "idle"
    /\ locking = {}
    /\ peer = [p \in Peer |-> "active"]

-----------------------------------------------------------------------------
(* The ledger. *)

LeasesOf(b) == DOMAIN browsers[b].leases

\* A Browser of sessions.rs.  The executor, port and endpoint of browser b are
\* those of request b.  A lease is its expires_at: its principal is the one of
\* the browser's key.
Browser(key, deadline, exclusive, service, leases) ==
    [key |-> key, deadline |-> deadline, exclusive |-> exclusive,
     service |-> service, leases |-> leases]

WithLeases(b, leases) ==
    Browser(browsers[b].key, browsers[b].deadline, browsers[b].exclusive,
            browsers[b].service, leases)

Put(f, x, v) == [y \in DOMAIN f \cup {x} |-> IF y = x THEN v ELSE f[y]]

\* lease_expiry: a lease ends at its TTL or at the browser's deadline,
\* whichever is earlier.
LeaseExpiry(deadline) == IF now + Ttl < deadline THEN now + Ttl ELSE deadline

\* Every removal has this shape: the leases in `gone` leave their browsers, a
\* browser without leases leaves the ledger and, if it was shared, the index of
\* shared browsers, and the ports of the leases leave the port table.
Emptied(gone) == {b \in DOMAIN browsers : LeasesOf(b) \subseteq gone}

\* Faulty variant: the port table is forgotten.
Remove_KeepPorts(gone) ==
    /\ browsers' = [b \in DOMAIN browsers \ Emptied(gone) |->
                        WithLeases(b, Restrict(browsers[b].leases,
                                               LeasesOf(b) \ gone))]
    /\ shared' = Restrict(shared,
                    DOMAIN shared \ {browsers[b].key : b \in
                        {e \in Emptied(gone) : ~browsers[e].exclusive}})
    /\ ports' = ports

Remove(gone) ==
    /\ browsers' = [b \in DOMAIN browsers \ Emptied(gone) |->
                        WithLeases(b, Restrict(browsers[b].leases,
                                               LeasesOf(b) \ gone))]
    /\ shared' = Restrict(shared,
                    DOMAIN shared \ {browsers[b].key : b \in
                        {e \in Emptied(gone) : ~browsers[e].exclusive}})
    /\ ports' = Restrict(ports, DOMAIN ports \ gone)

\* Teardown of the leases ss of browser b.  With stop, the executor is shut
\* down after the leases are released.
Teardown(b, ss, stop, by) ==
    [exec |-> b, sessions |-> ss, stop |-> stop, phase |-> "stop", by |-> by]

\* Faulty variant: the browser is copied out of the ledger, not taken.
Terminate_Copy(bs, by) ==
    /\ UNCHANGED ledger
    /\ jobs' = jobs \cup {Teardown(b, LeasesOf(b), TRUE, by) : b \in bs}

\* take_browser_locked followed by terminate_browser, for all browsers of bs.
Terminate(bs, by) ==
    /\ Remove(UNION {LeasesOf(b) : b \in bs})
    /\ jobs' = jobs \cup {Teardown(b, LeasesOf(b), TRUE, by) : b \in bs}

Working(by) == \E j \in jobs : j.by = by

-----------------------------------------------------------------------------
(* Requests that open a session: start_login, begin_after_approval and        *)
(* start_service_session, from the moment the approval gate let them pass.    *)

Goto(t, to) == pc' = [pc EXCEPT ![t] = to]

ReleaseGate(t) ==
    gate' = [gate EXCEPT ![StartKeyOf(req[t])] = IF @ = t THEN NoOne ELSE @]

\* The handler returns, with a session or an error, and drops its start guard, if
\* it holds one.
Return(t) == Goto(t, "done") /\ ReleaseGate(t)

\* The handler's locals are gone.
Forget(t) ==
    /\ started' = [started EXCEPT ![t] = 0]
    /\ expires' = [expires EXCEPT ![t] = 0]

\* A revoked peer's connection is refused before its next request.  The time a
\* request spends in the approval gate is part of its wait at "gate".
Begin(t, r) ==
    /\ pc[t] = "idle"
    /\ r.key.principal \in Peer => peer[r.key.principal] = "active"
    /\ req' = [req EXCEPT ![t] = r]
    /\ Goto(t, "gate")
    /\ UNCHANGED <<now, ledger, gate, at, started, expires, exec, jobs, ended,
                   vault, locking, peer>>

LockGate(t) ==
    /\ gate[StartKeyOf(req[t])] = NoOne
    /\ gate' = [gate EXCEPT ![StartKeyOf(req[t])] = t]
    /\ \/ /\ pc[t] = "gate"
          /\ Goto(t, IF req[t].exclusive THEN "start" ELSE "join")
       \/ /\ pc[t] = "regate"
          /\ Goto(t, "handoff")
    /\ UNCHANGED <<now, ledger, req, at, started, expires, exec, jobs, ended,
                   vault, locking, peer>>

\* join_browser, first lock scope: find the shared browser of the key.
JoinLookup(t) ==
    /\ pc[t] = "join"
    /\ LET k == req[t].key IN
       \/ /\ k \notin DOMAIN shared
          /\ Goto(t, "start")
          /\ UNCHANGED at
       \/ /\ k \in DOMAIN shared
          /\ at' = [at EXCEPT ![t] = shared[k]]
          /\ Goto(t, IF browsers[shared[k]].deadline <= now THEN "expire"
                                                            ELSE "leasing")
    /\ UNCHANGED <<now, ledger, gate, req, started, expires, exec, jobs, ended,
                   vault, locking, peer>>

\* executor_lease opened a tab on the executor found.
JoinLeaseOk(t) ==
    /\ pc[t] = "leasing"
    /\ exec[at[t]] = "live"
    /\ Goto(t, "attach")
    /\ UNCHANGED <<now, ledger, gate, req, at, started, expires, exec, jobs,
                   ended, vault, locking, peer>>

\* executor_lease failed.  The error is returned while the browser is active;
\* otherwise the request goes on to launch a browser of its own.
JoinLeaseErr(t) ==
    /\ pc[t] = "leasing"
    /\ IF at[t] \in DOMAIN browsers /\ browsers[at[t]].deadline > now
       THEN Return(t) /\ at' = [at EXCEPT ![t] = NoOne]
       ELSE Goto(t, "expire") /\ UNCHANGED <<gate, at>>
    /\ UNCHANGED <<now, ledger, req, started, expires, exec, jobs, ended, vault,
                   locking, peer>>

\* expire_browser_at_deadline, awaited by the request.
JoinExpire(t) ==
    /\ pc[t] = "expire"
    /\ at' = [at EXCEPT ![t] = NoOne]
    /\ \/ /\ at[t] \in DOMAIN browsers
          /\ browsers[at[t]].deadline <= now
          /\ Terminate({at[t]}, t)
          /\ Goto(t, "closing")
       \/ /\ ~(at[t] \in DOMAIN browsers /\ browsers[at[t]].deadline <= now)
          /\ Goto(t, "start")
          /\ UNCHANGED <<ledger, jobs>>
    /\ UNCHANGED <<now, gate, req, started, expires, exec, ended, vault,
                   locking, peer>>

JoinClosed(t) ==
    /\ pc[t] = "closing"
    /\ ~Working(t)
    /\ Goto(t, "start")
    /\ UNCHANGED <<now, ledger, gate, req, at, started, expires, exec, jobs,
                   ended, vault, locking, peer>>

\* Faulty variant: the deadline is not looked at again after the await.
JoinAttach_NoRecheck(t) ==
    /\ pc[t] = "attach"
    /\ at' = [at EXCEPT ![t] = NoOne]
    /\ LET b == at[t] IN
       \/ /\ b \notin DOMAIN browsers
          /\ Goto(t, "start")
          /\ UNCHANGED <<ledger, gate, jobs>>
       \/ /\ b \in DOMAIN browsers
          /\ browsers' = Put(browsers, b,
                WithLeases(b, Put(browsers[b].leases, t,
                                  LeaseExpiry(browsers[b].deadline))))
          /\ ports' = Put(ports, t, [principal |-> req[t].key.principal,
                                     port |-> b])
          /\ Return(t)
          /\ UNCHANGED <<shared, jobs>>
    /\ UNCHANGED <<now, req, started, expires, exec, ended, vault, locking, peer>>

\* join_browser, last lock scope: the tab is open; attach it as a lease, unless
\* the browser passed its deadline or left the ledger during the await.  The
\* tab of a browser that is gone is released on its executor.
JoinAttach(t) ==
    /\ pc[t] = "attach"
    /\ at' = [at EXCEPT ![t] = NoOne]
    /\ LET b == at[t] IN
       \/ /\ b \notin DOMAIN browsers
          /\ Goto(t, "start")
          /\ UNCHANGED <<ledger, gate, jobs>>
       \/ /\ b \in DOMAIN browsers
          /\ browsers[b].deadline <= now
          /\ Terminate({b}, t)
          /\ Goto(t, "closing")
          /\ UNCHANGED gate
       \/ /\ b \in DOMAIN browsers
          /\ browsers[b].deadline > now
          /\ browsers' = Put(browsers, b,
                WithLeases(b, Put(browsers[b].leases, t,
                                  LeaseExpiry(browsers[b].deadline))))
          /\ ports' = Put(ports, t, [principal |-> req[t].key.principal,
                                     port |-> b])
          /\ Return(t)
          /\ UNCHANGED <<shared, jobs>>
    /\ UNCHANGED <<now, req, started, expires, exec, ended, vault, locking, peer>>

\* Faulty variant: the error path leaves the start control locked.
Refuse_KeepGate(t) ==
    /\ pc[t] = "start"
    /\ Goto(t, "done")
    /\ UNCHANGED <<now, ledger, gate, req, at, started, expires, exec, jobs,
                   ended, vault, locking, peer>>

\* Rate limited, or the credential (for a service, also its launch settings)
\* could not be resolved.
Refuse(t) ==
    /\ pc[t] = "start"
    /\ Return(t)
    /\ UNCHANGED <<now, ledger, req, at, started, expires, exec, jobs, ended,
                   vault, locking, peer>>

Launch(t) ==
    /\ pc[t] = "start"
    /\ now <= LastLaunch
    /\ started' = [started EXCEPT ![t] = now]
    /\ exec' = [exec EXCEPT ![t] = "live"]
    /\ Goto(t, "writing")
    /\ UNCHANGED <<now, ledger, gate, req, at, expires, jobs, ended, vault,
                   locking, peer>>

\* exchange_first_request writes its line without a timeout, and waits for as long
\* as an executor that runs does not read it.  After the line, or the error of a pipe
\* that is closed, the answer is awaited for EXECUTOR_TIMEOUT.
WriteFirst(t) ==
    /\ pc[t] = "writing"
    /\ Goto(t, "starting")
    /\ UNCHANGED <<now, ledger, gate, req, at, started, expires, exec, jobs, ended,
                   vault, locking, peer>>

LaunchFails(t) ==
    /\ pc[t] = "starting"
    /\ exec' = [exec EXCEPT ![t] = "stopped"]
    /\ Return(t)
    /\ Forget(t)
    /\ UNCHANGED <<now, ledger, req, at, jobs, ended, vault,
                   locking, peer>>

\* A login registers its browser under the start guard.  A service drops the
\* guard first.  A login_begin is `done` at once and is handed off under the
\* guard, or drops it and stays pending.
LaunchOk(t) ==
    /\ pc[t] = "starting"
    /\ exec[t] = "live"
    /\ \/ req[t].kind = "login" /\ Goto(t, "ports") /\ UNCHANGED gate
       \/ req[t].kind = "service" /\ Goto(t, "ports") /\ ReleaseGate(t)
       \/ req[t].kind = "stepwise" /\ Goto(t, "handoff") /\ UNCHANGED gate
       \/ req[t].kind = "stepwise" /\ Goto(t, "pending") /\ ReleaseGate(t)
    /\ UNCHANGED <<now, ledger, req, at, started, expires, exec, jobs, ended,
                   vault, locking, peer>>

\* A stepwise login ends: aborted, rejected, failed or expired.
PendingEnds(t) ==
    /\ pc[t] = "pending"
    /\ exec' = [exec EXCEPT ![t] = "stopped"]
    /\ Goto(t, "done")
    /\ Forget(t)
    /\ UNCHANGED <<now, ledger, gate, req, at, jobs, ended,
                   vault, locking, peer>>

\* run_step: the executor reports `done` and the entry leaves the ledger of
\* stepwise logins.
PendingDone(t) ==
    /\ pc[t] = "pending"
    /\ exec[t] = "live"
    /\ Goto(t, "regate")
    /\ UNCHANGED <<now, ledger, gate, req, at, started, expires, exec, jobs,
                   ended, vault, locking, peer>>

\* Faulty variant: a handed-off browser is always registered as requested.
HandOff_AsRequested(t) ==
    /\ pc[t] = "handoff"
    /\ Goto(t, "ports")
    /\ UNCHANGED <<now, ledger, gate, req, at, started, expires, exec, jobs,
                   ended, vault, locking, peer>>

\* hand_off: next to a shared browser of the same key the new one is exclusive.
HandOff(t) ==
    /\ pc[t] = "handoff"
    /\ req' = [req EXCEPT ![t].exclusive = @ \/ req[t].key \in DOMAIN shared]
    /\ Goto(t, "ports")
    /\ UNCHANGED <<now, ledger, gate, at, started, expires, exec, jobs, ended,
                   vault, locking, peer>>

\* Faulty variant: the executor that could not be registered is forgotten.
RegisterFails_KeepExecutor(t) ==
    /\ pc[t] = "ports"
    /\ Return(t)
    /\ Forget(t)
    /\ UNCHANGED <<now, ledger, req, at, exec, jobs, ended, vault, locking, peer>>

\* register_login_browser and register_service_lease, the error paths.
RegisterFails(t) ==
    /\ pc[t] = "ports"
    /\ exec' = [exec EXCEPT ![t] = "stopped"]
    /\ Return(t)
    /\ Forget(t)
    /\ UNCHANGED <<now, ledger, req, at, jobs, ended, vault,
                   locking, peer>>

\* The Browser is put together, and its port is published first ...
RegisterPort(t) ==
    /\ pc[t] = "ports"
    /\ expires' = [expires EXCEPT ![t] = LeaseExpiry(started[t] + MaxLifetime)]
    /\ ports' = Put(ports, t, [principal |-> req[t].key.principal, port |-> t])
    /\ Goto(t, "insert")
    /\ UNCHANGED <<now, browsers, shared, gate, req, at, started, exec, jobs,
                   ended, vault, locking, peer>>

\* ... and under another acquisition of the lock the browser is inserted.
RegisterBrowser(t) ==
    /\ pc[t] = "insert"
    /\ browsers' = Put(browsers, t,
                       Browser(req[t].key, started[t] + MaxLifetime,
                               req[t].exclusive, req[t].kind = "service",
                               [s \in {t} |-> expires[t]]))
    /\ shared' = IF req[t].exclusive THEN shared
                                     ELSE Put(shared, req[t].key, t)
    /\ Forget(t)
    /\ Return(t)
    /\ UNCHANGED <<now, ports, req, at, exec, jobs, ended, vault, locking, peer>>

-----------------------------------------------------------------------------
(* What ends a session. *)

\* Faulty variant: the executor is left running after the last lease.
Disconnect_NoShutdown(s) ==
    \E b \in DOMAIN browsers :
        /\ s \in LeasesOf(b)
        /\ Remove({s})
        /\ jobs' = jobs \cup {Teardown(b, {s}, FALSE, "disconnect")}
        /\ UNCHANGED <<now, gate, pc, req, at, started, expires, exec, ended,
                       vault, locking, peer>>

\* disconnect, by the session's own principal.
Disconnect(s) ==
    \E b \in DOMAIN browsers :
        /\ s \in LeasesOf(b)
        /\ Remove({s})
        /\ jobs' = jobs \cup {Teardown(b, {s}, LeasesOf(b) = {s}, "disconnect")}
        /\ UNCHANGED <<now, gate, pc, req, at, started, expires, exec, ended,
                       vault, locking, peer>>

\* One pass of spawn_session_reaper.  Browsers past their deadline end as a
\* whole, each in a task of its own; of the others, the lapsed leases end, one
\* after the other in the reaper's task, which then sleeps until the next pass.
SessionReaper ==
    LET dead == {b \in DOMAIN browsers : browsers[b].deadline <= now}
        lapsed(b) == {s \in LeasesOf(b) : browsers[b].leases[s] <= now}
        late == {b \in DOMAIN browsers \ dead : lapsed(b) # {}}
    IN  /\ ~Working("reaper")
        /\ dead \cup late # {}
        /\ Remove((UNION {LeasesOf(b) : b \in dead}) \cup (UNION {lapsed(b) : b \in late}))
        /\ jobs' = jobs
             \cup {Teardown(b, LeasesOf(b), TRUE, "spawn") : b \in dead}
             \cup {Teardown(b, lapsed(b), lapsed(b) = LeasesOf(b), "reaper") :
                       b \in late}
        /\ UNCHANGED <<now, gate, pc, req, at, started, expires, exec, ended,
                       vault, locking, peer>>

\* handle_mcp_server_event: an MCP server exited or leaked a secret.
ServiceEnds(b) ==
    /\ b \in DOMAIN browsers
    /\ browsers[b].service
    /\ Terminate({b}, "spawn")
    /\ UNCHANGED <<now, gate, pc, req, at, started, expires, exec, ended, vault,
                   locking, peer>>

\* A node process can exit at any moment.
ExecutorExits(b) ==
    /\ exec[b] = "live"
    /\ exec' = [exec EXCEPT ![b] = "stopped"]
    /\ UNCHANGED <<now, ledger, gate, pc, req, at, started, expires, jobs, ended,
                   vault, locking, peer>>

\* spawn_executor_reaper: end of file on the executor's output.  The leases are
\* only audited.
ExecutorReaper(b) ==
    /\ b \in DOMAIN browsers
    /\ exec[b] = "stopped"
    /\ Remove(LeasesOf(b))
    /\ jobs' = jobs \cup {[Teardown(b, LeasesOf(b), FALSE, "spawn")
                             EXCEPT !.phase = "audit"]}
    /\ UNCHANGED <<now, gate, pc, req, at, started, expires, exec, ended, vault,
                   locking, peer>>

\* Faulty variant: a failed release gives up before the audit line.
JobStop_GiveUp(j) ==
    /\ j \in jobs
    /\ j.phase = "stop"
    /\ \E failed \in BOOLEAN :
         /\ exec' = [exec EXCEPT ![j.exec] = "stopped"]
         /\ jobs' = (jobs \ {j})
                      \cup (IF failed THEN {} ELSE {[j EXCEPT !.phase = "audit"]})
    /\ UNCHANGED <<now, ledger, gate, pc, req, at, started, expires, ended,
                   vault, locking, peer>>

\* Release the leases, one after the other, and shut the executor down.  A
\* failed release makes disconnect and the session reaper shut it down although
\* other leases remain.  (Revocation ignores it, but always takes all leases of
\* a browser, so it shuts the executor down anyway.)
JobStop(j) ==
    /\ j \in jobs
    /\ j.phase = "stop"
    /\ \E failed \in BOOLEAN :
         /\ exec[j.exec] = "stopped" => failed
         /\ exec' = IF j.stop \/ (failed /\ j.by \in {"disconnect", "reaper"})
                    THEN [exec EXCEPT ![j.exec] = "stopped"] ELSE exec
    /\ jobs' = (jobs \ {j}) \cup {[j EXCEPT !.phase = "audit"]}
    /\ UNCHANGED <<now, ledger, gate, pc, req, at, started, expires, ended,
                   vault, locking, peer>>

\* Record the end of each lease in the audit log.
JobAudit(j) ==
    /\ j \in jobs
    /\ j.phase = "audit"
    /\ ended' = [s \in Task |-> IF s \in j.sessions THEN ended[s] + 1 ELSE ended[s]]
    /\ jobs' = jobs \ {j}
    /\ UNCHANGED <<now, ledger, gate, pc, req, at, started, expires, exec, vault,
                   locking, peer>>

-----------------------------------------------------------------------------
(* lock_vault and peer revocation.  The end of the daemon (serve_transport)     *)
(* runs the same sweep as lock_vault of all namespaces, without the lock.       *)

\* stepwise::terminate and terminate_principal: end the pending logins ts.
EndPending(ts) ==
    /\ exec' = [t \in Task |-> IF t \in ts THEN "stopped" ELSE exec[t]]
    /\ pc' = [t \in Task |-> IF t \in ts THEN "done" ELSE pc[t]]
    /\ started' = [t \in Task |-> IF t \in ts THEN 0 ELSE started[t]]
    /\ UNCHANGED expires

\* The grants are revoked and the providers locked.  If one fails to lock,
\* lock_vault returns its error here and nothing below happens.
LockProviders(ns) ==
    /\ vault = "idle"
    /\ vault' = "locked"
    /\ locking' = ns
    /\ UNCHANGED <<now, ledger, gate, pc, req, at, started, expires, exec, jobs,
                   ended, peer>>

DrainBrowsers ==
    /\ vault = "locked"
    /\ vault' = "draining"
    /\ Terminate({b \in DOMAIN browsers : browsers[b].key.namespace \in locking},
                 "vault")
    /\ UNCHANGED <<now, gate, pc, req, at, started, expires, exec, ended,
                   locking, peer>>

LockReturns ==
    /\ vault = "draining"
    /\ ~Working("vault")
    /\ vault' = "idle"
    /\ locking' = {}
    /\ EndPending({t \in Task : pc[t] = "pending" /\ req[t].key.namespace \in locking})
    /\ UNCHANGED <<now, ledger, gate, req, at, jobs, ended, peer>>

\* admin_peer_revoke.  The peer is revoked in memory; if that cannot be saved,
\* the error is returned and nothing below happens.  The operator may repeat it.
RevokePeer(p) ==
    /\ peer[p] \in {"active", "revoked"}
    /\ \E to \in {"ending", "revoked"} : peer' = [peer EXCEPT ![p] = to]
    /\ UNCHANGED <<now, ledger, gate, pc, req, at, started, expires, exec, jobs,
                   ended, vault, locking>>

EndPeerPending(p) ==
    /\ peer[p] = "ending"
    /\ peer' = [peer EXCEPT ![p] = "sweeping"]
    /\ EndPending({t \in Task : pc[t] = "pending" /\ req[t].key.principal = p})
    /\ UNCHANGED <<now, ledger, gate, req, at, jobs, ended, vault, locking>>

\* terminate_peer_leases.  A browser has only leases of its key's principal.
EndPeerLeases(p) ==
    LET owned == {b \in DOMAIN browsers : browsers[b].key.principal = p} IN
    /\ peer[p] = "sweeping"
    /\ peer' = [peer EXCEPT ![p] = "revoked"]
    /\ Terminate(owned, "peer")
    /\ UNCHANGED <<now, gate, pc, req, at, started, expires, exec, ended, vault,
                   locking>>

Tick ==
    /\ now < Horizon
    /\ now' = now + 1
    /\ UNCHANGED <<ledger, gate, pc, req, at, started, expires, exec, jobs,
                   ended, vault, locking, peer>>

-----------------------------------------------------------------------------
(* Steps of a request's handler: but for WriteFirst each runs to its end, for *)
(* every other wait on an executor has a timeout, a start guard is waited for *)
(* in line, and a pending login that is left alone expires.                   *)
Step(t) ==
    \/ LockGate(t)
    \/ JoinLookup(t) \/ JoinLeaseOk(t) \/ JoinLeaseErr(t)
    \/ JoinExpire(t) \/ JoinClosed(t) \/ JoinAttach(t)
    \/ Refuse(t) \/ Launch(t) \/ LaunchFails(t) \/ LaunchOk(t)
    \/ PendingEnds(t) \/ PendingDone(t) \/ HandOff(t)
    \/ RegisterFails(t) \/ RegisterPort(t) \/ RegisterBrowser(t)

TeardownStep(b) == \E j \in jobs : j.exec = b /\ (JobStop(j) \/ JobAudit(j))

\* lock_vault names one namespace or, without the parameter, all of them.
LockRequest == {{n} : n \in Namespace} \cup {Namespace}

Vault == DrainBrowsers \/ LockReturns \/ \E ns \in LockRequest : LockProviders(ns)

PeerRevocation(p) == RevokePeer(p) \/ EndPeerPending(p) \/ EndPeerLeases(p)

Next ==
    \/ \E t \in Task : (\E r \in Request : Begin(t, r)) \/ Step(t) \/ WriteFirst(t)
    \/ \E b \in Task : Disconnect(b) \/ ServiceEnds(b) \/ ExecutorExits(b)
                         \/ ExecutorReaper(b) \/ TeardownStep(b)
    \/ SessionReaper
    \/ Vault
    \/ \E p \in Peer : PeerRevocation(p)
    \/ Tick

\* No fairness for what callers, operators and crashes decide: Begin,
\* Disconnect, ServiceEnds, ExecutorExits, LockProviders, RevokePeer; nor for an
\* executor that runs to read its first line.
Fairness ==
    /\ \A t \in Task : WF_vars(Step(t)) /\ WF_vars(ExecutorReaper(t)) /\ WF_vars(TeardownStep(t))
    /\ \A t \in Task : WF_vars(exec[t] = "stopped" /\ WriteFirst(t))
    /\ WF_vars(SessionReaper)
    /\ WF_vars(DrainBrowsers \/ LockReturns)
    /\ \A p \in Peer : WF_vars(EndPeerPending(p) \/ EndPeerLeases(p))
    /\ WF_vars(Tick)

Spec == Init /\ [][Next]_vars

FairSpec == Spec /\ Fairness

-----------------------------------------------------------------------------
LedgerType ==
    /\ DOMAIN browsers \subseteq Task
    /\ \A b \in DOMAIN browsers :
          /\ browsers[b].key \in Key
          /\ browsers[b].deadline \in Nat
          /\ browsers[b].exclusive \in BOOLEAN
          /\ browsers[b].service \in BOOLEAN
          /\ LeasesOf(b) \subseteq Task
          /\ \A s \in LeasesOf(b) : browsers[b].leases[s] \in Nat
    /\ DOMAIN shared \subseteq Key
    /\ \A k \in DOMAIN shared : shared[k] \in Task
    /\ DOMAIN ports \subseteq Task
    /\ \A s \in DOMAIN ports : ports[s] \in Port

HandlerType ==
    /\ gate \in [StartKey -> Task \cup {NoOne}]
    /\ pc \in [Task -> PC]
    /\ req \in [Task -> [key : Key, kind : Kind, exclusive : BOOLEAN]]
    /\ at \in [Task -> Task \cup {NoOne}]
    /\ started \in [Task -> Nat]
    /\ expires \in [Task -> Nat]

TeardownType ==
    /\ exec \in [Task -> {"none", "live", "stopped"}]
    /\ jobs \subseteq Job
    /\ ended \in [Task -> Nat]

TypeOK ==
    /\ now \in 0..Horizon
    /\ LedgerType
    /\ HandlerType
    /\ TeardownType
    /\ vault \in {"idle", "locked", "draining"}
    /\ locking \subseteq Namespace
    /\ peer \in [Peer -> {"active", "ending", "sweeping", "revoked"}]

\* The index of shared browsers is exact: it maps a key to the one non-exclusive
\* browser of that key in the ledger.  So a key never has two shared browsers,
\* whether opened by login or handed off by login_step, and a removal that drops
\* the index entry of a key (take_browser_locked and its copies do so without
\* looking at what it maps to) never drops another browser's entry.
SharedIndexExact ==
    /\ \A k \in DOMAIN shared :
          /\ shared[k] \in DOMAIN browsers
          /\ browsers[shared[k]].key = k
          /\ ~browsers[shared[k]].exclusive
    /\ \A b \in DOMAIN browsers :
          ~browsers[b].exclusive =>
             /\ browsers[b].key \in DOMAIN shared
             /\ shared[browsers[b].key] = b

\* The CDP tunnel resolver reads only `ports`: a session is in it exactly while
\* it holds a lease, with that browser's port and principal, except in the
\* window of register_login_browser that publishes the port first.
PortsMatchLeases ==
    /\ \A b \in DOMAIN browsers : \A s \in LeasesOf(b) :
          /\ s \in DOMAIN ports
          /\ ports[s] = [principal |-> browsers[b].key.principal, port |-> b]
    /\ \A s \in DOMAIN ports :
          \/ pc[s] = "insert"
          \/ ports[s].port \in DOMAIN browsers /\ s \in LeasesOf(ports[s].port)

\* A session ends once: among disconnect, the reapers, lock_vault, revocation
\* and the end of the executor, one removes its lease, tears it down and records
\* its end; no session is in the ledger and in a teardown, or in two teardowns.
EndedOnce ==
    /\ \A s \in Task : ended[s] <= 1
    /\ \A b \in DOMAIN browsers : \A s \in LeasesOf(b) :
          /\ ended[s] = 0
          /\ \A j \in jobs : s \notin j.sessions
          /\ \A c \in DOMAIN browsers \ {b} : s \notin LeasesOf(c)
    /\ \A i, j \in jobs : i # j => i.sessions \cap j.sessions = {}

\* No executor is left behind: one that runs is being started or registered by
\* its request, is the executor of a pending login, has a browser with a lease
\* in the ledger, or is about to be shut down by a teardown.
NoOrphanExecutor ==
    \A b \in Task : exec[b] = "live" =>
        \/ pc[b] \in {"writing", "starting", "pending", "regate", "handoff", "ports", "insert"}
        \/ b \in DOMAIN browsers /\ LeasesOf(b) # {}
        \/ \E j \in jobs : j.exec = b /\ j.phase = "stop" /\ j.stop

\* A lease joins a browser only before its deadline, although join_browser
\* waits for the executor between looking at the deadline and attaching.
JoinBeforeDeadline ==
    [][\A b \in DOMAIN browsers \cap DOMAIN browsers' :
          (\E s \in Task : s \in DOMAIN browsers'[b].leases \ LeasesOf(b))
              => now < browsers[b].deadline]_vars

\* Every session ends and its end is recorded: security.md asks that the log
\* never show a session being created without showing it ending.
EverySessionEnds ==
    \A s \in Task : (\E b \in DOMAIN browsers : s \in LeasesOf(b)) ~> ended[s] = 1

\* An executor runs and does not read its first line ...
Stuck(t) == pc[t] = "writing" /\ exec[t] = "live"

\* ... ever, and holds the start control that t waits for, or it is t's own.
HeldUp(t) ==
    \E u \in Task : <>[](Stuck(u) /\ StartKeyOf(req[u]) = StartKeyOf(req[t]))

\* Every request is answered: no request waits for ever for a start guard, for
\* an executor, or for the teardown of the expired browser it found.  The exception
\* is a start whose executor never reads its first line; that holds up the logins
\* of one key, or the services of one, and no other request.
EveryRequestAnswered ==
    \A t \in Task : (pc[t] = "gate" ~> pc[t] = "done") \/ HeldUp(t)

\* Every executor that is started is stopped in the end, with the same exception:
\* it never reads its first line, or it is that of a stepwise login that succeeded
\* and waits for the start control to be handed over.
EveryExecutorStops ==
    \A t \in Task : (exec[t] = "live" ~> exec[t] = "stopped") \/ HeldUp(t)
=============================================================================
