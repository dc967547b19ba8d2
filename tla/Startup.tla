------------------------------- MODULE Startup -------------------------------
(***************************************************************************)
(* How the daemon starts and ends: run_daemon, step by step, each of which  *)
(* may fail; the executor it starts once to see whether it would work; and  *)
(* on Windows the service thread that reports to the service control       *)
(* manager (external), fed by a channel from the thread that runs the       *)
(* daemon.                                                                  *)
(***************************************************************************)
EXTENDS Naturals, Sequences

CONSTANTS
    Platforms,          \* "unix", "foreground" (Windows), "service" (Windows)
    Executors,          \* "spawned" by the daemon, or behind a "socket" (UNIX)
    ProviderLists       \* sequences of "bitwarden", "age-file" and "pass"

VARIABLES
    platform, executor, \* what the daemon runs as, and its executor
    step,               \* where run_daemon is, or "over"
    building,           \* providers that build_state has yet to build
    probe,              \* the executor that is tried: "none", "up", "gone"
    hello,              \* its answer: "none", "ok" or "bad"
    bound,              \* the listeners are open
    result,             \* what run_daemon returns: "none", "ok" or "error"
    channel,            \* what the service thread will receive, or "empty"
    sender,             \* the channel has not been written to
    service,            \* the service thread: "start", "wait", "join" or "done"
    status,             \* the last status reported
    code,               \* the exit code, 0 or 1
    stop                \* a stop has been requested

daemonVars == <<step, building, probe, hello, bound, result>>
serviceVars == <<channel, sender, service, status, code>>
vars == <<platform, executor, daemonVars, serviceVars, stop>>

Init ==
    /\ platform \in Platforms /\ executor \in Executors
    /\ executor = "socket" => platform = "unix"
    /\ step = "idle" /\ building \in ProviderLists
    /\ probe = "none" /\ hello = "none" /\ bound = FALSE /\ result = "none"
    /\ channel = "empty" /\ sender = TRUE
    /\ service = "start" /\ status = "none" /\ code = 0
    /\ stop = FALSE

-----------------------------------------------------------------------------
(* run_daemon *)

\* The order of its steps.
Order ==
    IF platform = "unix"
    THEN <<"idle", "config", "executor", "directory", "legacy", "options", "peers", "build", "bind", "ready">>
    ELSE <<"idle", "config", "legacy", "options", "executor", "directory", "peers", "build", "bind", "ready">>

After(s) == LET i == CHOOSE k \in DOMAIN Order : Order[k] = s IN Order[i + 1]

\* The error of a step is returned; what it has opened is dropped.
FailsAt(s) ==
    /\ step = s /\ step' = "over" /\ result' = "error" /\ bound' = FALSE
    /\ UNCHANGED <<platform, executor, building, probe, hello, serviceVars, stop>>

\* main, or the thread that service_main starts.
Start ==
    /\ step = "idle" /\ platform # "service"
    /\ step' = After("idle")
    /\ UNCHANGED <<platform, executor, building, probe, hello, bound, result, serviceVars, stop>>

\* Neither "age-file" nor "pass" is for Windows.
Supported == platform = "unix" \/ \A i \in DOMAIN building : building[i] = "bitwarden"

\* The steps that read and check: the configuration and its limits, options of the
\* other platform, the state directory, the peer store.  Each passes or fails, but
\* for the removal of a directory that older versions used.
Check(s) ==
    /\ \/ /\ step = s /\ step' = After(s)
          /\ s = "options" => Supported
          /\ UNCHANGED <<platform, executor, building, probe, hello, bound, result, serviceVars, stop>>
       \/ s # "legacy" /\ FailsAt(s)

\* validate_executor_socket: connected and answered within its timeouts, by a user
\* other than root and the daemon's.
CheckSocket ==
    /\ executor = "socket"
    /\ Check("executor")

\* validate_spawned_executor: it is started.
StartProbe ==
    /\ executor = "spawned" /\ step = "executor" /\ probe = "none"
    /\ \/ probe' = "up" /\ UNCHANGED <<step, result>>
       \/ step' = "over" /\ result' = "error" /\ UNCHANGED probe
    /\ UNCHANGED <<platform, executor, building, hello, bound, serviceVars, stop>>

\* request_executor_hello: an answer, or an error or a timeout in its place.
Hello ==
    /\ step = "executor" /\ probe = "up" /\ hello = "none"
    /\ hello' \in {"ok", "bad"}
    /\ UNCHANGED <<platform, executor, step, building, probe, bound, result, serviceVars, stop>>

\* shutdown_executor_handle, whatever the answer was; the child is killed when its
\* handle is dropped, if it has not ended by then.
EndProbe ==
    /\ step = "executor" /\ probe = "up" /\ hello # "none"
    /\ probe' = "gone"
    /\ IF hello = "ok" THEN step' = After("executor") /\ UNCHANGED result
       ELSE step' = "over" /\ result' = "error"
    /\ UNCHANGED <<platform, executor, building, hello, bound, serviceVars, stop>>

\* build_state: a provider; an age-file that cannot be read is an error.
BuildProvider ==
    /\ step = "build" /\ building # << >>
    /\ \/ /\ building' = Tail(building)
          /\ UNCHANGED <<platform, executor, step, probe, hello, bound, result, serviceVars, stop>>
       \/ Head(building) = "age-file" /\ FailsAt("build")

\* The cookie store is prepared, which may fail (CookieStore).
BuildState == building = << >> /\ Check("build")

Bind ==
    \/ /\ step = "bind" /\ step' = "ready" /\ bound' = TRUE
       /\ UNCHANGED <<platform, executor, building, probe, hello, result, serviceVars, stop>>
    \/ FailsAt("bind")

\* The service thread is told; in the foreground a line is written, which may fail.
Ready ==
    /\ step = "ready"
    /\ IF platform = "service" THEN channel' = "ok" /\ sender' = FALSE
       ELSE UNCHANGED <<channel, sender>>
    /\ \/ step' = "serve" /\ UNCHANGED <<bound, result>>
       \/ platform = "foreground" /\ step' = "over" /\ result' = "error" /\ bound' = FALSE
    /\ UNCHANGED <<platform, executor, building, probe, hello, service, status, code, stop>>

\* serve_transport ends on a stop or with an error of a listener (Connections).
ServeEnds ==
    /\ step = "serve"
    /\ \/ stop /\ result' = "ok"
       \/ result' = "error"
    /\ step' = "over" /\ bound' = FALSE
    /\ UNCHANGED <<platform, executor, building, probe, hello, serviceVars, stop>>

\* A signal, which before serve_transport ends the process there and then, and with
\* the process its end of the executor's input.
Signal ==
    /\ platform = "unix" /\ step \notin {"idle", "over"}
    /\ IF step = "serve"
       THEN stop' = TRUE /\ UNCHANGED <<step, probe, result, bound>>
       ELSE /\ step' = "over" /\ result' = "error" /\ bound' = FALSE
            /\ probe' = IF probe = "up" THEN "gone" ELSE probe
            /\ UNCHANGED stop
    /\ UNCHANGED <<platform, executor, building, hello, serviceVars>>

-----------------------------------------------------------------------------
(* service_main *)

\* Without --config the service is reported as stopped; else the daemon's thread is
\* started.
ServiceStarts ==
    /\ platform = "service" /\ service = "start"
    /\ \/ /\ status' = "Stopped" /\ code' = 1 /\ service' = "done" /\ UNCHANGED step
       \/ /\ status' = "StartPending" /\ service' = "wait" /\ step' = After("idle")
          /\ UNCHANGED code
    /\ UNCHANGED <<platform, executor, building, probe, hello, bound, result, channel, sender, stop>>

\* Faulty variant: the error is only returned.
Reported_No == FALSE

\* The daemon's thread sends the error if nothing has been sent.
Reported == result = "error" /\ sender

ThreadEnds ==
    /\ platform = "service" /\ step = "over" /\ Reported
    /\ channel' = "error" /\ sender' = FALSE
    /\ UNCHANGED <<platform, executor, daemonVars, service, status, code, stop>>

Received ==
    /\ service = "wait" /\ channel # "empty"
    /\ channel' = "empty" /\ service' = "join"
    /\ IF channel = "ok" THEN status' = "Running" /\ UNCHANGED code
       ELSE code' = 1 /\ UNCHANGED status
    /\ UNCHANGED <<platform, executor, daemonVars, sender, stop>>

Joined ==
    /\ service = "join" /\ step = "over" /\ ~Reported
    /\ code' = IF result = "error" THEN 1 ELSE code
    /\ status' = "Stopped" /\ service' = "done"
    /\ UNCHANGED <<platform, executor, daemonVars, channel, sender, stop>>

\* The control manager stops a running service only.
ServiceStop ==
    /\ status = "Running" /\ ~stop
    /\ stop' = TRUE
    /\ UNCHANGED <<platform, executor, daemonVars, serviceVars>>

Next ==
    \/ Start \/ StartProbe \/ Hello \/ EndProbe \/ CheckSocket
    \/ \E s \in {"config", "directory", "legacy", "options", "peers"} : Check(s)
    \/ BuildProvider \/ BuildState \/ Bind \/ Ready \/ ServeEnds \/ Signal
    \/ ServiceStarts \/ ThreadEnds \/ Received \/ Joined \/ ServiceStop

Spec == Init /\ [][Next]_vars

-----------------------------------------------------------------------------

\* The control manager is told the truth, and told it: the service thread never waits
\* for a daemon that is over and will say nothing more, "Running" follows open
\* listeners, and a stop with exit code 0 means that the daemon ended without error.
ServiceTold ==
    /\ service = "wait" /\ step = "over" => channel # "empty" \/ Reported
    /\ status = "Running" => bound \/ step = "over"
    /\ status = "Stopped" /\ code = 0 => result = "ok"
=============================================================================
