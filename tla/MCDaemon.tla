------------------------------ MODULE MCDaemon ------------------------------
(***************************************************************************)
(* What the daemon keeps in files (Storage) and what a request passes       *)
(* before its launch (Admission).  Their parts share no state, so a         *)
(* behaviour exercises one of them, chosen at the start; the others stay in *)
(* one initial state.                                                       *)
(***************************************************************************)
EXTENDS Storage, Admission, TLC

CONSTANTS work, home, c1, c2, k1, k2, k3

\* One caller and two credentials of two namespaces, so that a lock hits the
\* namespace of a request or another one.
MCCred == {[namespace |-> work, item |-> c1], [namespace |-> home, item |-> c2]}

\* More requests than the limit admits, a window longer than the longest backoff,
\* and time for the window to slide.
MCDelay == <<1, 2, 2>>

\* Two principals of one credential, and another credential.
MCKey == {k1, k2, k3}
MCCredOf == k1 :> "a" @@ k2 :> "a" @@ k3 :> "b"
MCPolicies == {{"a", "b"}, {"b"}}

\* Every platform and executor, with providers that can and cannot fail to be built.
MCPlatforms == {"unix", "foreground", "service"}
MCExecutors == {"spawned", "socket"}
MCProviderLists == {<<"bitwarden", "bitwarden">>, <<"pass", "age-file", "bitwarden">>}

VARIABLE part   \* what this behaviour is about

gateVars == <<now, grants, generation, pc, pair, observed, lapsed>>
startVars == <<clock, attempts, failures, retryAt, gate, at, stepwise, launches>>
clientVars == <<procs, born, table, times, unread, client, phase, verdict>>
cookieVars == <<cDaemon, policy, cFile, litter, task, todo, saves, forgets, starts,
                cFaults, gone, skipped, left>>
auditVars == <<log, old, step, rotated, record, aCrashes, aFaults, mine>>
bootVars == <<platform, executor, stage, building, probe, hello, bound, result,
              channel, sender, service, status, code, stop>>
admission == <<gateVars, startVars, clientVars>>
storage == <<vars, cookieVars, auditVars, bootVars>>

MCInit ==
    /\ part \in {"origin", "approval", "start", "peers", "cookies", "audit", "boot"}
    /\ Gate!Init /\ Start!Init /\ Client!Init
    /\ Init /\ Cookies!Init /\ Audit!Init /\ Starting!Init
    /\ part # "start" => \A l \in Launcher : ~stepwise[l]
    /\ part # "approval" => \A r \in Request : Gate!NamespaceOf(pair[r]) = work
    /\ part # "peers" => hash
    /\ part # "boot" => platform = "unix" /\ executor = "socket" /\ Len(building) = 2

MCNext ==
    /\ UNCHANGED part
    /\ \/ /\ UNCHANGED storage
          /\ \/ part = "approval" /\ Gate!Next /\ UNCHANGED <<startVars, clientVars>>
             \/ part = "start" /\ Start!Next /\ UNCHANGED <<gateVars, clientVars>>
             \/ part = "origin" /\ Client!Next /\ UNCHANGED <<gateVars, startVars>>
       \/ /\ UNCHANGED admission
          /\ \/ part = "peers" /\ Next /\ UNCHANGED <<cookieVars, auditVars, bootVars>>
             \/ part = "cookies" /\ Cookies!Next /\ UNCHANGED <<vars, auditVars, bootVars>>
             \/ part = "audit" /\ Audit!Next /\ UNCHANGED <<vars, cookieVars, bootVars>>
             \/ part = "boot" /\ Starting!Next /\ UNCHANGED <<vars, cookieVars, auditVars>>

MCSpec == MCInit /\ [][MCNext]_<<part, admission, storage>>
=============================================================================
