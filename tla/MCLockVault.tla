---------------------------- MODULE MCLockVault ----------------------------
(* lock_vault against the launches it overtakes: Sessions with a history      *)
(* variable that remembers what the last lock_vault had to end.               *)
EXTENDS MCSessions

VARIABLE covered   \* requests whose credential was resolved before that lock

Resolved(t) ==
    \/ pc[t] \in {"writing", "starting", "pending", "regate", "handoff", "ports", "insert"}
    \/ \E b \in DOMAIN browsers : t \in LeasesOf(b)

LockInit == Init /\ covered = {}

LockNext ==
    /\ Next
    /\ covered' = IF vault = "idle" /\ vault' = "locked"
                  THEN {t \in Task : Resolved(t) /\ req[t].key.namespace \in locking'}
                  ELSE covered

LockSpec == LockInit /\ [][LockNext]_<<vars, covered>>

\* docs/mcp-tools.md: "`lock_vault` keeps its existing behavior and drops all
\* browsers and leases in the namespace."  Once lock_vault has returned, no
\* session of the namespace whose credential was resolved before the providers
\* were locked is in the ledger.  start_login and hand_off do not look at the
\* lock again after their executor has started.
LockVaultDropsSessions ==
    vault = "idle" =>
        \A b \in DOMAIN browsers : LeasesOf(b) \cap covered = {}
=============================================================================
