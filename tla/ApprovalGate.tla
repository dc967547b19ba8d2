---------------------------- MODULE ApprovalGate ----------------------------
(***************************************************************************)
(* gate_on_approval and approve_with_grant of main.rs over the grants of    *)
(* grants.rs: a request passes with a valid grant or asks for approval, and *)
(* an approval is recorded as a grant unless lock_vault ran while it was    *)
(* awaited.  How an approval is asked for is Approval's business: here it   *)
(* is given or refused after any time.                                      *)
(***************************************************************************)
EXTENDS Integers, Functions

CONSTANTS
    Task,        \* requests that must pass the gate
    Principal,   \* callers
    Cred,        \* credentials: records namespace, item
    GrantTtl,    \* approval_grant_ttl
    MaxTime,     \* bound: the clock stops here
    MaxRevokes   \* bound: calls of lock_vault

Namespace == {c.namespace : c \in Cred}

\* A grant is for one caller and one credential.
Pair == Principal \X Cred

VARIABLES
    now,
    issued,      \* pair -> when the grant was recorded, and for which request
    generation,  \* bumped by every revocation
    pc,
    pair,        \* the caller and credential of each request
    observed,    \* the generation it saw before it asked for approval
    lapsed       \* history: the namespaces revoked since then

vars == <<now, issued, generation, pc, pair, observed, lapsed>>

NamespaceOf(p) == p[2].namespace

Init ==
    /\ now = 0
    /\ issued = << >>
    /\ generation = 0
    /\ pc = [t \in Task |-> "new"]
    /\ pair \in [Task -> Pair]
    /\ observed = [t \in Task |-> 0]
    /\ lapsed = [t \in Task |-> {}]

Goto(t, to) == pc' = [pc EXCEPT ![t] = to]

-----------------------------------------------------------------------------
(* grants.rs *)

\* Faulty variant: a grant is still valid when its period has just ended.
Pruned_Late(grants) ==
    Restrict(grants, {p \in DOMAIN grants : now - grants[p].at <= GrantTtl})

\* prune
Pruned(grants) ==
    Restrict(grants, {p \in DOMAIN grants : now - grants[p].at < GrantTtl})

\* reuse: with a validity period of 0 the table is not even looked at.
Reusable(p) == GrantTtl # 0 /\ p \in DOMAIN Pruned(issued)

\* Faulty variant: the generation is not compared.
Issuable_Any(t) == GrantTtl # 0

Issuable(t) == GrantTtl # 0 /\ observed[t] = generation

\* issue
Issue(t) ==
    issued' = IF Issuable(t)
              THEN [p \in DOMAIN Pruned(issued) \cup {pair[t]} |->
                      IF p = pair[t] THEN [at |-> now, by |-> t] ELSE issued[p]]
              ELSE issued

-----------------------------------------------------------------------------
(* main.rs *)

\* credential_state: unknown or locked credentials are refused; one whose
\* existence could not be confirmed must be approved but never uses grants.
CheckCredential(t) ==
    /\ pc[t] = "new"
    /\ \E to \in {"refused", "unconfirmed", "confirmed"} : Goto(t, to)
    /\ UNCHANGED <<now, issued, generation, pair, observed, lapsed>>

Reuse(t) ==
    /\ pc[t] = "confirmed"
    /\ Reusable(pair[t])
    /\ issued' = Pruned(issued)
    /\ Goto(t, "reused")
    /\ UNCHANGED <<now, generation, pair, observed, lapsed>>

AskApproval(t) ==
    /\ pc[t] = "confirmed"
    /\ ~Reusable(pair[t])
    /\ issued' = IF GrantTtl = 0 THEN issued ELSE Pruned(issued)
    /\ observed' = [observed EXCEPT ![t] = generation]
    /\ lapsed' = [lapsed EXCEPT ![t] = {}]
    /\ Goto(t, "asking")
    /\ UNCHANGED <<now, generation, pair>>

\* request_approval returns.
Approved(t) ==
    /\ \/ pc[t] = "asking" /\ Goto(t, "approved")
       \/ pc[t] = "unconfirmed" /\ Goto(t, "passed")
    /\ UNCHANGED <<now, issued, generation, pair, observed, lapsed>>

Denied(t) ==
    /\ pc[t] \in {"asking", "unconfirmed"}
    /\ Goto(t, "refused")
    /\ UNCHANGED <<now, issued, generation, pair, observed, lapsed>>

\* The lock is taken again to record the grant.
RecordGrant(t) ==
    /\ pc[t] = "approved"
    /\ Issue(t)
    /\ Goto(t, "passed")
    /\ UNCHANGED <<now, generation, pair, observed, lapsed>>

\* lock_vault, for one namespace or for all.
Revoke(ns) ==
    /\ generation < MaxRevokes
    /\ generation' = generation + 1
    /\ issued' = Restrict(issued, {p \in DOMAIN issued : NamespaceOf(p) \notin ns})
    /\ lapsed' = [t \in Task |-> lapsed[t] \cup ns]
    /\ UNCHANGED <<now, pc, pair, observed>>

Tick ==
    /\ now < MaxTime
    /\ now' = now + 1
    /\ UNCHANGED <<issued, generation, pc, pair, observed, lapsed>>

Next ==
    \/ \E t \in Task : CheckCredential(t) \/ Reuse(t) \/ AskApproval(t)
                         \/ Approved(t) \/ Denied(t) \/ RecordGrant(t)
    \/ \E ns \in {{n} : n \in Namespace} \cup {Namespace} : Revoke(ns)
    \/ Tick

Spec == Init /\ [][Next]_vars

-----------------------------------------------------------------------------
\* A grant never outlives a lock_vault of its namespace that ran after its
\* approval was asked for: neither one that ran while the operator was thinking,
\* nor one that ran between the approval and its recording.
GrantUnrevoked ==
    \A p \in DOMAIN issued :
        LET t == issued[p].by IN
        /\ pc[t] = "passed"
        /\ pair[t] = p
        /\ NamespaceOf(p) \notin lapsed[t]

\* A request that passes without being approved itself is covered: the same
\* caller was approved for the same credential less than the validity period
\* ago, and its namespace was not locked since that approval was asked for.
ReuseCovered ==
    [][\A t \in Task : pc[t] = "confirmed" /\ pc'[t] = "reused" =>
          \E u \in Task : /\ pc[u] = "passed"
                          /\ pair[u] = pair[t]
                          /\ NamespaceOf(pair[t]) \notin lapsed[u]
                          /\ issued[pair[t]].by = u
                          /\ now < issued[pair[t]].at + GrantTtl]_vars
=============================================================================
