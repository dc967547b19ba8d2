------------------------------ MODULE Admission ------------------------------
(***************************************************************************)
(* What a request passes before its launch: Ancestry (where the client of a *)
(* named pipe comes from), ApprovalGate and StartControl.  They share no    *)
(* state, and keep theirs in memory.                                        *)
(***************************************************************************)
EXTENDS Naturals, FiniteSets

CONSTANTS
    Request, Principal, Cred, GrantTtl, MaxTime, MaxRevokes,  \* ApprovalGate
    Launcher, MaxAttempts, Window, Delay, LastStart, NoOne,   \* StartControl
    Pid, Candidate, LastBorn, Wsl, MaxDepth                   \* Ancestry

ASSUME GateAssumption == GrantTtl \in Nat /\ MaxTime \in Nat /\ MaxRevokes \in Nat

ASSUME StartAssumption ==
    /\ IsFiniteSet(Launcher) /\ NoOne \notin Launcher
    /\ MaxAttempts \in Nat /\ Window \in Nat

ASSUME ClientAssumption ==
    0 \notin Pid /\ Candidate \subseteq Pid \cup {0} /\ MaxDepth \in Nat

VARIABLES
    now, grants, generation, pc, pair, observed, lapsed,
    clock, attempts, failures, retryAt, gate, at, stepwise, launches,
    procs, born, table, times, unread, client, phase, verdict

Gate == INSTANCE ApprovalGate WITH Task <- Request, issued <- grants

Start == INSTANCE StartControl WITH
    Task <- Launcher, MaxTime <- LastStart, now <- clock, pc <- at

Client == INSTANCE Ancestry WITH MaxStarts <- LastBorn, clock <- born, todo <- unread

\* ApprovalGate: no grant outlives a revocation that came after it was asked for.
GrantUnrevoked == Gate!GrantUnrevoked

\* ApprovalGate: a request passes without asking only under a grant in force.
ReuseCovered == Gate!ReuseCovered

\* StartControl: never more launches within a window than the limit.
LaunchesLimited == Start!LaunchesLimited

\* Ancestry: only the client and its ancestors decide over its origin.
ChainGenuine == Client!ChainGenuine
=============================================================================
