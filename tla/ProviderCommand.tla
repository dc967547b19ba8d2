--------------------------- MODULE ProviderCommand ---------------------------
(***************************************************************************)
(* A command that a provider runs while its mutex is held: bw, the askpass  *)
(* command, or pass; or approve_cmd, run while a request awaits approval.   *)
(* The command leads a process group of its own; it may start a helper, in  *)
(* that group or outside it, that keeps the output pipe open after the      *)
(* leader is gone.  The runner waits for the leader and, except for         *)
(* approve_cmd, the end of the output, up to a limit.                       *)
(***************************************************************************)

CONSTANT Runners   \* a subset of {"bw", "askpass", "pass", "approve"}

VARIABLES
    runner,   \* which of them runs the command
    at,       \* where it is
    leader,   \* the command: "none", "up" or "gone"
    helper,   \* "none", "group", "outside" or "gone"
    reaped,   \* child.wait() has returned, after which child.id() is None
    result

vars == <<runner, at, leader, helper, reaped, result>>

Init ==
    /\ runner \in Runners
    /\ at = "start" /\ leader = "none" /\ helper = "none"
    /\ reaped = FALSE /\ result = "none"

\* Nobody holds the writing end of the pipe.
Eof == leader = "gone" /\ helper \in {"none", "gone"}

Done(r) == at' = "done" /\ result' = r

\* The appdata directory cannot be made, or the command cannot be started.
NotSpawned ==
    /\ at = "start"
    /\ Done("error")
    /\ UNCHANGED <<runner, leader, helper, reaped>>

Spawn ==
    /\ at = "start"
    /\ at' = "run" /\ leader' = "up"
    /\ UNCHANGED <<runner, helper, reaped, result>>

\* join!(child.wait(), read_to_end): wait may return long before the output ends.
Reap ==
    /\ at \in {"run", "cleanup"} /\ leader = "gone" /\ ~reaped
    /\ reaped' = TRUE
    /\ UNCHANGED <<runner, at, leader, helper, result>>

\* approve_command has no output to wait for, so nothing is left to wait for.
Waited == reaped /\ (runner = "approve" \/ Eof)

Finish ==
    /\ at = "run" /\ Waited
    /\ \E r \in {"ok", "exit", "error"} : Done(r)
    /\ UNCHANGED <<runner, leader, helper, reaped>>

\* Faulty variant: the group is looked up when it is to be killed.
GroupKnown_Late == ~reaped

\* bw is killed by the id noted when it was started; the others by child.id().
GroupKnown == runner = "bw" \/ ~reaped

\* The command timeout: the group is killed, and what is left is collected.
Timeout ==
    /\ at = "run" /\ ~Waited
    /\ at' = "cleanup"
    /\ IF GroupKnown
       THEN leader' = "gone" /\ helper' = IF helper = "group" THEN "gone" ELSE helper
       ELSE UNCHANGED <<leader, helper>>
    /\ UNCHANGED <<runner, reaped, result>>

\* Faulty variant: the rest of the output is waited for.
CleanedUp_NoLimit == reaped /\ Eof

\* run_bw_unreported waits for the leader and the output again, up to
\* BW_PROCESS_CLEANUP_TIMEOUT; the others wait only for the leader.
CleanedUp == reaped \/ runner = "bw"

Cleanup ==
    /\ at = "cleanup" /\ CleanedUp
    /\ Done("timeout")
    /\ UNCHANGED <<runner, leader, helper, reaped>>

-----------------------------------------------------------------------------
(* The command and its helper (external). *)

Fork ==
    /\ leader = "up" /\ helper = "none"
    /\ helper' \in {"group", "outside"}
    /\ UNCHANGED <<runner, at, leader, reaped, result>>

Exit ==
    /\ \/ leader = "up" /\ leader' = "gone" /\ UNCHANGED helper
       \/ helper \in {"group", "outside"} /\ helper' = "gone" /\ UNCHANGED leader
    /\ UNCHANGED <<runner, at, reaped, result>>

Run == NotSpawned \/ Spawn \/ Reap \/ Finish \/ Timeout \/ Cleanup

Next == Run \/ Fork \/ Exit

Spec == Init /\ [][Next]_vars

\* The provider's task runs, and its timers fire; commands need not end.
Fairness == WF_vars(Run)

-----------------------------------------------------------------------------

\* Every command returns, even if neither it nor a helper that has its output ever
\* ends: nobody keeps a provider's mutex, or a request at the gate, for ever.
CommandReturns == at = "run" ~> at = "done"

\* When bw or approve_cmd has run into its timeout, nothing of its process group is
\* left, even if bw itself was gone by then and only a helper kept the pipe open.
TimedOutGroupGone ==
    runner \in {"bw", "approve"} /\ result = "timeout" => leader = "gone" /\ helper # "group"

\* What the documents say of the askpass command and of pass as well: a timeout kills
\* the whole group, so that no child of the command is left.
WholeGroupKilled == result = "timeout" => leader = "gone" /\ helper # "group"
=============================================================================
