---------------------------- MODULE MCProviders ----------------------------
(***************************************************************************)
(* Two providers, a connection and the reaper; or the run of one command;   *)
(* or the approval queue, where an id is used again while an earlier waiter *)
(* still holds it.  They share no state: a behaviour is about one of them.  *)
(***************************************************************************)
EXTENDS Credentials, TLC

CONSTANTS p1, p2

VARIABLE focus   \* what this behaviour is about

command == <<runner, where, leader, helper, reaped, result>>

MCOrder == <<p1, p2>>
MCKinds == {(p1 :> k) @@ (p2 :> "static") : k \in {"bitwarden", "file", "pass"}}

MCInit ==
    /\ Init /\ Command!Init /\ QueueInit
    /\ focus \in {"providers", "command", "queue"}
    /\ focus # "providers" => cli = [server |-> TRUE, login |-> TRUE] /\ kind[p1] = "file"
    /\ focus # "command" => runner = "bw"

MCNext ==
    \/ focus = "providers" /\ Next /\ UNCHANGED <<focus, command, queueVars>>
    \/ focus = "command" /\ Command!Next /\ UNCHANGED <<focus, vars, queueVars>>
    \/ focus = "queue" /\ QueueNext /\ UNCHANGED <<focus, vars, command>>

\* The fairness of the one the behaviour is about.
MCFairness ==
    /\ \A a \in Actor : /\ SF_vars(focus = "providers" /\ Step(a))
                       /\ WF_vars(focus = "providers" /\ a = Reaper /\ Begin(a))
    /\ WF_command(focus = "command" /\ Command!Run)
    /\ \A w \in Waiter : WF_queueVars(focus = "queue" /\ Poll(w))

MCSpec == MCInit /\ [][MCNext]_<<focus, vars, command, queueVars>> /\ MCFairness
=============================================================================
