------------------------------ MODULE Approval ------------------------------
(***************************************************************************)
(* What the pending queue of operator approvals promises: each request is   *)
(* settled once, by the operator, by the time limit or by its own           *)
(* withdrawal, and the waiting caller is told exactly how.                  *)
(***************************************************************************)
CONSTANT Waiter   \* requests that ask for approval

VARIABLES
    status,  \* how each request stands
    told     \* what the caller of each request was told

avars == <<status, told>>

AInit ==
    /\ status = [w \in Waiter |-> "new"]
    /\ told = [w \in Waiter |-> "nothing"]

Ask(w) ==
    /\ status[w] = "new"
    /\ status' = [status EXCEPT ![w] = "pending"]
    /\ UNCHANGED told

Settle(w, verdict) ==
    /\ status[w] = "pending"
    /\ status' = [status EXCEPT ![w] = verdict]
    /\ UNCHANGED told

Expire(w) ==
    /\ status[w] = "pending"
    /\ status' = [status EXCEPT ![w] = "expired"]
    /\ told' = [told EXCEPT ![w] = "timeout"]

Withdraw(w) ==
    /\ status[w] = "pending"
    /\ status' = [status EXCEPT ![w] = "withdrawn"]
    /\ UNCHANGED told

Tell(w) ==
    /\ status[w] \in {"allow", "deny"}
    /\ told[w] = "nothing"
    /\ told' = [told EXCEPT ![w] = IF status[w] = "allow" THEN "ok" ELSE "denied"]
    /\ UNCHANGED status

ANext ==
    \E w \in Waiter :
        \/ Ask(w) \/ Expire(w) \/ Withdraw(w) \/ Tell(w)
        \/ \E verdict \in {"allow", "deny"} : Settle(w, verdict)

ASpec == AInit /\ [][ANext]_avars
=============================================================================
