--------------------------- MODULE ApprovalQueue ---------------------------
(***************************************************************************)
(* approvals.rs: the pending queue of operator approvals.  Waiters register *)
(* an entry under a short id that is unique only among the entries present, *)
(* so an id is reused once its entry is gone; a token tells the entries of  *)
(* one id apart.  The operator decides by id.  A waiter's time limit races  *)
(* with the decision.                                                       *)
(***************************************************************************)
EXTENDS Integers, Functions

CONSTANTS
    Waiter,   \* requests that ask for approval
    Id,       \* the ids random_id can produce
    NoId      \* the id of a waiter that has not registered

VARIABLES
    entries,  \* id -> token and waiter of a pending entry
    next,     \* NEXT_TOKEN
    pc,       \* where each waiter stands
    id,       \* the waiter's Pending: its id ...
    token,    \* ... and its token
    chan,     \* what its oneshot channel holds
    answer    \* what wait() returned

queueVars == <<entries, next, pc, id, token, chan, answer>>

QueueInit ==
    /\ entries = << >>
    /\ next = 0
    /\ pc = [w \in Waiter |-> "new"]
    /\ id = [w \in Waiter |-> NoId]
    /\ token = [w \in Waiter |-> 0]
    /\ chan = [w \in Waiter |-> "empty"]
    /\ answer = [w \in Waiter |-> "nothing"]

Moves(w, to) == pc' = [pc EXCEPT ![w] = to]

Put(f, x, v) == [y \in DOMAIN f \cup {x} |-> IF y = x THEN v ELSE f[y]]

\* register_with: the token is taken before the table is locked ...
TakeToken(w) ==
    /\ pc[w] = "new"
    /\ token' = [token EXCEPT ![w] = next]
    /\ next' = next + 1
    /\ Moves(w, "tokened")
    /\ UNCHANGED <<entries, id, chan, answer>>

\* ... and then an id that no entry has.
Register(w) ==
    /\ pc[w] = "tokened"
    /\ \E i \in Id \ DOMAIN entries :
          /\ entries' = Put(entries, i, [token |-> token[w], waiter |-> w])
          /\ id' = [id EXCEPT ![w] = i]
    /\ Moves(w, "waiting")
    /\ UNCHANGED <<next, token, chan, answer>>

\* decide: removal and notification in one lock scope.  An unknown id changes
\* nothing.
Decide(i, verdict) ==
    /\ i \in DOMAIN entries
    /\ entries' = Restrict(entries, DOMAIN entries \ {i})
    /\ chan' = [chan EXCEPT ![entries[i].waiter] = verdict]
    /\ UNCHANGED <<next, pc, id, token, answer>>

Answer(w, a) == answer' = [answer EXCEPT ![w] = a]

\* The verdict in the channel.  A sender lost without a verdict denies.
Verdict(w) == IF chan[w] = "allow" THEN "ok" ELSE "denied"

\* wait: the channel is ready.
Receive(w) ==
    /\ pc[w] = "waiting"
    /\ chan[w] # "empty"
    /\ Answer(w, Verdict(w))
    /\ Moves(w, "dropping")
    /\ UNCHANGED <<entries, next, id, token, chan>>

\* Faulty variant: wait() without its time limit.
TimerFires_Never(w) == FALSE /\ UNCHANGED queueVars

\* wait: the limit has passed while the channel was empty.
TimerFires(w) ==
    /\ pc[w] = "waiting"
    /\ chan[w] = "empty"
    /\ Moves(w, "timed out")
    /\ UNCHANGED <<entries, next, id, token, chan, answer>>

Own(w) == id[w] \in DOMAIN entries /\ entries[id[w]].token = token[w]

\* Faulty variant: whatever entry has the id is removed.  The waiter it belongs
\* to loses its sender.
RemoveOwn_ById(w) ==
    IF id[w] \in DOMAIN entries
    THEN /\ entries' = Restrict(entries, DOMAIN entries \ {id[w]})
         /\ chan' = [chan EXCEPT ![entries[id[w]].waiter] =
                        IF @ = "empty" THEN "lost" ELSE @]
    ELSE UNCHANGED <<entries, chan>>

\* remove_own: only the entry this waiter registered.
RemoveOwn(w) ==
    /\ entries' = IF Own(w) THEN Restrict(entries, DOMAIN entries \ {id[w]})
                            ELSE entries
    /\ UNCHANGED chan

\* Faulty variant: a verdict that arrived since the limit passed is ignored.
CleanUp_NoRecv(w) ==
    /\ pc[w] = "timed out"
    /\ RemoveOwn(w)
    /\ Answer(w, "timeout")
    /\ Moves(w, "dropping")
    /\ UNCHANGED <<next, id, token>>

\* wait, after the limit: remove the entry; if it was gone, the verdict is in
\* the channel and counts.
CleanUp(w) ==
    /\ pc[w] = "timed out"
    /\ RemoveOwn(w)
    /\ Answer(w, IF Own(w) \/ chan[w] \notin {"allow", "deny"} THEN "timeout"
                                                               ELSE Verdict(w))
    /\ Moves(w, "dropping")
    /\ UNCHANGED <<next, id, token>>

\* Pending is dropped when wait() returns ...
Drop(w) ==
    /\ pc[w] = "dropping"
    /\ RemoveOwn(w)
    /\ Moves(w, "done")
    /\ UNCHANGED <<next, id, token, answer>>

\* ... or at its await, if the waiting side is cancelled.
Cancel(w) ==
    /\ pc[w] = "waiting"
    /\ RemoveOwn(w)
    /\ Moves(w, "done")
    /\ UNCHANGED <<next, id, token, answer>>

Poll(w) == TakeToken(w) \/ Register(w) \/ Receive(w) \/ TimerFires(w)
             \/ CleanUp(w) \/ Drop(w)

QueueNext ==
    \/ \E w \in Waiter : Poll(w) \/ Cancel(w)
    \/ \E i \in Id, verdict \in {"allow", "deny"} : Decide(i, verdict)

QueueSpec == QueueInit /\ [][QueueNext]_queueVars

\* tokio polls a waiter until its timer fires.  Nothing makes the operator
\* decide or the caller cancel.
QueueFairSpec == QueueSpec /\ \A w \in Waiter : WF_queueVars(Poll(w))

-----------------------------------------------------------------------------
QueueTypeOK ==
    /\ DOMAIN entries \subseteq Id
    /\ \A i \in DOMAIN entries : entries[i] \in [token : Nat, waiter : Waiter]
    /\ next \in Nat
    /\ pc \in [Waiter -> {"new", "tokened", "waiting", "timed out", "dropping", "done"}]
    /\ id \in [Waiter -> Id \cup {NoId}]
    /\ token \in [Waiter -> Nat]
    /\ chan \in [Waiter -> {"empty", "lost", "allow", "deny"}]
    /\ answer \in [Waiter -> {"nothing", "ok", "denied", "timeout"}]

\* A request that still waits without a verdict is in the queue under its id,
\* where the operator can see and decide it: no other waiter's time-out or drop
\* takes it away (and with it the sender, so that it would be denied by nobody),
\* although the id may have been theirs before.
WaiterListed ==
    \A w \in Waiter :
      pc[w] \in {"waiting", "timed out"} /\ chan[w] \notin {"allow", "deny"} =>
        /\ id[w] \in DOMAIN entries
        /\ entries[id[w]].waiter = w

\* Nothing else is in the queue: every entry belongs to a request that still
\* waits and has no verdict yet, so a verdict given to a listed entry is heard.
NoStaleEntry ==
    \A i \in DOMAIN entries :
        LET w == entries[i].waiter IN
        pc[w] \in {"waiting", "timed out"} /\ chan[w] = "empty" /\ id[w] = i

\* The queue implements Approval: one settlement for each request, and the
\* caller is told that settlement, also when the operator decides between the
\* end of the time limit and the removal of the entry.
Status(w) ==
    IF chan[w] \in {"allow", "deny"} THEN chan[w]
    ELSE IF pc[w] \in {"new", "tokened"} THEN "new"
    ELSE IF pc[w] \in {"waiting", "timed out"} THEN "pending"
    ELSE IF answer[w] = "timeout" THEN "expired" ELSE "withdrawn"

A == INSTANCE Approval WITH status <- [w \in Waiter |-> Status(w)], told <- answer

ImplementsApproval == A!ASpec

\* Every request that asks gets an answer or is cancelled, operator or not.
EveryWaiterReturns == \A w \in Waiter : pc[w] = "waiting" ~> pc[w] = "done"
=============================================================================
