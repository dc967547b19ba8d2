----------------------------- MODULE MCSessions -----------------------------
(* Instances of Sessions for TLC.                                            *)
EXTENDS Sessions, TLC

CONSTANTS t1, t2, t3, alice, bob, work, home, c1, c2

OneKey == {[principal |-> alice, namespace |-> work, cred_id |-> c1]}

TwoKeys == OneKey \cup {[principal |-> bob, namespace |-> home, cred_id |-> c2]}

\* Requests that share browsers.
SharedLogins == {[key |-> k, kind |-> "login", exclusive |-> FALSE] : k \in OneKey}

SharedAndStepwise ==
    SharedLogins
      \cup {[key |-> k, kind |-> "stepwise", exclusive |-> FALSE] : k \in OneKey}

\* Requests of one key that wait for different start controls.
SharedAndService ==
    SharedAndStepwise
      \cup {[key |-> k, kind |-> "service", exclusive |-> TRUE] : k \in OneKey}

\* Every kind of request of one caller, and a login of another.
MixedRequests ==
    {[key |-> k, kind |-> d, exclusive |-> d = "service"] : k \in OneKey, d \in Kind}
      \cup {[key |-> k, kind |-> "login", exclusive |-> TRUE] : k \in OneKey}
      \cup {[key |-> k, kind |-> "login", exclusive |-> FALSE] : k \in TwoKeys}

TaskSymmetry == Permutations(Task)
=============================================================================
