-------------------------- MODULE AdmissionProofs --------------------------
(***************************************************************************)
(* What a request passes before its launch, for any set of requests, pairs  *)
(* and namespaces, any limits and any clock.                                *)
(***************************************************************************)
EXTENDS Admission, Integers, Sequences, FiniteSetTheorems, WellFoundedInduction, TLAPS

(* ApprovalGate.  That a grant is unrevoked is inductive only together with   *)
(* what the generation is for: a request that still sees the generation it    *)
(* observed before it asked has missed no revocation.                         *)

\* Where a request can be.
Stage ==
    {"new", "unconfirmed", "confirmed", "asking", "approved", "reused", "passed", "refused"}

GateType ==
    /\ now \in Nat
    /\ generation \in Nat
    /\ pc \in [Request -> Stage]
    /\ pair \in [Request -> Gate!Pair]
    /\ observed \in [Request -> Nat]
    /\ lapsed \in [Request -> SUBSET Gate!Namespace]
    /\ \A p \in DOMAIN grants : grants[p].by \in Request /\ grants[p].at \in Nat

\* A request that saw the current generation has missed no revocation.
Current(t) ==
    /\ observed[t] <= generation
    /\ pc[t] \in {"asking", "approved"} /\ observed[t] = generation => lapsed[t] = {}

GateInv ==
    /\ GateType
    /\ GrantUnrevoked
    /\ \A t \in Request : Current(t)

\* The invariant holds at first.
LEMMA GateInit == Gate!Init => GateInv
  BY DEF Gate!Init, GateInv, GateType, GrantUnrevoked, Gate!GrantUnrevoked, Current, Stage

\* Pruning only takes grants away, and leaves none that has run out.
LEMMA PrunedGrants ==
  /\ DOMAIN Gate!Pruned(grants) \subseteq DOMAIN grants
  /\ \A p \in DOMAIN Gate!Pruned(grants) :
        Gate!Pruned(grants)[p] = grants[p] /\ now - grants[p].at < GrantTtl
  BY Zenon DEF Gate!Pruned, Gate!Restrict

\* A step of one request that issues nothing.
LEMMA RequestStep ==
  ASSUME GateInv, NEW t \in Request, NEW to \in Stage, Gate!Goto(t, to), pc[t] # "passed",
         UNCHANGED <<now, generation, pair>>,
         observed' \in [Request -> Nat], lapsed' \in [Request -> SUBSET Gate!Namespace],
         \A u \in Request \ {t} : observed'[u] = observed[u] /\ lapsed'[u] = lapsed[u],
         Current(t)',
         DOMAIN grants' \subseteq DOMAIN grants,
         \A p \in DOMAIN grants' : grants'[p] = grants[p]
  PROVE  GateInv'
<1>1. pc' \in [Request -> Stage] /\ pc'[t] = to /\ \A u \in Request \ {t} : pc'[u] = pc[u]
  BY Zenon DEF Gate!Goto, GateInv, GateType
<1>2. GateType'
  BY <1>1, Zenon DEF GateInv, GateType
<1>3. \A u \in Request : Current(u)'
  BY <1>1, Zenon DEF GateInv, Current
<1>4. GrantUnrevoked'
  BY <1>1 DEF GateInv, GateType, GrantUnrevoked, Gate!GrantUnrevoked
<1> QED
  BY <1>2, <1>3, <1>4, Zenon DEF GateInv

\* Every step of a request, a revocation and the clock keeps the invariant.
LEMMA GateNext == GateInv /\ [Gate!Next]_(Gate!vars) => GateInv'
<1> SUFFICES ASSUME GateInv, [Gate!Next]_(Gate!vars) PROVE GateInv'
  BY Zenon
<1>1. ASSUME NEW t \in Request,
             Gate!CheckCredential(t) \/ Gate!Approved(t) \/ Gate!Denied(t) \/ Gate!Reuse(t)
      PROVE  GateInv'
  <2>1. PICK to \in Stage : /\ Gate!Goto(t, to) /\ pc[t] # "passed"
                            /\ to \in {"asking", "approved"} => pc[t] = "asking"
    BY <1>1, Zenon DEF Gate!CheckCredential, Gate!Approved, Gate!Denied, Gate!Reuse, Stage
  <2>2. UNCHANGED <<now, generation, pair, observed, lapsed>>
    BY <1>1, Zenon DEF Gate!CheckCredential, Gate!Approved, Gate!Denied, Gate!Reuse
  <2>3. grants' = grants \/ grants' = Gate!Pruned(grants)
    BY <1>1, Zenon DEF Gate!CheckCredential, Gate!Approved, Gate!Denied, Gate!Reuse
  <2>4. pc'[t] = to
    BY <2>1, Zenon DEF GateInv, GateType, Gate!Goto
  <2>5. Current(t)'
    BY <2>1, <2>2, <2>4, Zenon DEF GateInv, Current
  <2>6. /\ DOMAIN grants' \subseteq DOMAIN grants
        /\ \A p \in DOMAIN grants' : grants'[p] = grants[p]
    BY <2>3, PrunedGrants, Zenon
  <2>7. observed' \in [Request -> Nat] /\ lapsed' \in [Request -> SUBSET Gate!Namespace]
    BY <2>2, Zenon DEF GateInv, GateType
  <2> QED
    BY <2>1, <2>2, <2>5, <2>6, <2>7, RequestStep
<1>2. ASSUME NEW t \in Request, Gate!AskApproval(t) PROVE GateInv'
  <2>1. grants' = grants \/ grants' = Gate!Pruned(grants)
    BY <1>2, Zenon DEF Gate!AskApproval
  <2>2. Current(t)'
    BY <1>2 DEF Gate!AskApproval, GateInv, GateType, Current
  <2> QED
    BY <1>2, <2>1, <2>2, PrunedGrants, RequestStep, Zenon DEF Gate!AskApproval, GateInv, GateType, Stage
<1>3. ASSUME NEW t \in Request, Gate!RecordGrant(t) PROVE GateInv'
  <2>1. /\ pc' \in [Request -> Stage] /\ pc[t] = "approved" /\ pc'[t] = "passed"
        /\ \A u \in Request \ {t} : pc'[u] = pc[u]
    BY <1>3, Zenon DEF Gate!RecordGrant, Gate!Goto, GateInv, GateType, Stage
  <2>2. UNCHANGED <<now, generation, pair, observed, lapsed>>
    BY <1>3, Zenon DEF Gate!RecordGrant
  <2>3. \A u \in Request : Current(u)'
    BY <2>1, <2>2, Zenon DEF GateInv, Current
  <2>4. /\ Gate!Issuable(t) => /\ DOMAIN grants' \subseteq DOMAIN grants \cup {pair[t]}
                               /\ grants'[pair[t]] = [at |-> now, by |-> t]
                               /\ \A p \in DOMAIN grants' \ {pair[t]} : grants'[p] = grants[p]
        /\ ~Gate!Issuable(t) => grants' = grants
    BY <1>3, PrunedGrants, Zenon DEF Gate!RecordGrant, Gate!Issue
  <2>5. Gate!Issuable(t) => lapsed[t] = {}
    BY <2>1, Zenon DEF Gate!Issuable, GateInv, Current
  <2>6. GateType'
    BY <2>1, <2>2, <2>4 DEF GateInv, GateType
  <2>7. GrantUnrevoked'
    BY <2>1, <2>2, <2>4, <2>5 DEF GateInv, GateType, GrantUnrevoked, Gate!GrantUnrevoked
  <2> QED
    BY <2>3, <2>6, <2>7, Zenon DEF GateInv
<1>4. ASSUME NEW ns \in {{n} : n \in Gate!Namespace} \cup {Gate!Namespace}, Gate!Revoke(ns)
      PROVE  GateInv'
  <2>1. /\ DOMAIN grants' \subseteq DOMAIN grants
        /\ \A p \in DOMAIN grants' : grants'[p] = grants[p] /\ Gate!NamespaceOf(p) \notin ns
    BY <1>4, Zenon DEF Gate!Revoke, Gate!Restrict
  <2>2. ns \subseteq Gate!Namespace
    BY Zenon
  <2>3. GateType'
    BY <1>4, <2>1, <2>2 DEF Gate!Revoke, GateInv, GateType
  <2>4. GrantUnrevoked'
    BY <1>4, <2>1 DEF Gate!Revoke, GateInv, GateType, GrantUnrevoked, Gate!GrantUnrevoked
  <2>5. \A t \in Request : Current(t)'
    BY <1>4 DEF Gate!Revoke, GateInv, GateType, Current
  <2> QED
    BY <2>3, <2>4, <2>5, Zenon DEF GateInv
<1>5. CASE Gate!Tick
  BY <1>5 DEF Gate!Tick, GateInv, GateType, GrantUnrevoked, Gate!GrantUnrevoked, Current
<1>6. CASE UNCHANGED Gate!vars
  BY <1>6, Zenon DEF Gate!vars, GateInv, GateType, GrantUnrevoked, Gate!GrantUnrevoked, Current
<1> QED
  BY <1>1, <1>2, <1>3, <1>4, <1>5, <1>6, Zenon DEF Gate!Next

\* The invariant holds throughout.
LEMMA GateInvariant == Gate!Spec => []GateInv
  BY GateInit, GateNext, PTL DEF Gate!Spec

\* Every grant that is kept was issued by a request that passed for its pair, and no
\* revocation of its namespace has come since that request asked.
THEOREM NoGrantOutlives == Gate!Spec => []GrantUnrevoked
<1>1. GateInv => GrantUnrevoked
  BY Zenon DEF GateInv
<1> QED
  BY <1>1, GateInvariant, PTL

\* A request that passed covers the pair with a grant that has not run out.
Covered(t) ==
    \E u \in Request : /\ pc[u] = "passed"
                       /\ pair[u] = pair[t]
                       /\ Gate!NamespaceOf(pair[t]) \notin lapsed[u]
                       /\ grants[pair[t]].by = u
                       /\ now < grants[pair[t]].at + GrantTtl

\* Nobody reuses an approval unless it was given for the pair, within the grant's time
\* and not revoked since.
THEOREM ReuseIsCovered == Gate!Spec => ReuseCovered
<1>1. ASSUME GateInv, Gate!Next, NEW t \in Request, pc[t] = "confirmed", pc'[t] = "reused"
      PROVE  Covered(t)
  <2>1. Gate!Reuse(t)
    BY <1>1, Zenon DEF Gate!Next, GateInv, GateType, Gate!Goto, Gate!CheckCredential, Gate!Reuse,
                       Gate!AskApproval, Gate!Approved, Gate!Denied, Gate!RecordGrant,
                       Gate!Revoke, Gate!Tick
  <2>2. pair[t] \in DOMAIN grants /\ now - grants[pair[t]].at < GrantTtl
    BY <2>1, PrunedGrants, Zenon DEF Gate!Reuse, Gate!Reusable
  <2> QED
    BY <1>1, <2>2, GateAssumption DEF GateInv, GateType, GrantUnrevoked, Gate!GrantUnrevoked, Covered
<1>2. GateInv /\ [Gate!Next]_(Gate!vars) =>
        [\A t \in Request : pc[t] = "confirmed" /\ pc'[t] = "reused" => Covered(t)]_(Gate!vars)
  BY <1>1, Zenon
<1>3. [\A t \in Request : pc[t] = "confirmed" /\ pc'[t] = "reused" => Covered(t)]_(Gate!vars)
        <=> [\A t \in Request : pc[t] = "confirmed" /\ pc'[t] = "reused" =>
          \E u \in Request : /\ pc[u] = "passed"
                             /\ pair[u] = pair[t]
                             /\ Gate!NamespaceOf(pair[t]) \notin lapsed[u]
                             /\ grants[pair[t]].by = u
                             /\ now < grants[pair[t]].at + GrantTtl]_(Gate!vars)
  BY Zenon DEF Covered
<1> QED
  BY <1>2, <1>3, GateInvariant, PTL DEF Gate!Spec, ReuseCovered, Gate!ReuseCovered

-----------------------------------------------------------------------------
(* StartControl.  The limit is checked when a request is admitted and the     *)
(* launch counted later; the invariant says that in between it holds the      *)
(* mutex, and that pruning never drops a launch which still counts.           *)

\* Where a request can be.
Where == {"new", "check", "resolving", "launching", "pending", "done", "failing",
          "handing off", "failed", "over"}

\* In these places it holds the mutex.
Holding == {"check", "resolving", "launching", "handing off", "failed"}

\* The requests that have launched.
Launched == {t \in Launcher : launches[t] # -1}

\* The launches that a request which is admitted now must count.
Recent == {t \in Launched : clock - launches[t] < Window}

StartType ==
    /\ clock \in Nat
    /\ at \in [Launcher -> Where]
    /\ launches \in [Launcher -> Int]
    /\ \A t \in Launched : launches[t] \in 0..clock
    /\ DOMAIN attempts \subseteq Launcher

\* No launch within the window is forgotten, and nobody launches twice.
Counted ==
    /\ \A t \in DOMAIN attempts : attempts[t] = launches[t]
    /\ Recent \subseteq DOMAIN attempts

\* A request that has been admitted holds the mutex until it launches, so nobody else
\* has launched since.
Admitted(t) ==
    /\ at[t] \in Holding => gate = t
    /\ at[t] \in {"new", "check", "resolving"} => launches[t] = -1
    /\ at[t] = "resolving" => Cardinality(Recent) < MaxAttempts

StartInv ==
    /\ StartType
    /\ Counted
    /\ \A t \in Launcher : Admitted(t)
    /\ LaunchesLimited

\* The instance counts with its own copy of Cardinality.
LEMMA SameCardinality == \A S : Start!Cardinality(S) = Cardinality(S)
<1> SUFFICES ASSUME NEW S PROVE Start!Cardinality(S) = Cardinality(S)
  BY Zenon
<1>1. Start!IsFiniteSet(S) <=> IsFiniteSet(S)
  BY Zenon DEF Start!IsFiniteSet, IsFiniteSet
<1> QED
  BY <1>1, Zenon DEF Start!Cardinality, Cardinality

\* Sets of requests are finite.
LEMMA SubsetCard ==
  ASSUME NEW S \in SUBSET Launcher, NEW T \in SUBSET S
  PROVE  /\ IsFiniteSet(S) /\ Cardinality(S) \in Nat
         /\ Cardinality(T) \in Nat /\ Cardinality(T) <= Cardinality(S)
  BY StartAssumption, FS_Subset, FS_CardinalityType, Zenon

\* The invariant holds at first.
LEMMA StartInit == Start!Init => StartInv
  BY StartAssumption
     DEF Start!Init, StartInv, StartType, Counted, Recent, Launched, Admitted, Where, Holding,
         LaunchesLimited, Start!LaunchesLimited

\* Pruning forgets no launch that is within the window.
LEMMA PrunedAttempts ==
  ASSUME StartType, Counted
  PROVE  /\ DOMAIN Start!Pruned \subseteq DOMAIN attempts
         /\ \A t \in DOMAIN Start!Pruned : Start!Pruned[t] = attempts[t]
         /\ Recent \subseteq DOMAIN Start!Pruned
  BY Zenon DEF StartType, Counted, Recent, Launched, Start!Pruned, Start!Restrict

\* A step of request t that launches nothing.
LEMMA NoLaunch ==
  ASSUME StartInv, NEW t \in Launcher, NEW to \in Where, Start!Goto(t, to),
         UNCHANGED <<clock, launches>>,
         UNCHANGED attempts \/ attempts' = Start!Pruned,
         \A u \in Launcher \ {t} : at[u] \in Holding => gate' = gate,
         to \in Holding => gate' = t,
         to \in {"new", "check", "resolving"} => launches[t] = -1,
         to = "resolving" => Cardinality(Recent) < MaxAttempts
  PROVE  StartInv'
<1>1. /\ at' \in [Launcher -> Where] /\ at'[t] = to
      /\ \A u \in Launcher \ {t} : at'[u] = at[u]
  BY Zenon DEF StartInv, StartType, Start!Goto
<1>2. Launched' = Launched /\ Recent' = Recent
  BY Zenon DEF Launched, Recent
<1>3. StartType' /\ Counted'
  BY <1>1, <1>2, PrunedAttempts, Zenon DEF StartInv, StartType, Counted
<1>4. \A u \in Launcher : Admitted(u)'
  BY <1>1, <1>2, Zenon DEF StartInv, Admitted
<1>5. LaunchesLimited'
  BY Zenon DEF StartInv, LaunchesLimited, Start!LaunchesLimited
<1> QED
  BY <1>3, <1>4, <1>5, Zenon DEF StartInv

\* A request is admitted with fewer launches in the window than the limit.
LEMMA AdmitStep ==
  ASSUME StartInv, NEW t \in Launcher, Start!Admit(t)
  PROVE  StartInv'
<1>1. Cardinality(Recent) < MaxAttempts
  <2>1. DOMAIN Start!Pruned \in SUBSET Launcher /\ Recent \in SUBSET DOMAIN Start!Pruned
    BY PrunedAttempts, Zenon DEF StartInv, StartType
  <2>2. Cardinality(DOMAIN Start!Pruned) < MaxAttempts
    BY <2>1, SubsetCard, SameCardinality, StartAssumption DEF Start!Admit, Start!Limited
  <2> QED
    BY <2>1, <2>2, SubsetCard, StartAssumption
<1> QED
  BY <1>1, NoLaunch, Zenon DEF Start!Admit, Where, Holding, StartInv, Admitted

\* The launch is counted in the step that makes it: the window that ends now has one
\* more launch than when the request was admitted, and earlier windows are as they were.
LEMMA LaunchStep ==
  ASSUME StartInv, NEW t \in Launcher, Start!Launch(t)
  PROVE  StartInv'
<1>1. /\ at[t] = "resolving" /\ gate = t /\ launches[t] = -1
      /\ Cardinality(Recent) < MaxAttempts
  BY Zenon DEF Start!Launch, StartInv, Admitted, Holding
<1>2. /\ at' \in [Launcher -> Where] /\ at'[t] = "launching"
      /\ \A u \in Launcher \ {t} : at'[u] = at[u]
      /\ launches' \in [Launcher -> Int] /\ launches'[t] = clock
      /\ \A u \in Launcher \ {t} : launches'[u] = launches[u]
      /\ UNCHANGED <<clock, gate>>
  <2>1. /\ at' = [at EXCEPT ![t] = "launching"] /\ launches' = [launches EXCEPT ![t] = clock]
        /\ UNCHANGED <<clock, gate>> /\ clock \in Nat
        /\ at \in [Launcher -> Where] /\ launches \in [Launcher -> Int]
    BY Zenon DEF Start!Launch, Start!Goto, StartInv, StartType
  <2>2. "launching" \in Where
    BY Zenon DEF Where
  <2>3. /\ at' \in [Launcher -> Where] /\ at'[t] = "launching"
        /\ \A u \in Launcher \ {t} : at'[u] = at[u]
    BY <2>1, <2>2, Zenon
  <2>4. /\ launches' \in [Launcher -> Int] /\ launches'[t] = clock
        /\ \A u \in Launcher \ {t} : launches'[u] = launches[u]
    BY <2>1, <2>2
  <2> QED
    BY <2>1, <2>3, <2>4, Zenon
<1>3. /\ Launched' = Launched \cup {t} /\ t \notin Launched
      /\ Recent' \subseteq Recent \cup {t} /\ t \notin Recent
  BY <1>1, <1>2 DEF StartInv, StartType, Launched, Recent
<1>4. DOMAIN attempts' = DOMAIN Start!Pruned \cup {t}
      /\ \A u \in DOMAIN attempts' : attempts'[u] = IF u = t THEN clock ELSE attempts[u]
  BY Zenon DEF Start!Launch, Start!RecordAttempt
<1>5. StartType'
  <2>1. clock \in Nat /\ \A u \in Launched : launches[u] \in 0..clock
    BY Zenon DEF StartInv, StartType
  <2>2. \A u \in Launched' : launches'[u] \in 0..clock
    BY <1>2, <1>3, <2>1 DEF Launched
  <2>3. DOMAIN attempts' \subseteq Launcher
    BY <1>4, PrunedAttempts, Zenon DEF StartInv, StartType
  <2> QED
    BY <1>2, <2>1, <2>2, <2>3, Zenon DEF StartType
<1>6. Counted'
  <2>1. /\ DOMAIN Start!Pruned \subseteq Launcher
        /\ \A u \in DOMAIN Start!Pruned : attempts[u] = launches[u]
        /\ Recent \subseteq DOMAIN Start!Pruned
    BY PrunedAttempts, Zenon DEF StartInv, StartType, Counted
  <2> QED
    BY <1>2, <1>3, <1>4, <2>1, Zenon DEF Counted
<1>7. ASSUME NEW u \in Launcher PROVE Admitted(u)'
  <2>1. CASE u = t
    BY <1>1, <1>2, <2>1, Zenon DEF Admitted
  <2>2. CASE u # t
    <3>1. at[u] \notin Holding
      BY <1>1, <2>2, Zenon DEF StartInv, Admitted
    <3> QED
      BY <1>2, <2>2, <3>1, Zenon DEF StartInv, Admitted, Holding
  <2> QED
    BY <2>1, <2>2, Zenon
<1>8. ASSUME NEW u \in Launched'
      PROVE  Cardinality({v \in Launcher : launches'[v] # -1
                /\ launches'[v] \in (launches'[u] - Window + 1)..launches'[u]}) <= MaxAttempts
  <2> DEFINE W == {v \in Launcher : launches'[v] # -1
                /\ launches'[v] \in (launches'[u] - Window + 1)..launches'[u]}
  <2>1. CASE launches'[u] = clock
    <3>1. W \subseteq Recent \cup {t}
      BY <1>2, <2>1, StartAssumption DEF Recent, Launched, StartInv, StartType
    <3>2. Recent \in SUBSET Launcher /\ Recent \cup {t} \in SUBSET Launcher
      BY Zenon DEF Recent, Launched
    <3>3. IsFiniteSet(Recent) /\ Cardinality(Recent) \in Nat
      BY <3>2, SubsetCard, Zenon
    <3>4. Cardinality(Recent \cup {t}) = Cardinality(Recent) + 1
      BY <1>3, <3>3, FS_AddElement, Zenon
    <3> HIDE DEF W
    <3>5. Cardinality(W) <= Cardinality(Recent) + 1 /\ Cardinality(W) \in Nat
      BY <3>1, <3>2, <3>4, SubsetCard, Zenon
    <3> QED
      BY <1>1, <3>3, <3>5, StartAssumption DEF W
  <2>2. CASE launches'[u] # clock
    <3>1. u \in Launched /\ launches'[u] = launches[u] /\ launches[u] \in 0..clock
      BY <1>2, <1>3, <2>2, Zenon DEF Launched, StartInv, StartType
    <3>2. W = {v \in Launcher : launches[v] # -1
                /\ launches[v] \in (launches[u] - Window + 1)..launches[u]}
      BY <1>1, <1>2, <2>2, <3>1, StartAssumption DEF StartInv, StartType
    <3> QED
      BY <3>1, <3>2, SameCardinality, Zenon DEF StartInv, LaunchesLimited, Start!LaunchesLimited,
                                         Launched
  <2> QED
    BY <2>1, <2>2, Zenon
<1>9. LaunchesLimited'
  BY <1>8, SameCardinality, Zenon DEF LaunchesLimited, Start!LaunchesLimited, Launched
<1> QED
  BY <1>5, <1>6, <1>7, <1>9, Zenon DEF StartInv

\* As time passes, launches leave the window.
LEMMA TickStep ==
  ASSUME StartInv, Start!Tick
  PROVE  StartInv'
<1>1. Launched' = Launched /\ clock \in Nat /\ clock' = clock + 1
  BY Zenon DEF Start!Tick, Launched, StartInv, StartType
<1>2. Recent' \subseteq Recent
  BY <1>1, StartAssumption DEF Start!Tick, Launched, Recent, StartInv, StartType
<1>3. StartType' /\ Counted'
  BY <1>1, <1>2 DEF Start!Tick, StartInv, StartType, Counted
<1>4. Cardinality(Recent') <= Cardinality(Recent)
      /\ Cardinality(Recent') \in Nat /\ Cardinality(Recent) \in Nat
  BY <1>2, SubsetCard, Zenon DEF Recent, Launched
<1>5. \A t \in Launcher : Admitted(t)'
  BY <1>4, StartAssumption DEF Start!Tick, StartInv, Admitted
<1>6. LaunchesLimited'
  BY Zenon DEF Start!Tick, StartInv, LaunchesLimited, Start!LaunchesLimited
<1> QED
  BY <1>3, <1>5, <1>6, Zenon DEF StartInv

\* Every step keeps the invariant.
LEMMA StartNext == StartInv /\ [Start!Next]_Start!vars => StartInv'
<1> SUFFICES ASSUME StartInv, [Start!Next]_Start!vars PROVE StartInv'
  OBVIOUS
<1>1. ASSUME NEW t \in Launcher, Start!Lock(t) PROVE StartInv'
  <2>1. /\ gate = NoOne /\ gate' = t /\ \A u \in Launcher : at[u] \notin Holding
    BY <1>1, StartAssumption, Zenon DEF Start!Lock, StartInv, Admitted
  <2>2. PICK to \in {"check", "handing off", "failed"} :
            Start!Goto(t, to) /\ (to = "check" => at[t] = "new")
    BY <1>1, Zenon DEF Start!Lock
  <2>3. UNCHANGED <<clock, launches, attempts>>
    BY <1>1, Zenon DEF Start!Lock
  <2>4. to = "check" => launches[t] = -1
    BY <2>2, Zenon DEF StartInv, Admitted
  <2> QED
    BY <2>1, <2>2, <2>3, <2>4, NoLaunch, Zenon DEF Where, Holding
<1>2. ASSUME NEW t \in Launcher,
             \/ Start!RateLimit(t) \/ Start!Unresolved(t) \/ Start!LaunchFails(t)
             \/ Start!LaunchOk(t) \/ Start!HandOff(t) \/ Start!RecordEnd(t) \/ Start!Settle(t)
      PROVE  StartInv'
  <2>1. /\ UNCHANGED <<clock, launches>>
        /\ UNCHANGED attempts \/ attempts' = Start!Pruned
    BY <1>2, Zenon DEF Start!RateLimit, Start!Unresolved, Start!LaunchFails, Start!LaunchOk,
                Start!HandOff, Start!RecordEnd, Start!Settle
  <2>2. PICK to \in {"over", "pending", "handing off", "done", "failing"} :
            /\ Start!Goto(t, to)
            /\ to = "handing off" => UNCHANGED gate /\ at[t] = "launching"
    BY <1>2, Zenon DEF Start!RateLimit, Start!Unresolved, Start!LaunchFails, Start!LaunchOk,
                Start!HandOff, Start!RecordEnd, Start!Settle
  <2>3. UNCHANGED gate \/ (gate = t /\ gate' = NoOne)
    BY <1>2, Zenon DEF Start!RateLimit, Start!Unresolved, Start!LaunchFails, Start!LaunchOk,
                Start!HandOff, Start!RecordEnd, Start!Settle, Start!Drop
  <2>4. \A u \in Launcher \ {t} : at[u] \in Holding => gate' = gate
    BY <2>3, Zenon DEF StartInv, Admitted
  <2>5. to \in Holding => gate' = t
    BY <2>2, Zenon DEF StartInv, Admitted, Holding
  <2> QED
    BY <2>1, <2>2, <2>4, <2>5, NoLaunch, Zenon DEF Where
<1>3. CASE UNCHANGED Start!vars
  BY <1>3, Zenon DEF Start!vars, StartInv, StartType, Counted, Recent, Launched, Admitted,
              LaunchesLimited, Start!LaunchesLimited
<1> QED
  BY <1>1, <1>2, <1>3, AdmitStep, LaunchStep, TickStep, Zenon DEF Start!Next

\* However requests of all kinds interleave, no window sees more launches than the limit.
THEOREM LimitKept == Start!Spec => []LaunchesLimited
<1>1. StartInv => LaunchesLimited
  BY Zenon DEF StartInv
<1> QED
  BY <1>1, StartInit, StartNext, PTL DEF Start!Spec

-----------------------------------------------------------------------------
(* Ancestry.  The walk is a recursive function; that its last round is sound  *)
(* goes by the first round that were not.                                     *)

\* Every nonempty set of numbers has a least one.  Induction over the rounds of a walk
\* looks at the first round that goes wrong.
LEMMA LeastNumber ==
  ASSUME NEW T \in SUBSET Nat, T # {}
  PROVE  \E x \in T : \A y \in T : x <= y
<1> DEFINE R == {ss \in Nat \X Nat : ss[1] < ss[2]}
<1>1. IsWellFoundedOn(R, Nat)
  BY NatLessThanWellFounded, Zenon DEF OpToRel
<1>2. \E x \in T : \A y \in T : ~(<<y, x>> \in R)
  BY <1>1, WFMin, Zenon
<1>3. PICK x \in T : \A y \in T : ~(<<y, x>> \in R)
  BY <1>2, Zenon
<1>4. \A y \in T : ~(y < x)
  BY <1>3, Zenon
<1> QED
  BY <1>4

\* Ids, with 0 for none, and processes.
Pids == Pid \cup {0}
Proc == [ppid : Pids, wsl : BOOLEAN, born : Nat, line : SUBSET Nat]

\* In a table of processes, a parent that is not younger than its child is the one
\* that the child descends from.
Descent(ps) ==
    \A p \in Pid : ps[p] # Client!None =>
        LET q == ps[p].ppid
        IN  /\ ps[p].born # 0 /\ ps[p].born \in ps[p].line
            /\ q # 0 /\ ps[q] # Client!None /\ ps[q].born <= ps[p].born =>
                   ps[q].line \subseteq ps[p].line

ClientType ==
    /\ procs \in [Pid -> Proc] /\ table \in [Pid -> Proc]
    /\ born \in Nat /\ \A p \in Pid : procs[p].born <= born /\ table[p].born <= born
    /\ times \in [Pid -> Nat]
    /\ client \in Pids

\* While the times are read, an id of the snapshot has the same process, none, or a
\* younger one, so that no time which is read is earlier than the snapshot's process.
TimesTrue ==
    \A p \in Pid : table[p] # Client!None =>
        /\ phase = "times" => procs[p] = Client!None \/ table[p].born <= procs[p].born
        /\ times[p] # 0 => table[p].born <= times[p]

ClientInv ==
    /\ ClientType
    /\ Descent(procs) /\ Descent(table)
    /\ phase = "run" => times = Client!NoTimes
    /\ TimesTrue
    /\ ChainGenuine

\* The time of a chain's process was read, and those below it kept their ids.
Known(chain, i) == times[chain[i]] # 0 /\ \A j \in 1..(i - 1) : Client!Kept(chain[j])

\* What a walk from the client finds: its chain begins with the client, and as long as
\* the times are known, what it comes by are the client's ancestors.
Sound(w) ==
    /\ w.chain \in Seq(Pid) /\ w.chain # << >> /\ w.chain[1] = client
    /\ \A i \in 1..Len(w.chain) :
        /\ table[w.chain[i]] # Client!None
        /\ Known(w.chain, i) => table[w.chain[i]].line \subseteq table[client].line

WalkType ==
    [chain : Seq(Pid),
     end : {"none", "root", "cycle", "parent_missing", "creation_time_reversed"}]

\* A round adds a parent whose time is not later than its child's, or ends the walk.
LEMMA RoundSound ==
  ASSUME ClientInv, NEW w \in WalkType, Sound(w)
  PROVE  /\ Client!Round(w) \in WalkType /\ Sound(Client!Round(w))
         /\ Client!Round(w).end = "none" =>
                w.end = "none" /\ Len(Client!Round(w).chain) = Len(w.chain) + 1
<1> DEFINE n == Len(w.chain)
           p == w.chain[n]
           q == table[p].ppid
           v == [w EXCEPT !.chain = Append(@, q)]
<1>1. n \in Nat \ {0} /\ p \in Pid /\ q \in Pids
  BY DEF Sound, ClientInv, ClientType, Proc, WalkType
<1>2. ASSUME NEW why \in {"root", "cycle", "parent_missing", "creation_time_reversed"}
      PROVE  /\ [w EXCEPT !.end = why] \in WalkType
             /\ [w EXCEPT !.end = why].chain = w.chain /\ [w EXCEPT !.end = why].end # "none"
  BY Zenon DEF WalkType
<1>3. ASSUME NEW x, x.chain = w.chain PROVE Sound(x)
  BY <1>3, Zenon DEF Sound
<1>4. ASSUME q \in Pid, table[q] # Client!None, ~Client!Reversed(p, q)
      PROVE  v \in WalkType /\ Sound(v) /\ v.end = w.end /\ Len(v.chain) = n + 1
  <2>1. /\ v \in WalkType /\ v.chain = Append(w.chain, q) /\ w.chain \in Seq(Pid)
        /\ v.end = w.end
    BY <1>4 DEF WalkType
  <2>2. /\ v.chain \in Seq(Pid) /\ Len(v.chain) = n + 1 /\ v.chain[n + 1] = q
        /\ \A i \in 1..n : v.chain[i] = w.chain[i]
    BY <1>4, <2>1
  <2> HIDE DEF v
  <2>3. ASSUME Known(v.chain, n + 1)
        PROVE  table[q].line \subseteq table[client].line
    <3>1. /\ times[q] # 0 /\ Client!Kept(p)
          /\ \A j \in 1..(n - 1) : Client!Kept(w.chain[j])
      <4>1. times[q] # 0 /\ \A j \in 1..n : Client!Kept(v.chain[j])
        BY <1>1, <2>2, <2>3 DEF Known
      <4>2. n \in 1..n /\ \A j \in 1..(n - 1) : j \in 1..n
        BY <1>1
      <4> QED
        BY <2>2, <4>1, <4>2, Zenon
    <3>2. table[p] # Client!None
      BY <1>1 DEF Sound
    <3>3. times[p] = table[p].born /\ times[p] # 0
      BY <1>1, <3>1, <3>2, Zenon DEF Client!Kept, ClientInv, Descent
    <3>4. table[p].line \subseteq table[client].line
      <4>1. Known(w.chain, n)
        BY <3>1, <3>3, Zenon DEF Known
      <4>2. n \in 1..Len(w.chain)
        BY <1>1
      <4> QED
        BY <4>1, <4>2, Zenon DEF Sound
    <3>5. table[q].born <= table[p].born
      <4>1. times[q] \in Nat /\ times[p] \in Nat /\ table[q].born \in Nat
        BY <1>1, <1>4, Zenon DEF ClientInv, ClientType, Proc
      <4>2. ~(times[q] > times[p])
        BY <1>4, <3>1, <3>3, Zenon DEF Client!Reversed
      <4>3. table[q].born <= times[q]
        BY <1>4, <3>1, Zenon DEF ClientInv, TimesTrue
      <4>4. \A x, y, z \in Nat : ~(x > y) /\ z <= x => z <= y
        OBVIOUS
      <4> QED
        BY <3>3, <4>1, <4>2, <4>3, <4>4, Zenon
    <3>6. table[q].line \subseteq table[p].line
      BY <1>1, <1>4, <3>2, <3>5, ClientAssumption, Zenon DEF ClientInv, Descent
    <3> QED
      BY <3>4, <3>6, Zenon
  <2>4. ASSUME NEW i \in 1..(n + 1)
        PROVE  /\ table[v.chain[i]] # Client!None
               /\ Known(v.chain, i) => table[v.chain[i]].line \subseteq table[client].line
    <3>1. CASE i = n + 1
      <4>1. v.chain[i] = q
        BY <2>2, <3>1, Zenon
      <4> QED
        BY <1>4, <2>3, <3>1, <4>1, Zenon
    <3>2. CASE i \in 1..n
      <4>1. v.chain[i] = w.chain[i] /\ \A j \in 1..(i - 1) : v.chain[j] = w.chain[j]
        BY <1>1, <2>2, <3>2
      <4>2. /\ table[w.chain[i]] # Client!None
            /\ Known(w.chain, i) => table[w.chain[i]].line \subseteq table[client].line
        BY <3>2, Zenon DEF Sound
      <4> QED
        BY <4>1, <4>2, Zenon DEF Known
    <3> QED
      BY <1>1, <3>1, <3>2
  <2>5. v.chain # << >> /\ v.chain[1] = client
    BY <1>1, <2>2 DEF Sound
  <2> QED
    BY <2>1, <2>2, <2>4, <2>5, Zenon DEF Sound
<1> HIDE DEF v
<1>5. \/ Client!Round(w) = w /\ w.end # "none"
      \/ \E why \in {"root", "cycle", "parent_missing", "creation_time_reversed"} :
            Client!Round(w) = [w EXCEPT !.end = why]
      \/ Client!Round(w) = v /\ q \in Pid /\ table[q] # Client!None /\ ~Client!Reversed(p, q)
  BY <1>1, Zenon DEF Client!Round, v, Pids
<1> QED
  BY <1>2, <1>3, <1>4, <1>5, Zenon

\* The walk's recursive function, of k rounds.
FirstRound(c) == [chain |-> <<c>>, end |-> "none"]
IsRounds(f, c, k) ==
    f = [n \in 0..k |-> IF n = 0 THEN FirstRound(c) ELSE Client!Round(f[n - 1])]
Rounds(c) == CHOOSE f : IsRounds(f, c, MaxDepth + 1)

\* What Walk makes of it.
LEMMA WalkRounds ==
  ASSUME NEW c
  PROVE  Client!Walk(c) =
         IF c = 0 \/ table[c] = Client!None
         THEN [chain |-> << >>, end |-> "client_missing"]
         ELSE IF Rounds(c)[MaxDepth + 1].end = "none"
              THEN [chain |-> SubSeq(Rounds(c)[MaxDepth + 1].chain, 1, MaxDepth + 1),
                    end |-> "depth_limit"]
              ELSE Rounds(c)[MaxDepth + 1]
  BY Zenon DEF Client!Walk, Rounds, IsRounds, FirstRound

\* The recursion defines a function, for any number of rounds.
LEMMA RoundsExist ==
  ASSUME NEW c, NEW k \in Nat
  PROVE  \E f : IsRounds(f, c, k)
<1> DEFINE Bad == {m \in Nat : ~\E f : IsRounds(f, c, m)}
<1> SUFFICES ASSUME Bad # {} PROVE FALSE
  BY Zenon
<1>1. PICK m \in Bad : \A y \in Bad : m <= y
  BY LeastNumber, Zenon
<1>2. CASE m = 0
  <2> DEFINE g == [n \in 0..0 |-> FirstRound(c)]
  <2>1. IsRounds(g, c, 0)
    BY DEF IsRounds
  <2> QED
    BY <1>2, <2>1, Zenon
<1>3. CASE m # 0
  <2>1. m - 1 \in Nat /\ m - 1 \notin Bad /\ m \in Nat
    BY <1>1, <1>3
  <2>2. PICK f : IsRounds(f, c, m - 1)
    BY <2>1, Zenon
  <2> DEFINE g == [n \in 0..m |-> IF n = 0 THEN FirstRound(c) ELSE Client!Round(f[n - 1])]
  <2>3. \A n \in 0..(m - 1) : g[n] = f[n]
    <3> SUFFICES ASSUME NEW n \in 0..(m - 1) PROVE g[n] = f[n]
      BY Zenon
    <3>1. f[n] = IF n = 0 THEN FirstRound(c) ELSE Client!Round(f[n - 1])
      BY <2>1, <2>2, Zenon DEF IsRounds
    <3>2. g[n] = IF n = 0 THEN FirstRound(c) ELSE Client!Round(f[n - 1])
      BY <2>1
    <3> QED
      BY <3>1, <3>2, Zenon
  <2>4. \A n \in 0..m : n # 0 => n - 1 \in 0..(m - 1)
    BY <2>1
  <2>5. \A n \in 0..m : g[n] = IF n = 0 THEN FirstRound(c) ELSE Client!Round(g[n - 1])
    BY <2>3, <2>4, Zenon
  <2>6. IsRounds(g, c, m)
    BY <2>5, Zenon DEF IsRounds
  <2> QED
    BY <2>6, Zenon
<1> QED
  BY <1>2, <1>3, Zenon

\* After all rounds the walk is still sound, and as long as the rounds.
LEMMA RoundsSound ==
  ASSUME ClientInv, client \in Pid, table[client] # Client!None
  PROVE  LET w == Rounds(client)[MaxDepth + 1]
         IN  w \in WalkType /\ Sound(w) /\ (w.end = "none" => Len(w.chain) = MaxDepth + 2)
<1> DEFINE f == Rounds(client)
           Good(n) == /\ f[n] \in WalkType /\ Sound(f[n])
                      /\ f[n].end = "none" => Len(f[n].chain) = n + 1
           Bad == {n \in 0..(MaxDepth + 1) : ~Good(n)}
<1>1. IsRounds(f, client, MaxDepth + 1)
  BY RoundsExist, ClientAssumption DEF Rounds
<1> HIDE DEF f
<1>2. f[0] = FirstRound(client)
  BY <1>1, ClientAssumption DEF IsRounds
<1>3. \A n \in 1..(MaxDepth + 1) : f[n] = Client!Round(f[n - 1])
  BY <1>1, ClientAssumption DEF IsRounds
<1> SUFFICES ASSUME Bad # {} PROVE FALSE
  <2>1. MaxDepth + 1 \in 0..(MaxDepth + 1) /\ MaxDepth + 1 + 1 = MaxDepth + 2
    BY ClientAssumption
  <2>2. Bad = {} => Good(MaxDepth + 1)
    BY <2>1, Zenon
  <2> QED
    BY <2>1, <2>2, Zenon DEF f
<1>4. PICK m \in Bad : \A y \in Bad : m <= y
  <2>1. Bad \in SUBSET Nat
    BY ClientAssumption
  <2> HIDE DEF Bad
  <2> QED
    BY <2>1, LeastNumber, Zenon
<1>5. CASE m = 0
  <2>1. <<client>> \in Seq(Pid) /\ Len(<<client>>) = 1 /\ <<client>>[1] = client
    OBVIOUS
  <2>2. FirstRound(client) \in WalkType /\ FirstRound(client).chain = <<client>>
    BY <2>1, Zenon DEF FirstRound, WalkType
  <2>3. Sound(FirstRound(client))
    <3> DEFINE w == FirstRound(client)
    <3>1. w.chain \in Seq(Pid) /\ w.chain # << >> /\ w.chain[1] = client /\ Len(w.chain) = 1
      BY <2>1, <2>2
    <3> HIDE DEF w
    <3>2. \A i \in 1..Len(w.chain) : w.chain[i] = client
      BY <3>1
    <3>3. Sound(w)
      BY <3>1, <3>2, Zenon DEF Sound
    <3> QED
      BY <3>3, Zenon DEF w
  <2>4. Good(0)
    BY <1>2, <2>1, <2>2, <2>3
  <2> QED
    BY <1>5, <2>4, Zenon
<1>6. CASE m # 0
  <2>1. m - 1 \in 0..(MaxDepth + 1) /\ m - 1 \notin Bad /\ m \in 1..(MaxDepth + 1)
    BY <1>4, <1>6, ClientAssumption
  <2>2. Good(m - 1)
    BY <2>1, Zenon
  <2>3. Good(m)
    BY <1>3, <2>1, <2>2, RoundSound
  <2> QED
    BY <2>3, Zenon
<1> QED
  BY <1>5, <1>6, Zenon

\* Every process on the chain whose times are known is the client or its ancestor.
LEMMA WalkSound ==
  ASSUME ClientInv
  PROVE  LET w == Client!Walk(client) IN
         \A i \in DOMAIN w.chain :
            Known(w.chain, i) => table[w.chain[i]].born \in table[client].line
<1> DEFINE w == Client!Walk(client)
           r == Rounds(client)[MaxDepth + 1]
<1>1. CASE client = 0 \/ table[client] = Client!None
  <2>1. w.chain = << >>
    BY <1>1, WalkRounds, Zenon
  <2> QED
    BY <2>1
<1>2. CASE client # 0 /\ table[client] # Client!None
  <2>1. client \in Pid
    BY <1>2, Zenon DEF ClientInv, ClientType, Pids
  <2>2. r \in WalkType /\ Sound(r) /\ (r.end = "none" => Len(r.chain) = MaxDepth + 2)
    BY <1>2, <2>1, RoundsSound, Zenon
  <2>3. IF r.end = "none" THEN w.chain = SubSeq(r.chain, 1, MaxDepth + 1) ELSE w.chain = r.chain
    BY <1>2, WalkRounds, Zenon
  <2> HIDE DEF w, r
  <2>4. /\ r.chain \in Seq(Pid) 
        /\ \A i \in DOMAIN w.chain :
              i \in 1..Len(r.chain) /\ 1..(i - 1) \subseteq DOMAIN w.chain
        /\ \A i \in DOMAIN w.chain : w.chain[i] = r.chain[i]
    <3>1. r.chain \in Seq(Pid)
      BY <2>2, Zenon DEF Sound
    <3>2. CASE r.end = "none"
      <4>1. Len(r.chain) = MaxDepth + 2 /\ w.chain = SubSeq(r.chain, 1, MaxDepth + 1)
        BY <2>2, <2>3, <3>2, Zenon
      <4> QED
        BY <3>1, <4>1, ClientAssumption
    <3>3. CASE r.end # "none"
      BY <2>3, <3>1, <3>3
    <3> QED
      BY <3>2, <3>3, <3>1, Zenon
  <2>5. ASSUME NEW i \in DOMAIN w.chain, Known(w.chain, i)
        PROVE  table[w.chain[i]].born \in table[client].line
    <3>1. i \in 1..Len(r.chain) /\ w.chain[i] = r.chain[i]
      BY <2>4, Zenon
    <3>2. \A j \in 1..(i - 1) : j \in DOMAIN w.chain
      BY <2>4, Zenon
    <3>3. Known(r.chain, i)
      BY <2>4, <2>5, <3>2, Zenon DEF Known
    <3>4. r.chain[i] \in Pid /\ table[r.chain[i]] # Client!None
      BY <2>2, <2>4, <3>1 DEF Sound
    <3>5. table[r.chain[i]].line \subseteq table[client].line
      BY <2>2, <3>1, <3>3, Zenon DEF Sound
    <3> QED
      BY <3>1, <3>4, <3>5, Zenon DEF ClientInv, Descent
  <2> QED
    BY <2>5, Zenon DEF w
<1> QED
  BY <1>1, <1>2, Zenon DEF ClientInv, ClientType

\* The invariant holds at first.
LEMMA ClientInit == Client!Init => ClientInv
<1> SUFFICES ASSUME Client!Init PROVE ClientInv
  BY Zenon
<1>1. Client!None \in Proc /\ Client!None.born = 0
  BY Zenon DEF Client!None, Proc, Pids
<1>2. ClientType
  <2>1. /\ procs \in [Pid -> Proc] /\ table \in [Pid -> Proc] /\ times \in [Pid -> Nat]
        /\ \A p \in Pid : procs[p].born = 0 /\ table[p].born = 0
    BY <1>1, Zenon DEF Client!Init, Client!NoTimes
  <2>2. born = 0 /\ client \in Pids
    BY Zenon DEF Client!Init, Pids
  <2>3. born \in Nat /\ \A p \in Pid : procs[p].born <= born /\ table[p].born <= born
    BY <2>1, <2>2
  <2> QED
    BY <2>1, <2>2, <2>3, Zenon DEF ClientType
<1>3. Descent(procs) /\ Descent(table)
  BY Zenon DEF Client!Init, Descent
<1> QED
  BY <1>2, <1>3, Zenon DEF Client!Init, ClientInv, TimesTrue, ChainGenuine, Client!ChainGenuine, Client!Kept

\* A process starts or exits.
LEMMA ProcessStep ==
  ASSUME ClientInv, NEW p \in Pid, NEW x \in Proc, procs' = [procs EXCEPT ![p] = x],
         Descent(procs)', born' \in Nat, born <= born', x.born <= born',
         x = Client!None \/ table[p].born <= x.born,
         phase # "done", UNCHANGED <<table, times, unread, client, phase, verdict>>
  PROVE  ClientInv'
<1>1. procs' \in [Pid -> Proc] /\ procs'[p] = x /\ \A r \in Pid \ {p} : procs'[r] = procs[r]
  BY Zenon DEF ClientInv, ClientType
<1>2. \A r \in Pid : procs'[r].born <= born' /\ table'[r].born <= born'
  <2> SUFFICES ASSUME NEW r \in Pid PROVE procs'[r].born <= born' /\ table[r].born <= born'
    BY Zenon
  <2>1. /\ procs[r].born \in Nat /\ procs[r].born <= born /\ born \in Nat
        /\ table[r].born \in Nat /\ table[r].born <= born
    BY Zenon DEF ClientInv, ClientType, Proc
  <2> QED
    BY <1>1, <2>1
<1>3. ClientType'
  BY <1>1, <1>2, Zenon DEF ClientInv, ClientType
<1>4. TimesTrue'
  BY <1>1, Zenon DEF ClientInv, ClientType, TimesTrue
<1>5. Descent(table)'
  BY Zenon DEF ClientInv, Descent
<1> QED
  BY <1>3, <1>4, <1>5, Zenon DEF ClientInv, ChainGenuine, Client!ChainGenuine, Client!Kept

\* A process that starts knows its true parent, and is younger than all others.
LEMMA StartProcess ==
  ASSUME ClientInv, NEW p \in Pid, NEW q \in Pids, Client!Start(p, q)
  PROVE  ClientInv'
<1> DEFINE x == Client!Process(q)
<1>1. /\ born \in Nat /\ born' = born + 1 /\ procs' = [procs EXCEPT ![p] = x]
      /\ procs[p] = Client!None /\ (q # 0 => q \in Pid /\ procs[q] # Client!None)
      /\ procs \in [Pid -> Proc]
  BY Zenon DEF Client!Start, ClientInv, ClientType, Pids
<1>2. /\ x.ppid = q /\ x.born = born + 1 /\ x.line \in SUBSET Nat /\ x.born \in x.line
      /\ x.wsl \in BOOLEAN /\ (q # 0 => procs[q].line \subseteq x.line)
  <2>1. /\ x.ppid = q /\ x.born = born + 1 /\ x.wsl \in BOOLEAN
        /\ x.line = {born + 1} \cup IF q = 0 THEN {} ELSE procs[q].line
    <3>1. x = [ppid |-> q, wsl |-> (born + 1 \in Wsl), born |-> born + 1,
               line |-> {born + 1} \cup IF q = 0 THEN {} ELSE procs[q].line]
      BY DEF Client!Process
    <3> HIDE DEF x
    <3> QED
      BY <3>1
  <2>2. q # 0 => procs[q].line \in SUBSET Nat
    BY <1>1, Zenon DEF Proc
  <2> QED
    BY <1>1, <2>1, <2>2
<1>3. x \in Proc
  BY <1>1, <1>2, Zenon DEF Client!Process, Proc
<1> HIDE DEF x
<1>4. procs'[p] = x /\ \A r \in Pid \ {p} : procs'[r] = procs[r]
  BY <1>1, Zenon
<1>5. Descent(procs)'
  <2> SUFFICES ASSUME NEW r \in Pid, procs'[r] # Client!None
               PROVE  LET s == procs'[r].ppid
                      IN  /\ procs'[r].born # 0 /\ procs'[r].born \in procs'[r].line
                          /\ s # 0 /\ procs'[s] # Client!None
                                 /\ procs'[s].born <= procs'[r].born =>
                                 procs'[s].line \subseteq procs'[r].line
    BY Zenon DEF Descent
  <2>1. CASE r = p
    <3>1. procs'[r].born # 0 /\ procs'[r].born \in procs'[r].line
      BY <1>1, <1>2, <1>4, <2>1
    <3>2. q # 0 => q # p /\ procs'[q] = procs[q]
      BY <1>1, <1>4, Zenon
    <3> QED
      BY <1>2, <1>4, <2>1, <3>1, <3>2, Zenon
  <2>2. CASE r # p
    <3>1. /\ procs'[r] = procs[r] /\ procs[r].born \in Nat /\ procs[r].born <= born
          /\ procs[r].ppid \in Pids
      BY <1>4, <2>2, Zenon DEF ClientInv, ClientType, Proc
    <3>2. ~(procs'[p].born <= procs'[r].born)
      BY <1>1, <1>2, <1>4, <3>1
    <3>3. \A s \in Pid : procs'[s] = procs[s] \/ s = p
      BY <1>4, Zenon
    <3>4. /\ procs[r].born # 0 /\ procs[r].born \in procs[r].line
          /\ \A s \in Pid : s = procs[r].ppid /\ s # 0 /\ procs[s] # Client!None
                               /\ procs[s].born <= procs[r].born =>
                               procs[s].line \subseteq procs[r].line
      BY <2>2, <3>1, Zenon DEF ClientInv, Descent
    <3> QED
      BY <3>1, <3>2, <3>3, <3>4, Zenon DEF Pids
  <2> QED
    BY <2>1, <2>2, Zenon
<1>6. table[p].born <= x.born
  <2>1. table[p].born \in Nat /\ table[p].born <= born
    BY Zenon DEF ClientInv, ClientType, Proc
  <2> QED
    BY <1>1, <1>2, <2>1
<1>7. /\ born' \in Nat /\ born <= born' /\ x.born <= born' /\ phase # "done"
      /\ UNCHANGED <<table, times, unread, client, phase, verdict>>
  BY <1>1, <1>2 DEF Client!Start, ClientInv, ClientType
<1> QED
  BY <1>1, <1>3, <1>5, <1>6, <1>7, ProcessStep, Zenon

\* A process exits, and its children stay.
LEMMA ExitProcess ==
  ASSUME ClientInv, NEW p \in Pid, Client!Exit(p)
  PROVE  ClientInv'
<1>1. Client!None \in Proc /\ Client!None.born = 0
  BY Zenon DEF Client!None, Proc, Pids
<1>2. /\ procs' = [procs EXCEPT ![p] = Client!None] /\ procs \in [Pid -> Proc]
      /\ born \in Nat /\ UNCHANGED <<born, table, times, unread, client, phase, verdict>>
      /\ phase # "done"
  BY Zenon DEF Client!Exit, ClientInv, ClientType
<1>3. procs'[p] = Client!None /\ \A r \in Pid \ {p} : procs'[r] = procs[r]
  BY <1>2, Zenon
<1>4. Descent(procs)'
  <2> SUFFICES ASSUME NEW r \in Pid, procs'[r] # Client!None
               PROVE  LET s == procs'[r].ppid
                      IN  /\ procs'[r].born # 0 /\ procs'[r].born \in procs'[r].line
                          /\ s # 0 /\ procs'[s] # Client!None
                                 /\ procs'[s].born <= procs'[r].born =>
                                 procs'[s].line \subseteq procs'[r].line
    BY Zenon DEF Descent
  <2>1. r # p /\ procs'[r] = procs[r] /\ procs[r].ppid \in Pids
    BY <1>3, Zenon DEF ClientInv, ClientType, Proc
  <2>2. \A s \in Pid : procs'[s] = procs[s] \/ procs'[s] = Client!None
    BY <1>3, Zenon
  <2>3. /\ procs[r].born # 0 /\ procs[r].born \in procs[r].line
        /\ \A s \in Pid : s = procs[r].ppid /\ s # 0 /\ procs[s] # Client!None
                             /\ procs[s].born <= procs[r].born =>
                             procs[s].line \subseteq procs[r].line
    BY <2>1, Zenon DEF ClientInv, Descent
  <2> QED
    BY <2>1, <2>2, <2>3, Zenon DEF Pids
<1>5. born' \in Nat /\ born <= born' /\ Client!None.born <= born'
  BY <1>1, <1>2
<1> QED
  BY <1>1, <1>2, <1>4, <1>5, ProcessStep, Zenon

\* Every step keeps the invariant.
LEMMA ClientNext == ClientInv /\ [Client!Next]_Client!vars => ClientInv'
<1> SUFFICES ASSUME ClientInv, [Client!Next]_Client!vars PROVE ClientInv'
  OBVIOUS
<1>1. ASSUME NEW c \in Candidate, Client!Snapshot(c) PROVE ClientInv'
  <2>1. /\ phase = "run" /\ times = Client!NoTimes /\ c \in Pids /\ client' = c
        /\ UNCHANGED <<procs, born, times>> /\ (table' = procs \/ UNCHANGED table)
        /\ phase' \in {"times", "walk", "done"}
    BY <1>1, ClientAssumption, Zenon DEF Client!Snapshot, ClientInv, Pids
  <2>2. \A p \in Pid : times'[p] = 0
    BY <2>1, Zenon DEF Client!NoTimes
  <2>3. ClientType'
    BY <2>1, Zenon DEF ClientInv, ClientType
  <2>4. Descent(procs)' /\ Descent(table)'
    BY <2>1, Zenon DEF ClientInv, Descent
  <2>5. phase' = "times" => table' = procs'
    BY <1>1, Zenon DEF Client!Snapshot
  <2>6. TimesTrue'
    <3>1. \A p \in Pid : procs[p].born \in Nat
      BY Zenon DEF ClientInv, ClientType, Proc
    <3>2. \A p \in Pid : procs[p].born <= procs[p].born
      BY <3>1
    <3> QED
      BY <2>1, <2>2, <2>5, <3>2, Zenon DEF TimesTrue
  <2>7. ChainGenuine'
    <3>1. phase' = "done" => verdict'.chain = << >>
      BY <1>1 DEF Client!Snapshot
    <3> QED
      BY <3>1 DEF ChainGenuine, Client!ChainGenuine, Client!Kept
  <2> QED
    BY <2>1, <2>3, <2>4, <2>6, <2>7, Zenon DEF ClientInv
<1>2. CASE Client!Wanted
  <2>1. /\ phase = "times" /\ phase' \in {"times", "walk"}
        /\ UNCHANGED <<procs, born, table, times, client, verdict>>
    BY <1>2, Zenon DEF Client!Wanted
  <2> QED
    BY <2>1, Zenon DEF ClientInv, ClientType, Descent, TimesTrue, ChainGenuine, Client!ChainGenuine, Client!Kept
<1>3. CASE Client!ReadTime
  <2> DEFINE p == Head(unread)
  <2>1. /\ phase = "times" /\ phase' \in {"times", "walk"}
        /\ UNCHANGED <<procs, born, table, client, verdict>>
        /\ \E t \in {0, procs[p].born} : times' = [times EXCEPT ![p] = t]
    BY <1>3, Zenon DEF Client!ReadTime
  <2>2. PICK t \in {0, procs[p].born} : times' = [times EXCEPT ![p] = t]
    BY <2>1, Zenon
  <2> HIDE DEF p
  <2>3. \A r \in Pid : times'[r] = IF r = p THEN t ELSE times[r]
    BY <2>2, Zenon DEF ClientInv, ClientType
  <2>4. times' \in [Pid -> Nat]
    <3>1. p \in Pid => t \in Nat
      BY <2>2 DEF ClientInv, ClientType, Proc
    <3> QED
      BY <2>2, <3>1, Zenon DEF ClientInv, ClientType
  <2>5. TimesTrue'
    <3>1. Client!None.born = 0
      BY Zenon DEF Client!None
    <3> QED
      BY <2>1, <2>2, <2>3, <3>1, Zenon DEF ClientInv, TimesTrue
  <2> QED
    BY <2>1, <2>4, <2>5, Zenon DEF ClientInv, ClientType, Descent, ChainGenuine, Client!ChainGenuine, Client!Kept
<1>4. CASE Client!Classify
  <2>1. /\ phase = "walk" /\ phase' = "done"
        /\ verdict'.chain = Client!Walk(client).chain
        /\ UNCHANGED <<procs, born, table, times, client>>
    BY <1>4, Zenon DEF Client!Classify
  <2>2. ClientType' /\ Descent(procs)' /\ Descent(table)' /\ TimesTrue'
    BY <2>1, Zenon DEF ClientInv, ClientType, Descent, TimesTrue
  <2>3. ChainGenuine'
    BY <2>1, WalkSound, Zenon DEF ChainGenuine, Client!ChainGenuine, Client!Kept, Known
  <2> QED
    BY <2>1, <2>2, <2>3, Zenon DEF ClientInv
<1>5. CASE UNCHANGED Client!vars
  <2>1. UNCHANGED <<procs, born, table, times, client, phase, verdict>>
    BY <1>5, Zenon DEF Client!vars
  <2>2. ClientType' /\ Descent(procs)' /\ Descent(table)' /\ TimesTrue'
    BY <2>1, Zenon DEF ClientInv, ClientType, Descent, TimesTrue
  <2>3. ChainGenuine' /\ (phase = "run" => times = Client!NoTimes)'
    BY <2>1, Zenon DEF ClientInv, ChainGenuine, Client!ChainGenuine, Client!Kept, Client!NoTimes
  <2> QED
    BY <2>2, <2>3, Zenon DEF ClientInv
<1> QED
  BY <1>1, <1>2, <1>3, <1>4, <1>5, StartProcess, ExitProcess, Zenon DEF Client!Next, Pids

\* Whatever starts and exits while the daemon looks, and however often ids are used
\* again: a process whose time was read decides over the client's origin only if the
\* client descends from it, unless one below it on the chain was gone before its own
\* time was read.
THEOREM NoStranger == Client!Spec => []ChainGenuine
<1>1. ClientInv => ChainGenuine
  BY Zenon DEF ClientInv
<1> QED
  BY <1>1, ClientInit, ClientNext, PTL DEF Client!Spec
=============================================================================
