--------------------------- MODULE SessionsProofs ---------------------------
(***************************************************************************)
(* Proofs about the session ledger, for any number of requests, keys and   *)
(* peers and any TTL and lifetime: the type invariant, the exactness of the*)
(* index of shared browsers, that no lease joins a browser past its        *)
(* deadline, and the life of a lease up to its one end.                    *)
(*                                                                         *)
(* First come the inductive invariant, the lemmas about the operators the  *)
(* ledger is changed with and what a step must keep for the requests that  *)
(* do not take it; then one lemma per step.                                *)
(*                                                                         *)
(* The index of shared browsers is exact because of the start control:     *)
(* whoever may still register a shared browser of a key holds the key's    *)
(* mutex, and found no shared browser of that key after it took the mutex. *)
(*                                                                         *)
(* The second part is about leases.  A session's lease is in the ledger or *)
(* in one teardown, never in both, and only after its request has          *)
(* returned; so whoever takes it out of the ledger is the only one to      *)
(* record its end.  The port table follows the leases, and with the last   *)
(* lease of a browser goes the duty to stop its executor.                  *)
(***************************************************************************)
EXTENDS Sessions, TLAPS

\* Where the handler of a login holds its start control.
Guarded == {"join", "leasing", "expire", "attach", "closing", "start",
            "writing", "starting", "handoff", "ports", "insert"}

\* Where it has looked up a shared browser.
Found == {"leasing", "expire", "attach"}

\* Where it is on the way to register a browser of its own.
Committed == {"closing", "start", "writing", "starting", "ports", "insert"}

Guards(t) ==
    pc[t] \in Guarded /\ req[t].kind # "service" => gate[StartKeyOf(req[t])] = t

\* Services and exclusive logins do not share.
Shares(t) ==
    /\ req[t].kind = "service" => req[t].exclusive
    /\ pc[t] \in {"join"} \cup Found => ~req[t].exclusive

\* The key's shared browser is still the one that was looked up, or gone.
StillFound(t) ==
    pc[t] \in Found =>
        /\ at[t] \in Task
        /\ pc[at[t]] = "done"
        /\ req[t].key \in DOMAIN shared => shared[req[t].key] = at[t]
        /\ pc[t] = "expire" /\ at[t] \in DOMAIN browsers =>
              browsers[at[t]].deadline <= now

NoneToShare(t) ==
    pc[t] \in Committed /\ ~req[t].exclusive => req[t].key \notin DOMAIN shared

TaskInv(t) == Guards(t) /\ Shares(t) /\ StillFound(t) /\ NoneToShare(t)

\* A browser is in the ledger only after its request has returned.
DoneInv == \A b \in DOMAIN browsers : pc[b] = "done"

IInv ==
    /\ TypeOK
    /\ SharedIndexExact
    /\ DoneInv
    /\ \A t \in Task : TaskInv(t)

-----------------------------------------------------------------------------
(* The ledger. *)

\* What every removal and every step that leaves the ledger alone have in
\* common.
Shrinks ==
    /\ DOMAIN browsers' \subseteq DOMAIN browsers
    /\ \A b \in DOMAIN browsers' : browsers'[b].deadline = browsers[b].deadline
    /\ DOMAIN shared' \subseteq DOMAIN shared
    /\ \A k \in DOMAIN shared' : shared'[k] = shared[k]

NoLeaseAdded ==
    \A b \in DOMAIN browsers \cap DOMAIN browsers' :
        DOMAIN browsers'[b].leases \subseteq LeasesOf(b)

LEMMA KeptShrinks == UNCHANGED ledger => Shrinks /\ NoLeaseAdded
  BY Zenon DEF ledger, Shrinks, NoLeaseAdded, LeasesOf

\* Remove, the common shape of take_browser_locked, disconnect and the reapers,
\* keeps the index exact, and a shared browser that loses all its leases takes
\* the index entry of its key with it.
LEMMA RemoveLedger ==
  ASSUME LedgerType, SharedIndexExact, NEW gone, Remove(gone)
  PROVE  /\ LedgerType'
         /\ SharedIndexExact'
         /\ Shrinks
         /\ NoLeaseAdded
         /\ \A b \in DOMAIN browsers :
               LeasesOf(b) \subseteq gone /\ ~browsers[b].exclusive =>
                   browsers[b].key \notin DOMAIN shared'
<1>1. /\ DOMAIN browsers' = DOMAIN browsers \ Emptied(gone)
      /\ \A b \in DOMAIN browsers' :
            /\ browsers'[b].key = browsers[b].key
            /\ browsers'[b].deadline = browsers[b].deadline
            /\ browsers'[b].exclusive = browsers[b].exclusive
            /\ browsers'[b].service = browsers[b].service
            /\ DOMAIN browsers'[b].leases = LeasesOf(b) \ gone
            /\ \A s \in LeasesOf(b) \ gone :
                  browsers'[b].leases[s] = browsers[b].leases[s]
  BY Zenon DEF Remove, WithLeases, Browser, Restrict
<1>2. /\ DOMAIN shared' = DOMAIN shared \ {browsers[b].key : b \in
                              {e \in Emptied(gone) : ~browsers[e].exclusive}}
      /\ \A k \in DOMAIN shared' : shared'[k] = shared[k]
  BY Zenon DEF Remove, Restrict
<1>3. /\ DOMAIN ports' \subseteq DOMAIN ports
      /\ \A s \in DOMAIN ports' : ports'[s] = ports[s]
  BY Zenon DEF Remove, Restrict
<1>4. LedgerType'
  BY <1>1, <1>2, <1>3 DEF LedgerType, LeasesOf
<1>5. Shrinks /\ NoLeaseAdded
  BY <1>1, <1>2, Zenon DEF Shrinks, NoLeaseAdded
<1>6. SharedIndexExact'
  BY <1>1, <1>2 DEF SharedIndexExact, Emptied
<1>7. \A b \in DOMAIN browsers :
          LeasesOf(b) \subseteq gone /\ ~browsers[b].exclusive =>
              browsers[b].key \notin DOMAIN shared'
  BY <1>2, Zenon DEF Emptied
<1> QED BY <1>4, <1>5, <1>6, <1>7, Zenon

\* A teardown names leases of the ledger.
LEMMA TeardownJob ==
  ASSUME LedgerType, NEW b \in DOMAIN browsers, NEW ss \in SUBSET LeasesOf(b),
         NEW stop \in BOOLEAN, NEW by \in Agent \cup Task
  PROVE  /\ Teardown(b, ss, stop, by) \in Job
         /\ [Teardown(b, ss, stop, by) EXCEPT !.phase = "audit"] \in Job
  BY Zenon DEF LedgerType, Teardown, Job

LEMMA TerminateLedger ==
  ASSUME LedgerType, SharedIndexExact, jobs \subseteq Job,
         NEW bs \in SUBSET DOMAIN browsers, NEW by \in Agent \cup Task,
         Terminate(bs, by)
  PROVE  /\ LedgerType'
         /\ SharedIndexExact'
         /\ Shrinks
         /\ NoLeaseAdded
         /\ jobs' \subseteq Job
         /\ \A b \in bs : ~browsers[b].exclusive =>
               browsers[b].key \notin DOMAIN shared'
<1>1. \A b \in bs : Teardown(b, LeasesOf(b), TRUE, by) \in Job
  BY TeardownJob, Zenon
<1>2. jobs' \subseteq Job
  BY <1>1, Zenon DEF Terminate
<1>3. Remove(UNION {LeasesOf(b) : b \in bs})
  BY Zenon DEF Terminate
<1>4. \A b \in bs : LeasesOf(b) \subseteq UNION {LeasesOf(c) : c \in bs}
  BY Zenon
<1> QED BY <1>2, <1>3, <1>4, RemoveLedger, Zenon

-----------------------------------------------------------------------------
(* Type correctness of the handlers' steps. *)

LEMMA Types == IInv => TypeOK /\ LedgerType /\ HandlerType /\ TeardownType
  BY Zenon DEF IInv, TypeOK

LEMMA KeptLedger == LedgerType /\ UNCHANGED ledger => LedgerType'
  BY Zenon DEF LedgerType, LeasesOf, ledger

LEMMA TimeTypes ==
  TypeOK => now \in Nat /\ \A b \in DOMAIN browsers : browsers[b].deadline \in Nat
  BY TimeAssumption DEF TypeOK, LedgerType, Horizon

LEMMA StartKeyType == \A t \in Task : HandlerType => StartKeyOf(req[t]) \in StartKey
  BY Zenon DEF HandlerType, StartKeyOf, StartKey

LEMMA LeaseExpiryType ==
  ASSUME now \in Nat, NEW d \in Nat
  PROVE  LeaseExpiry(d) \in Nat
  BY TimeAssumption DEF LeaseExpiry

LEMMA InitInv == Init => IInv
<1> SUFFICES ASSUME Init PROVE IInv
  BY Zenon
<1>1. AnyRequest \in Request
  BY RequestAssumption, Zenon DEF AnyRequest
<1>2. TypeOK
  BY <1>1, RequestAssumption, TimeAssumption
     DEF Init, TypeOK, LedgerType, HandlerType, TeardownType, StartKey, PC, Horizon
<1>3. SharedIndexExact /\ DoneInv
  BY DEF Init, SharedIndexExact, DoneInv
<1>4. \A t \in Task : Guards(t) /\ StillFound(t) /\ NoneToShare(t)
  BY Zenon DEF Init, Guards, StillFound, NoneToShare, Guarded, Found, Committed
<1>5. \A t \in Task : Shares(t)
  BY <1>1, RequestAssumption, Zenon DEF Init, Shares, Found
<1> QED BY <1>2, <1>3, <1>4, <1>5, Zenon DEF IInv, TaskInv

-----------------------------------------------------------------------------
(* Frames. *)

\* A step of request t that adds nothing to the ledger keeps what the other
\* requests rely on.
LEMMA OthersKept ==
  ASSUME IInv, HandlerType', Shrinks, now' = now, NEW t \in Task, pc[t] # "done",
         \A u \in Task \ {t} : pc'[u] = pc[u] /\ req'[u] = req[u] /\ at'[u] = at[u],
         \A k \in StartKey : gate'[k] = gate[k] \/ gate[k] \in {t, NoOne}
  PROVE  DoneInv' /\ \A u \in Task \ {t} : TaskInv(u)'
<1>1. DoneInv'
  BY Zenon DEF IInv, DoneInv, Shrinks, TypeOK, LedgerType
<1> SUFFICES ASSUME NEW u \in Task \ {t} PROVE TaskInv(u)'
  BY <1>1, Zenon
<1>2. TaskInv(u)
  BY Zenon DEF IInv
<1>3. Guards(u)'
  <2>1. StartKeyOf(req[u])' = StartKeyOf(req[u])
    BY Zenon DEF StartKeyOf
  <2>2. StartKeyOf(req[u]) \in StartKey
    BY StartKeyType, Zenon DEF IInv, TypeOK
  <2> QED BY <1>2, <2>1, <2>2, NoOneAssumption, Zenon DEF TaskInv, Guards
<1>4. Shares(u)'
  BY <1>2, Zenon DEF TaskInv, Shares
<1>5. StillFound(u)'
  BY <1>2 DEF TaskInv, StillFound, Shrinks
<1>6. NoneToShare(u)'
  BY <1>2, Zenon DEF TaskInv, NoneToShare, Shrinks
<1> QED BY <1>3, <1>4, <1>5, <1>6, Zenon DEF TaskInv

\* A step of no request, which at most removes from the ledger and ends pending
\* logins, keeps what all requests rely on.
LEMMA AllKept ==
  ASSUME IInv, Shrinks, now' \in {now, now + 1},
         \A t \in Task : \/ pc'[t] = pc[t]
                         \/ pc[t] = "pending" /\ pc'[t] = "done",
         UNCHANGED <<gate, req, at>>
  PROVE  DoneInv' /\ \A t \in Task : TaskInv(t)'
<1>1. DoneInv'
  BY Zenon DEF IInv, DoneInv, Shrinks, TypeOK, LedgerType
<1> SUFFICES ASSUME NEW t \in Task PROVE TaskInv(t)'
  BY <1>1, Zenon
<1>2. TaskInv(t)
  BY Zenon DEF IInv
<1>3. Guards(t)'
  BY <1>2, Zenon DEF TaskInv, Guards, Guarded, StartKeyOf
<1>4. Shares(t)'
  BY <1>2, Zenon DEF TaskInv, Shares, Found
<1>5. StillFound(t)'
  <2>1. now' \in Nat /\ now \in Nat /\ now <= now'
    BY TimeAssumption DEF IInv, TypeOK, Horizon
  <2> QED BY <1>2, <2>1 DEF TaskInv, StillFound, Shrinks, Found, IInv, TypeOK, LedgerType
<1>6. NoneToShare(t)'
  BY <1>2, Zenon DEF TaskInv, NoneToShare, Shrinks, Committed
<1> QED BY <1>3, <1>4, <1>5, <1>6, Zenon DEF TaskInv

\* Steps that touch neither the ledger nor a request that holds a guard.
LEMMA ElsewhereStep ==
  ASSUME IInv, TypeOK', UNCHANGED <<ledger, gate, req, at>>, now' \in {now, now + 1},
         \A t \in Task : \/ pc'[t] = pc[t]
                         \/ pc[t] = "pending" /\ pc'[t] = "done"
  PROVE  IInv'
<1>1. SharedIndexExact'
  BY Zenon DEF IInv, SharedIndexExact, ledger
<1>2. DoneInv' /\ \A t \in Task : TaskInv(t)'
  BY KeptShrinks, AllKept, Zenon
<1> QED BY <1>1, <1>2, Zenon DEF IInv

-----------------------------------------------------------------------------
(* Frames of the handlers. *)

LEMMA GotoFacts ==
  ASSUME HandlerType, NEW t \in Task, NEW to \in PC, Goto(t, to)
  PROVE  /\ pc' \in [Task -> PC]
         /\ pc'[t] = to
         /\ \A u \in Task \ {t} : pc'[u] = pc[u]
  BY Zenon DEF HandlerType, Goto

LEMMA ReleaseFacts ==
  ASSUME HandlerType, NEW t \in Task, ReleaseGate(t)
  PROVE  /\ gate' \in [StartKey -> Task \cup {NoOne}]
         /\ \A k \in StartKey : gate'[k] = gate[k] \/ gate[k] = t
  BY StartKeyType, Zenon DEF HandlerType, ReleaseGate

\* It remains to show TaskInv for the request that takes the step.
LEMMA OwnStep ==
  ASSUME IInv, TypeOK', SharedIndexExact', Shrinks, now' = now,
         NEW t \in Task, pc[t] # "done",
         \A u \in Task \ {t} : pc'[u] = pc[u] /\ req'[u] = req[u] /\ at'[u] = at[u],
         \A k \in StartKey : gate'[k] = gate[k] \/ gate[k] \in {t, NoOne},
         TaskInv(t)'
  PROVE  IInv'
<1>1. DoneInv' /\ \A u \in Task \ {t} : TaskInv(u)'
  BY OthersKept, Zenon DEF TypeOK
<1> QED BY <1>1, Zenon DEF IInv

\* The same for a step that leaves the ledger and the requests alone.
LEMMA QuietStep ==
  ASSUME IInv, TypeOK', UNCHANGED <<now, ledger, req>>,
         NEW t \in Task, pc[t] # "done",
         \A u \in Task \ {t} : pc'[u] = pc[u] /\ at'[u] = at[u],
         \A k \in StartKey : gate'[k] = gate[k] \/ gate[k] \in {t, NoOne},
         TaskInv(t)'
  PROVE  IInv'
<1>1. SharedIndexExact'
  BY Zenon DEF IInv, SharedIndexExact, ledger
<1> QED BY <1>1, OwnStep, KeptShrinks, Zenon

\* A request that returns, or whose login is pending, relies on nothing.
LEMMA IdleInv ==
  ASSUME NEW t \in Task, pc'[t] \notin Guarded,
         (req'[t].kind = "service" => req'[t].exclusive)
  PROVE  TaskInv(t)'
  BY Zenon DEF TaskInv, Guards, Shares, StillFound, NoneToShare, Guarded, Found, Committed

\* A handler that returns early and drops its guard.
LEMMA ReturnStep ==
  ASSUME IInv, TypeOK', UNCHANGED <<now, ledger, req>>,
         NEW t \in Task, pc[t] # "done", Return(t),
         \A u \in Task \ {t} : at'[u] = at[u]
  PROVE  IInv'
<1>1. /\ pc'[t] = "done"
      /\ \A u \in Task \ {t} : pc'[u] = pc[u]
  BY GotoFacts, Zenon DEF Return, IInv, TypeOK, PC
<1>2. \A k \in StartKey : gate'[k] = gate[k] \/ gate[k] \in {t, NoOne}
  BY ReleaseFacts, Zenon DEF Return, IInv, TypeOK
<1>3. TaskInv(t)'
  BY <1>1, IdleInv, Zenon DEF IInv, TaskInv, Shares, Guarded
<1> QED BY <1>1, <1>2, <1>3, QuietStep, Zenon

\* A step from one place under the guard to the next, that leaves the ledger
\* alone but for the port table.
LEMMA OnwardStep ==
  ASSUME IInv, TypeOK', NEW t \in Task, NEW to \in PC, Goto(t, to),
         UNCHANGED <<now, browsers, shared, req, at, gate>>,
         \/ pc[t] \in Committed /\ to \in Committed
         \/ pc[t] \in Committed /\ to = "handoff"
         \/ pc[t] = "pending" /\ to \notin Guarded
  PROVE  IInv'
<1>1. /\ TaskInv(t) /\ pc[t] # "done"
      /\ pc'[t] = to /\ \A u \in Task \ {t} : pc'[u] = pc[u]
  BY GotoFacts, Zenon DEF IInv, TypeOK, Committed
<1>2. SharedIndexExact' /\ Shrinks
  BY Zenon DEF IInv, SharedIndexExact, Shrinks
<1>3. TaskInv(t)'
  BY <1>1, Zenon DEF TaskInv, Guards, Shares, StillFound, NoneToShare, Guarded, Found,
              Committed, StartKeyOf
<1> QED BY <1>1, <1>2, <1>3, OwnStep, Zenon

-----------------------------------------------------------------------------
(* The first steps of a request: it takes the start control of its key, looks *)
(* for a shared browser, waits for the executor, and takes a browser past its *)
(* deadline out of the ledger.                                                *)

LEMMA BeginStep ==
  ASSUME IInv, NEW t \in Task, NEW r \in Request, Begin(t, r)
  PROVE  IInv'
<1>1. /\ pc[t] # "done" /\ pc'[t] = "gate" /\ req'[t] = r
      /\ \A u \in Task \ {t} : pc'[u] = pc[u] /\ req'[u] = req[u]
  BY Zenon DEF Begin, Goto, IInv, TypeOK, HandlerType, PC
<1>2. TypeOK'
  BY RequestAssumption, Types, KeptLedger, Zenon
     DEF Begin, Goto, TypeOK, HandlerType, TeardownType, Horizon, PC
<1>3. TaskInv(t)'
  BY <1>1, IdleInv, RequestAssumption, Zenon DEF Guarded
<1>4. SharedIndexExact' /\ Shrinks
  BY KeptShrinks, Zenon DEF Begin, IInv, SharedIndexExact, ledger
<1> QED BY <1>1, <1>2, <1>3, <1>4, OwnStep, Zenon DEF Begin

LEMMA LockGateStep ==
  ASSUME IInv, NEW t \in Task, LockGate(t)
  PROVE  IInv'
<1>1. StartKeyOf(req[t]) \in StartKey
  BY StartKeyType, Zenon DEF IInv, TypeOK
<1>2. TypeOK'
  BY <1>1, Types, KeptLedger, Zenon
     DEF LockGate, Goto, TypeOK, HandlerType, TeardownType, Horizon, PC
<1>3. /\ pc[t] # "done"
      /\ pc'[t] \in {"join", "start", "handoff"}
      /\ pc'[t] = "join" => ~req[t].exclusive
      /\ pc'[t] = "start" => req[t].exclusive
      /\ \A u \in Task \ {t} : pc'[u] = pc[u]
  BY Zenon DEF LockGate, Goto, IInv, TypeOK, HandlerType
<1>4. /\ gate'[StartKeyOf(req[t])] = t
      /\ \A k \in StartKey : gate'[k] = gate[k] \/ gate[k] \in {t, NoOne}
  BY <1>1, Zenon DEF LockGate, IInv, TypeOK, HandlerType
<1>5. TaskInv(t)'
  <2>1. Guards(t)'
    BY <1>4, Zenon DEF LockGate, Guards
  <2>2. Shares(t)'
    BY <1>3, Zenon DEF LockGate, Shares, Found, IInv, TaskInv
  <2>3. StillFound(t)' /\ NoneToShare(t)'
    BY <1>3, Zenon DEF LockGate, StillFound, NoneToShare, Found, Committed
  <2> QED BY <2>1, <2>2, <2>3, Zenon DEF TaskInv
<1> QED BY <1>2, <1>3, <1>4, <1>5, QuietStep, Zenon DEF LockGate

-----------------------------------------------------------------------------
(* Joining a shared browser. *)

LEMMA JoinLookupStep ==
  ASSUME IInv, NEW t \in Task, JoinLookup(t)
  PROVE  IInv'
<1> DEFINE k == req[t].key
<1>1. /\ TypeOK /\ SharedIndexExact /\ DoneInv /\ TaskInv(t)
      /\ pc[t] = "join" /\ UNCHANGED <<now, ledger, gate, req>>
      /\ pc[t] # "done"
  BY Zenon DEF IInv, JoinLookup
<1>2. CASE k \notin DOMAIN shared
  <2>1. Goto(t, "start") /\ UNCHANGED at
    BY <1>2, Zenon DEF JoinLookup
  <2>2. pc' \in [Task -> PC] /\ pc'[t] = "start" /\ \A u \in Task \ {t} : pc'[u] = pc[u]
    BY <1>1, <2>1, GotoFacts, Zenon DEF TypeOK, PC
  <2>3. TypeOK'
    BY <1>1, <2>1, <2>2, KeptLedger, Zenon
       DEF JoinLookup, TypeOK, HandlerType, TeardownType, Horizon
  <2>4. TaskInv(t)'
    BY <1>1, <1>2, <2>2, Zenon DEF TaskInv, Guards, Shares, StillFound, NoneToShare, Guarded,
                            Found, Committed, ledger, StartKeyOf
  <2> QED BY <1>1, <2>1, <2>2, <2>3, <2>4, QuietStep, Zenon
<1>3. CASE k \in DOMAIN shared
  <2>1. /\ shared[k] \in DOMAIN browsers /\ shared[k] \in Task
        /\ pc[shared[k]] = "done"
    BY <1>1, <1>3, Zenon DEF SharedIndexExact, DoneInv, TypeOK, LedgerType
  <2>2. /\ at' = [at EXCEPT ![t] = shared[k]]
        /\ Goto(t, IF browsers[shared[k]].deadline <= now THEN "expire" ELSE "leasing")
    BY <1>3, Zenon DEF JoinLookup
  <2>3. /\ at' \in [Task -> Task \cup {NoOne}]
        /\ at'[t] = shared[k]
        /\ \A u \in Task \ {t} : at'[u] = at[u]
    BY <1>1, <2>1, <2>2, Zenon DEF TypeOK, HandlerType
  <2>4. /\ pc' \in [Task -> PC]
        /\ pc'[t] = IF browsers[shared[k]].deadline <= now THEN "expire" ELSE "leasing"
        /\ \A u \in Task \ {t} : pc'[u] = pc[u]
    BY <1>1, <2>2, GotoFacts, Zenon DEF TypeOK, PC
  <2>5. TypeOK'
    BY <1>1, <2>3, <2>4, KeptLedger, Zenon
       DEF JoinLookup, TypeOK, HandlerType, TeardownType, Horizon
  <2>6. Guards(t)' /\ Shares(t)' /\ NoneToShare(t)'
    BY <1>1, <2>4, Zenon DEF TaskInv, Guards, Shares, NoneToShare, Guarded, Found, Committed,
                      StartKeyOf
  <2>7. StillFound(t)'
    <3>1. pc'[shared[k]] = "done"
      BY <1>1, <2>1, <2>4, Zenon
    <3> QED BY <1>1, <2>1, <2>3, <2>4, <3>1, Zenon DEF StillFound, ledger
  <2> QED BY <1>1, <2>3, <2>4, <2>5, <2>6, <2>7, QuietStep, Zenon DEF TaskInv
<1> QED BY <1>2, <1>3, Zenon

LEMMA JoinLeaseOkStep ==
  ASSUME IInv, NEW t \in Task, JoinLeaseOk(t)
  PROVE  IInv'
<1>1. /\ TypeOK /\ TaskInv(t)
      /\ pc[t] = "leasing" /\ UNCHANGED <<now, ledger, gate, req, at>>
  BY Zenon DEF IInv, JoinLeaseOk
<1>2. pc' \in [Task -> PC] /\ pc'[t] = "attach" /\ \A u \in Task \ {t} : pc'[u] = pc[u]
  BY <1>1, GotoFacts, Zenon DEF JoinLeaseOk, TypeOK, PC
<1>3. TypeOK'
  BY <1>1, <1>2, KeptLedger, Zenon DEF JoinLeaseOk, TypeOK, HandlerType, TeardownType, Horizon
<1>4. TaskInv(t)'
  BY <1>1, <1>2, Zenon DEF TaskInv, Guards, Shares, StillFound, NoneToShare, Guarded, Found,
                    Committed, ledger, StartKeyOf
<1> QED BY <1>1, <1>2, <1>3, <1>4, QuietStep, Zenon

LEMMA JoinLeaseErrStep ==
  ASSUME IInv, NEW t \in Task, JoinLeaseErr(t)
  PROVE  IInv'
<1>1. /\ TypeOK /\ TaskInv(t)
      /\ pc[t] = "leasing" /\ UNCHANGED <<now, ledger, req>>
  BY Zenon DEF IInv, JoinLeaseErr
<1>2. CASE at[t] \in DOMAIN browsers /\ browsers[at[t]].deadline > now
  <2>1. Return(t) /\ at' = [at EXCEPT ![t] = NoOne]
    BY <1>2, Zenon DEF JoinLeaseErr
  <2>2. TypeOK'
    BY <1>1, <2>1, GotoFacts, ReleaseFacts, KeptLedger
       DEF JoinLeaseErr, Return, TypeOK, HandlerType, TeardownType, Horizon, PC
  <2> QED BY <1>1, <2>1, <2>2, ReturnStep, Zenon DEF TypeOK, HandlerType
<1>3. CASE ~(at[t] \in DOMAIN browsers /\ browsers[at[t]].deadline > now)
  <2>1. Goto(t, "expire") /\ UNCHANGED <<gate, at>>
    BY <1>3, Zenon DEF JoinLeaseErr
  <2>2. pc' \in [Task -> PC] /\ pc'[t] = "expire" /\ \A u \in Task \ {t} : pc'[u] = pc[u]
    BY <1>1, <2>1, GotoFacts, Zenon DEF TypeOK, PC
  <2>3. TypeOK'
    BY <1>1, <2>1, <2>2, KeptLedger, Zenon
       DEF JoinLeaseErr, TypeOK, HandlerType, TeardownType, Horizon
  <2>4. at[t] \in DOMAIN browsers => browsers[at[t]].deadline <= now
    BY <1>1, <1>3, TimeTypes
  <2>5. TaskInv(t)'
    BY <1>1, <2>1, <2>2, <2>4, Zenon
       DEF TaskInv, Guards, Shares, StillFound, NoneToShare, Guarded, Found, Committed,
           ledger, StartKeyOf
  <2> QED BY <1>1, <2>1, <2>2, <2>3, <2>5, QuietStep, Zenon
<1> QED BY <1>2, <1>3, Zenon

\* The request takes the browser it found out of the ledger, past its deadline:
\* the key then has no shared browser.
LEMMA JoinTerminateStep ==
  ASSUME IInv, NEW t \in Task, pc[t] \in {"expire", "attach"},
         at[t] \in DOMAIN browsers, Terminate({at[t]}, t), Goto(t, "closing"),
         at' = [at EXCEPT ![t] = NoOne],
         UNCHANGED <<now, gate, req, started, expires, exec, ended, vault, locking, peer>>
  PROVE  IInv'
<1>1. TypeOK /\ SharedIndexExact /\ TaskInv(t)
  BY Zenon DEF IInv
<1>2. /\ LedgerType' /\ SharedIndexExact' /\ Shrinks /\ jobs' \subseteq Job
      /\ ~browsers[at[t]].exclusive => browsers[at[t]].key \notin DOMAIN shared'
  BY <1>1, TerminateLedger, Zenon DEF TypeOK, TeardownType
<1>3. pc' \in [Task -> PC] /\ pc'[t] = "closing" /\ \A u \in Task \ {t} : pc'[u] = pc[u]
  BY <1>1, GotoFacts, Zenon DEF TypeOK, PC
<1>4. at' \in [Task -> Task \cup {NoOne}] /\ \A u \in Task \ {t} : at'[u] = at[u]
  BY <1>1, Zenon DEF TypeOK, HandlerType
<1>5. TypeOK'
  BY <1>1, <1>2, <1>3, <1>4, Zenon DEF TypeOK, HandlerType, TeardownType, Horizon
<1>6. req[t].key \notin DOMAIN shared'
  <2>1. CASE req[t].key \in DOMAIN shared
    <3>1. shared[req[t].key] = at[t]
      BY <1>1, <2>1, Zenon DEF TaskInv, StillFound, Found
    <3> QED BY <1>1, <1>2, <2>1, <3>1 DEF SharedIndexExact
  <2>2. CASE req[t].key \notin DOMAIN shared
    BY <1>2, <2>2, Zenon DEF Shrinks
  <2> QED BY <2>1, <2>2, Zenon
<1>7. TaskInv(t)'
  BY <1>1, <1>3, <1>6, Zenon DEF TaskInv, Guards, Shares, StillFound, NoneToShare, Guarded,
                          Found, Committed, StartKeyOf
<1> QED BY <1>2, <1>3, <1>4, <1>5, <1>7, OwnStep, Zenon

-----------------------------------------------------------------------------
(* What a request does with the shared browser it found: it goes on without   *)
(* it when it is gone or its deadline has passed, else it attaches.           *)

\* The browser found has left the ledger: the key has no shared browser.
LEMMA JoinGoneStep ==
  ASSUME IInv, NEW t \in Task, pc[t] \in Found, at[t] \notin DOMAIN browsers,
         Goto(t, "start"), at' = [at EXCEPT ![t] = NoOne],
         UNCHANGED <<now, ledger, gate, jobs, req, started, expires, exec, ended,
                     vault, locking, peer>>
  PROVE  IInv'
<1>1. TypeOK /\ SharedIndexExact /\ TaskInv(t) /\ pc[t] # "done"
  BY Zenon DEF IInv, Found
<1>2. pc' \in [Task -> PC] /\ pc'[t] = "start" /\ \A u \in Task \ {t} : pc'[u] = pc[u]
  BY <1>1, GotoFacts, Zenon DEF TypeOK, PC
<1>3. at' \in [Task -> Task \cup {NoOne}] /\ \A u \in Task \ {t} : at'[u] = at[u]
  BY <1>1, Zenon DEF TypeOK, HandlerType
<1>4. TypeOK'
  BY <1>1, <1>2, <1>3, KeptLedger, Zenon DEF TypeOK, HandlerType, TeardownType, Horizon
<1>5. req[t].key \notin DOMAIN shared
  BY <1>1, Zenon DEF TaskInv, StillFound, SharedIndexExact
<1>6. TaskInv(t)'
  BY <1>1, <1>2, <1>5, Zenon DEF TaskInv, Guards, Shares, StillFound, NoneToShare, Guarded,
                          Found, Committed, StartKeyOf, ledger
<1> QED BY <1>1, <1>2, <1>3, <1>4, <1>6, QuietStep, Zenon

LEMMA JoinExpireStep ==
  ASSUME IInv, NEW t \in Task, JoinExpire(t)
  PROVE  IInv'
<1>1. at[t] \in DOMAIN browsers => browsers[at[t]].deadline <= now
  BY Zenon DEF JoinExpire, IInv, TaskInv, StillFound, Found
<1>2. CASE at[t] \in DOMAIN browsers
  BY <1>1, <1>2, JoinTerminateStep, Zenon DEF JoinExpire
<1>3. CASE at[t] \notin DOMAIN browsers
  BY <1>3, JoinGoneStep, Zenon DEF JoinExpire, Found
<1> QED BY <1>2, <1>3, Zenon

LEMMA JoinClosedStep ==
  ASSUME IInv, NEW t \in Task, JoinClosed(t)
  PROVE  IInv'
<1>1. TypeOK'
  BY GotoFacts, Types, KeptLedger, Zenon
     DEF JoinClosed, TypeOK, HandlerType, TeardownType, Horizon, PC
<1> QED BY <1>1, OnwardStep, Zenon DEF JoinClosed, Committed, PC, ledger

LEMMA JoinAttachStep ==
  ASSUME IInv, NEW t \in Task, JoinAttach(t)
  PROVE  IInv'
<1> DEFINE b == at[t]
<1>1. CASE b \notin DOMAIN browsers
  BY <1>1, JoinGoneStep, Zenon DEF JoinAttach, Found
<1>2. CASE b \in DOMAIN browsers /\ browsers[b].deadline <= now
  <2>1. ~(browsers[b].deadline > now)
    BY <1>2, Types, TimeTypes
  <2> QED BY <1>2, <2>1, JoinTerminateStep, Zenon DEF JoinAttach
<1>3. CASE b \in DOMAIN browsers /\ ~(browsers[b].deadline <= now)
  <2> DEFINE ls == Put(browsers[b].leases, t, LeaseExpiry(browsers[b].deadline))
  <2>1. /\ TypeOK /\ SharedIndexExact /\ DoneInv /\ TaskInv(t) /\ b \in Task
        /\ pc[t] = "attach" /\ pc[t] # "done"
    BY <1>3, Zenon DEF IInv, JoinAttach, TypeOK, LedgerType
  <2>2. /\ browsers' = Put(browsers, b, WithLeases(b, ls))
        /\ ports' = Put(ports, t, [principal |-> req[t].key.principal, port |-> b])
        /\ Return(t)
        /\ at' = [at EXCEPT ![t] = NoOne]
        /\ UNCHANGED <<shared, jobs>>
        /\ UNCHANGED <<now, req, started, expires, exec, ended, vault, locking, peer>>
    BY <1>3, Zenon DEF JoinAttach
  <2>3. /\ DOMAIN ls = LeasesOf(b) \cup {t}
        /\ \A s \in DOMAIN ls : ls[s] \in Nat
    <3>1. LeaseExpiry(browsers[b].deadline) \in Nat
      BY <1>3, <2>1, TimeTypes, LeaseExpiryType, Zenon
    <3>2. \A s \in LeasesOf(b) : browsers[b].leases[s] \in Nat
      BY <1>3, Types, Zenon DEF LedgerType
    <3> QED BY <3>1, <3>2, Zenon DEF Put, LeasesOf
  <2> HIDE DEF ls
  <2>4. /\ DOMAIN browsers' = DOMAIN browsers
        /\ \A c \in DOMAIN browsers :
              /\ browsers'[c].key = browsers[c].key
              /\ browsers'[c].deadline = browsers[c].deadline
              /\ browsers'[c].exclusive = browsers[c].exclusive
              /\ browsers'[c].service = browsers[c].service
              /\ browsers'[c].leases = IF c = b THEN ls ELSE browsers[c].leases
    BY <1>3, <2>2, Zenon DEF Put, WithLeases, Browser
  <2>5. req[t].key.principal \in Principal
    BY <2>1, KeyAssumption DEF TypeOK, HandlerType
  <2>6. LedgerType'
    <3>1. DOMAIN ports' \subseteq Task /\ \A s \in DOMAIN ports' : ports'[s] \in Port
      BY <2>1, <2>2, <2>5, Zenon DEF Put, Port, TypeOK, LedgerType
    <3>2. LeasesOf(b) \subseteq Task
      BY <1>3, Types, Zenon DEF LedgerType
    <3>3. \A c \in DOMAIN browsers :
             /\ LeasesOf(c)' \subseteq Task
             /\ \A s \in LeasesOf(c)' : browsers'[c].leases[s] \in Nat
      <4> SUFFICES ASSUME NEW c \in DOMAIN browsers
                   PROVE  /\ DOMAIN browsers'[c].leases \subseteq Task
                          /\ \A s \in DOMAIN browsers'[c].leases :
                                browsers'[c].leases[s] \in Nat
        BY Zenon DEF LeasesOf
      <4>1. CASE c = b
        BY <2>3, <2>4, <3>2, <4>1
      <4>2. CASE c # b
        BY <2>4, <4>2, Types, Zenon DEF LedgerType, LeasesOf
      <4> QED BY <4>1, <4>2, Zenon
    <3>4. /\ DOMAIN browsers' \subseteq Task
          /\ \A c \in DOMAIN browsers' : /\ browsers'[c].key \in Key
                                         /\ browsers'[c].deadline \in Nat
                                         /\ browsers'[c].exclusive \in BOOLEAN
                                         /\ browsers'[c].service \in BOOLEAN
      BY <2>4, Types, Zenon DEF LedgerType
    <3>5. DOMAIN shared' \subseteq Key /\ \A k \in DOMAIN shared' : shared'[k] \in Task
      BY <2>2, Types, Zenon DEF LedgerType
    <3>6. DOMAIN browsers' = DOMAIN browsers
      BY <2>4, Zenon
    <3> QED BY <3>1, <3>3, <3>4, <3>5, <3>6, Zenon DEF LedgerType
  <2>7. /\ pc' \in [Task -> PC] /\ pc'[t] = "done"
        /\ \A u \in Task \ {t} : pc'[u] = pc[u]
    BY <2>1, <2>2, GotoFacts, Zenon DEF Return, TypeOK, PC
  <2>8. /\ gate' \in [StartKey -> Task \cup {NoOne}]
        /\ \A k \in StartKey : gate'[k] = gate[k] \/ gate[k] \in {t, NoOne}
    BY <2>1, <2>2, ReleaseFacts, Zenon DEF Return, TypeOK
  <2>9. at' \in [Task -> Task \cup {NoOne}] /\ \A u \in Task \ {t} : at'[u] = at[u]
    BY <2>1, <2>2, Zenon DEF TypeOK, HandlerType
  <2>10. TypeOK'
    <3>1. HandlerType'
      BY <2>2, <2>7, <2>8, <2>9, Types, Zenon DEF HandlerType
    <3> QED BY <2>1, <2>2, <2>6, <3>1, Zenon DEF TypeOK, TeardownType, Horizon
  <2>11. SharedIndexExact'
    <3>1. \A k \in DOMAIN shared' : /\ shared'[k] \in DOMAIN browsers'
                                    /\ browsers'[shared'[k]].key = k
                                    /\ ~browsers'[shared'[k]].exclusive
      BY <2>1, <2>2, <2>4 DEF SharedIndexExact
    <3>2. \A c \in DOMAIN browsers' : ~browsers'[c].exclusive =>
             browsers'[c].key \in DOMAIN shared' /\ shared'[browsers'[c].key] = c
      BY <2>1, <2>2, <2>4 DEF SharedIndexExact
    <3> QED BY <3>1, <3>2, Zenon DEF SharedIndexExact
  <2>12. TaskInv(t)'
    BY <2>1, <2>2, <2>7, IdleInv, Zenon DEF TaskInv, Shares, Guarded
  <2>13. Shrinks
    BY <2>2, <2>4, Zenon DEF Shrinks
  <2> QED BY <2>1, <2>2, <2>7, <2>8, <2>9, <2>10, <2>11, <2>12, <2>13, OwnStep, Zenon
<1> QED BY <1>1, <1>2, <1>3, Zenon

-----------------------------------------------------------------------------
(* The launch, the pending login and its hand-off, the registration. *)

LEMMA RefuseStep ==
  ASSUME IInv, NEW t \in Task, Refuse(t)
  PROVE  IInv'
<1>1. TypeOK'
  BY GotoFacts, ReleaseFacts, Types, KeptLedger, Zenon
     DEF Refuse, Return, TypeOK, HandlerType, TeardownType, Horizon, PC
<1> QED BY <1>1, ReturnStep, Zenon DEF Refuse

LEMMA LaunchStep ==
  ASSUME IInv, NEW t \in Task, Launch(t)
  PROVE  IInv'
<1>1. now \in Nat
  BY Types, TimeTypes, Zenon
<1>2. TypeOK'
  BY <1>1, GotoFacts, Types, KeptLedger, Zenon
     DEF Launch, TypeOK, HandlerType, TeardownType, Horizon, PC
<1> QED BY <1>2, OnwardStep, Zenon DEF Launch, Committed, PC, ledger

\* The first line of a launch is written.
LEMMA WriteFirstStep ==
  ASSUME IInv, NEW t \in Task, WriteFirst(t)
  PROVE  IInv'
<1>1. TypeOK'
  BY GotoFacts, Types, KeptLedger, Zenon
     DEF WriteFirst, TypeOK, HandlerType, TeardownType, Horizon, PC
<1> QED BY <1>1, OnwardStep, Zenon DEF WriteFirst, Committed, PC, ledger

\* The launch or the registration fails.
LEMMA FailStep ==
  ASSUME IInv, NEW t \in Task, LaunchFails(t) \/ RegisterFails(t)
  PROVE  IInv'
<1>1. /\ Return(t) /\ pc[t] # "done" /\ UNCHANGED <<now, ledger, req, at>>
      /\ exec' = [exec EXCEPT ![t] = "stopped"]
      /\ Forget(t)
      /\ UNCHANGED <<jobs, ended, vault, locking, peer>>
  BY Zenon DEF LaunchFails, RegisterFails
<1>2. TypeOK'
  BY <1>1, GotoFacts, ReleaseFacts, Types, KeptLedger, Zenon
     DEF Return, Forget, TypeOK, HandlerType, TeardownType, Horizon, PC
<1> QED BY <1>1, <1>2, ReturnStep, Zenon

LEMMA LaunchOkStep ==
  ASSUME IInv, NEW t \in Task, LaunchOk(t)
  PROVE  IInv'
<1>1. /\ pc[t] = "starting" /\ pc[t] # "done" /\ TaskInv(t)
      /\ UNCHANGED <<now, ledger, req, at>>
      /\ UNCHANGED <<started, expires, exec, jobs, ended, vault, locking, peer>>
  BY Zenon DEF LaunchOk, IInv
<1>2. ASSUME NEW to \in {"ports", "handoff"}, Goto(t, to), UNCHANGED gate PROVE IInv'
  <2>1. TypeOK'
    BY <1>1, <1>2, GotoFacts, Types, KeptLedger, Zenon
       DEF TypeOK, HandlerType, TeardownType, Horizon, PC
  <2> QED BY <1>1, <1>2, <2>1, OnwardStep, Zenon DEF Committed, PC, ledger
<1>3. ASSUME NEW to \in {"ports", "pending"}, Goto(t, to), ReleaseGate(t),
             to = "ports" => req[t].kind = "service"
      PROVE  IInv'
  <2>1. /\ pc' \in [Task -> PC] /\ pc'[t] = to
        /\ \A u \in Task \ {t} : pc'[u] = pc[u]
    BY <1>3, GotoFacts DEF IInv, TypeOK, PC
  <2>2. /\ gate' \in [StartKey -> Task \cup {NoOne}]
        /\ \A k \in StartKey : gate'[k] = gate[k] \/ gate[k] \in {t, NoOne}
    BY <1>3, ReleaseFacts, Zenon DEF IInv, TypeOK
  <2>3. TypeOK'
    BY <1>1, <2>1, <2>2, Types, KeptLedger, Zenon DEF TypeOK, HandlerType, TeardownType, Horizon
  <2>4. TaskInv(t)'
    BY <1>1, <1>3, <2>1, Zenon
       DEF TaskInv, Guards, Shares, StillFound, NoneToShare, Guarded, Found, Committed
  <2> QED BY <1>1, <2>1, <2>2, <2>3, <2>4, QuietStep, Zenon
<1> QED BY <1>2, <1>3, Zenon DEF LaunchOk

LEMMA PendingStep ==
  ASSUME IInv, NEW t \in Task, PendingEnds(t) \/ PendingDone(t)
  PROVE  IInv'
<1>1. CASE PendingEnds(t)
  <2>1. TypeOK'
    BY <1>1, GotoFacts, Types, KeptLedger, Zenon
       DEF PendingEnds, Forget, TypeOK, HandlerType, TeardownType, Horizon, PC
  <2> QED BY <1>1, <2>1, OnwardStep, Zenon DEF PendingEnds, Guarded, PC, ledger
<1>2. CASE PendingDone(t)
  <2>1. TypeOK'
    BY <1>2, GotoFacts, Types, KeptLedger, Zenon
       DEF PendingDone, TypeOK, HandlerType, TeardownType, Horizon, PC
  <2> QED BY <1>2, <2>1, OnwardStep, Zenon DEF PendingDone, Guarded, PC, ledger
<1> QED BY <1>1, <1>2, Zenon

LEMMA HandOffStep ==
  ASSUME IInv, NEW t \in Task, HandOff(t)
  PROVE  IInv'
<1>1. /\ TypeOK /\ SharedIndexExact /\ TaskInv(t)
      /\ pc[t] = "handoff" /\ pc[t] # "done"
      /\ req' = [req EXCEPT ![t].exclusive = @ \/ req[t].key \in DOMAIN shared]
      /\ UNCHANGED <<now, ledger, gate, at>>
      /\ UNCHANGED <<started, expires, exec, jobs, ended, vault, locking, peer>>
  BY Zenon DEF HandOff, IInv
<1>2. /\ pc' \in [Task -> PC] /\ pc'[t] = "ports"
      /\ \A u \in Task \ {t} : pc'[u] = pc[u]
  BY <1>1, GotoFacts, Zenon DEF HandOff, TypeOK, PC
<1>3. /\ req' \in [Task -> [key : Key, kind : Kind, exclusive : BOOLEAN]]
      /\ req'[t].key = req[t].key
      /\ req'[t].kind = req[t].kind
      /\ req[t].exclusive => req'[t].exclusive
      /\ req[t].key \in DOMAIN shared => req'[t].exclusive
      /\ \A u \in Task \ {t} : req'[u] = req[u]
  BY <1>1, Zenon DEF TypeOK, HandlerType
<1>4. TypeOK'
  BY <1>1, <1>2, <1>3, KeptLedger, Zenon DEF TypeOK, HandlerType, TeardownType, Horizon
<1>5. TaskInv(t)'
  BY <1>1, <1>2, <1>3, Zenon
     DEF TaskInv, Guards, Shares, StillFound, NoneToShare, Guarded, Found, Committed,
         StartKeyOf, ledger
<1>6. SharedIndexExact' /\ Shrinks
  BY <1>1, KeptShrinks, Zenon DEF SharedIndexExact, ledger
<1> QED BY <1>1, <1>2, <1>3, <1>4, <1>5, <1>6, OwnStep, Zenon

LEMMA RegisterPortStep ==
  ASSUME IInv, NEW t \in Task, RegisterPort(t)
  PROVE  IInv'
<1>1. LeaseExpiry(started[t] + MaxLifetime) \in Nat
  <2>1. now \in Nat /\ started[t] \in Nat
    BY Types, TimeTypes, Zenon DEF HandlerType
  <2> QED BY <2>1, LeaseExpiryType, TimeAssumption
<1>2. req[t].key.principal \in Principal
  BY KeyAssumption DEF IInv, TypeOK, HandlerType
<1>3. DOMAIN ports' \subseteq Task /\ \A s \in DOMAIN ports' : ports'[s] \in Port
  BY <1>2, Zenon DEF RegisterPort, Put, Port, IInv, TypeOK, LedgerType
<1>4. TypeOK'
  BY <1>1, <1>3, GotoFacts, Zenon
     DEF RegisterPort, IInv, TypeOK, LedgerType, LeasesOf, HandlerType, TeardownType,
         Horizon, PC
<1> QED BY <1>4, OnwardStep, Zenon DEF RegisterPort, Committed, PC

\* The one step that adds a browser.  If it is shared, the request holds the
\* key's guard and there was no shared browser of the key, so the index stays
\* exact and nobody else relies on the key.
LEMMA RegisterBrowserStep ==
  ASSUME IInv, NEW t \in Task, RegisterBrowser(t)
  PROVE  IInv'
<1> DEFINE k == req[t].key
           leases == [s \in {t} |-> expires[t]]
<1>1. /\ TypeOK /\ SharedIndexExact /\ DoneInv /\ TaskInv(t)
      /\ pc[t] = "insert" /\ t \notin DOMAIN browsers
      /\ UNCHANGED <<now, ports, req, at>>
      /\ UNCHANGED <<exec, jobs, ended, vault, locking, peer>>
  BY Zenon DEF RegisterBrowser, IInv, DoneInv
<1>2. /\ DOMAIN browsers' = DOMAIN browsers \cup {t}
      /\ \A b \in DOMAIN browsers : browsers'[b] = browsers[b]
      /\ browsers'[t].key = k
      /\ browsers'[t].deadline = started[t] + MaxLifetime
      /\ browsers'[t].exclusive = req[t].exclusive
      /\ browsers'[t].service = (req[t].kind = "service")
      /\ browsers'[t].leases = leases
  BY <1>1, Zenon DEF RegisterBrowser, Put, Browser
<1>3. req[t].exclusive => shared' = shared
  BY Zenon DEF RegisterBrowser
<1>4. ~req[t].exclusive =>
         /\ k \notin DOMAIN shared
         /\ DOMAIN shared' = DOMAIN shared \cup {k}
         /\ shared'[k] = t
         /\ \A l \in DOMAIN shared : shared'[l] = shared[l]
  BY <1>1, Zenon DEF RegisterBrowser, Put, TaskInv, NoneToShare, Committed
<1>5. /\ pc' \in [Task -> PC] /\ pc'[t] = "done"
      /\ \A u \in Task \ {t} : pc'[u] = pc[u]
  BY <1>1, GotoFacts, Zenon DEF RegisterBrowser, Return, TypeOK, PC
<1>6. /\ gate' \in [StartKey -> Task \cup {NoOne}]
      /\ \A q \in StartKey : gate'[q] = gate[q] \/ gate[q] = t
  BY <1>1, ReleaseFacts, Zenon DEF RegisterBrowser, Return, TypeOK
<1>7. TypeOK'
  <2>1. k \in Key /\ req[t].exclusive \in BOOLEAN /\ started[t] + MaxLifetime \in Nat
    BY <1>1, TimeAssumption DEF TypeOK, HandlerType
  <2>2. DOMAIN leases = {t} /\ leases[t] \in Nat
    BY <1>1, Zenon DEF TypeOK, HandlerType
  <2> HIDE DEF leases
  <2>3. DOMAIN shared' \subseteq Key /\ \A l \in DOMAIN shared' : shared'[l] \in Task
    BY <1>1, <1>3, <1>4, <2>1, Zenon DEF TypeOK, LedgerType
  <2>4. LedgerType'
    BY <1>1, <1>2, <2>1, <2>2, <2>3, Zenon DEF TypeOK, LedgerType, LeasesOf
  <2>5. HandlerType'
    BY <1>1, <1>5, <1>6, Zenon DEF RegisterBrowser, Forget, TypeOK, HandlerType
  <2> QED BY <1>1, <2>4, <2>5, Zenon DEF TypeOK, TeardownType, Horizon
<1>8. SharedIndexExact'
  <2>1. CASE req[t].exclusive
    <3>1. shared' = shared /\ browsers'[t].exclusive
      BY <1>2, <1>3, <2>1, Zenon
    <3>2. \A b \in DOMAIN browsers' : ~browsers'[b].exclusive =>
             b \in DOMAIN browsers /\ browsers'[b] = browsers[b]
      BY <1>2, <3>1, Zenon
    <3>3. \A l \in DOMAIN shared : shared[l] \in DOMAIN browsers
      BY <1>1, Zenon DEF SharedIndexExact
    <3>4. \A l \in DOMAIN shared' : /\ shared'[l] \in DOMAIN browsers'
                                    /\ browsers'[shared'[l]].key = l
                                    /\ ~browsers'[shared'[l]].exclusive
      BY <1>1, <1>2, <3>1, <3>3 DEF SharedIndexExact
    <3>5. \A b \in DOMAIN browsers' : ~browsers'[b].exclusive =>
             browsers'[b].key \in DOMAIN shared' /\ shared'[browsers'[b].key] = b
      BY <1>1, <3>1, <3>2, Zenon DEF SharedIndexExact
    <3> QED BY <3>4, <3>5, Zenon DEF SharedIndexExact
  <2>2. CASE ~req[t].exclusive
    <3>1. \A l \in DOMAIN shared' : /\ shared'[l] \in DOMAIN browsers'
                                    /\ browsers'[shared'[l]].key = l
                                    /\ ~browsers'[shared'[l]].exclusive
      BY <1>1, <1>2, <1>4, <2>2 DEF SharedIndexExact
    <3>2. \A b \in DOMAIN browsers' : ~browsers'[b].exclusive =>
             browsers'[b].key \in DOMAIN shared' /\ shared'[browsers'[b].key] = b
      BY <1>1, <1>2, <1>4, <2>2 DEF SharedIndexExact
    <3> QED BY <3>1, <3>2 DEF SharedIndexExact
  <2> QED BY <2>1, <2>2, Zenon
<1>9. DoneInv'
  BY <1>1, <1>2, <1>5 DEF DoneInv, TypeOK, LedgerType
<1>10. TaskInv(t)'
  BY <1>1, <1>5, IdleInv, Zenon DEF TaskInv, Shares, Guarded
<1>11. ASSUME NEW u \in Task \ {t} PROVE TaskInv(u)'
  <2>1. TaskInv(u)
    BY Zenon DEF IInv
  <2>2. StartKeyOf(req[u])' = StartKeyOf(req[u]) /\ StartKeyOf(req[u]) \in StartKey
    BY <1>1, StartKeyType, Zenon DEF StartKeyOf, TypeOK
  <2>3. Guards(u)'
    BY <1>1, <1>5, <1>6, <2>1, <2>2, Zenon DEF TaskInv, Guards
  <2>4. Shares(u)'
    BY <1>1, <1>5, <2>1, Zenon DEF TaskInv, Shares
  <2>5. ~req[t].exclusive /\ ~req[u].exclusive /\ pc[u] \in Guarded => req[u].key # k
    <3> SUFFICES ASSUME ~req[t].exclusive, ~req[u].exclusive, pc[u] \in Guarded,
                        req[u].key = k
                 PROVE  FALSE
      BY Zenon
    <3>1. req[t].kind # "service" /\ req[u].kind # "service"
      BY <1>1, <2>1, Zenon DEF TaskInv, Shares
    <3>2. StartKeyOf(req[u]) = StartKeyOf(req[t])
      BY <3>1, Zenon DEF StartKeyOf
    <3>3. gate[StartKeyOf(req[u])] = u /\ gate[StartKeyOf(req[t])] = t
      BY <1>1, <2>1, <3>1, Zenon DEF TaskInv, Guards, Guarded
    <3> QED BY <3>2, <3>3, Zenon
  <2>6. req[u].key \in DOMAIN shared' /\ ~req[u].exclusive /\ pc[u] \in Guarded =>
           req[u].key \in DOMAIN shared /\ shared'[req[u].key] = shared[req[u].key]
    BY <1>3, <1>4, <2>5, Zenon
  <2>7. NoneToShare(u)'
    BY <1>1, <1>5, <2>1, <2>6, Zenon DEF TaskInv, NoneToShare, Committed, Guarded
  <2>8. StillFound(u)'
    <3> SUFFICES ASSUME pc[u] \in Found PROVE StillFound(u)'
      BY <1>5, Zenon DEF StillFound
    <3>1. /\ at[u] \in Task /\ pc[at[u]] = "done" /\ at[u] # t
          /\ ~req[u].exclusive /\ pc[u] \in Guarded
      BY <1>1, <2>1, Zenon DEF TaskInv, StillFound, Shares, Found, Guarded
    <3>2. pc'[at[u]] = "done"
      BY <1>5, <3>1, Zenon
    <3>3. req[u].key \in DOMAIN shared' => shared'[req[u].key] = at[u]
      BY <2>1, <2>6, <3>1, Zenon DEF TaskInv, StillFound
    <3>4. pc[u] = "expire" /\ at[u] \in DOMAIN browsers' => browsers'[at[u]].deadline <= now
      BY <1>2, <2>1, <3>1, Zenon DEF TaskInv, StillFound
    <3> QED BY <1>1, <1>5, <3>1, <3>2, <3>3, <3>4, Zenon DEF StillFound
  <2> QED BY <2>3, <2>4, <2>7, <2>8, Zenon DEF TaskInv
<1> QED BY <1>7, <1>8, <1>9, <1>10, <1>11, Zenon DEF IInv

-----------------------------------------------------------------------------
(* What ends sessions. *)

LEMMA DisconnectStep ==
  ASSUME IInv, NEW s \in Task, Disconnect(s)
  PROVE  IInv'
<1>1. PICK b \in DOMAIN browsers :
         /\ s \in LeasesOf(b)
         /\ Remove({s})
         /\ jobs' = jobs \cup {Teardown(b, {s}, LeasesOf(b) = {s}, "disconnect")}
         /\ UNCHANGED <<now, gate, pc, req, at, started, expires, exec, ended,
                        vault, locking, peer>>
  BY Zenon DEF Disconnect
<1>2. LedgerType' /\ SharedIndexExact' /\ Shrinks
  BY <1>1, RemoveLedger, Zenon DEF IInv, TypeOK
<1>3. Teardown(b, {s}, LeasesOf(b) = {s}, "disconnect") \in Job
  BY <1>1, TeardownJob, Zenon DEF IInv, TypeOK, Agent
<1>4. TypeOK'
  BY <1>1, <1>2, <1>3, Zenon DEF IInv, TypeOK, HandlerType, TeardownType, Horizon
<1>5. DoneInv' /\ \A t \in Task : TaskInv(t)'
  BY <1>1, <1>2, AllKept, Zenon
<1> QED BY <1>2, <1>4, <1>5, Zenon DEF IInv

LEMMA SessionReaperStep ==
  ASSUME IInv, SessionReaper
  PROVE  IInv'
<1> DEFINE dead == {b \in DOMAIN browsers : browsers[b].deadline <= now}
           lapsed(b) == {s \in LeasesOf(b) : browsers[b].leases[s] <= now}
           late == {b \in DOMAIN browsers \ dead : lapsed(b) # {}}
           gone == (UNION {LeasesOf(b) : b \in dead}) \cup (UNION {lapsed(b) : b \in late})
           whole == {Teardown(b, LeasesOf(b), TRUE, "spawn") : b \in dead}
           part == {Teardown(b, lapsed(b), lapsed(b) = LeasesOf(b), "reaper") : b \in late}
<1>1. /\ Remove(gone)
      /\ jobs' = jobs \cup whole \cup part
      /\ UNCHANGED <<now, gate, pc, req, at, started, expires, exec, ended,
                     vault, locking, peer>>
  BY Zenon DEF SessionReaper
<1>2. LedgerType' /\ SharedIndexExact' /\ Shrinks
  BY <1>1, RemoveLedger, Zenon DEF IInv, TypeOK
<1>3. whole \subseteq Job
  <2> SUFFICES ASSUME NEW b \in dead PROVE Teardown(b, LeasesOf(b), TRUE, "spawn") \in Job
    BY Zenon
  <2> QED BY TeardownJob, Zenon DEF IInv, TypeOK, Agent
<1>4. part \subseteq Job
  <2> SUFFICES ASSUME NEW b \in late
               PROVE  Teardown(b, lapsed(b), lapsed(b) = LeasesOf(b), "reaper") \in Job
    BY Zenon
  <2>1. lapsed(b) \in SUBSET LeasesOf(b) /\ (lapsed(b) = LeasesOf(b)) \in BOOLEAN
    BY Zenon
  <2> HIDE DEF lapsed
  <2> QED BY <2>1, TeardownJob, Zenon DEF IInv, TypeOK, Agent
<1> HIDE DEF whole, part
<1>5. TypeOK'
  BY <1>1, <1>2, <1>3, <1>4, Zenon DEF IInv, TypeOK, HandlerType, TeardownType, Horizon
<1>6. DoneInv' /\ \A t \in Task : TaskInv(t)'
  BY <1>1, <1>2, AllKept, Zenon
<1> QED BY <1>2, <1>5, <1>6, Zenon DEF IInv

\* Steps that take whole browsers: a service that ends by itself, the drain of
\* lock_vault, the revocation of a peer.
LEMMA TerminateStep ==
  ASSUME IInv, NEW bs \in SUBSET DOMAIN browsers, NEW by \in Agent, Terminate(bs, by),
         UNCHANGED <<now, gate, pc, req, at, started, expires, exec, ended, locking>>,
         vault' \in {"idle", "locked", "draining"},
         peer' \in [Peer -> {"active", "ending", "sweeping", "revoked"}]
  PROVE  IInv'
<1>1. LedgerType' /\ SharedIndexExact' /\ Shrinks /\ jobs' \subseteq Job
  BY TerminateLedger, Zenon DEF IInv, TypeOK, TeardownType
<1>2. TypeOK'
  BY <1>1, Zenon DEF IInv, TypeOK, HandlerType, TeardownType, Horizon
<1>3. DoneInv' /\ \A t \in Task : TaskInv(t)'
  BY <1>1, AllKept, Zenon
<1> QED BY <1>1, <1>2, <1>3, Zenon DEF IInv

LEMMA ServiceEndsStep ==
  ASSUME IInv, NEW b \in Task, ServiceEnds(b)
  PROVE  IInv'
  BY TerminateStep, Zenon DEF ServiceEnds, Agent, IInv, TypeOK

LEMMA ExecutorReaperStep ==
  ASSUME IInv, NEW b \in Task, ExecutorReaper(b)
  PROVE  IInv'
<1>1. LedgerType' /\ SharedIndexExact' /\ Shrinks
  BY RemoveLedger, Zenon DEF ExecutorReaper, IInv, TypeOK
<1>2. [Teardown(b, LeasesOf(b), FALSE, "spawn") EXCEPT !.phase = "audit"] \in Job
  BY TeardownJob, Zenon DEF ExecutorReaper, IInv, TypeOK, Agent
<1>3. TypeOK'
  BY <1>1, <1>2, Zenon DEF ExecutorReaper, IInv, TypeOK, HandlerType, TeardownType, Horizon
<1>4. DoneInv' /\ \A t \in Task : TaskInv(t)'
  BY <1>1, AllKept, Zenon DEF ExecutorReaper
<1> QED BY <1>1, <1>3, <1>4, Zenon DEF IInv

LEMMA ExecutorExitsStep ==
  ASSUME IInv, NEW b \in Task, ExecutorExits(b)
  PROVE  IInv'
<1>1. TypeOK'
  BY Types, KeptLedger, Zenon DEF ExecutorExits, TypeOK, HandlerType, TeardownType, Horizon
<1> QED BY <1>1, ElsewhereStep, Zenon DEF ExecutorExits

LEMMA JobStep ==
  ASSUME IInv, NEW j \in jobs, JobStop(j) \/ JobAudit(j)
  PROVE  IInv'
<1>1. j \in Job
  BY Zenon DEF IInv, TypeOK, TeardownType
<1>2. [j EXCEPT !.phase = "audit"] \in Job
  BY <1>1, Zenon DEF Job
<1>3. CASE JobStop(j)
  <2>1. exec' \in [Task -> {"none", "live", "stopped"}]
    BY <1>1, <1>3, Zenon DEF JobStop, IInv, TypeOK, TeardownType, Job
  <2>2. TypeOK'
    BY <1>2, <1>3, <2>1, Types, KeptLedger, Zenon
       DEF JobStop, TypeOK, HandlerType, TeardownType, Horizon
  <2> QED BY <1>3, <2>2, ElsewhereStep, Zenon DEF JobStop
<1>4. CASE JobAudit(j)
  <2>1. TypeOK'
    BY <1>4, Types, KeptLedger DEF JobAudit, TypeOK, HandlerType, TeardownType, Horizon
  <2> QED BY <1>4, <2>1, ElsewhereStep, Zenon DEF JobAudit
<1> QED BY <1>3, <1>4, Zenon

LEMMA TickStep ==
  ASSUME IInv, Tick
  PROVE  IInv'
<1>1. TypeOK'
  BY TimeAssumption, Types, KeptLedger
     DEF Tick, TypeOK, HandlerType, TeardownType, Horizon
<1> QED BY <1>1, ElsewhereStep, Zenon DEF Tick

-----------------------------------------------------------------------------
(* lock_vault and the revocation of a peer. *)

LEMMA EndPendingType ==
  ASSUME TypeOK, NEW ts \in SUBSET Task, EndPending(ts)
  PROVE  /\ exec' \in [Task -> {"none", "live", "stopped"}]
         /\ pc' \in [Task -> PC]
         /\ started' \in [Task -> Nat]
         /\ expires' \in [Task -> Nat]
  BY Zenon DEF EndPending, TypeOK, HandlerType, TeardownType, PC

LEMMA VaultStep ==
  ASSUME IInv, Vault
  PROVE  IInv'
<1>1. ASSUME NEW ns \in LockRequest, LockProviders(ns) PROVE IInv'
  <2>1. TypeOK'
    BY <1>1, Types, KeptLedger, Zenon
       DEF LockProviders, LockRequest, TypeOK, HandlerType, TeardownType,
           Horizon
  <2> QED BY <1>1, <2>1, ElsewhereStep, Zenon DEF LockProviders
<1>2. CASE DrainBrowsers
  BY <1>2, TerminateStep, Zenon DEF DrainBrowsers, Agent, IInv, TypeOK
<1>3. CASE LockReturns
  <2> DEFINE ts == {t \in Task : pc[t] = "pending" /\ req[t].key.namespace \in locking}
  <2>1. EndPending(ts)
    BY <1>3, Zenon DEF LockReturns
  <2>2. TypeOK'
    BY <1>3, <2>1, EndPendingType, Types, KeptLedger, Zenon
       DEF LockReturns, TypeOK, HandlerType, TeardownType, Horizon
  <2>3. \A t \in Task : pc'[t] = pc[t] \/ (pc[t] = "pending" /\ pc'[t] = "done")
    BY <2>1, Zenon DEF EndPending
  <2> QED BY <1>3, <2>2, <2>3, ElsewhereStep, Zenon DEF LockReturns
<1> QED BY <1>1, <1>2, <1>3, Zenon DEF Vault

LEMMA PeerStep ==
  ASSUME IInv, NEW p \in Peer, PeerRevocation(p)
  PROVE  IInv'
<1>1. CASE RevokePeer(p)
  <2>1. TypeOK'
    BY <1>1, Types, KeptLedger DEF RevokePeer, TypeOK, HandlerType, TeardownType, Horizon
  <2> QED BY <1>1, <2>1, ElsewhereStep, Zenon DEF RevokePeer
<1>2. CASE EndPeerPending(p)
  <2> DEFINE ts == {t \in Task : pc[t] = "pending" /\ req[t].key.principal = p}
  <2>1. EndPending(ts)
    BY <1>2, Zenon DEF EndPeerPending
  <2>2. TypeOK'
    BY <1>2, <2>1, EndPendingType, Types, KeptLedger, Zenon
       DEF EndPeerPending, TypeOK, HandlerType, TeardownType, Horizon
  <2>3. \A t \in Task : pc'[t] = pc[t] \/ (pc[t] = "pending" /\ pc'[t] = "done")
    BY <2>1, Zenon DEF EndPending
  <2> QED BY <1>2, <2>2, <2>3, ElsewhereStep, Zenon DEF EndPeerPending
<1>3. CASE EndPeerLeases(p)
  <2>1. peer' \in [Peer -> {"active", "ending", "sweeping", "revoked"}]
    BY <1>3, Zenon DEF EndPeerLeases, IInv, TypeOK
  <2> QED BY <1>3, <2>1, TerminateStep, Zenon DEF EndPeerLeases, Agent, IInv, TypeOK
<1> QED BY <1>1, <1>2, <1>3, Zenon DEF PeerRevocation

-----------------------------------------------------------------------------
(* Every step keeps the invariant. *)

LEMMA StepInv ==
  ASSUME IInv, NEW t \in Task, Step(t)
  PROVE  IInv'
  BY LockGateStep, JoinLookupStep, JoinLeaseOkStep, JoinLeaseErrStep, JoinExpireStep,
     JoinClosedStep, JoinAttachStep, RefuseStep, LaunchStep, FailStep, LaunchOkStep,
     PendingStep, HandOffStep, RegisterPortStep, RegisterBrowserStep, Zenon
     DEF Step

LEMMA NextInv == IInv /\ [Next]_vars => IInv'
<1> SUFFICES ASSUME IInv, [Next]_vars PROVE IInv'
  BY Zenon
<1>1. ASSUME NEW t \in Task, (\E r \in Request : Begin(t, r)) \/ Step(t) \/ WriteFirst(t)
      PROVE  IInv'
  BY <1>1, BeginStep, StepInv, WriteFirstStep, Zenon
<1>2. ASSUME NEW b \in Task, \/ Disconnect(b) \/ ServiceEnds(b) \/ ExecutorExits(b)
                             \/ ExecutorReaper(b) \/ TeardownStep(b)
      PROVE  IInv'
  BY <1>2, DisconnectStep, ServiceEndsStep, ExecutorExitsStep, ExecutorReaperStep, JobStep, Zenon
     DEF TeardownStep
<1>3. CASE UNCHANGED vars
  <2>1. TypeOK'
    BY <1>3, Types, KeptLedger, Zenon DEF vars, ledger, TypeOK, HandlerType, TeardownType, Horizon
  <2> QED BY <1>3, <2>1, ElsewhereStep, Zenon DEF vars, ledger
<1> QED BY <1>1, <1>2, <1>3, SessionReaperStep, VaultStep, PeerStep, TickStep, Zenon DEF Next

\* The inductive invariant: types, the exact index, and what every handler between its
\* start and its end may rely on (its gate, the browser it found, the key it shares).
THEOREM Invariance == Spec => []IInv
  BY InitInv, NextInv, PTL DEF Spec

\* Types are kept, in particular no arithmetic on deadlines and lease expiries
\* leaves the naturals (lease_expiry).
THEOREM TypeCorrect == Spec => []TypeOK
<1>1. IInv => TypeOK
  BY Zenon DEF IInv
<1> QED BY <1>1, Invariance, PTL

\* The index of shared browsers is exact in every reachable state, whatever the
\* requests, lock_vault, the reapers and the revocations do, and in any order.
THEOREM IndexExact == Spec => []SharedIndexExact
<1>1. IInv => SharedIndexExact
  BY Zenon DEF IInv
<1> QED BY <1>1, Invariance, PTL

-----------------------------------------------------------------------------
(* Leases join only before the deadline. *)

JoinsInTime ==
    \A b \in DOMAIN browsers \cap DOMAIN browsers' :
        (\E s \in Task : s \in DOMAIN browsers'[b].leases \ LeasesOf(b))
            => now < browsers[b].deadline

LEMMA NoLeaseInTime == NoLeaseAdded => JoinsInTime
  BY Zenon DEF NoLeaseAdded, JoinsInTime

LEMMA AttachInTime ==
  ASSUME IInv, NEW t \in Task, JoinAttach(t)
  PROVE  JoinsInTime
<1> DEFINE b == at[t]
<1>1. TypeOK /\ SharedIndexExact
  BY Zenon DEF IInv
<1>2. CASE b \notin DOMAIN browsers
  BY <1>2, KeptShrinks, NoLeaseInTime, Zenon DEF JoinAttach
<1>3. CASE b \in DOMAIN browsers /\ browsers[b].deadline <= now
  <2>1. ~(browsers[b].deadline > now)
    BY <1>1, <1>3, TimeTypes
  <2>2. Terminate({b}, t)
    BY <1>3, <2>1, Zenon DEF JoinAttach
  <2> QED BY <1>1, <1>3, <2>2, TerminateLedger, NoLeaseInTime, Zenon DEF TypeOK, TeardownType
<1>4. CASE b \in DOMAIN browsers /\ ~(browsers[b].deadline <= now)
  <2>1. now < browsers[b].deadline
    BY <1>1, <1>4, TimeTypes
  <2>2. \A c \in DOMAIN browsers \ {b} : browsers'[c] = browsers[c]
    BY <1>4, Zenon DEF JoinAttach, Put
  <2> QED BY <2>1, <2>2, Zenon DEF JoinsInTime, LeasesOf
<1> QED BY <1>2, <1>3, <1>4, Zenon

LEMMA StepInTime ==
  ASSUME IInv, NEW t \in Task, Step(t)
  PROVE  JoinsInTime
<1>1. CASE JoinAttach(t)
  BY <1>1, AttachInTime, Zenon
<1>2. CASE JoinExpire(t)
  <2>1. CASE UNCHANGED ledger
    BY <2>1, KeptShrinks, NoLeaseInTime, Zenon
  <2>2. CASE at[t] \in DOMAIN browsers /\ Terminate({at[t]}, t)
    BY <2>2, TerminateLedger, NoLeaseInTime, Zenon DEF IInv, TypeOK, TeardownType
  <2> QED BY <1>2, <2>1, <2>2, Zenon DEF JoinExpire
<1>3. CASE RegisterBrowser(t)
  <2>1. t \notin DOMAIN browsers
    BY <1>3, Zenon DEF RegisterBrowser, IInv, DoneInv
  <2>2. \A b \in DOMAIN browsers : browsers'[b] = browsers[b]
    BY <1>3, <2>1, Zenon DEF RegisterBrowser, Put
  <2> QED BY <2>2, Zenon DEF JoinsInTime, LeasesOf
<1>4. CASE UNCHANGED browsers
  BY <1>4, Zenon DEF JoinsInTime, LeasesOf
<1> QED BY <1>1, <1>2, <1>3, <1>4, Zenon
        DEF Step, LockGate, JoinLookup, JoinLeaseOk, JoinLeaseErr, JoinClosed, Refuse,
            Launch, LaunchFails, LaunchOk, PendingEnds, PendingDone, HandOff,
            RegisterFails, RegisterPort, ledger

LEMMA EndingInTime ==
  ASSUME IInv, NEW b \in Task,
         \/ Disconnect(b) \/ ServiceEnds(b) \/ ExecutorExits(b) \/ ExecutorReaper(b)
         \/ TeardownStep(b)
  PROVE  JoinsInTime
<1>1. ASSUME NEW gone, Remove(gone) PROVE JoinsInTime
  BY <1>1, RemoveLedger, NoLeaseInTime, Zenon DEF IInv, TypeOK
<1>2. ASSUME NEW bs, NEW by, Terminate(bs, by) PROVE JoinsInTime
  BY <1>1, <1>2, Zenon DEF Terminate
<1>3. CASE UNCHANGED ledger
  BY <1>3, KeptShrinks, NoLeaseInTime, Zenon
<1> QED BY <1>1, <1>2, <1>3, Zenon
        DEF Disconnect, ServiceEnds, ExecutorExits, ExecutorReaper, TeardownStep, JobStop,
            JobAudit

\* A lease joins a browser only before its deadline, however long join_browser
\* waited for the executor.
THEOREM JoinsBeforeDeadline == Spec => JoinBeforeDeadline
<1>1. IInv /\ [Next]_vars => [JoinsInTime]_vars
  <2> SUFFICES ASSUME IInv, Next PROVE JoinsInTime
    BY Zenon
  <2>1. ASSUME NEW t \in Task, Step(t) PROVE JoinsInTime
    BY <2>1, StepInTime, Zenon
  <2>2. ASSUME NEW b \in Task, \/ Disconnect(b) \/ ServiceEnds(b) \/ ExecutorExits(b)
                               \/ ExecutorReaper(b) \/ TeardownStep(b)
        PROVE  JoinsInTime
    BY <2>2, EndingInTime, Zenon
  <2>3. CASE SessionReaper
    <3>1. PICK gone : Remove(gone)
      BY <2>3, Zenon DEF SessionReaper
    <3> QED BY <3>1, RemoveLedger, NoLeaseInTime, Zenon DEF IInv, TypeOK
  <2>4. ASSUME NEW bs, NEW by, Terminate(bs, by) PROVE JoinsInTime
    BY <2>4, RemoveLedger, NoLeaseInTime, Zenon DEF Terminate, IInv, TypeOK
  <2>5. CASE UNCHANGED ledger
    BY <2>5, KeptShrinks, NoLeaseInTime, Zenon
  <2>6. CASE Vault
    BY <2>4, <2>5, <2>6, Zenon DEF Vault, DrainBrowsers, LockReturns, LockProviders
  <2>7. ASSUME NEW p \in Peer, PeerRevocation(p) PROVE JoinsInTime
    BY <2>4, <2>5, <2>7, Zenon DEF PeerRevocation, RevokePeer, EndPeerPending, EndPeerLeases
  <2>8. ASSUME NEW t \in Task, NEW r \in Request, Begin(t, r) PROVE JoinsInTime
    BY <2>5, <2>8, Zenon DEF Begin
  <2>9. CASE Tick
    BY <2>5, <2>9, Zenon DEF Tick
  <2>10. ASSUME NEW t \in Task, WriteFirst(t) PROVE JoinsInTime
    BY <2>5, <2>10, Zenon DEF WriteFirst
  <2> QED BY <2>1, <2>2, <2>3, <2>6, <2>7, <2>8, <2>9, <2>10, Zenon DEF Next
<1>2. [JoinsInTime]_vars <=>
        [\A b \in DOMAIN browsers \cap DOMAIN browsers' :
            (\E s \in Task : s \in DOMAIN browsers'[b].leases \ LeasesOf(b))
                => now < browsers[b].deadline]_vars
  BY Zenon DEF JoinsInTime
<1> QED BY <1>1, <1>2, Invariance, PTL DEF Spec, JoinBeforeDeadline

-----------------------------------------------------------------------------
(* Leases: their ports, their ends and the executors behind them. *)

\* Where a request answers for the executor it started.
Running == {"writing", "starting", "pending", "regate", "handoff", "ports", "insert"}

\* A request that has not returned has no session yet, only, at last, its port.
Fresh(t) ==
    /\ pc[t] # "done" => ended[t] = 0
    /\ pc[t] = "insert" =>
          t \in DOMAIN ports /\ ports[t] = [principal |-> req[t].key.principal, port |-> t]
    /\ pc[t] \in Found /\ at[t] \in DOMAIN browsers => browsers[at[t]].key = req[t].key

LeasesDone == \A b \in DOMAIN browsers : \A s \in LeasesOf(b) : pc[s] = "done"
JobsDone == \A j \in jobs : \A s \in j.sessions : pc[s] = "done" /\ ended[s] = 0

LeaseInv ==
    /\ PortsMatchLeases /\ EndedOnce /\ NoOrphanExecutor
    /\ LeasesDone /\ JobsDone
    /\ \A t \in Task : Fresh(t)

\* What the handlers' own state may do in a step that opens no session.
Frame ==
    \A u \in Task :
        /\ pc[u] = "done" => pc'[u] = "done"
        /\ pc'[u] = "insert" <=> pc[u] = "insert"
        /\ pc[u] = "insert" => req'[u] = req[u]
        /\ pc'[u] \in Found => \/ pc[u] \in Found /\ at'[u] = at[u] /\ req'[u] = req[u]
                               \/ browsers[at'[u]].key = req'[u].key
        /\ exec'[u] = "live" => pc'[u] \in Running \/ (exec[u] = "live" /\ pc[u] \notin Running)

LEMMA SameFrame == UNCHANGED <<pc, req, at, exec>> => Frame
  BY Zenon DEF Frame

LEMMA OneBrowser ==
  ASSUME PortsMatchLeases, NEW b \in DOMAIN browsers, NEW c \in DOMAIN browsers,
         NEW s \in LeasesOf(b), s \in LeasesOf(c)
  PROVE  b = c
<1>1. /\ ports[s] = [principal |-> browsers[b].key.principal, port |-> b]
      /\ ports[s] = [principal |-> browsers[c].key.principal, port |-> c]
  BY Zenon DEF PortsMatchLeases
<1> QED BY <1>1

LEMMA InitLeases == Init => LeaseInv
  BY DEF Init, LeaseInv, PortsMatchLeases, EndedOnce, NoOrphanExecutor, LeasesDone, JobsDone,
         Fresh, Found

\* A step that changes neither the ledger nor the teardowns.
LEMMA KeptLeases ==
  ASSUME IInv, LeaseInv, UNCHANGED <<ledger, jobs, ended>>, Frame
  PROVE  LeaseInv'
<1>1. /\ browsers' = browsers /\ ports' = ports /\ jobs' = jobs /\ ended' = ended
      /\ DOMAIN browsers \subseteq Task /\ DOMAIN ports \subseteq Task /\ jobs \subseteq Job
      /\ \A b \in DOMAIN browsers : LeasesOf(b) \subseteq Task
  BY Zenon DEF ledger, IInv, TypeOK, LedgerType, TeardownType
<1>2. PortsMatchLeases'
  BY <1>1, Zenon DEF LeaseInv, PortsMatchLeases, LeasesOf, Frame
<1>3. EndedOnce'
  BY <1>1 DEF LeaseInv, EndedOnce, LeasesOf
<1>4. NoOrphanExecutor'
  BY <1>1, Zenon DEF LeaseInv, NoOrphanExecutor, LeasesOf, Frame, Running
<1>5. LeasesDone'
  BY <1>1, Zenon DEF LeaseInv, LeasesDone, LeasesOf, Frame
<1>6. JobsDone'
  BY <1>1, Zenon DEF LeaseInv, JobsDone, Frame, Job
<1>7. ASSUME NEW t \in Task PROVE Fresh(t)'
  <2>1. Fresh(t)
    BY Zenon DEF LeaseInv
  <2>2. /\ pc'[t] # "done" => ended'[t] = 0
        /\ pc'[t] = "insert" =>
              t \in DOMAIN ports' /\ ports'[t] = [principal |-> req'[t].key.principal, port |-> t]
    BY <1>1, <2>1, Zenon DEF Fresh, Frame
  <2>3. pc'[t] \in Found /\ at'[t] \in DOMAIN browsers' => browsers'[at'[t]].key = req'[t].key
    BY <1>1, <2>1, Zenon DEF Fresh, Frame
  <2> QED BY <2>2, <2>3, Zenon DEF Fresh
<1> QED BY <1>2, <1>3, <1>4, <1>5, <1>6, <1>7, Zenon DEF LeaseInv

LEMMA RemoveFacts ==
  ASSUME NEW gone, Remove(gone)
  PROVE  /\ DOMAIN browsers' = DOMAIN browsers \ Emptied(gone)
         /\ \A b \in DOMAIN browsers' :
               /\ browsers'[b].key = browsers[b].key
               /\ DOMAIN browsers'[b].leases = LeasesOf(b) \ gone
         /\ DOMAIN ports' = DOMAIN ports \ gone
         /\ \A s \in DOMAIN ports' : ports'[s] = ports[s]
<1>1. /\ DOMAIN browsers' = DOMAIN browsers \ Emptied(gone)
      /\ \A b \in DOMAIN browsers' :
            /\ browsers'[b].key = browsers[b].key
            /\ DOMAIN browsers'[b].leases = LeasesOf(b) \ gone
  BY Zenon DEF Remove, WithLeases, Browser, Restrict
<1>2. /\ DOMAIN ports' = DOMAIN ports \ gone
      /\ \A s \in DOMAIN ports' : ports'[s] = ports[s]
  BY Zenon DEF Remove, Restrict
<1> QED BY <1>1, <1>2, Zenon

\* The leases in gone are handed over to the teardowns in new: each to at most one of
\* them, and with the last lease of a browser goes the duty to stop its executor.
HandsOver(gone, new) ==
    /\ \A s \in gone : \E b \in DOMAIN browsers : s \in LeasesOf(b)
    /\ \A j \in new : j.sessions \subseteq gone
    /\ \A i, j \in new : i # j => i.sessions \cap j.sessions = {}
    /\ \A b \in DOMAIN browsers :
          LeasesOf(b) # {} /\ LeasesOf(b) \subseteq gone /\ exec[b] = "live" =>
              \E j \in new : j.exec = b /\ j.phase = "stop" /\ j.stop

\* A step that takes leases out of the ledger and hands them over to teardowns.
LEMMA RemovedLeases ==
  ASSUME IInv, LeaseInv, NEW gone, Remove(gone), NEW new, jobs' = jobs \cup new,
         UNCHANGED ended, Frame, HandsOver(gone, new)
  PROVE  LeaseInv'
<1>1. /\ DOMAIN browsers \subseteq Task /\ DOMAIN ports \subseteq Task /\ jobs \subseteq Job
      /\ \A b \in DOMAIN browsers : LeasesOf(b) \subseteq Task
  BY Zenon DEF IInv, TypeOK, LedgerType, TeardownType
<1>2. /\ DOMAIN browsers' \subseteq DOMAIN browsers
      /\ \A b \in DOMAIN browsers \ DOMAIN browsers' : LeasesOf(b) \subseteq gone
      /\ \A b \in DOMAIN browsers' :
            /\ browsers'[b].key = browsers[b].key
            /\ DOMAIN browsers'[b].leases = LeasesOf(b) \ gone /\ DOMAIN browsers'[b].leases # {}
  <2>1. DOMAIN browsers' = DOMAIN browsers \ {b \in DOMAIN browsers : LeasesOf(b) \subseteq gone}
    BY RemoveFacts, Zenon DEF Emptied
  <2>2. \A b \in DOMAIN browsers' :
            /\ browsers'[b].key = browsers[b].key
            /\ DOMAIN browsers'[b].leases = LeasesOf(b) \ gone
    BY RemoveFacts, Zenon
  <2> QED BY <2>1, <2>2, Zenon
<1>3. /\ DOMAIN ports' = DOMAIN ports \ gone
      /\ \A s \in DOMAIN ports' : ports'[s] = ports[s]
  BY RemoveFacts, Zenon
<1>4. \A s \in gone : s \in Task /\ pc[s] = "done" /\ ended[s] = 0
                      /\ \A j \in jobs : s \notin j.sessions
  BY <1>1 DEF HandsOver, LeaseInv, LeasesDone, EndedOnce
<1>5. PortsMatchLeases'
  <2>1. \A b \in DOMAIN browsers' : \A s \in DOMAIN browsers'[b].leases :
          /\ s \in DOMAIN ports'
          /\ ports'[s] = [principal |-> browsers'[b].key.principal, port |-> b]
    BY <1>2, <1>3 DEF LeaseInv, PortsMatchLeases
  <2>2. ASSUME NEW s \in DOMAIN ports', pc'[s] # "insert"
        PROVE  ports'[s].port \in DOMAIN browsers' /\ s \in DOMAIN browsers'[ports'[s].port].leases
    <3>1. s \in DOMAIN ports /\ s \notin gone /\ ports'[s] = ports[s] /\ pc[s] # "insert"
      BY <1>1, <1>3, <2>2, Zenon DEF Frame
    <3>2. ports[s].port \in DOMAIN browsers /\ s \in LeasesOf(ports[s].port)
      BY <3>1, Zenon DEF LeaseInv, PortsMatchLeases
    <3>3. ports[s].port \in DOMAIN browsers'
      BY <1>2, <3>1, <3>2, Zenon
    <3> QED BY <1>2, <3>1, <3>2, <3>3, Zenon
  <2> QED BY <2>1, <2>2, Zenon DEF PortsMatchLeases, LeasesOf
<1>6. EndedOnce'
  <2>1. \A b \in DOMAIN browsers' : \A s \in DOMAIN browsers'[b].leases :
          /\ b \in DOMAIN browsers /\ s \in LeasesOf(b) /\ s \notin gone
    BY <1>2, Zenon
  <2>2. \A b \in DOMAIN browsers' : \A s \in DOMAIN browsers'[b].leases :
          \A c \in DOMAIN browsers' \ {b} : s \notin DOMAIN browsers'[c].leases
    BY <1>2, <2>1, Zenon DEF LeaseInv, EndedOnce
  <2>3. \A b \in DOMAIN browsers' : \A s \in DOMAIN browsers'[b].leases :
          ended[s] = 0 /\ \A j \in jobs' : s \notin j.sessions
    BY <2>1, Zenon DEF HandsOver, LeaseInv, EndedOnce
  <2>4. ASSUME NEW i \in jobs', NEW j \in jobs', i # j
        PROVE  i.sessions \cap j.sessions = {}
    <3>1. CASE i \in jobs /\ j \in jobs
      BY <2>4, <3>1, Zenon DEF LeaseInv, EndedOnce
    <3>2. CASE i \in new /\ j \in new
      BY <2>4, <3>2, Zenon DEF HandsOver
    <3>3. CASE (i \in new /\ j \in jobs) \/ (i \in jobs /\ j \in new)
      BY <1>4, <3>3, Zenon DEF HandsOver
    <3> QED BY <3>1, <3>2, <3>3, Zenon
  <2> QED BY <2>2, <2>3, <2>4, Zenon DEF EndedOnce, LeaseInv, LeasesOf
<1>7. NoOrphanExecutor'
  <2> SUFFICES ASSUME NEW b \in Task, exec'[b] = "live", pc'[b] \notin Running
               PROVE  \/ b \in DOMAIN browsers' /\ DOMAIN browsers'[b].leases # {}
                      \/ \E j \in jobs' : j.exec = b /\ j.phase = "stop" /\ j.stop
    BY Zenon DEF NoOrphanExecutor, Running, LeasesOf
  <2>1. exec[b] = "live" /\ pc[b] \notin Running
    BY Zenon DEF Frame
  <2>2. \/ b \in DOMAIN browsers /\ LeasesOf(b) # {}
        \/ \E j \in jobs : j.exec = b /\ j.phase = "stop" /\ j.stop
    BY <2>1, Zenon DEF LeaseInv, NoOrphanExecutor, Running
  <2>3. CASE b \in DOMAIN browsers /\ LeasesOf(b) # {}
    BY <1>2, <2>1, <2>3, Zenon DEF HandsOver
  <2> QED BY <2>2, <2>3, Zenon
<1>8. LeasesDone'
  BY <1>1, <1>2 DEF LeaseInv, LeasesDone, Frame, LeasesOf
<1>9. JobsDone'
  BY <1>1, <1>4, Zenon DEF HandsOver, LeaseInv, JobsDone, Frame, Job
<1>10. ASSUME NEW t \in Task PROVE Fresh(t)'
  <2>1. pc[t] = "insert" => t \notin gone
    BY <1>4, Zenon
  <2>2. Fresh(t)
    BY Zenon DEF LeaseInv
  <2>3. pc'[t] # "done" => ended'[t] = 0
    BY <2>2, Zenon DEF Fresh, Frame
  <2>4. pc'[t] = "insert" =>
          t \in DOMAIN ports' /\ ports'[t] = [principal |-> req'[t].key.principal, port |-> t]
    BY <1>3, <2>1, <2>2, Zenon DEF Fresh, Frame
  <2>5. pc'[t] \in Found /\ at'[t] \in DOMAIN browsers' => browsers'[at'[t]].key = req'[t].key
    BY <1>2, <2>2 DEF Fresh, Frame
  <2> QED BY <2>3, <2>4, <2>5, Zenon DEF Fresh
<1> QED BY <1>5, <1>6, <1>7, <1>8, <1>9, <1>10, Zenon DEF LeaseInv

\* All leases of some browsers leave, with teardowns that stop their executors.
LEMMA TerminatedLeases ==
  ASSUME IInv, LeaseInv, NEW bs \in SUBSET DOMAIN browsers, NEW by, Terminate(bs, by),
         UNCHANGED ended, Frame
  PROVE  LeaseInv'
<1> DEFINE gone == UNION {LeasesOf(b) : b \in bs}
           new == {Teardown(b, LeasesOf(b), TRUE, by) : b \in bs}
<1>1. Remove(gone) /\ jobs' = jobs \cup new
  BY Zenon DEF Terminate
<1>2. \A s \in gone : \E b \in DOMAIN browsers : s \in LeasesOf(b)
  BY Zenon
<1>3. \A j \in new : \E b \in bs : /\ j = Teardown(b, LeasesOf(b), TRUE, by)
                                   /\ j.exec = b /\ j.sessions = LeasesOf(b)
                                   /\ j.phase = "stop" /\ j.stop
  BY DEF Teardown
<1>4. ASSUME NEW b \in bs PROVE \E j \in new : j.exec = b /\ j.phase = "stop" /\ j.stop
  <2> WITNESS Teardown(b, LeasesOf(b), TRUE, by) \in new
  <2> QED BY Zenon DEF Teardown
<1>5. \A j \in new : j.sessions \subseteq gone
  BY <1>3, Zenon
<1>6. ASSUME NEW i \in new, NEW j \in new, i # j PROVE i.sessions \cap j.sessions = {}
  <2>1. PICK b \in bs : i = Teardown(b, LeasesOf(b), TRUE, by) /\ i.sessions = LeasesOf(b)
    BY <1>3, Zenon
  <2>2. PICK c \in bs : j = Teardown(c, LeasesOf(c), TRUE, by) /\ j.sessions = LeasesOf(c)
    BY <1>3, Zenon
  <2>3. b # c
    BY <1>6, <2>1, <2>2, Zenon
  <2>4. ASSUME NEW s, s \in LeasesOf(b), s \in LeasesOf(c) PROVE FALSE
    BY <2>3, <2>4, OneBrowser, Zenon DEF LeaseInv
  <2> QED BY <2>1, <2>2, <2>4, Zenon
<1>7. ASSUME NEW b \in DOMAIN browsers, LeasesOf(b) # {}, LeasesOf(b) \subseteq gone
      PROVE  b \in bs
  BY <1>7, OneBrowser DEF LeaseInv
<1>8. \A b \in DOMAIN browsers : LeasesOf(b) # {} /\ LeasesOf(b) \subseteq gone
            /\ exec[b] = "live" => \E j \in new : j.exec = b /\ j.phase = "stop" /\ j.stop
  BY <1>4, <1>7, Zenon
<1>9. HandsOver(gone, new)
  BY <1>2, <1>5, <1>6, <1>8, Zenon DEF HandsOver
<1> HIDE DEF gone, new
<1> QED BY <1>1, <1>9, RemovedLeases, Zenon

-----------------------------------------------------------------------------
LEMMA DisconnectLeases ==
  ASSUME IInv, LeaseInv, NEW s \in Task, Disconnect(s)
  PROVE  LeaseInv'
<1>1. PICK b \in DOMAIN browsers :
         /\ s \in LeasesOf(b)
         /\ Remove({s})
         /\ jobs' = jobs \cup {Teardown(b, {s}, LeasesOf(b) = {s}, "disconnect")}
         /\ UNCHANGED <<pc, req, at, exec, ended>>
  BY Zenon DEF Disconnect
<1> DEFINE j == Teardown(b, {s}, LeasesOf(b) = {s}, "disconnect")
           new == {j}
<1>2. j.exec = b /\ j.sessions = {s} /\ j.phase = "stop" /\ (LeasesOf(b) = {s} => j.stop)
  BY Zenon DEF Teardown
<1>3. ASSUME NEW c \in DOMAIN browsers, LeasesOf(c) # {}, LeasesOf(c) \subseteq {s}
      PROVE  \E i \in new : i.exec = c /\ i.phase = "stop" /\ i.stop
  <2>1. LeasesOf(c) = {s}
    BY <1>3, Zenon
  <2>2. c = b
    BY <1>1, <2>1, OneBrowser, Zenon DEF LeaseInv
  <2> QED BY <1>2, <2>1, <2>2, Zenon
<1>4. \A i \in new : i.sessions \subseteq {s}
  BY <1>2, Zenon
<1>5. \A i, k \in new : i # k => i.sessions \cap k.sessions = {}
  BY Zenon
<1>6. Frame /\ jobs' = jobs \cup new
  BY <1>1, SameFrame, Zenon
<1>7. HandsOver({s}, new)
  BY <1>1, <1>3, <1>4, <1>5 DEF HandsOver
<1> HIDE DEF new
<1> QED BY <1>1, <1>6, <1>7, RemovedLeases, Zenon

LEMMA SessionReaperLeases ==
  ASSUME IInv, LeaseInv, SessionReaper
  PROVE  LeaseInv'
<1> DEFINE dead == {b \in DOMAIN browsers : browsers[b].deadline <= now}
           lapsed(b) == {s \in LeasesOf(b) : browsers[b].leases[s] <= now}
           late == {b \in DOMAIN browsers \ dead : lapsed(b) # {}}
           gone == (UNION {LeasesOf(b) : b \in dead}) \cup (UNION {lapsed(b) : b \in late})
           whole == {Teardown(b, LeasesOf(b), TRUE, "spawn") : b \in dead}
           part == {Teardown(b, lapsed(b), lapsed(b) = LeasesOf(b), "reaper") : b \in late}
           new == whole \cup part
<1>1. /\ Remove(gone) /\ jobs' = jobs \cup new /\ UNCHANGED <<pc, req, at, exec, ended>>
  BY Zenon DEF SessionReaper
<1>2. Frame
  BY <1>1, SameFrame, Zenon
<1>3. dead \cap late = {} /\ dead \subseteq DOMAIN browsers /\ late \subseteq DOMAIN browsers
  BY Zenon
<1>4. \A b \in DOMAIN browsers : lapsed(b) \subseteq LeasesOf(b)
  BY Zenon
<1>5. \A j \in whole : \E b \in dead : /\ j = Teardown(b, LeasesOf(b), TRUE, "spawn")
                                       /\ j.sessions = LeasesOf(b)
  BY DEF Teardown
<1>6. \A j \in part : \E b \in late :
          /\ j = Teardown(b, lapsed(b), lapsed(b) = LeasesOf(b), "reaper")
          /\ j.sessions = lapsed(b)
  BY DEF Teardown
<1>7. ASSUME NEW b \in dead PROVE \E j \in new : j.exec = b /\ j.phase = "stop" /\ j.stop
  <2>1. Teardown(b, LeasesOf(b), TRUE, "spawn") \in new
    BY Zenon
  <2> HIDE DEF new
  <2> QED BY <2>1, Zenon DEF Teardown
<1>8. ASSUME NEW b \in late, lapsed(b) = LeasesOf(b)
      PROVE  \E j \in new : j.exec = b /\ j.phase = "stop" /\ j.stop
  <2>1. Teardown(b, lapsed(b), lapsed(b) = LeasesOf(b), "reaper") \in new
    BY Zenon
  <2> HIDE DEF new
  <2> QED BY <1>8, <2>1, Zenon DEF Teardown
<1> HIDE DEF dead, lapsed, late, whole, part
<1>9. \A s \in gone : \/ \E b \in dead : s \in LeasesOf(b)
                      \/ \E b \in late : s \in lapsed(b)
  BY Zenon
<1>10. \A b \in dead : LeasesOf(b) \subseteq gone
  BY Zenon
<1>11. \A b \in late : lapsed(b) \subseteq gone
  BY Zenon
<1> HIDE DEF gone
<1>12. \A s \in gone : \E b \in DOMAIN browsers : s \in LeasesOf(b)
  BY <1>3, <1>4, <1>9, Zenon
<1>13. \A j \in new : j.sessions \subseteq gone
  BY <1>5, <1>6, <1>10, <1>11, Zenon
<1>14. ASSUME NEW i \in new, NEW j \in new, i # j PROVE i.sessions \cap j.sessions = {}
  <2>1. \A k \in new : \E b \in dead \cup late :
           /\ k = IF b \in dead THEN Teardown(b, LeasesOf(b), TRUE, "spawn")
                  ELSE Teardown(b, lapsed(b), lapsed(b) = LeasesOf(b), "reaper")
           /\ k.sessions \subseteq LeasesOf(b) /\ b \in DOMAIN browsers
    <3>1. ASSUME NEW k \in whole
          PROVE  \E b \in dead : /\ k = Teardown(b, LeasesOf(b), TRUE, "spawn")
                                 /\ k.sessions \subseteq LeasesOf(b)
      BY <1>5, Zenon
    <3>2. ASSUME NEW k \in part
          PROVE  \E b \in late :
                    /\ k = Teardown(b, lapsed(b), lapsed(b) = LeasesOf(b), "reaper")
                    /\ k.sessions \subseteq LeasesOf(b) /\ b \notin dead
      BY <1>3, <1>4, <1>6
    <3> QED BY <1>3, <3>1, <3>2, Zenon
  <2>2. PICK b \in dead \cup late :
           /\ i = IF b \in dead THEN Teardown(b, LeasesOf(b), TRUE, "spawn")
                  ELSE Teardown(b, lapsed(b), lapsed(b) = LeasesOf(b), "reaper")
           /\ i.sessions \subseteq LeasesOf(b) /\ b \in DOMAIN browsers
    BY <2>1, Zenon
  <2>3. PICK c \in dead \cup late :
           /\ j = IF c \in dead THEN Teardown(c, LeasesOf(c), TRUE, "spawn")
                  ELSE Teardown(c, lapsed(c), lapsed(c) = LeasesOf(c), "reaper")
           /\ j.sessions \subseteq LeasesOf(c) /\ c \in DOMAIN browsers
    BY <2>1, Zenon
  <2>4. b # c
    BY <1>14, <2>2, <2>3, Zenon
  <2>5. ASSUME NEW s, s \in LeasesOf(b), s \in LeasesOf(c) PROVE FALSE
    BY <2>2, <2>3, <2>4, <2>5, OneBrowser, Zenon DEF LeaseInv
  <2> QED BY <2>2, <2>3, <2>5, Zenon
<1>15. ASSUME NEW b \in DOMAIN browsers, LeasesOf(b) # {}, LeasesOf(b) \subseteq gone
       PROVE  \E j \in new : j.exec = b /\ j.phase = "stop" /\ j.stop
  <2>1. ASSUME NEW s \in LeasesOf(b) PROVE b \in dead \/ (b \in late /\ s \in lapsed(b))
    <3>1. CASE \E c \in dead : s \in LeasesOf(c)
      BY <1>3, <3>1, OneBrowser, Zenon DEF LeaseInv
    <3>2. CASE \E c \in late : s \in lapsed(c)
      <4>1. PICK c \in late : s \in lapsed(c)
        BY <3>2, Zenon
      <4>2. c = b
        BY <1>3, <1>4, <4>1, OneBrowser, Zenon DEF LeaseInv
      <4> QED BY <4>1, <4>2, Zenon
    <3> QED BY <1>9, <1>15, <3>1, <3>2, Zenon
  <2>2. CASE b \in dead
    BY <1>7, <2>2, Zenon
  <2>3. CASE b \notin dead
    BY <1>4, <1>8, <1>15, <2>1, <2>3
  <2> QED BY <2>2, <2>3, Zenon
<1>16. HandsOver(gone, new)
  BY <1>12, <1>13, <1>14, <1>15, Zenon DEF HandsOver
<1> HIDE DEF new
<1> QED BY <1>1, <1>2, <1>16, RemovedLeases, Zenon

LEMMA ExecutorReaperLeases ==
  ASSUME IInv, LeaseInv, NEW b \in Task, ExecutorReaper(b)
  PROVE  LeaseInv'
<1> DEFINE j == [Teardown(b, LeasesOf(b), FALSE, "spawn") EXCEPT !.phase = "audit"]
           gone == LeasesOf(b)
           new == {j}
<1>1. /\ b \in DOMAIN browsers /\ exec[b] = "stopped" /\ Remove(gone)
      /\ jobs' = jobs \cup new /\ UNCHANGED <<pc, req, at, exec, ended>>
  BY Zenon DEF ExecutorReaper
<1>2. j.sessions = LeasesOf(b)
  BY Zenon DEF Teardown
<1>3. \A i \in new : i.sessions \subseteq gone
  BY <1>2, Zenon
<1>4. \A i, k \in new : i # k => i.sessions \cap k.sessions = {}
  BY Zenon
<1>5. ASSUME NEW c \in DOMAIN browsers, LeasesOf(c) # {}, LeasesOf(c) \subseteq gone
      PROVE  c = b
  BY <1>1, <1>5, OneBrowser, Zenon DEF LeaseInv
<1>6. Frame
  BY <1>1, SameFrame, Zenon
<1>7. \A s \in gone : \E c \in DOMAIN browsers : s \in LeasesOf(c)
  BY <1>1, Zenon
<1>8. HandsOver(gone, new)
  BY <1>1, <1>3, <1>4, <1>5, <1>7, Zenon DEF HandsOver
<1> HIDE DEF gone, new
<1> QED BY <1>1, <1>6, <1>8, RemovedLeases, Zenon

LEMMA JobStopLeases ==
  ASSUME IInv, LeaseInv, NEW j \in jobs, JobStop(j)
  PROVE  LeaseInv'
<1> DEFINE a == [j EXCEPT !.phase = "audit"]
<1>1. /\ j \in Job /\ jobs \subseteq Job /\ UNCHANGED <<browsers, ports, pc, req, at, ended>>
      /\ jobs' = (jobs \ {j}) \cup {a} /\ exec \in [Task -> {"none", "live", "stopped"}]
  BY Zenon DEF JobStop, IInv, TypeOK, TeardownType, ledger
<1>2. a.sessions = j.sessions
  BY <1>1, Zenon DEF Job
<1>3. /\ \A b \in Task : exec'[b] = "live" => exec[b] = "live"
      /\ j.stop => exec'[j.exec] # "live"
  BY <1>1, Zenon DEF JobStop, Job
<1> HIDE DEF a
<1>4. PortsMatchLeases' /\ LeasesDone' /\ \A t \in Task : Fresh(t)'
  BY <1>1 DEF LeaseInv, PortsMatchLeases, LeasesDone, Fresh, LeasesOf
<1>5. EndedOnce' /\ JobsDone'
  BY <1>1, <1>2 DEF LeaseInv, EndedOnce, JobsDone, LeasesOf
<1>6. NoOrphanExecutor'
  BY <1>1, <1>3 DEF LeaseInv, NoOrphanExecutor, LeasesOf
<1> QED BY <1>4, <1>5, <1>6, Zenon DEF LeaseInv

LEMMA JobAuditLeases ==
  ASSUME IInv, LeaseInv, NEW j \in jobs, JobAudit(j)
  PROVE  LeaseInv'
<1>1. /\ j \in Job /\ jobs \subseteq Job /\ UNCHANGED <<browsers, ports, pc, req, at, exec>>
      /\ jobs' = jobs \ {j} /\ j.phase = "audit" /\ ended \in [Task -> Nat]
      /\ \A b \in DOMAIN browsers : LeasesOf(b) \subseteq Task
  BY Zenon DEF JobAudit, IInv, TypeOK, LedgerType, TeardownType, ledger
<1>2. \A s \in Task : ended'[s] = IF s \in j.sessions THEN ended[s] + 1 ELSE ended[s]
  BY Zenon DEF JobAudit
<1>3. \A s \in j.sessions : s \in Task /\ pc[s] = "done" /\ ended[s] = 0
  BY <1>1, Zenon DEF LeaseInv, JobsDone, Job
<1>4. PortsMatchLeases' /\ LeasesDone' /\ NoOrphanExecutor'
  BY <1>1, Zenon DEF LeaseInv, PortsMatchLeases, LeasesDone, NoOrphanExecutor, LeasesOf
<1>5. \A t \in Task : Fresh(t)'
  BY <1>1, <1>2, <1>3, Zenon DEF LeaseInv, Fresh
<1>6. EndedOnce'
  <2>1. \A s \in Task : ended'[s] <= 1
    BY <1>2, <1>3 DEF LeaseInv, EndedOnce
  <2>2. \A b \in DOMAIN browsers : \A s \in LeasesOf(b) : ended'[s] = 0
    BY <1>1, <1>2, Zenon DEF LeaseInv, EndedOnce
  <2> QED BY <1>1, <2>1, <2>2 DEF LeaseInv, EndedOnce, LeasesOf
<1>7. JobsDone'
  <2>1. \A i \in jobs' : \A s \in i.sessions : s \in Task /\ s \notin j.sessions
    BY <1>1, Zenon DEF LeaseInv, EndedOnce, Job
  <2> QED BY <1>1, <1>2, <2>1, Zenon DEF LeaseInv, JobsDone
<1> QED BY <1>4, <1>5, <1>6, <1>7, Zenon DEF LeaseInv

-----------------------------------------------------------------------------
(* The handlers' steps. *)

\* A step of request t that opens no session.
LEMMA OwnFrame ==
  ASSUME IInv, NEW t \in Task, NEW to \in PC \ {"insert"}, Goto(t, to),
         pc[t] \notin {"done", "insert"},
         \A u \in Task \ {t} : req'[u] = req[u] /\ at'[u] = at[u] /\ exec'[u] = exec[u],
         to \in Found => \/ pc[t] \in Found /\ at'[t] = at[t] /\ req'[t] = req[t]
                         \/ browsers[at'[t]].key = req'[t].key,
         to \in Running \/ exec'[t] = "stopped" \/ (pc[t] \notin Running /\ exec'[t] = exec[t])
  PROVE  Frame
<1>1. pc'[t] = to /\ \A u \in Task \ {t} : pc'[u] = pc[u]
  BY GotoFacts, Zenon DEF IInv, TypeOK
<1> QED BY <1>1, Zenon DEF Frame

LEMMA QuietLeases ==
  ASSUME IInv, LeaseInv, NEW t \in Task,
         \/ \E r \in Request : Begin(t, r)
         \/ LockGate(t) \/ JoinLeaseOk(t) \/ JoinLeaseErr(t) \/ JoinClosed(t)
         \/ Refuse(t) \/ Launch(t) \/ WriteFirst(t) \/ LaunchFails(t) \/ LaunchOk(t)
         \/ PendingEnds(t) \/ PendingDone(t) \/ HandOff(t) \/ RegisterFails(t)
  PROVE  LeaseInv'
<1>1. HandlerType /\ TeardownType
  BY Zenon DEF IInv, TypeOK
<1>2. UNCHANGED <<ledger, jobs, ended>>
  BY Zenon DEF Begin, LockGate, JoinLeaseOk, JoinLeaseErr, JoinClosed, Refuse, Launch, LaunchFails,
         WriteFirst, LaunchOk, PendingEnds, PendingDone, HandOff, RegisterFails
<1> SUFFICES Frame
  BY <1>2, KeptLeases, Zenon
<1>3. ASSUME NEW r \in Request, Begin(t, r) PROVE Frame
  BY <1>1, <1>3, OwnFrame, Zenon DEF Begin, HandlerType, PC, Found, Running
<1>4. CASE LockGate(t)
  BY <1>1, <1>4, OwnFrame, Zenon DEF LockGate, PC, Found, Running
<1>5. CASE JoinLeaseOk(t) \/ JoinClosed(t)
  BY <1>1, <1>5, OwnFrame, Zenon DEF JoinLeaseOk, JoinClosed, PC, Found, Running
<1>6. CASE JoinLeaseErr(t)
  BY <1>1, <1>6, OwnFrame, Zenon DEF JoinLeaseErr, Return, HandlerType, PC, Found, Running
<1>7. CASE Refuse(t)
  BY <1>1, <1>7, OwnFrame, Zenon DEF Refuse, Return, PC, Found, Running
<1>8. CASE Launch(t)
  BY <1>1, <1>8, OwnFrame, Zenon DEF Launch, TeardownType, PC, Found, Running
<1>9. CASE LaunchFails(t) \/ PendingEnds(t) \/ RegisterFails(t)
  BY <1>1, <1>9, OwnFrame, Zenon DEF LaunchFails, PendingEnds, RegisterFails, Return, TeardownType,
                              PC, Found, Running
<1>10. CASE WriteFirst(t) \/ LaunchOk(t)
  BY <1>1, <1>10, OwnFrame, Zenon DEF WriteFirst, LaunchOk, PC, Found, Running
<1>11. CASE PendingDone(t)
  BY <1>1, <1>11, OwnFrame, Zenon DEF PendingDone, PC, Found, Running
<1>12. CASE HandOff(t)
  BY <1>1, <1>12, OwnFrame, Zenon DEF HandOff, HandlerType, PC, Found, Running
<1> QED BY <1>3, <1>4, <1>5, <1>6, <1>7, <1>8, <1>9, <1>10, <1>11, <1>12

\* The lookup finds a browser of the request's key: the index is exact.
LEMMA JoinLookupLeases ==
  ASSUME IInv, LeaseInv, NEW t \in Task, JoinLookup(t)
  PROVE  LeaseInv'
<1>1. HandlerType /\ UNCHANGED <<ledger, jobs, ended, req, exec>> /\ pc[t] = "join"
  BY Zenon DEF JoinLookup, IInv, TypeOK
<1>2. CASE req[t].key \notin DOMAIN shared
  <2>1. Frame
    BY <1>1, <1>2, OwnFrame, Zenon DEF JoinLookup, PC, Found, Running
  <2> QED BY <1>1, <2>1, KeptLeases, Zenon
<1>3. CASE req[t].key \in DOMAIN shared
  <2>1. PICK to \in {"expire", "leasing"} : Goto(t, to)
    BY <1>3, Zenon DEF JoinLookup
  <2>2. at'[t] = shared[req[t].key] /\ \A u \in Task \ {t} : at'[u] = at[u]
    BY <1>1, <1>3, Zenon DEF JoinLookup, HandlerType
  <2>3. browsers[at'[t]].key = req'[t].key
    BY <1>1, <1>3, <2>2, Zenon DEF IInv, SharedIndexExact
  <2>4. Frame
    BY <1>1, <2>1, <2>2, <2>3, OwnFrame, Zenon DEF PC, Running
  <2> QED BY <1>1, <2>4, KeptLeases, Zenon
<1> QED BY <1>2, <1>3, Zenon

LEMMA JoinExpireLeases ==
  ASSUME IInv, LeaseInv, NEW t \in Task, JoinExpire(t)
  PROVE  LeaseInv'
<1>1. HandlerType /\ UNCHANGED <<ended, req, exec>> /\ pc[t] = "expire"
  BY Zenon DEF JoinExpire, IInv, TypeOK
<1>2. Frame
  BY <1>1, OwnFrame, Zenon DEF JoinExpire, HandlerType, PC, Found, Running
<1>3. CASE at[t] \in DOMAIN browsers /\ Terminate({at[t]}, t)
  BY <1>1, <1>2, <1>3, TerminatedLeases, Zenon
<1>4. CASE UNCHANGED <<ledger, jobs>>
  BY <1>1, <1>2, <1>4, KeptLeases, Zenon
<1> QED BY <1>3, <1>4, Zenon DEF JoinExpire

\* A request that has not returned is neither a session nor in a teardown.
LEMMA NotYetASession ==
  ASSUME IInv, LeaseInv, NEW t \in Task, pc[t] # "done"
  PROVE  /\ t \notin DOMAIN browsers /\ ended[t] = 0
         /\ \A b \in DOMAIN browsers : t \notin LeasesOf(b)
         /\ \A j \in jobs : t \notin j.sessions
  BY Zenon DEF IInv, DoneInv, LeaseInv, Fresh, LeasesDone, JobsDone

LEMMA JoinAttachLeases ==
  ASSUME IInv, LeaseInv, NEW t \in Task, JoinAttach(t)
  PROVE  LeaseInv'
<1>1. HandlerType /\ UNCHANGED <<ended, req, exec>> /\ pc[t] = "attach"
  BY Zenon DEF JoinAttach, IInv, TypeOK
<1>2. CASE Goto(t, "start") /\ UNCHANGED <<ledger, jobs>>
  <2>1. Frame
    BY <1>1, <1>2, OwnFrame, Zenon DEF JoinAttach, HandlerType, PC, Found, Running
  <2> QED BY <1>1, <1>2, <2>1, KeptLeases, Zenon
<1>3. CASE at[t] \in DOMAIN browsers /\ Terminate({at[t]}, t) /\ Goto(t, "closing")
  <2>1. Frame
    BY <1>1, <1>3, OwnFrame, Zenon DEF JoinAttach, HandlerType, PC, Found, Running
  <2> QED BY <1>1, <1>3, <2>1, TerminatedLeases, Zenon
<1>4. ASSUME NEW b \in DOMAIN browsers, b = at[t], Return(t), UNCHANGED jobs,
             browsers' = Put(browsers, b, WithLeases(b, Put(browsers[b].leases, t,
                                              LeaseExpiry(browsers[b].deadline)))),
             ports' = Put(ports, t, [principal |-> req[t].key.principal, port |-> b])
      PROVE  LeaseInv'
  <2>1. /\ pc'[t] = "done" /\ \A u \in Task \ {t} : pc'[u] = pc[u] /\ at'[u] = at[u]
    BY <1>1, <1>4, Zenon DEF JoinAttach, Return, Goto, HandlerType
  <2>2. /\ DOMAIN browsers' = DOMAIN browsers
        /\ \A c \in DOMAIN browsers : browsers'[c].key = browsers[c].key
        /\ DOMAIN browsers'[b].leases = LeasesOf(b) \cup {t}
        /\ \A c \in DOMAIN browsers \ {b} : DOMAIN browsers'[c].leases = LeasesOf(c)
    BY <1>4, Zenon DEF Put, WithLeases, Browser, LeasesOf
  <2>3. /\ DOMAIN ports' = DOMAIN ports \cup {t}
        /\ \A s \in DOMAIN ports \ {t} : ports'[s] = ports[s]
        /\ ports'[t] = [principal |-> req[t].key.principal, port |-> b]
    BY <1>4, Zenon DEF Put
  <2>4. browsers[b].key = req[t].key
    BY <1>1, <1>4, Zenon DEF LeaseInv, Fresh, Found
  <2>5. /\ ended[t] = 0 /\ t \notin DOMAIN browsers
        /\ \A c \in DOMAIN browsers : t \notin LeasesOf(c)
        /\ \A j \in jobs : t \notin j.sessions
    BY <1>1, NotYetASession, Zenon
  <2>6. /\ DOMAIN browsers \subseteq Task /\ DOMAIN ports \subseteq Task /\ jobs \subseteq Job
        /\ \A c \in DOMAIN browsers : LeasesOf(c) \subseteq Task
    BY Zenon DEF IInv, TypeOK, LedgerType, TeardownType
  <2>7. PortsMatchLeases'
    <3>1. ASSUME NEW c \in DOMAIN browsers', NEW s \in DOMAIN browsers'[c].leases
          PROVE  /\ s \in DOMAIN ports'
                 /\ ports'[s] = [principal |-> browsers'[c].key.principal, port |-> c]
      <4>1. CASE s = t
        BY <2>2, <2>3, <2>4, <2>5, <4>1, Zenon
      <4>2. CASE s # t
        BY <2>2, <2>3, <4>2 DEF LeaseInv, PortsMatchLeases
      <4> QED BY <4>1, <4>2, Zenon
    <3>2. ASSUME NEW s \in DOMAIN ports', pc'[s] # "insert"
          PROVE  ports'[s].port \in DOMAIN browsers' /\ s \in DOMAIN browsers'[ports'[s].port].leases
      <4>1. CASE s = t
        BY <2>2, <2>3, <4>1
      <4>2. CASE s # t
        <5>1. s \in DOMAIN ports /\ ports'[s] = ports[s] /\ pc[s] # "insert"
          BY <2>1, <2>3, <2>6, <3>2, <4>2, Zenon
        <5>2. ports[s].port \in DOMAIN browsers /\ s \in LeasesOf(ports[s].port)
          BY <5>1, Zenon DEF LeaseInv, PortsMatchLeases
        <5> QED BY <2>2, <5>1, <5>2, Zenon
      <4> QED BY <4>1, <4>2, Zenon
    <3> QED BY <3>1, <3>2, Zenon DEF PortsMatchLeases, LeasesOf
  <2>8. EndedOnce'
    <3>1. ASSUME NEW c \in DOMAIN browsers', NEW s \in DOMAIN browsers'[c].leases
          PROVE  /\ ended[s] = 0
                 /\ \A j \in jobs : s \notin j.sessions
                 /\ \A d \in DOMAIN browsers' \ {c} : s \notin DOMAIN browsers'[d].leases
      <4>1. CASE s = t
        BY <2>2, <2>5, <4>1, Zenon
      <4>2. CASE s # t
        BY <2>2, <4>2 DEF LeaseInv, EndedOnce
      <4> QED BY <4>1, <4>2, Zenon
    <3> QED BY <1>1, <1>4, <3>1, SMTT(40) DEF LeaseInv, EndedOnce, LeasesOf
  <2>9. NoOrphanExecutor'
    <3>1. exec[t] # "live" \/ \E j \in jobs : j.exec = t /\ j.phase = "stop" /\ j.stop
      BY <1>1, <2>5, Zenon DEF LeaseInv, NoOrphanExecutor
    <3> QED BY <1>1, <1>4, <2>1, <2>2, <3>1, SMTT(40) DEF LeaseInv, NoOrphanExecutor, LeasesOf
  <2>10. LeasesDone'
    BY <2>1, <2>2, <2>6, Zenon DEF LeaseInv, LeasesDone, LeasesOf
  <2>11. JobsDone'
    BY <1>1, <1>4, <2>1, <2>6, Zenon DEF LeaseInv, JobsDone, Job
  <2>12. ASSUME NEW u \in Task PROVE Fresh(u)'
    <3>1. CASE u = t
      BY <2>1, <3>1, Zenon DEF Fresh, Found
    <3>2. CASE u # t
      BY <1>1, <2>1, <2>2, <2>3, <3>2 DEF LeaseInv, Fresh
    <3> QED BY <3>1, <3>2, Zenon
  <2> QED BY <2>7, <2>8, <2>9, <2>10, <2>11, <2>12, Zenon DEF LeaseInv
<1> QED BY <1>2, <1>3, <1>4, Zenon DEF JoinAttach

LEMMA RegisterPortLeases ==
  ASSUME IInv, LeaseInv, NEW t \in Task, RegisterPort(t)
  PROVE  LeaseInv'
<1>1. /\ HandlerType /\ UNCHANGED <<browsers, jobs, ended, req, at, exec>> /\ pc[t] = "ports"
      /\ DOMAIN ports \subseteq Task /\ DOMAIN browsers \subseteq Task /\ jobs \subseteq Job
      /\ \A b \in DOMAIN browsers : LeasesOf(b) \subseteq Task
  BY Zenon DEF RegisterPort, IInv, TypeOK, LedgerType, TeardownType
<1>2. pc'[t] = "insert" /\ \A u \in Task \ {t} : pc'[u] = pc[u]
  BY <1>1, Zenon DEF RegisterPort, Goto, HandlerType
<1>3. /\ DOMAIN ports' = DOMAIN ports \cup {t}
      /\ \A s \in DOMAIN ports \ {t} : ports'[s] = ports[s]
      /\ ports'[t] = [principal |-> req[t].key.principal, port |-> t]
  BY Zenon DEF RegisterPort, Put
<1>4. \A b \in DOMAIN browsers : t \notin LeasesOf(b)
  BY <1>1, NotYetASession, Zenon
<1>5. \A j \in jobs : t \notin j.sessions
  BY <1>1, NotYetASession, Zenon
<1>6. PortsMatchLeases'
  <2>1. \A b \in DOMAIN browsers : \A s \in LeasesOf(b) :
          /\ s \in DOMAIN ports'
          /\ ports'[s] = [principal |-> browsers[b].key.principal, port |-> b]
    BY <1>3, <1>4 DEF LeaseInv, PortsMatchLeases
  <2>2. ASSUME NEW s \in DOMAIN ports', pc'[s] # "insert"
        PROVE  ports'[s].port \in DOMAIN browsers /\ s \in LeasesOf(ports'[s].port)
    BY <1>1, <1>2, <1>3, <2>2, Zenon DEF LeaseInv, PortsMatchLeases
  <2> QED BY <1>1, <2>1, <2>2, Zenon DEF PortsMatchLeases, LeasesOf
<1>7. EndedOnce' /\ LeasesDone'
  BY <1>1, <1>2, <1>4 DEF LeaseInv, EndedOnce, LeasesDone, LeasesOf
<1>8. NoOrphanExecutor'
  BY <1>1, <1>2 DEF LeaseInv, NoOrphanExecutor, LeasesOf
<1>9. JobsDone'
  BY <1>1, <1>2, <1>5, Zenon DEF LeaseInv, JobsDone, Job
<1>10. ASSUME NEW u \in Task PROVE Fresh(u)'
  <2>1. CASE u = t
    BY <1>1, <1>2, <1>3, <2>1, Zenon DEF LeaseInv, Fresh, Found
  <2>2. CASE u # t
    BY <1>1, <1>2, <1>3, <2>2, Zenon DEF LeaseInv, Fresh
  <2> QED BY <2>1, <2>2, Zenon
<1> QED BY <1>6, <1>7, <1>8, <1>9, <1>10, Zenon DEF LeaseInv

LEMMA RegisterBrowserLeases ==
  ASSUME IInv, LeaseInv, NEW t \in Task, RegisterBrowser(t)
  PROVE  LeaseInv'
<1>1. /\ HandlerType /\ UNCHANGED <<ports, jobs, ended, req, at, exec>> /\ pc[t] = "insert"
      /\ DOMAIN ports \subseteq Task /\ DOMAIN browsers \subseteq Task /\ jobs \subseteq Job
      /\ \A b \in DOMAIN browsers : LeasesOf(b) \subseteq Task
  BY Zenon DEF RegisterBrowser, IInv, TypeOK, LedgerType, TeardownType
<1>2. pc'[t] = "done" /\ \A u \in Task \ {t} : pc'[u] = pc[u]
  BY <1>1, Zenon DEF RegisterBrowser, Return, Goto, HandlerType
<1>3. /\ t \notin DOMAIN browsers /\ ended[t] = 0
      /\ \A b \in DOMAIN browsers : t \notin LeasesOf(b)
      /\ \A j \in jobs : t \notin j.sessions
  BY <1>1, NotYetASession, Zenon
<1>4. /\ DOMAIN browsers' = DOMAIN browsers \cup {t}
      /\ \A c \in DOMAIN browsers : browsers'[c] = browsers[c]
      /\ browsers'[t].key = req[t].key /\ DOMAIN browsers'[t].leases = {t}
  BY <1>3, Zenon DEF RegisterBrowser, Put, Browser
<1>5. \A c \in DOMAIN browsers : DOMAIN browsers'[c].leases = LeasesOf(c)
  BY <1>4, Zenon DEF LeasesOf
<1>6. t \in DOMAIN ports /\ ports[t] = [principal |-> req[t].key.principal, port |-> t]
  BY <1>1, Zenon DEF LeaseInv, Fresh
<1>7. PortsMatchLeases'
  <2>1. ASSUME NEW c \in DOMAIN browsers', NEW s \in DOMAIN browsers'[c].leases
        PROVE  /\ s \in DOMAIN ports
               /\ ports[s] = [principal |-> browsers'[c].key.principal, port |-> c]
    <3>1. CASE c = t
      BY <1>4, <1>6, <3>1, Zenon
    <3>2. CASE c # t
      BY <1>4, <1>5, <3>2 DEF LeaseInv, PortsMatchLeases
    <3> QED BY <3>1, <3>2, Zenon
  <2>2. ASSUME NEW s \in DOMAIN ports, pc'[s] # "insert"
        PROVE  ports[s].port \in DOMAIN browsers' /\ s \in DOMAIN browsers'[ports[s].port].leases
    <3>1. CASE s = t
      BY <1>4, <1>6, <3>1
    <3>2. CASE s # t
      <4>1. ports[s].port \in DOMAIN browsers /\ s \in LeasesOf(ports[s].port)
        BY <1>1, <1>2, <2>2, <3>2, Zenon DEF LeaseInv, PortsMatchLeases
      <4> QED BY <1>4, <1>5, <4>1, Zenon
    <3> QED BY <3>1, <3>2, Zenon
  <2> QED BY <1>1, <2>1, <2>2, Zenon DEF PortsMatchLeases, LeasesOf
<1>8. EndedOnce'
  <2>1. ASSUME NEW c \in DOMAIN browsers', NEW s \in DOMAIN browsers'[c].leases
        PROVE  /\ ended[s] = 0
               /\ \A j \in jobs : s \notin j.sessions
               /\ \A d \in DOMAIN browsers' \ {c} : s \notin DOMAIN browsers'[d].leases
    <3>1. CASE c = t
      BY <1>3, <1>4, <1>5, <3>1
    <3>2. CASE c # t
      <4>1. c \in DOMAIN browsers /\ s \in LeasesOf(c) /\ s # t
        BY <1>3, <1>4, <1>5, <3>2
      <4> QED BY <1>4, <1>5, <4>1 DEF LeaseInv, EndedOnce
    <3> QED BY <3>1, <3>2, Zenon
  <2> QED BY <1>1, <2>1, Zenon DEF LeaseInv, EndedOnce, LeasesOf
<1>9. NoOrphanExecutor'
  <2> SUFFICES ASSUME NEW b \in Task, exec'[b] = "live"
               PROVE  \/ pc'[b] \in Running
                      \/ b \in DOMAIN browsers' /\ DOMAIN browsers'[b].leases # {}
                      \/ \E j \in jobs' : j.exec = b /\ j.phase = "stop" /\ j.stop
    BY Zenon DEF NoOrphanExecutor, Running, LeasesOf
  <2>1. CASE b = t
    BY <1>4, <2>1, Zenon
  <2>2. CASE b # t
    BY <1>1, <1>2, <1>4, <1>5, <2>2 DEF LeaseInv, NoOrphanExecutor, Running
  <2> QED BY <2>1, <2>2, Zenon
<1>10. LeasesDone'
  BY <1>1, <1>2, <1>4, <1>5 DEF LeaseInv, LeasesDone, LeasesOf
<1>11. JobsDone'
  BY <1>1, <1>2, <1>3, Zenon DEF LeaseInv, JobsDone, Job
<1>12. ASSUME NEW u \in Task PROVE Fresh(u)'
  <2>1. CASE u = t
    BY <1>2, <2>1, Zenon DEF Fresh, Found
  <2>2. CASE u # t
    <3>1. pc[u] \in Found => at[u] # t
      BY <1>1, Zenon DEF IInv, TaskInv, StillFound
    <3> QED BY <1>1, <1>2, <1>4, <2>2, <3>1 DEF LeaseInv, Fresh
  <2> QED BY <2>1, <2>2
<1> QED BY <1>7, <1>8, <1>9, <1>10, <1>11, <1>12, Zenon DEF LeaseInv

-----------------------------------------------------------------------------
(* Every step keeps the leases in order. *)

LEMMA StepLeases ==
  ASSUME IInv, LeaseInv, NEW t \in Task,
         (\E r \in Request : Begin(t, r)) \/ Step(t) \/ WriteFirst(t)
  PROVE  LeaseInv'
  BY QuietLeases, JoinLookupLeases, JoinExpireLeases, JoinAttachLeases, RegisterPortLeases,
     RegisterBrowserLeases, Zenon
     DEF Step

\* lock_vault and revocation end pending logins, which have no session.
LEMMA EndPendingLeases ==
  ASSUME IInv, LeaseInv, NEW ts \in SUBSET {t \in Task : pc[t] = "pending"}, EndPending(ts),
         UNCHANGED <<ledger, req, at, jobs, ended>>
  PROVE  LeaseInv'
<1>1. Frame
  BY Zenon DEF EndPending, Frame, Running, Found
<1> QED BY <1>1, KeptLeases, Zenon

LEMMA SweepLeases ==
  ASSUME IInv, LeaseInv, Vault \/ \E p \in Peer : PeerRevocation(p)
  PROVE  LeaseInv'
<1>1. ASSUME UNCHANGED <<pc, req, at, exec, ledger, jobs, ended>> PROVE LeaseInv'
  BY <1>1, SameFrame, KeptLeases, Zenon
<1>2. ASSUME NEW bs \in SUBSET DOMAIN browsers, NEW by, Terminate(bs, by),
             UNCHANGED <<pc, req, at, exec, ended>>
      PROVE  LeaseInv'
  BY <1>2, SameFrame, TerminatedLeases, Zenon
<1>3. CASE DrainBrowsers
  BY <1>2, <1>3, Zenon DEF DrainBrowsers
<1>4. CASE LockReturns
  <2>1. EndPending({t \in Task : pc[t] = "pending" /\ req[t].key.namespace \in locking})
    BY <1>4, Zenon DEF LockReturns
  <2> QED BY <1>4, <2>1, EndPendingLeases, Zenon DEF LockReturns
<1>5. ASSUME NEW ns \in LockRequest, LockProviders(ns) PROVE LeaseInv'
  BY <1>1, <1>5, Zenon DEF LockProviders
<1>6. ASSUME NEW p \in Peer, PeerRevocation(p) PROVE LeaseInv'
  <2>1. CASE RevokePeer(p)
    BY <1>1, <2>1, Zenon DEF RevokePeer
  <2>2. CASE EndPeerPending(p)
    <3>1. EndPending({t \in Task : pc[t] = "pending" /\ req[t].key.principal = p})
      BY <2>2, Zenon DEF EndPeerPending
    <3> QED BY <2>2, <3>1, EndPendingLeases, Zenon DEF EndPeerPending
  <2>3. CASE EndPeerLeases(p)
    BY <1>2, <2>3, Zenon DEF EndPeerLeases
  <2> QED BY <1>6, <2>1, <2>2, <2>3, Zenon DEF PeerRevocation
<1> QED BY <1>3, <1>4, <1>5, <1>6, Zenon DEF Vault

LEMMA NextLeases == IInv /\ LeaseInv /\ [Next]_vars => LeaseInv'
<1> SUFFICES ASSUME IInv, LeaseInv, [Next]_vars PROVE LeaseInv'
  BY Zenon
<1>1. ASSUME NEW b \in Task, ServiceEnds(b) PROVE LeaseInv'
  BY <1>1, SameFrame, TerminatedLeases, Zenon DEF ServiceEnds
<1>2. ASSUME NEW b \in Task, ExecutorExits(b) PROVE LeaseInv'
  <2>1. Frame
    BY <1>2, Zenon DEF ExecutorExits, Frame, IInv, TypeOK, TeardownType
  <2> QED BY <1>2, <2>1, KeptLeases, Zenon DEF ExecutorExits
<1>3. ASSUME NEW b \in Task, TeardownStep(b) PROVE LeaseInv'
  BY <1>3, JobStopLeases, JobAuditLeases, Zenon DEF TeardownStep
<1>4. CASE Tick
  BY <1>4, SameFrame, KeptLeases, Zenon DEF Tick
<1>5. CASE UNCHANGED vars
  BY <1>5, SameFrame, KeptLeases, Zenon DEF vars, ledger
<1> QED BY <1>1, <1>2, <1>3, <1>4, <1>5, StepLeases, DisconnectLeases, ExecutorReaperLeases,
           SessionReaperLeases, SweepLeases
        DEF Next

\* The inductive invariant of the leases, on top of that of the ledger: ports, ends and
\* executors agree with the leases, and no lease is opened before its request returns.
THEOREM LeasesInOrder == Spec => [](IInv /\ LeaseInv)
<1>1. Init => IInv /\ LeaseInv
  BY InitInv, InitLeases, Zenon
<1>2. IInv /\ LeaseInv /\ [Next]_vars => (IInv /\ LeaseInv)'
  BY NextInv, NextLeases, Zenon
<1> QED BY <1>1, <1>2, PTL DEF Spec

\* Of disconnect, the reapers, lock_vault, revocation and the end of the
\* executor, in any order and at any moment, one takes a session's lease, and
\* only that one tears it down and records its end.
THEOREM SessionEndsOnce == Spec => []EndedOnce
<1>1. IInv /\ LeaseInv => EndedOnce
  BY Zenon DEF LeaseInv
<1> QED BY <1>1, LeasesInOrder, PTL

\* The tunnel resolver, which reads only `ports`, finds exactly the sessions that
\* hold a lease, each with the port and the principal of its own browser.
THEOREM PortsExact == Spec => []PortsMatchLeases
<1>1. IInv /\ LeaseInv => PortsMatchLeases
  BY Zenon DEF LeaseInv
<1> QED BY <1>1, LeasesInOrder, PTL

\* Whatever the handlers, sweeps, reapers and failures do, an executor that runs
\* always has a request, a lease or a teardown that answers for it.
THEOREM NoExecutorLeft == Spec => []NoOrphanExecutor
<1>1. IInv /\ LeaseInv => NoOrphanExecutor
  BY Zenon DEF LeaseInv
<1> QED BY <1>1, LeasesInOrder, PTL
=============================================================================
