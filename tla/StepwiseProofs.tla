--------------------------- MODULE StepwiseProofs ---------------------------
(***************************************************************************)
(* The ledger of stepwise logins, for any set of logins, calls, namespaces  *)
(* and principals and any limits.  The invariants say where two things are  *)
(* that must be in one place: the right to end a login (EndsOnce) and its   *)
(* executor (ExecutorOwned, StepUndisturbed); and that the order of         *)
(* register_pending and immediate_end_reason on the one side, and of a      *)
(* sweep's flag and the sweep on the other, leaves no gap (NoneAfterSweep). *)
(***************************************************************************)
EXTENDS Stepwise, FiniteSetTheorems, TLAPS

Took == {"aborting", "handoff"}
AtWork == {"check", "ready", "exchange"}
Unregistered == {"new", "launched"}

Stage == Reason \cup Unregistered \cup {"registered", "unlocked", "respond", "pending", "over"}
Point == Took \cup AtWork \cup {"new", "slot", "respond", "over"}
Ends == [login : Login, reason : Reason, at : {"slot", "stop", "record"}]

TypeOK ==
    /\ DOMAIN entries \subseteq Login
    /\ slot \in [Login -> BOOLEAN]
    /\ holder \in [Login -> Call \cup {NoOne}]
    /\ exec \in [Login -> {"none", "live", "stopped", "handed off"}]
    /\ begin \in [Login -> Stage]
    /\ step \in [Call -> Point]
    /\ on \in [Call -> Login \cup {NoOne}]
    /\ ends \subseteq Ends
    /\ audits \in [Login -> Nat]
    /\ locked \in [Namespace -> BOOLEAN]
    /\ vault \in [Namespace -> {"idle", "locking", "locked"}]
    /\ peer \in [Principal -> {"active", "revoked", "swept"}]

\* The endings of a login, those of them that have its executor, the calls that have
\* it, and those of them that will hand it off.
Of(l) == {e \in ends : e.login = l}
Stops(l) == {e \in Of(l) : e.at = "stop"}
Takers(l) == {c \in Call : on[c] = l /\ step[c] \in Took}
Handing(l) == {c \in Call : on[c] = l /\ step[c] = "handoff"}

\* Nobody knows of a login before it is registered.
Fresh(l) ==
    /\ begin[l] = "new" => exec[l] = "none"
    /\ begin[l] \in Unregistered =>
          /\ l \notin DOMAIN entries /\ ~slot[l] /\ Of(l) = {} /\ audits[l] = 0
          /\ \A c \in Call : on[c] # l

\* A live executor is in one place.
Owned(l) ==
    /\ slot[l] => /\ Takers(l) = {} /\ Stops(l) = {}
                  /\ l \in DOMAIN entries \/ \E e \in Of(l) : e.at = "slot"
    /\ exec[l] = "live" /\ ~slot[l] =>
          \/ begin[l] = "launched"
          \/ Stops(l) = {} /\ \E c \in Call : Takers(l) = {c}
          \/ Takers(l) = {} /\ \E e \in Of(l) : Stops(l) = {e}

\* The right to end a login is in one place: the ledger, a hand-off, an ending, or the
\* audit log.
Once(l) ==
    /\ \A e, f \in Of(l) : e = f
    /\ \A c, d \in Handing(l) : c = d
    /\ audits[l] \in {0, 1}
    /\ audits[l] = 1 => Of(l) = {}
    /\ l \in DOMAIN entries \/ Handing(l) # {} => audits[l] = 0 /\ Of(l) = {}
    /\ l \in DOMAIN entries => Handing(l) = {}

LoginInv(l) == Fresh(l) /\ Owned(l) /\ (l \notin aborted => Once(l))

\* A call is about a login from its claim on.  While it works on the login it has the
\* slot, and the executor is in it.
CallInv(c) ==
    /\ step[c] # "new" => on[c] \in Login
    /\ step[c] \in AtWork => holder[on[c]] = c
    /\ step[c] \in {"ready", "exchange"} => slot[on[c]]
    /\ step[c] = "aborting" => on[c] \in aborted

\* A login that has passed a check is not in the ledger after the sweep that the check
\* is about.
Past(l) ==
    l \in DOMAIN entries =>
        /\ begin[l] \in {"unlocked", "respond", "pending"} => vault[NamespaceOf[l]] # "locked"
        /\ begin[l] \in {"respond", "pending"} => peer[PrincipalOf[l]] # "swept" /\ down # "swept"

SweepInv ==
    /\ \A n \in Namespace : vault[n] = "locked" => locked[n]
    /\ \A l \in Login : Past(l)

IInv ==
    /\ TypeOK /\ SweepInv
    /\ \A l \in Login : LoginInv(l)
    /\ \A c \in Call : CallInv(c)

-----------------------------------------------------------------------------
(* What a step leaves alone. *)

\* Nothing changes that LoginInv is about, except that the executor may end and that
\* login_begin may go on.
Alike(l) ==
    /\ l \in DOMAIN entries' <=> l \in DOMAIN entries
    /\ l \in aborted' <=> l \in aborted
    /\ slot'[l] = slot[l] /\ audits'[l] = audits[l]
    /\ exec'[l] = exec[l] \/ (exec'[l] # "live" /\ begin[l] # "new")
    /\ begin'[l] = begin[l] \/ (begin[l] \notin Unregistered /\ begin'[l] \notin Unregistered)
    /\ begin[l] \in Unregistered => \A c \in Call : on'[c] = l => on[c] = l
    /\ Of(l)' = Of(l) /\ Takers(l)' = Takers(l) /\ Handing(l)' = Handing(l)

LEMMA AlikeKeeps ==
  ASSUME NEW l \in Login, LoginInv(l), Alike(l)
  PROVE  LoginInv(l)'
<1>1. Stops(l)' = Stops(l)
  BY Zenon DEF Alike, Stops
<1>2. Fresh(l)'
  BY Zenon DEF LoginInv, Fresh, Alike, Unregistered
<1>3. Owned(l)'
  BY <1>1, Zenon DEF LoginInv, Owned, Alike, Unregistered
<1>4. l \notin aborted' => Once(l)'
  BY Zenon DEF LoginInv, Once, Alike
<1> QED BY <1>2, <1>3, <1>4, Zenon DEF LoginInv

\* Nothing changes that CallInv is about.
Unmoved(c) ==
    /\ step'[c] = step[c] /\ on'[c] = on[c] /\ aborted \subseteq aborted'
    /\ step[c] \in AtWork => holder'[on[c]] = holder[on[c]] /\ slot'[on[c]] = slot[on[c]]

LEMMA UnmovedKeeps ==
  ASSUME NEW c \in Call, CallInv(c), Unmoved(c)
  PROVE  CallInv(c)'
  BY Zenon DEF CallInv, Unmoved, AtWork

LEMMA Alone ==
  ASSUME IInv, NEW c \in Call, NEW d \in Call, step[c] \in AtWork, step[d] \in AtWork, on[c] = on[d]
  PROVE  c = d
  BY Zenon DEF IInv, CallInv

\* A call moves on.
LEMMA Moves ==
  ASSUME TypeOK, NEW c \in Call, NEW x, step' = [step EXCEPT ![c] = x], on' = on
  PROVE  /\ step'[c] = x /\ \A d \in Call : d # c => step'[d] = step[d]
         /\ \A m : m # on[c] => Takers(m)' = Takers(m) /\ Handing(m)' = Handing(m)
         /\ x \in Took => Takers(on[c])' = Takers(on[c]) \cup {c}
         /\ x \notin Took => Takers(on[c])' = Takers(on[c]) \ {c}
         /\ x = "handoff" => Handing(on[c])' = Handing(on[c]) \cup {c}
         /\ x # "handoff" => Handing(on[c])' = Handing(on[c]) \ {c}
<1>1. step'[c] = x /\ \A d \in Call : d # c => step'[d] = step[d]
  BY Zenon DEF TypeOK
<1>2. \A m : m # on[c] => Takers(m)' = Takers(m) /\ Handing(m)' = Handing(m)
  BY <1>1, Zenon DEF Takers, Handing
<1>3. x \in Took => Takers(on[c])' = Takers(on[c]) \cup {c}
  BY <1>1, Zenon DEF Takers
<1>4. x \notin Took => Takers(on[c])' = Takers(on[c]) \ {c}
  BY <1>1, Zenon DEF Takers
<1>5. x = "handoff" => Handing(on[c])' = Handing(on[c]) \cup {c}
  BY <1>1, Zenon DEF Handing
<1>6. x # "handoff" => Handing(on[c])' = Handing(on[c]) \ {c}
  BY <1>1, Zenon DEF Handing
<1> QED BY <1>1, <1>2, <1>3, <1>4, <1>5, <1>6, Zenon

\* ... and takes nothing.
LEMMA MovesQuietly ==
  ASSUME TypeOK, NEW c \in Call, step[c] \notin Took, NEW x, x \notin Took,
         step' = [step EXCEPT ![c] = x], on' = on
  PROVE  /\ step'[c] = x /\ \A d \in Call : d # c => step'[d] = step[d]
         /\ \A m : Takers(m)' = Takers(m) /\ Handing(m)' = Handing(m)
<1>1. step'[c] = x /\ \A d \in Call : d # c => step'[d] = step[d]
  BY Zenon DEF TypeOK
<1>2. x # "handoff" /\ step[c] # "handoff"
  BY Zenon DEF Took
<1>3. \A m : Takers(m)' = Takers(m) /\ Handing(m)' = Handing(m)
  BY <1>1, <1>2, Zenon DEF Takers, Handing
<1> QED BY <1>1, <1>3, Zenon

-----------------------------------------------------------------------------

LEMMA Initially == Init => IInv
<1> SUFFICES ASSUME Init PROVE IInv
  BY Zenon
<1>1. TypeOK
  BY DEF Init, TypeOK, Stage, Point, Unregistered, Ends
<1>2. ASSUME NEW l \in Login PROVE LoginInv(l) /\ Past(l)
  <2>1. Of(l) = {} /\ Takers(l) = {} /\ Handing(l) = {}
    BY Zenon DEF Init, Of, Takers, Handing, Took
  <2>2. Fresh(l)
    BY <2>1, StepwiseAssumption DEF Init, Fresh
  <2>3. Owned(l)
    BY <2>1, Zenon DEF Init, Owned
  <2>4. Once(l)
    BY <2>1, Zenon DEF Init, Once
  <2>5. Past(l)
    BY Zenon DEF Init, Past
  <2> QED BY <2>2, <2>3, <2>4, <2>5, Zenon DEF LoginInv
<1>3. ASSUME NEW c \in Call PROVE CallInv(c)
  BY Zenon DEF Init, CallInv, AtWork
<1> QED BY <1>1, <1>2, <1>3, Zenon DEF IInv, SweepInv, Init

-----------------------------------------------------------------------------
(* Steps that take nothing. *)

\* The checks that login_begin has passed stay passed.
LEMMA StaysPast ==
  ASSUME SweepInv, UNCHANGED world,
         \A l \in Login : l \in DOMAIN entries' =>
            /\ l \in DOMAIN entries
            /\ \/ begin'[l] = begin[l] \/ begin'[l] \notin {"unlocked", "respond", "pending"}
               \/ begin[l] \in {"respond", "pending"}
  PROVE  SweepInv'
<1>1. ASSUME NEW l \in Login PROVE Past(l)'
  <2>1. \A x \in {"respond", "pending"} : x \in {"unlocked", "respond", "pending"}
    BY Zenon
  <2> QED BY <2>1, Zenon DEF SweepInv, Past, world
<1> QED BY <1>1, Zenon DEF SweepInv, world

\* A call goes on without taking the executor.
LEMMA QuietCall ==
  ASSUME IInv, NEW c \in Call, step[c] \notin Took, NEW x \in Point \ (Took \cup {"new"}),
         step' = [step EXCEPT ![c] = x], UNCHANGED <<on, slot, exec, begin, ends, audits, aborted, world>>,
         DOMAIN entries' = DOMAIN entries, on[c] \in Login,
         holder' \in [Login -> Call \cup {NoOne}],
         x \in AtWork => holder'[on[c]] = c,
         x \in {"ready", "exchange"} => slot[on[c]],
         \A d \in Call : d # c /\ step[d] \in AtWork => holder'[on[d]] = holder[on[d]]
  PROVE  IInv'
<1>1. TypeOK'
  BY Zenon DEF IInv, TypeOK, world
<1>2. SweepInv'
  BY StaysPast, Zenon DEF IInv
<1>3. x \notin Took /\ x \in Point /\ TypeOK
  BY Zenon DEF IInv
<1>4. /\ step'[c] = x /\ \A d \in Call : d # c => step'[d] = step[d]
      /\ \A m : Takers(m)' = Takers(m) /\ Handing(m)' = Handing(m)
  BY <1>3, MovesQuietly, Zenon
<1>5. ASSUME NEW l \in Login PROVE LoginInv(l)'
  <2>1. Of(l)' = Of(l)
    BY Zenon DEF Of
  <2>2. Alike(l)
    BY <1>4, <2>1, Zenon DEF Alike
  <2> QED BY <2>2, AlikeKeeps, Zenon DEF IInv
<1>6. ASSUME NEW d \in Call PROVE CallInv(d)'
  <2>1. CASE d = c
    BY <1>3, <1>4, <2>1 DEF CallInv, Took
  <2>2. CASE d # c
    <3>1. Unmoved(d)
      BY <1>4, <2>2, Zenon DEF Unmoved
    <3> QED BY <3>1, UnmovedKeeps, Zenon DEF IInv
  <2> QED BY <2>1, <2>2, Zenon
<1> QED BY <1>1, <1>2, <1>5, <1>6, Zenon DEF IInv

\* Whoever lets the slot go was the only one at work on the login.
LEMMA LetsGo ==
  ASSUME IInv, NEW c \in Call, step[c] \in AtWork, holder' = [holder EXCEPT ![on[c]] = NoOne]
  PROVE  /\ on[c] \in Login /\ holder' \in [Login -> Call \cup {NoOne}]
         /\ \A d \in Call : d # c /\ step[d] \in AtWork =>
               on[d] \in Login /\ on[d] # on[c] /\ holder'[on[d]] = holder[on[d]]
<1>1. TypeOK /\ \A d \in Call : step[d] \in AtWork => on[d] \in Login
  BY Zenon DEF IInv, CallInv, AtWork
<1>2. on[c] \in Login /\ holder' \in [Login -> Call \cup {NoOne}]
  BY <1>1, Zenon DEF TypeOK
<1>3. \A d \in Call : d # c /\ step[d] \in AtWork => on[d] # on[c]
  BY Alone, Zenon
<1>4. \A d \in Call : d # c /\ step[d] \in AtWork => holder'[on[d]] = holder[on[d]]
  BY <1>1, <1>3, Zenon DEF TypeOK
<1> QED BY <1>1, <1>2, <1>3, <1>4, Zenon

LEMMA LockSlotKeeps == ASSUME IInv, NEW c \in Call, LockSlot(c) PROVE IInv'
<1>1. /\ step[c] = "slot" /\ step' = [step EXCEPT ![c] = "check"]
      /\ UNCHANGED <<on, slot, exec, begin, ends, audits, aborted, world>> /\ entries' = entries
      /\ holder[on[c]] = NoOne /\ holder' = [holder EXCEPT ![on[c]] = c]
  BY Zenon DEF LockSlot, history
<1>2. step[c] \notin Took /\ "check" \in Point \ (Took \cup {"new"}) /\ step[c] # "new"
  BY <1>1, Zenon DEF Took, Point, AtWork
<1>3. on[c] \in Login /\ holder \in [Login -> Call \cup {NoOne}]
  BY <1>2, Zenon DEF IInv, CallInv, TypeOK
<1>4. holder' \in [Login -> Call \cup {NoOne}] /\ holder'[on[c]] = c
  BY <1>1, <1>3, Zenon
<1>5. ASSUME NEW d \in Call, d # c, step[d] \in AtWork PROVE holder'[on[d]] = holder[on[d]]
  <2>1. on[d] \in Login /\ holder[on[d]] = d /\ d # NoOne
    BY <1>5, StepwiseAssumption, Zenon DEF IInv, CallInv, AtWork
  <2> QED BY <1>1, <1>3, <2>1, Zenon
<1>6. "check" \notin {"ready", "exchange"}
  BY Zenon
<1> QED BY <1>1, <1>2, <1>3, <1>4, <1>5, <1>6, QuietCall, Zenon

LEMMA CheckCurrentKeeps == ASSUME IInv, NEW c \in Call, CheckCurrent(c) PROVE IInv'
<1>1. /\ step[c] = "check" /\ UNCHANGED <<on, slot, exec, begin, ends, audits, aborted, world>>
      /\ entries' = entries
  BY Zenon DEF CheckCurrent, Leave, history
<1>2. /\ step[c] \notin Took /\ step[c] \in AtWork
      /\ "ready" \in Point \ (Took \cup {"new"}) /\ "over" \in Point \ (Took \cup {"new"})
      /\ "over" \notin AtWork /\ "over" \notin {"ready", "exchange"}
  BY <1>1, Zenon DEF Took, Point, AtWork
<1>3. CASE slot[on[c]] /\ step' = [step EXCEPT ![c] = "ready"] /\ UNCHANGED holder
  <2>1. /\ on[c] \in Login /\ holder[on[c]] = c /\ holder \in [Login -> Call \cup {NoOne}]
    BY <1>1, <1>2, Zenon DEF IInv, CallInv, TypeOK
  <2> QED BY <1>1, <1>2, <1>3, <2>1, QuietCall, Zenon
<1>4. CASE Leave(c, "over")
  <2>1. step' = [step EXCEPT ![c] = "over"] /\ holder' = [holder EXCEPT ![on[c]] = NoOne]
    BY <1>4, Zenon DEF Leave
  <2> QED BY <1>1, <1>2, <2>1, LetsGo, QuietCall, Zenon
<1> QED BY <1>3, <1>4, Zenon DEF CheckCurrent

\* A step that is answered, or not asked at all, gives the slot back.
LEMMA ReleaseKeeps ==
  ASSUME IInv, NEW c \in Call, TotpFails(c) \/ ReplyTooLate(c) \/ ReplyPending(c)
  PROVE  IInv'
<1>1. /\ step[c] \in {"ready", "exchange"}
      /\ UNCHANGED <<on, slot, exec, begin, ends, audits, aborted, world>>
      /\ \E x \in {"over", "respond"} : Leave(c, x)
      /\ entries' = entries \/ entries' = Released(on[c])
  BY Zenon DEF TotpFails, ReplyTooLate, ReplyPending, Leave, history
<1>2. DOMAIN entries' = DOMAIN entries
  BY <1>1, Zenon DEF Released
<1>3. PICK x \in {"over", "respond"} :
         step' = [step EXCEPT ![c] = x] /\ holder' = [holder EXCEPT ![on[c]] = NoOne]
  BY <1>1, Zenon DEF Leave
<1>4. /\ step[c] \notin Took /\ step[c] \in AtWork /\ x \in Point \ (Took \cup {"new"})
      /\ x \notin AtWork /\ x \notin {"ready", "exchange"}
  BY <1>1, Zenon DEF Took, Point, AtWork
<1> QED BY <1>1, <1>2, <1>3, <1>4, LetsGo, QuietCall, Zenon

LEMMA SendKeeps == ASSUME IInv, NEW c \in Call, SendStep(c) PROVE IInv'
<1>1. /\ step[c] = "ready" /\ step' = [step EXCEPT ![c] = "exchange"] /\ entries' = entries
      /\ UNCHANGED <<on, slot, exec, begin, ends, audits, aborted, world>> /\ holder' = holder
  BY Zenon DEF SendStep, history
<1>2. step[c] \notin Took /\ step[c] \in AtWork /\ "exchange" \in Point \ (Took \cup {"new"})
  BY <1>1, Zenon DEF Took, Point, AtWork
<1>3. /\ on[c] \in Login /\ holder[on[c]] = c /\ slot[on[c]]
      /\ holder \in [Login -> Call \cup {NoOne}]
  BY <1>1, <1>2, Zenon DEF IInv, CallInv, TypeOK
<1> QED BY <1>1, <1>2, <1>3, QuietCall, Zenon

LEMMA DeliverStepKeeps == ASSUME IInv, NEW c \in Call, DeliverStep(c) PROVE IInv'
<1>1. /\ step[c] = "respond" /\ step' = [step EXCEPT ![c] = "over"] /\ entries' = entries
      /\ UNCHANGED <<on, slot, exec, begin, ends, audits, aborted, world>> /\ holder' = holder
  BY Zenon DEF DeliverStep, history
<1>2. /\ step[c] \notin Took /\ "over" \in Point \ (Took \cup {"new"})
      /\ "over" \notin AtWork /\ "over" \notin {"ready", "exchange"} /\ step[c] # "new"
  BY <1>1, Zenon DEF Took, Point, AtWork
<1>3. on[c] \in Login /\ holder \in [Login -> Call \cup {NoOne}]
  BY <1>2, Zenon DEF IInv, CallInv, TypeOK
<1> QED BY <1>1, <1>2, <1>3, QuietCall, Zenon

-----------------------------------------------------------------------------
(* Logins leave the ledger and are being ended. *)

LEMMA EndEntriesKeeps ==
  ASSUME IInv, NEW ls \in SUBSET DOMAIN entries, NEW r \in Reason, EndEntries(ls, r),
         UNCHANGED <<slot, exec, audits, aborted>>,
         \A l \in Login : \/ begin'[l] = begin[l]
                          \/ begin[l] \notin Unregistered /\ begin'[l] \notin Unregistered,
         \A l \in Login : begin[l] \in Unregistered => \A c \in Call : on'[c] = l => on[c] = l,
         \A l \in Login : Takers(l)' = Takers(l) /\ Handing(l)' = Handing(l)
  PROVE  /\ DOMAIN entries' = DOMAIN entries \ ls /\ ends' \subseteq Ends
         /\ \A l \in Login : LoginInv(l)'
<1> DEFINE New(l) == [login |-> l, reason |-> r, at |-> "slot"]
<1>1. DOMAIN entries' = DOMAIN entries \ ls
  BY Zenon DEF EndEntries, Without, Restrict
<1>2. ls \subseteq Login /\ ends \subseteq Ends
  BY Zenon DEF IInv, TypeOK
<1>3. /\ \A l \in ls : New(l) \in Ends
      /\ \A l : New(l).login = l /\ New(l).at = "slot"
  BY <1>2, Zenon DEF Ends
<1> HIDE DEF New
<1>4. ends' = ends \cup {New(l) : l \in ls}
  BY Zenon DEF EndEntries, New
<1>5. ends' \subseteq Ends
  BY <1>2, <1>3, <1>4, Zenon
<1>6. ASSUME NEW l \in Login, l \notin ls PROVE LoginInv(l)'
  <2>1. Of(l)' = Of(l)
    <3>1. \A m \in ls : New(m).login # l
      BY <1>3, <1>6, Zenon
    <3> QED BY <1>4, <3>1, Zenon DEF Of
  <2>2. Alike(l)
    BY <1>1, <1>6, <2>1, Zenon DEF Alike
  <2> QED BY <2>2, AlikeKeeps, Zenon DEF IInv
<1>7. ASSUME NEW l \in ls PROVE LoginInv(l)'
  <2>1. l \in Login /\ l \in DOMAIN entries /\ l \notin DOMAIN entries' /\ LoginInv(l)
    BY <1>1, <1>2, <1>7, Zenon DEF IInv
  <2>2. Of(l)' = Of(l) \cup {New(l)}
    BY <1>3, <1>4, <1>7, Zenon DEF Of
  <2>3. Stops(l)' = Stops(l)
    <3>1. New(l).at # "stop"
      BY <1>3, Zenon
    <3> QED BY <2>2, <3>1, Zenon DEF Stops
  <2>4. begin[l] \notin Unregistered /\ begin'[l] \notin Unregistered
    BY <2>1, Zenon DEF LoginInv, Fresh
  <2>5. Fresh(l)'
    BY <2>4, Zenon DEF Fresh, Unregistered
  <2>6. Owned(l)'
    <3>1. slot'[l] => Takers(l)' = {} /\ Stops(l)' = {} /\ \E e \in Of(l)' : e.at = "slot"
      BY <1>3, <2>1, <2>2, <2>3, Zenon DEF LoginInv, Owned
    <3>2. begin[l] # "launched"
      BY <2>4, Zenon DEF Unregistered
    <3>3. exec'[l] = "live" /\ ~slot'[l] =>
             \/ Stops(l)' = {} /\ \E c \in Call : Takers(l)' = {c}
             \/ Takers(l)' = {} /\ \E e \in Of(l)' : Stops(l)' = {e}
      BY <2>1, <2>2, <2>3, <3>2, Zenon DEF LoginInv, Owned
    <3> QED BY <3>1, <3>3, Zenon DEF Owned
  <2>7. l \notin aborted' => Once(l)'
    <3>1. l \notin aborted => Of(l) = {} /\ audits[l] = 0 /\ Handing(l) = {}
      BY <2>1, Zenon DEF LoginInv, Once
    <3>2. 0 # 1
      OBVIOUS
    <3> QED BY <2>1, <2>2, <3>1, <3>2, Zenon DEF Once
  <2> QED BY <2>5, <2>6, <2>7, Zenon DEF LoginInv
<1> QED BY <1>1, <1>5, <1>6, <1>7, Zenon

\* ... by a step that moves no call and no login_begin: the reaper and the sweeps.
LEMMA SweptKeeps ==
  ASSUME IInv, NEW ls \in SUBSET DOMAIN entries, NEW r \in Reason, EndEntries(ls, r),
         UNCHANGED <<slot, holder, exec, begin, calls, history>>
  PROVE  /\ DOMAIN entries' = DOMAIN entries \ ls /\ ends' \subseteq Ends
         /\ \A l \in Login : LoginInv(l)'
         /\ \A c \in Call : CallInv(c)'
<1>1. UNCHANGED <<audits, aborted, step, on, slot, exec>>
  BY Zenon DEF calls, history
<1>2. \A l : Takers(l)' = Takers(l) /\ Handing(l)' = Handing(l)
  BY <1>1, Zenon DEF Takers, Handing
<1>3. DOMAIN entries' = DOMAIN entries \ ls /\ ends' \subseteq Ends /\ \A l \in Login : LoginInv(l)'
  BY <1>1, <1>2, EndEntriesKeeps, Zenon
<1>4. ASSUME NEW c \in Call PROVE CallInv(c)'
  BY <1>1, UnmovedKeeps, Zenon DEF Unmoved, IInv
<1> QED BY <1>3, <1>4, Zenon

LEMMA ReaperKeeps == IInv /\ Reaper => IInv'
<1> SUFFICES ASSUME IInv, Reaper PROVE IInv'
  BY Zenon
<1>1. PICK ls \in SUBSET DOMAIN entries : EndEntries(ls, "expired")
  BY Zenon DEF Reaper
<1>2. UNCHANGED <<slot, holder, exec, begin, calls, history, world>> /\ "expired" \in Reason
  BY Zenon DEF Reaper, Reason
<1>3. /\ DOMAIN entries' = DOMAIN entries \ ls /\ ends' \subseteq Ends
      /\ \A l \in Login : LoginInv(l)'
      /\ \A c \in Call : CallInv(c)'
  BY <1>1, <1>2, SweptKeeps, Zenon
<1>4. TypeOK'
  BY <1>2, <1>3, Zenon DEF IInv, TypeOK, calls, history, world
<1>5. SweepInv'
  BY <1>2, <1>3, StaysPast, Zenon DEF IInv
<1> QED BY <1>3, <1>4, <1>5, Zenon DEF IInv

LEMMA LockSweepKeeps == ASSUME IInv, NEW n \in Namespace, LockSweep(n) PROVE IInv'
<1> DEFINE ls == {l \in DOMAIN entries : NamespaceOf[l] = n}
<1>1. /\ EndEntries(ls, "lock_vault") /\ "lock_vault" \in Reason /\ ls \in SUBSET DOMAIN entries
      /\ UNCHANGED <<slot, holder, exec, begin, calls, history, locked, peer, down>>
      /\ vault' = [vault EXCEPT ![n] = IF locked[n] THEN "locked" ELSE "idle"]
  BY Zenon DEF LockSweep, Reason
<1>2. /\ DOMAIN entries' = DOMAIN entries \ ls /\ ends' \subseteq Ends
      /\ \A l \in Login : LoginInv(l)'
      /\ \A c \in Call : CallInv(c)'
  BY <1>1, SweptKeeps, Zenon
<1>3. TypeOK'
  BY <1>1, <1>2, Zenon DEF IInv, TypeOK, calls, history
<1>4. /\ \A m \in Namespace : m # n => vault'[m] = vault[m]
      /\ vault'[n] = "locked" => locked[n]
  BY <1>1, Zenon DEF IInv, TypeOK
<1>5. ASSUME NEW l \in Login PROVE Past(l)'
  <2>1. l \in DOMAIN entries' => l \in DOMAIN entries /\ NamespaceOf[l] # n
    BY <1>2, Zenon
  <2>2. NamespaceOf[l] \in Namespace
    BY StepwiseAssumption, Zenon
  <2> QED BY <1>1, <1>4, <2>1, <2>2, Zenon DEF IInv, SweepInv, Past
<1> QED BY <1>1, <1>2, <1>3, <1>4, <1>5, Zenon DEF IInv, SweepInv

LEMMA RevokeSweepKeeps == ASSUME IInv, NEW p \in Principal, RevokeSweep(p) PROVE IInv'
<1> DEFINE ls == {l \in DOMAIN entries : PrincipalOf[l] = p}
<1>1. /\ EndEntries(ls, "peer_revoked") /\ "peer_revoked" \in Reason /\ ls \in SUBSET DOMAIN entries
      /\ UNCHANGED <<slot, holder, exec, begin, calls, history, locked, vault, down>>
      /\ peer' = [peer EXCEPT ![p] = "swept"]
  BY Zenon DEF RevokeSweep, Reason
<1>2. /\ DOMAIN entries' = DOMAIN entries \ ls /\ ends' \subseteq Ends
      /\ \A l \in Login : LoginInv(l)'
      /\ \A c \in Call : CallInv(c)'
  BY <1>1, SweptKeeps, Zenon
<1>3. TypeOK'
  BY <1>1, <1>2, Zenon DEF IInv, TypeOK, calls, history
<1>4. \A q \in Principal : q # p => peer'[q] = peer[q]
  BY <1>1, Zenon DEF IInv, TypeOK
<1>5. ASSUME NEW l \in Login PROVE Past(l)'
  <2>1. l \in DOMAIN entries' => l \in DOMAIN entries /\ PrincipalOf[l] # p
    BY <1>2, Zenon
  <2>2. PrincipalOf[l] \in Principal
    BY StepwiseAssumption, Zenon
  <2> QED BY <1>1, <1>4, <2>1, <2>2, Zenon DEF IInv, SweepInv, Past
<1> QED BY <1>1, <1>2, <1>3, <1>5, Zenon DEF IInv, SweepInv

LEMMA ShutDownSweepKeeps == IInv /\ ShutDownSweep => IInv'
<1> SUFFICES ASSUME IInv, ShutDownSweep PROVE IInv'
  OBVIOUS
<1>1. /\ EndEntries(DOMAIN entries, "shutdown") /\ "shutdown" \in Reason
      /\ DOMAIN entries \in SUBSET DOMAIN entries
      /\ UNCHANGED <<slot, holder, exec, begin, calls, history, locked, vault, peer>>
  BY Zenon DEF ShutDownSweep, Reason
<1>2. /\ DOMAIN entries' = DOMAIN entries \ DOMAIN entries /\ ends' \subseteq Ends
      /\ \A l \in Login : LoginInv(l)'
      /\ \A c \in Call : CallInv(c)'
  BY <1>1, SweptKeeps, Zenon
<1>3. TypeOK'
  BY <1>1, <1>2, Zenon DEF IInv, TypeOK, calls, history
<1>4. SweepInv'
  BY <1>1, <1>2, Zenon DEF IInv, SweepInv, Past
<1> QED BY <1>2, <1>3, <1>4, Zenon DEF IInv

\* A login_begin or a call that finds the login over.
LEMMA EndItselfKeeps == ASSUME IInv, NEW l \in Login, EndItself(l) PROVE IInv'
<1> DEFINE ls == {l} \cap DOMAIN entries
<1>1. /\ EndEntries(ls, begin[l]) /\ begin[l] \in Reason /\ ls \in SUBSET DOMAIN entries
      /\ UNCHANGED <<slot, holder, exec, step, on, audits, aborted, world>>
      /\ begin' = [begin EXCEPT ![l] = "over"]
  BY Zenon DEF EndItself, calls, history
<1>2. begin[l] \notin Unregistered /\ "over" \notin Unregistered /\ "over" \in Stage
  BY <1>1, Zenon DEF Unregistered, Reason, Stage
<1>3. begin'[l] = "over" /\ \A m \in Login : m # l => begin'[m] = begin[m]
  BY <1>1, Zenon DEF IInv, TypeOK
<1>4. \A m : Takers(m)' = Takers(m) /\ Handing(m)' = Handing(m)
  BY <1>1, Zenon DEF Takers, Handing
<1>5. DOMAIN entries' = DOMAIN entries \ ls /\ ends' \subseteq Ends /\ \A m \in Login : LoginInv(m)'
  BY <1>1, <1>2, <1>3, <1>4, EndEntriesKeeps, Zenon
<1>6. TypeOK'
  BY <1>1, <1>2, <1>5, Zenon DEF IInv, TypeOK, world
<1>7. SweepInv'
  <2>1. "over" \notin {"unlocked", "respond", "pending"}
    BY Zenon
  <2> QED BY <1>1, <1>3, <1>5, <2>1, StaysPast, Zenon DEF IInv
<1>8. ASSUME NEW c \in Call PROVE CallInv(c)'
  BY <1>1, UnmovedKeeps, Zenon DEF Unmoved, IInv
<1> QED BY <1>5, <1>6, <1>7, <1>8, Zenon DEF IInv

LEMMA EndLeakedKeeps == ASSUME IInv, NEW l \in Login, EndLeaked(l) PROVE IInv'
<1> DEFINE ls == {l} \cap DOMAIN entries
<1>1. /\ EndEntries(ls, "rejected") /\ "rejected" \in Reason /\ ls \in SUBSET DOMAIN entries
      /\ UNCHANGED <<slot, holder, exec, on, audits, aborted, world>>
  BY Zenon DEF EndLeaked, history, Reason
<1>2. "over" \notin Unregistered /\ "over" \in Stage /\ "over" \in Point /\ "over" \notin Took
      /\ "over" \notin AtWork /\ "over" \notin {"unlocked", "respond", "pending"}
  BY DEF Unregistered, Stage, Point, Took, AtWork
<1>3. CASE begin[l] = "respond" /\ begin' = [begin EXCEPT ![l] = "over"] /\ UNCHANGED step
  <2>1. begin[l] \notin Unregistered
    BY <1>3, Zenon DEF Unregistered
  <2>2. begin'[l] = "over" /\ \A m \in Login : m # l => begin'[m] = begin[m]
    BY <1>3, Zenon DEF IInv, TypeOK
  <2>3. \A m : Takers(m)' = Takers(m) /\ Handing(m)' = Handing(m)
    BY <1>1, <1>3, Zenon DEF Takers, Handing
  <2>4. DOMAIN entries' = DOMAIN entries \ ls /\ ends' \subseteq Ends /\ \A m \in Login : LoginInv(m)'
    BY <1>1, <1>2, <2>1, <2>2, <2>3, EndEntriesKeeps, Zenon
  <2>5. TypeOK'
    BY <1>1, <1>2, <1>3, <2>4, Zenon DEF IInv, TypeOK, world
  <2>6. SweepInv'
    BY <1>1, <1>2, <2>2, <2>4, StaysPast, Zenon DEF IInv
  <2>7. ASSUME NEW c \in Call PROVE CallInv(c)'
    BY <1>1, <1>3, UnmovedKeeps, Zenon DEF Unmoved, IInv
  <2> QED BY <2>4, <2>5, <2>6, <2>7, Zenon DEF IInv
<1>4. ASSUME NEW c \in Call, step[c] = "respond", step' = [step EXCEPT ![c] = "over"], UNCHANGED begin
      PROVE  IInv'
  <2>1. step[c] \notin Took /\ TypeOK /\ step[c] # "new"
    BY <1>4, Zenon DEF Took, IInv
  <2>2. /\ step'[c] = "over" /\ \A d \in Call : d # c => step'[d] = step[d]
        /\ \A m : Takers(m)' = Takers(m) /\ Handing(m)' = Handing(m)
    BY <1>1, <1>2, <1>4, <2>1, MovesQuietly, Zenon
  <2>3. DOMAIN entries' = DOMAIN entries \ ls /\ ends' \subseteq Ends /\ \A m \in Login : LoginInv(m)'
    BY <1>1, <1>4, <2>2, EndEntriesKeeps, Zenon
  <2>4. TypeOK'
    BY <1>1, <1>2, <1>4, <2>3, Zenon DEF IInv, TypeOK, world
  <2>5. SweepInv'
    BY <1>1, <1>4, <2>3, StaysPast, Zenon DEF IInv
  <2>6. ASSUME NEW d \in Call PROVE CallInv(d)'
    <3>1. CASE d = c
      BY <1>1, <1>2, <2>1, <2>2, <3>1, Zenon DEF IInv, CallInv
    <3>2. CASE d # c
      BY <1>1, <2>2, <3>2, UnmovedKeeps, Zenon DEF Unmoved, IInv
    <3> QED BY <3>1, <3>2, Zenon
  <2> QED BY <2>3, <2>4, <2>5, <2>6, Zenon DEF IInv
<1> QED BY <1>3, <1>4, Zenon DEF EndLeaked

LEMMA ClaimKeeps == ASSUME IInv, NEW c \in Call, NEW l \in Login, Claim(c, l) PROVE IInv'
<1>1. /\ step[c] = "new" /\ begin[l] = "pending" /\ on' = [on EXCEPT ![c] = l]
      /\ UNCHANGED <<slot, holder, exec, begin, audits, aborted, world>>
  BY Zenon DEF Claim, history
<1>2. PICK x \in {"over", "slot"} : step' = [step EXCEPT ![c] = x]
  BY Zenon DEF Claim
<1>3. /\ x \in Point /\ x \notin Took /\ x # "handoff" /\ x \notin AtWork
      /\ x \notin {"ready", "exchange"} /\ x # "aborting"
      /\ step[c] \notin Took /\ step[c] # "handoff" /\ begin[l] \notin Unregistered
  BY <1>1, Zenon DEF Point, Took, AtWork, Unregistered
<1>4. /\ step'[c] = x /\ on'[c] = l
      /\ \A d \in Call : d # c => step'[d] = step[d] /\ on'[d] = on[d]
  BY <1>1, <1>2, Zenon DEF IInv, TypeOK
<1>5. \A m : Takers(m)' = Takers(m) /\ Handing(m)' = Handing(m)
  BY <1>3, <1>4, Zenon DEF Takers, Handing
<1>6. \A m \in Login : begin[m] \in Unregistered => \A d \in Call : on'[d] = m => on[d] = m
  BY <1>3, <1>4, Zenon
<1>7. PICK ls \in SUBSET DOMAIN entries :
         /\ DOMAIN entries' = DOMAIN entries \ ls /\ ends' \subseteq Ends
         /\ \A m \in Login : LoginInv(m)'
  <2>1. CASE DOMAIN entries' = DOMAIN entries /\ UNCHANGED ends
    <3>1. ASSUME NEW m \in Login PROVE LoginInv(m)'
      <4>1. Of(m)' = Of(m)
        BY <2>1, Zenon DEF Of
      <4>2. Alike(m)
        BY <1>1, <1>5, <1>6, <2>1, <4>1, Zenon DEF Alike
      <4> QED BY <4>2, AlikeKeeps, Zenon DEF IInv
    <3>2. DOMAIN entries' = DOMAIN entries \ {} /\ {} \in SUBSET DOMAIN entries
      BY <2>1, Zenon
    <3>3. ends' \subseteq Ends
      BY <2>1, Zenon DEF IInv, TypeOK
    <3> QED BY <3>1, <3>2, <3>3, Zenon
  <2>2. CASE l \in DOMAIN entries /\ \E r \in {"expired", "failed"} : EndEntries({l}, r)
    <3>1. PICK r \in Reason : EndEntries({l}, r)
      BY <2>2, Zenon DEF Reason
    <3>2. {l} \in SUBSET DOMAIN entries
      BY <2>2, Zenon
    <3>3. DOMAIN entries' = DOMAIN entries \ {l} /\ ends' \subseteq Ends /\ \A m \in Login : LoginInv(m)'
      BY <1>1, <1>5, <1>6, <3>1, <3>2, EndEntriesKeeps, Zenon
    <3> QED BY <3>2, <3>3, Zenon
  <2>3. CASE entries' = [entries EXCEPT ![l].steps = @ + 1, ![l].inFlight = @ + 1] /\ UNCHANGED ends
    <3>1. DOMAIN entries' = DOMAIN entries
      BY <2>3, Zenon
    <3> QED BY <2>1, <2>3, <3>1, Zenon
  <2>4. CASE UNCHANGED <<entries, ends>>
    BY <2>1, <2>4, Zenon
  <2> QED BY <2>2, <2>3, <2>4, Zenon DEF Claim
<1>8. TypeOK'
  BY <1>1, <1>2, <1>3, <1>7, Zenon DEF IInv, TypeOK, world
<1>9. SweepInv'
  BY <1>1, <1>7, StaysPast, Zenon DEF IInv
<1>10. ASSUME NEW d \in Call PROVE CallInv(d)'
  <2>1. CASE d = c
    BY <1>3, <1>4, <2>1, Zenon DEF CallInv
  <2>2. CASE d # c
    BY <1>1, <1>4, <2>2, UnmovedKeeps, Zenon DEF Unmoved, IInv
  <2> QED BY <2>1, <2>2, Zenon
<1> QED BY <1>7, <1>8, <1>9, <1>10, Zenon DEF IInv

-----------------------------------------------------------------------------
(* Calls that take the executor, and what they do with it. *)

\* What such a call does to its own login is up to it.
LEMMA TakingCall ==
  ASSUME IInv, NEW c \in Call, NEW l \in Login, l = on[c], step[c] # "new",
         NEW x \in {"aborting", "handoff", "over"},
         step' = [step EXCEPT ![c] = x], UNCHANGED <<on, begin, audits, world>>,
         slot' \in [Login -> BOOLEAN], exec' \in [Login -> {"none", "live", "stopped", "handed off"}],
         holder' \in [Login -> Call \cup {NoOne}], ends' \subseteq Ends,
         aborted \subseteq aborted', x = "aborting" => on[c] \in aborted',
         DOMAIN entries' \subseteq DOMAIN entries,
         \A m \in Login : m # on[c] =>
            /\ m \in DOMAIN entries' <=> m \in DOMAIN entries
            /\ m \in aborted' <=> m \in aborted
            /\ slot'[m] = slot[m] /\ exec'[m] = exec[m] /\ Of(m)' = Of(m),
         \A d \in Call : d # c /\ step[d] \in AtWork =>
            holder'[on[d]] = holder[on[d]] /\ slot'[on[d]] = slot[on[d]],
         Owned(l)', l \notin aborted' => Once(l)'
  PROVE  IInv'
<1>1. TypeOK /\ on[c] \in Login /\ begin[on[c]] \notin Unregistered
  BY DEF IInv, CallInv, LoginInv, Fresh
<1>2. /\ x \in Point /\ x # "new" /\ x \notin AtWork /\ x \notin {"ready", "exchange"}
  BY Zenon DEF Point, Took, AtWork
<1>3. /\ step'[c] = x /\ \A d \in Call : d # c => step'[d] = step[d]
      /\ \A m : m # on[c] => Takers(m)' = Takers(m) /\ Handing(m)' = Handing(m)
  BY <1>1, Moves, Zenon
<1>4. TypeOK'
  BY <1>1, <1>2, Zenon DEF TypeOK, world
<1>5. SweepInv'
  BY StaysPast, Zenon DEF IInv
<1>6. ASSUME NEW m \in Login PROVE LoginInv(m)'
  <2>1. CASE m = on[c]
    BY <1>1, <2>1, Zenon DEF LoginInv, Fresh, Unregistered
  <2>2. CASE m # on[c]
    <3>1. Alike(m)
      BY <1>3, <2>2, Zenon DEF Alike
    <3> QED BY <3>1, AlikeKeeps, Zenon DEF IInv
  <2> QED BY <2>1, <2>2, Zenon
<1>7. ASSUME NEW d \in Call PROVE CallInv(d)'
  <2>1. CASE d = c
    BY <1>1, <1>2, <1>3, <2>1, Zenon DEF CallInv
  <2>2. CASE d # c
    BY <1>3, <2>2, UnmovedKeeps, Zenon DEF Unmoved, IInv
  <2> QED BY <2>1, <2>2, Zenon
<1> QED BY <1>4, <1>5, <1>6, <1>7, Zenon DEF IInv

\* An ending that a call starts by itself.
LEMMA NewEnd ==
  ASSUME TypeOK, NEW l \in Login, NEW r \in Reason, NEW x \in {"stop", "record"},
         ends' = ends \cup {[login |-> l, reason |-> r, at |-> x]}
  PROVE  /\ ends' \subseteq Ends /\ \A m : m # l => Of(m)' = Of(m)
         /\ \E e : /\ Of(l)' = Of(l) \cup {e}
                   /\ x = "stop" => Stops(l)' = Stops(l) \cup {e}
<1> DEFINE e == [login |-> l, reason |-> r, at |-> x]
<1>1. ends' = ends \cup {e} /\ e \in Ends /\ e.login = l /\ e.at = x
  BY Zenon DEF Ends
<1> HIDE DEF e
<1>2. ends' \subseteq Ends
  BY <1>1, Zenon DEF TypeOK
<1>3. \A m : m # l => Of(m)' = Of(m)
  BY <1>1, Zenon DEF Of
<1>4. Of(l)' = Of(l) \cup {e}
  BY <1>1, Zenon DEF Of
<1>5. x = "stop" => Stops(l)' = Stops(l) \cup {e}
  BY <1>1, <1>4, Zenon DEF Stops
<1> QED BY <1>2, <1>3, <1>4, <1>5, Zenon

\* What a call at work with the executor knows.
LEMMA AtWorkFacts ==
  ASSUME IInv, NEW c \in Call, step[c] \in {"ready", "exchange"}
  PROVE  /\ step[c] \in AtWork /\ step[c] # "new" /\ step[c] \notin Took
         /\ on[c] \in Login /\ slot[on[c]] /\ TypeOK
         /\ Takers(on[c]) = {} /\ Stops(on[c]) = {}
<1>1. step[c] \in AtWork /\ step[c] # "new" /\ step[c] \notin Took
  BY Zenon DEF AtWork, Took
<1>2. on[c] \in Login /\ slot[on[c]] /\ TypeOK
  BY <1>1, Zenon DEF IInv, CallInv
<1> QED BY <1>1, <1>2, Zenon DEF IInv, LoginInv, Owned

LEMMA AbortTakeKeeps == ASSUME IInv, NEW c \in Call, AbortTake(c) PROVE IInv'
<1>0. PICK l \in Login : l = on[c]
  <2>1. step[c] # "new"
    BY Zenon DEF AbortTake
  <2> QED BY <2>1, Zenon DEF IInv, CallInv
<1>1. /\ step[c] \in {"ready", "exchange"} /\ slot' = [slot EXCEPT ![l] = FALSE]
      /\ aborted' = aborted \cup {l} /\ Leave(c, "aborting")
      /\ UNCHANGED <<exec, begin, ends, audits, world>> /\ entries' = entries
  BY <1>0, Zenon DEF AbortTake
<1>2. /\ step' = [step EXCEPT ![c] = "aborting"] /\ on' = on
      /\ holder' = [holder EXCEPT ![l] = NoOne]
  BY <1>0, <1>1, Zenon DEF Leave
<1>3. /\ step[c] \in AtWork /\ step[c] # "new" /\ l \in Login /\ TypeOK
      /\ Takers(l) = {} /\ Stops(l) = {}
  BY <1>0, <1>1, AtWorkFacts, Zenon
<1>4. /\ slot' \in [Login -> BOOLEAN] /\ slot'[l] = FALSE
      /\ \A m \in Login : m # l => slot'[m] = slot[m]
  BY <1>1, <1>3, Zenon DEF TypeOK
<1>5. "aborting" \in Took
  BY Zenon DEF Took
<1>6. Takers(l)' = {c}
  BY <1>0, <1>2, <1>3, <1>5, Moves, Zenon
<1>7. \A m : Of(m)' = Of(m) /\ Stops(m)' = Stops(m)
  BY <1>1, Zenon DEF Of, Stops
<1>8. Owned(l)'
  BY <1>3, <1>4, <1>6, <1>7, Zenon DEF Owned
<1>9. /\ holder' \in [Login -> Call \cup {NoOne}]
      /\ \A d \in Call : d # c /\ step[d] \in AtWork =>
            holder'[on[d]] = holder[on[d]] /\ slot'[on[d]] = slot[on[d]]
  BY <1>0, <1>2, <1>3, <1>4, LetsGo, Zenon
<1>10. /\ exec' \in [Login -> {"none", "live", "stopped", "handed off"}] /\ ends' \subseteq Ends
  BY <1>1, <1>3, Zenon DEF TypeOK
<1> QED BY <1>0, <1>1, <1>2, <1>3, <1>4, <1>7, <1>8, <1>9, <1>10, TakingCall, Zenon

LEMMA ReplyDoneKeeps == ASSUME IInv, NEW c \in Call, ReplyDone(c) PROVE IInv'
<1>0. PICK l \in Login : l = on[c]
  <2>1. step[c] # "new"
    BY Zenon DEF ReplyDone
  <2> QED BY <2>1, Zenon DEF IInv, CallInv
<1>1. /\ step[c] \in {"ready", "exchange"} /\ slot' = [slot EXCEPT ![l] = FALSE]
      /\ l \in DOMAIN entries /\ entries' = Without({l}) /\ Leave(c, "handoff")
      /\ UNCHANGED <<exec, begin, ends, audits, aborted, world>>
  BY <1>0, Zenon DEF ReplyDone, history
<1>2. /\ step' = [step EXCEPT ![c] = "handoff"] /\ on' = on
      /\ holder' = [holder EXCEPT ![l] = NoOne]
  BY <1>0, <1>1, Zenon DEF Leave
<1>3. /\ step[c] \in AtWork /\ step[c] # "new" /\ l \in Login /\ TypeOK
      /\ Takers(l) = {} /\ Stops(l) = {}
  BY <1>0, <1>1, AtWorkFacts, Zenon
<1>4. /\ slot' \in [Login -> BOOLEAN] /\ slot'[l] = FALSE
      /\ \A m \in Login : m # l => slot'[m] = slot[m]
  BY <1>1, <1>3, Zenon DEF TypeOK
<1>5. DOMAIN entries' = DOMAIN entries \ {l}
  BY <1>1, Zenon DEF Without, Restrict
<1>6. "handoff" \in Took /\ "handoff" # "aborting"
  BY Zenon DEF Took
<1>7. Takers(l)' = {c} /\ Handing(l)' = Handing(l) \cup {c}
  BY <1>0, <1>2, <1>3, <1>6, Moves, Zenon
<1>8. \A m : Of(m)' = Of(m) /\ Stops(m)' = Stops(m)
  BY <1>1, Zenon DEF Of, Stops
<1>9. Owned(l)'
  BY <1>3, <1>4, <1>7, <1>8, Zenon DEF Owned
<1>10. l \notin aborted' => Once(l)'
  <2>1. l \notin aborted => Of(l) = {} /\ audits[l] = 0 /\ Handing(l) = {}
    BY <1>1, <1>3, Zenon DEF IInv, LoginInv, Once
  <2>2. 0 # 1
    OBVIOUS
  <2> QED BY <1>1, <1>5, <1>7, <1>8, <2>1, <2>2, Zenon DEF Once
<1>11. /\ holder' \in [Login -> Call \cup {NoOne}]
       /\ \A d \in Call : d # c /\ step[d] \in AtWork =>
             holder'[on[d]] = holder[on[d]] /\ slot'[on[d]] = slot[on[d]]
  BY <1>0, <1>2, <1>3, <1>4, LetsGo, Zenon
<1>12. exec' \in [Login -> {"none", "live", "stopped", "handed off"}] /\ ends' \subseteq Ends
  BY <1>1, <1>3, Zenon DEF TypeOK
<1> QED BY <1>0, <1>1, <1>2, <1>3, <1>4, <1>5, <1>6, <1>8, <1>9, <1>10, <1>11, <1>12, TakingCall, Zenon

LEMMA ReplyEndsKeeps == ASSUME IInv, NEW c \in Call, ReplyEnds(c) PROVE IInv'
<1>0. PICK l \in Login : l = on[c]
  <2>1. step[c] # "new"
    BY Zenon DEF ReplyEnds
  <2> QED BY <2>1, Zenon DEF IInv, CallInv
<1>1. /\ step[c] \in {"ready", "exchange"} /\ slot' = [slot EXCEPT ![l] = FALSE]
      /\ l \in DOMAIN entries /\ entries' = Without({l}) /\ Leave(c, "over")
      /\ UNCHANGED <<exec, begin, audits, aborted, world>>
      /\ \E r \in Reason : ends' = ends \cup {[login |-> l, reason |-> r, at |-> "stop"]}
  BY <1>0, Zenon DEF ReplyEnds, history, Reason
<1>2. /\ step' = [step EXCEPT ![c] = "over"] /\ on' = on
      /\ holder' = [holder EXCEPT ![l] = NoOne]
  BY <1>0, <1>1, Zenon DEF Leave
<1>3. /\ step[c] \in AtWork /\ step[c] # "new" /\ step[c] \notin Took /\ l \in Login /\ TypeOK
      /\ Takers(l) = {} /\ Stops(l) = {}
  BY <1>0, <1>1, AtWorkFacts, Zenon
<1>4. /\ slot' \in [Login -> BOOLEAN] /\ slot'[l] = FALSE
      /\ \A m \in Login : m # l => slot'[m] = slot[m]
  BY <1>1, <1>3, Zenon DEF TypeOK
<1>5. DOMAIN entries' = DOMAIN entries \ {l}
  BY <1>1, Zenon DEF Without, Restrict
<1>6. "over" \notin Took /\ "over" # "aborting"
  BY Zenon DEF Took
<1>7. \A m : Takers(m)' = Takers(m) /\ Handing(m)' = Handing(m)
  BY <1>0, <1>2, <1>3, <1>6, MovesQuietly, Zenon
<1>8. PICK e : /\ ends' \subseteq Ends /\ \A m : m # l => Of(m)' = Of(m)
               /\ Of(l)' = Of(l) \cup {e} /\ Stops(l)' = Stops(l) \cup {e}
  <2>1. "stop" \in {"stop", "record"}
    BY Zenon
  <2>2. PICK r \in Reason : ends' = ends \cup {[login |-> l, reason |-> r, at |-> "stop"]}
    BY <1>1, Zenon
  <2> QED BY <1>3, <2>1, <2>2, NewEnd, Zenon
<1>9. Owned(l)'
  BY <1>3, <1>4, <1>7, <1>8, Zenon DEF Owned
<1>10. l \notin aborted' => Once(l)'
  <2>1. l \notin aborted => Of(l) = {} /\ audits[l] = 0 /\ Handing(l) = {}
    BY <1>1, <1>3, Zenon DEF IInv, LoginInv, Once
  <2>2. 0 # 1
    OBVIOUS
  <2> QED BY <1>1, <1>5, <1>7, <1>8, <2>1, <2>2, Zenon DEF Once
<1>11. /\ holder' \in [Login -> Call \cup {NoOne}]
       /\ \A d \in Call : d # c /\ step[d] \in AtWork =>
             holder'[on[d]] = holder[on[d]] /\ slot'[on[d]] = slot[on[d]]
  BY <1>0, <1>2, <1>3, <1>4, LetsGo, Zenon
<1>12. exec' \in [Login -> {"none", "live", "stopped", "handed off"}]
  BY <1>1, <1>3, Zenon DEF TypeOK
<1>13. /\ "over" \in {"aborting", "handoff", "over"} /\ aborted \subseteq aborted'
       /\ \A m \in Login : m # on[c] =>
            /\ m \in DOMAIN entries' <=> m \in DOMAIN entries
            /\ m \in aborted' <=> m \in aborted
            /\ slot'[m] = slot[m] /\ exec'[m] = exec[m] /\ Of(m)' = Of(m)
  BY <1>0, <1>1, <1>4, <1>5, <1>8, Zenon
<1> QED BY <1>0, <1>1, <1>2, <1>3, <1>4, <1>5, <1>6, <1>8, <1>9, <1>10, <1>11, <1>12, <1>13, TakingCall, Zenon

\* A call that has the executor is the only one that does.
LEMMA TakerFacts ==
  ASSUME IInv, NEW c \in Call, step[c] \in Took
  PROVE  /\ step[c] # "new" /\ on[c] \in Login /\ TypeOK /\ ~slot[on[c]]
         /\ c \in Takers(on[c])
         /\ exec[on[c]] = "live" => Takers(on[c]) = {c} /\ Stops(on[c]) = {}
<1>1. step[c] # "new" /\ c \in Takers(on[c])
  BY Zenon DEF Took, Takers
<1>2. on[c] \in Login /\ TypeOK
  BY <1>1, Zenon DEF IInv, CallInv
<1>3. ~slot[on[c]]
  BY <1>1, <1>2, Zenon DEF IInv, LoginInv, Owned
<1>4. begin[on[c]] # "launched"
  BY <1>2, Zenon DEF IInv, LoginInv, Fresh, Unregistered
<1>5. exec[on[c]] = "live" => Takers(on[c]) = {c} /\ Stops(on[c]) = {}
  BY <1>1, <1>2, <1>3, <1>4, Zenon DEF IInv, LoginInv, Owned
<1> QED BY <1>1, <1>2, <1>3, <1>5, Zenon

LEMMA AbortRemoveKeeps == ASSUME IInv, NEW c \in Call, AbortRemove(c) PROVE IInv'
<1>0. PICK l \in Login : l = on[c]
  <2>1. step[c] # "new"
    BY Zenon DEF AbortRemove
  <2> QED BY <2>1, Zenon DEF IInv, CallInv
<1>1. /\ step[c] = "aborting" /\ entries' = Without({l}) /\ on' = on
      /\ step' = [step EXCEPT ![c] = "over"]
      /\ UNCHANGED <<slot, holder, exec, begin, audits, aborted, world>>
      /\ "aborted" \in Reason /\ ends' = ends \cup {[login |-> l, reason |-> "aborted", at |-> "stop"]}
  BY <1>0, Zenon DEF AbortRemove, history, Reason
<1>2. step[c] \in Took /\ "over" \notin Took /\ "over" # "aborting" /\ "stop" \in {"stop", "record"}
  BY <1>1, Zenon DEF Took
<1>3. /\ step[c] # "new" /\ l \in Login /\ TypeOK /\ ~slot[l]
      /\ exec[l] = "live" => Takers(l) = {c} /\ Stops(l) = {}
  BY <1>0, <1>2, TakerFacts, Zenon
<1>4. l \in aborted
  BY <1>0, <1>1, Zenon DEF IInv, CallInv
<1>5. DOMAIN entries' = DOMAIN entries \ {l}
  BY <1>1, Zenon DEF Without, Restrict
<1>6. Takers(l)' = Takers(l) \ {c}
  BY <1>0, <1>1, <1>2, <1>3, Moves, Zenon
<1>7. PICK e : /\ ends' \subseteq Ends /\ \A m : m # l => Of(m)' = Of(m)
               /\ Of(l)' = Of(l) \cup {e} /\ Stops(l)' = Stops(l) \cup {e}
  BY <1>1, <1>2, <1>3, NewEnd, Zenon
<1>8. Owned(l)'
  BY <1>1, <1>3, <1>6, <1>7, Zenon DEF Owned
<1>9. /\ holder' \in [Login -> Call \cup {NoOne}] /\ slot' \in [Login -> BOOLEAN]
      /\ exec' \in [Login -> {"none", "live", "stopped", "handed off"}]
  BY <1>1, <1>3, Zenon DEF TypeOK
<1> QED BY <1>0, <1>1, <1>2, <1>3, <1>4, <1>5, <1>7, <1>8, <1>9, TakingCall, Zenon

LEMMA HandOffKeeps == ASSUME IInv, NEW c \in Call, HandOff(c) PROVE IInv'
<1>0. PICK l \in Login : l = on[c]
  <2>1. step[c] # "new"
    BY Zenon DEF HandOff
  <2> QED BY <2>1, Zenon DEF IInv, CallInv
<1>1. /\ step[c] = "handoff" /\ entries' = entries /\ on' = on
      /\ step' = [step EXCEPT ![c] = "over"]
      /\ UNCHANGED <<slot, holder, begin, audits, aborted, world>>
      /\ \E x \in {"stopped", "handed off"} : exec' = [exec EXCEPT ![l] = x]
  BY <1>0, Zenon DEF HandOff, history
<1>2. /\ step[c] \in Took /\ "over" \notin Took /\ "over" # "aborting" /\ "over" # "handoff"
      /\ "record" \in {"stop", "record"} /\ "failed" \in Reason
  BY <1>1, Zenon DEF Took, Reason
<1>3. step[c] # "new" /\ l \in Login /\ TypeOK /\ ~slot[l]
  BY <1>0, <1>2, TakerFacts, Zenon
<1>4. /\ exec' \in [Login -> {"none", "live", "stopped", "handed off"}] /\ exec'[l] # "live"
      /\ \A m \in Login : m # l => exec'[m] = exec[m]
  <2>1. PICK x \in {"stopped", "handed off"} : exec' = [exec EXCEPT ![l] = x]
    BY <1>1, Zenon
  <2>2. x # "live" /\ x \in {"none", "live", "stopped", "handed off"}
    BY Zenon
  <2> QED BY <1>3, <2>1, <2>2, Zenon DEF TypeOK
<1>5. Owned(l)'
  BY <1>1, <1>3, <1>4, Zenon DEF Owned
<1>6. /\ ends' \subseteq Ends /\ \A m : m # l => Of(m)' = Of(m)
      /\ Of(l)' = Of(l) \/ \E e : Of(l)' = Of(l) \cup {e}
  <2>1. CASE UNCHANGED ends
    BY <1>3, <2>1, Zenon DEF Of, TypeOK
  <2>2. CASE ends' = ends \cup {[login |-> l, reason |-> "failed", at |-> "record"]}
    BY <1>2, <1>3, <2>2, NewEnd, Zenon
  <2> QED BY <1>0, <2>1, <2>2, Zenon DEF HandOff
<1>7. l \notin aborted' => Once(l)'
  <2>1. c \in Handing(l)
    BY <1>0, <1>1, Zenon DEF Handing
  <2>2. l \notin aborted => /\ Of(l) = {} /\ audits[l] = 0 /\ Handing(l) = {c}
                            /\ l \notin DOMAIN entries
    <3>1. l \notin aborted => Once(l)
      BY Zenon DEF IInv, LoginInv
    <3>2. l \notin aborted => Of(l) = {} /\ audits[l] = 0 /\ l \notin DOMAIN entries
      BY <2>1, <3>1, Zenon DEF Once
    <3>3. l \notin aborted => \A d \in Handing(l) : d = c
      BY <2>1, <3>1, Zenon DEF Once
    <3> QED BY <2>1, <3>2, <3>3, Zenon
  <2>3. Handing(l)' = Handing(l) \ {c}
    BY <1>0, <1>1, <1>2, <1>3, Moves, Zenon
  <2>4. 0 # 1
    OBVIOUS
  <2> QED BY <1>1, <1>6, <2>2, <2>3, <2>4, Zenon DEF Once
<1>8. holder' \in [Login -> Call \cup {NoOne}] /\ slot' \in [Login -> BOOLEAN]
  BY <1>1, <1>3, Zenon DEF TypeOK
<1>9. /\ "over" \in {"aborting", "handoff", "over"} /\ aborted \subseteq aborted'
      /\ \A m \in Login : m # on[c] =>
            /\ m \in DOMAIN entries' <=> m \in DOMAIN entries
            /\ m \in aborted' <=> m \in aborted
            /\ slot'[m] = slot[m] /\ exec'[m] = exec[m] /\ Of(m)' = Of(m)
  BY <1>0, <1>1, <1>4, <1>6, Zenon
<1>10. \A d \in Call : holder'[on[d]] = holder[on[d]] /\ slot'[on[d]] = slot[on[d]]
  BY <1>1, Zenon
<1> QED BY <1>0, <1>1, <1>2, <1>3, <1>4, <1>5, <1>6, <1>7, <1>8, <1>9, <1>10, TakingCall, Zenon

-----------------------------------------------------------------------------
(* Endings. *)

\* What an ending does to its own login is up to it.
LEMMA EndingStep ==
  ASSUME IInv, NEW l \in Login, Of(l) # {},
         UNCHANGED <<entries, holder, begin, step, on, aborted, world>>,
         slot' \in [Login -> BOOLEAN], exec' \in [Login -> {"none", "live", "stopped", "handed off"}],
         audits' \in [Login -> Nat], ends' \subseteq Ends,
         \A m \in Login : m # l => /\ slot'[m] = slot[m] /\ exec'[m] = exec[m]
                                   /\ audits'[m] = audits[m] /\ Of(m)' = Of(m),
         \A c \in Call : step[c] \in AtWork => slot'[on[c]] = slot[on[c]],
         Owned(l)', l \notin aborted => Once(l)'
  PROVE  IInv'
<1>1. TypeOK'
  BY Zenon DEF IInv, TypeOK, world
<1>2. SweepInv'
  BY StaysPast, Zenon DEF IInv
<1>3. begin[l] \notin Unregistered
  BY Zenon DEF IInv, LoginInv, Fresh
<1>4. \A m : Takers(m)' = Takers(m) /\ Handing(m)' = Handing(m)
  BY Zenon DEF Takers, Handing
<1>5. ASSUME NEW m \in Login PROVE LoginInv(m)'
  <2>1. CASE m = l
    BY <1>3, <2>1, Zenon DEF LoginInv, Fresh, Unregistered
  <2>2. CASE m # l
    <3>1. Alike(m)
      BY <1>4, <2>2, Zenon DEF Alike
    <3> QED BY <3>1, AlikeKeeps, Zenon DEF IInv
  <2> QED BY <2>1, <2>2, Zenon
<1>6. ASSUME NEW c \in Call PROVE CallInv(c)'
  BY UnmovedKeeps, Zenon DEF Unmoved, IInv
<1> QED BY <1>1, <1>2, <1>5, <1>6, Zenon DEF IInv

\* An ending goes on.
LEMMA MovesOn ==
  ASSUME TypeOK, NEW e \in ends, NEW to \in {"stop", "record"}, Move(e, to)
  PROVE  /\ ends' \subseteq Ends /\ \A m : m # e.login => Of(m)' = Of(m)
         /\ \E f : /\ Of(e.login)' = (Of(e.login) \ {e}) \cup {f}
                   /\ to = "stop" => Stops(e.login)' = (Stops(e.login) \ {e}) \cup {f}
                   /\ to = "record" => Stops(e.login)' = Stops(e.login) \ {e}
<1> DEFINE f == [e EXCEPT !.at = to]
<1>1. ends' = (ends \ {e}) \cup {f}
  BY Zenon DEF Move
<1>2. e \in Ends
  BY Zenon DEF TypeOK
<1>3. f \in Ends /\ f.login = e.login /\ f.at = to
  BY <1>2, Zenon DEF Ends
<1> HIDE DEF f
<1>4. ends' \subseteq Ends
  BY <1>1, <1>3, Zenon DEF TypeOK
<1>5. \A m : m # e.login => Of(m)' = Of(m)
  BY <1>1, <1>3, Zenon DEF Of
<1>6. Of(e.login)' = (Of(e.login) \ {e}) \cup {f}
  BY <1>1, <1>3, Zenon DEF Of
<1>7. to = "stop" => Stops(e.login)' = (Stops(e.login) \ {e}) \cup {f}
  BY <1>3, <1>6, Zenon DEF Stops
<1>8. to = "record" => Stops(e.login)' = Stops(e.login) \ {e}
  <2>1. "record" # "stop"
    BY Zenon
  <2> QED BY <1>3, <1>6, <2>1, Zenon DEF Stops
<1> QED BY <1>4, <1>5, <1>6, <1>7, <1>8, Zenon

\* What an ending knows.
LEMMA EndingFacts ==
  ASSUME IInv, NEW e \in ends
  PROVE  /\ e.login \in Login /\ TypeOK /\ e \in Of(e.login) /\ begin[e.login] # "launched"
         /\ e.at = "stop" <=> e \in Stops(e.login)
         /\ e.login \notin aborted =>
              /\ \A d \in Of(e.login) : d = e
              /\ audits[e.login] = 0 /\ e.login \notin DOMAIN entries /\ Handing(e.login) = {}
<1>1. TypeOK /\ e \in Ends /\ e \in Of(e.login)
  BY Zenon DEF IInv, TypeOK, Of
<1>2. e.login \in Login
  BY <1>1, Zenon DEF Ends
<1>3. LoginInv(e.login)
  BY <1>2, Zenon DEF IInv
<1>4. begin[e.login] # "launched"
  <2>1. "launched" \in Unregistered
    BY Zenon DEF Unregistered
  <2> QED BY <1>1, <1>3, <2>1, Zenon DEF LoginInv, Fresh
<1>5. e.at = "stop" <=> e \in Stops(e.login)
  BY <1>1, Zenon DEF Stops
<1>6. ASSUME e.login \notin aborted
      PROVE  /\ \A d \in Of(e.login) : d = e
             /\ audits[e.login] = 0 /\ e.login \notin DOMAIN entries /\ Handing(e.login) = {}
  BY <1>1, <1>3, <1>6, Zenon DEF LoginInv, Once
<1> QED BY <1>1, <1>2, <1>4, <1>5, <1>6, Zenon

\* An ending that goes on is still the only one.
LEMMA StillOnce ==
  ASSUME IInv, NEW e \in ends, e.login \notin aborted, NEW f,
         Of(e.login)' = (Of(e.login) \ {e}) \cup {f},
         UNCHANGED <<entries, step, on, audits>>
  PROVE  Once(e.login)'
<1>1. Handing(e.login)' = Handing(e.login)
  BY Zenon DEF Handing
<1>2. 0 # 1
  OBVIOUS
<1>3. Of(e.login)' = {f}
  BY EndingFacts, Zenon
<1>4. audits[e.login] = 0 /\ e.login \notin DOMAIN entries /\ Handing(e.login) = {}
  BY EndingFacts, Zenon
<1>5. \A c, d \in Of(e.login)' : c = d
  BY <1>3, Zenon
<1> QED BY <1>1, <1>2, <1>4, <1>5, Zenon DEF Once

LEMMA TakeSlotKeeps == ASSUME IInv, NEW e \in ends, TakeSlot(e) PROVE IInv'
<1>0. PICK l \in Login : l = e.login
  BY EndingFacts, Zenon
<1>1. /\ e.at = "slot" /\ holder[l] = NoOne /\ slot' = [slot EXCEPT ![l] = FALSE]
      /\ Move(e, IF slot[l] THEN "stop" ELSE "record")
      /\ UNCHANGED <<entries, holder, begin, step, on, aborted, world, exec, audits>>
  BY <1>0, Zenon DEF TakeSlot, calls, history
<1>2. PICK to \in {"stop", "record"} :
         to = (IF slot[l] THEN "stop" ELSE "record") /\ Move(e, to)
  <2>1. (IF slot[l] THEN "stop" ELSE "record") \in {"stop", "record"}
    BY Zenon
  <2> QED BY <1>1, <2>1, Zenon
<1>3. PICK f : /\ Of(l)' = (Of(l) \ {e}) \cup {f}
               /\ to = "stop" => Stops(l)' = (Stops(l) \ {e}) \cup {f}
               /\ to = "record" => Stops(l)' = Stops(l) \ {e}
  BY <1>0, <1>2, MovesOn, Zenon DEF IInv
<1>4. ends' \subseteq Ends /\ \A m : m # l => Of(m)' = Of(m)
  BY <1>0, <1>2, MovesOn, Zenon DEF IInv
<1>5. /\ TypeOK /\ LoginInv(l) /\ begin[l] # "launched" /\ e \in Of(l) /\ e \notin Stops(l)
  <2>1. e.at # "stop"
    BY <1>1, Zenon
  <2> QED BY <1>0, <2>1, EndingFacts, Zenon DEF IInv
<1>6. /\ slot' \in [Login -> BOOLEAN] /\ ~slot'[l]
      /\ \A m \in Login : m # l => slot'[m] = slot[m]
  BY <1>1, <1>5, Zenon DEF TypeOK
<1>7. Takers(l)' = Takers(l)
  BY <1>1, Zenon DEF Takers
<1>8. Owned(l)'
  <2>1. CASE slot[l]
    <3>1. Takers(l) = {} /\ Stops(l) = {} /\ to = "stop"
      BY <1>2, <1>5, <2>1, Zenon DEF LoginInv, Owned
    <3>2. Takers(l)' = {} /\ Stops(l)' = {f} /\ f \in Of(l)'
      BY <1>3, <1>7, <3>1, Zenon
    <3> QED BY <1>6, <3>2, Zenon DEF Owned
  <2>2. CASE ~slot[l]
    <3>1. Stops(l)' = Stops(l)
      BY <1>2, <1>3, <1>5, <2>2, Zenon
    <3>2. \A d \in Of(l) : Stops(l) = {d} => d \in Of(l)'
      BY <1>3, <1>5, Zenon
    <3> QED BY <1>1, <1>5, <1>6, <1>7, <2>2, <3>1, <3>2, Zenon DEF LoginInv, Owned
  <2> QED BY <2>1, <2>2, Zenon
<1>9. l \notin aborted => Once(l)'
  BY <1>0, <1>1, <1>3, StillOnce, Zenon
<1>10. ASSUME NEW c \in Call, step[c] \in AtWork PROVE slot'[on[c]] = slot[on[c]]
  <2>1. holder[on[c]] = c /\ on[c] \in Login /\ c # NoOne
    BY <1>10, StepwiseAssumption, Zenon DEF IInv, CallInv, AtWork
  <2> QED BY <1>1, <1>6, <2>1, Zenon
<1>11. /\ exec' \in [Login -> {"none", "live", "stopped", "handed off"}] /\ audits' \in [Login -> Nat]
       /\ Of(l) # {}
  BY <1>1, <1>5, Zenon DEF TypeOK
<1> QED BY <1>1, <1>4, <1>6, <1>8, <1>9, <1>10, <1>11, EndingStep, Zenon

LEMMA StopKeeps == ASSUME IInv, NEW e \in ends, Stop(e) PROVE IInv'
<1>0. PICK l \in Login : l = e.login
  BY EndingFacts, Zenon
<1>1. /\ e.at = "stop" /\ exec' = [exec EXCEPT ![l] = "stopped"] /\ Move(e, "record")
      /\ UNCHANGED <<entries, holder, begin, step, on, aborted, world, slot, audits>>
  BY <1>0, Zenon DEF Stop, calls, history
<1>2. "record" \in {"stop", "record"} /\ "stopped" \in {"none", "live", "stopped", "handed off"}
      /\ "stopped" # "live"
  BY Zenon
<1>3. PICK f : Of(l)' = (Of(l) \ {e}) \cup {f}
  BY <1>0, <1>1, <1>2, MovesOn, Zenon DEF IInv
<1>4. ends' \subseteq Ends /\ \A m : m # l => Of(m)' = Of(m)
  BY <1>0, <1>1, <1>2, MovesOn, Zenon DEF IInv
<1>5. /\ TypeOK /\ LoginInv(l) /\ e \in Of(l) /\ e \in Stops(l)
  BY <1>0, <1>1, EndingFacts, Zenon DEF IInv
<1>6. /\ exec' \in [Login -> {"none", "live", "stopped", "handed off"}] /\ exec'[l] = "stopped"
      /\ \A m \in Login : m # l => exec'[m] = exec[m]
  BY <1>1, <1>2, <1>5, Zenon DEF TypeOK
<1>7. ~slot[l]
  BY <1>5, Zenon DEF LoginInv, Owned
<1>8. Owned(l)'
  BY <1>1, <1>2, <1>6, <1>7, Zenon DEF Owned
<1>9. l \notin aborted => Once(l)'
  BY <1>0, <1>1, <1>3, StillOnce, Zenon
<1>10. slot' \in [Login -> BOOLEAN] /\ audits' \in [Login -> Nat] /\ Of(l) # {}
  BY <1>1, <1>5, Zenon DEF TypeOK
<1> QED BY <1>1, <1>4, <1>6, <1>8, <1>9, <1>10, EndingStep, Zenon

LEMMA RecordKeeps == ASSUME IInv, NEW e \in ends, Record(e) PROVE IInv'
<1>0. PICK l \in Login : l = e.login
  BY EndingFacts, Zenon
<1>1. /\ e.at = "record" /\ audits' = [audits EXCEPT ![l] = @ + 1] /\ ends' = ends \ {e}
      /\ UNCHANGED <<entries, holder, begin, step, on, aborted, world, slot, exec>>
  BY <1>0, Zenon DEF Record, calls
<1>2. /\ TypeOK /\ LoginInv(l) /\ e \in Of(l) /\ begin[l] # "launched" /\ e.at # "stop" /\ e.at # "slot"
      /\ l \notin aborted => /\ \A d \in Of(l) : d = e
                             /\ audits[l] = 0 /\ l \notin DOMAIN entries /\ Handing(l) = {}
  <2>1. e.at # "stop" /\ e.at # "slot"
    BY <1>1, Zenon
  <2> QED BY <1>0, <2>1, EndingFacts, Zenon DEF IInv
<1>3. /\ ends' \subseteq Ends /\ \A m : m # l => Of(m)' = Of(m)
      /\ Of(l)' = Of(l) \ {e} /\ Stops(l)' = Stops(l)
  <2>1. ends' \subseteq Ends
    BY <1>1, <1>2, Zenon DEF TypeOK
  <2>2. \A m : m # l => Of(m)' = Of(m)
    BY <1>0, <1>1, Zenon DEF Of
  <2>3. Of(l)' = Of(l) \ {e}
    BY <1>0, <1>1, Zenon DEF Of
  <2>4. Stops(l)' = Stops(l)
    BY <1>2, <2>3, Zenon DEF Stops
  <2> QED BY <2>1, <2>2, <2>3, <2>4, Zenon
<1>4. /\ audits' \in [Login -> Nat] /\ \A m \in Login : m # l => audits'[m] = audits[m]
      /\ audits[l] = 0 => audits'[l] = 1
  <2>1. audits \in [Login -> Nat] /\ audits[l] \in Nat
    BY <1>2, Zenon DEF TypeOK
  <2>2. audits[l] + 1 \in Nat /\ (audits[l] = 0 => audits[l] + 1 = 1)
    BY <2>1
  <2> QED BY <1>1, <2>1, <2>2, Zenon
<1>5. Takers(l)' = Takers(l) /\ Handing(l)' = Handing(l)
  BY <1>1, Zenon DEF Takers, Handing
<1>6. Owned(l)'
  <2>1. \A d \in Of(l) : d.at = "slot" => d \in Of(l)'
    BY <1>2, <1>3, Zenon
  <2>2. \A d \in Of(l) : Stops(l) = {d} => d \in Of(l)'
    <3>1. e \notin Stops(l)
      BY <1>2, Zenon DEF Stops
    <3> QED BY <1>3, <3>1, Zenon
  <2>3. slot[l] => /\ Takers(l) = {} /\ Stops(l) = {}
                   /\ l \in DOMAIN entries \/ \E d \in Of(l)' : d.at = "slot"
    BY <1>2, <2>1, Zenon DEF LoginInv, Owned
  <2>4. exec[l] = "live" /\ ~slot[l] =>
          \/ Stops(l) = {} /\ \E c \in Call : Takers(l) = {c}
          \/ Takers(l) = {} /\ \E d \in Of(l)' : Stops(l) = {d}
    BY <1>2, <2>2, Zenon DEF LoginInv, Owned
  <2> QED BY <1>1, <1>3, <1>5, <2>3, <2>4, Zenon DEF Owned
<1>7. l \notin aborted => Once(l)'
  <2>1. l \notin aborted => Of(l)' = {}
    BY <1>2, <1>3, Zenon
  <2> QED BY <1>1, <1>2, <1>4, <1>5, <2>1, Zenon DEF Once
<1>8. /\ slot' \in [Login -> BOOLEAN] /\ Of(l) # {}
      /\ exec' \in [Login -> {"none", "live", "stopped", "handed off"}]
  BY <1>1, <1>2, Zenon DEF TypeOK
<1> QED BY <1>1, <1>3, <1>4, <1>6, <1>7, <1>8, EndingStep, Zenon

-----------------------------------------------------------------------------
(* login_begin. *)

\* What a step of login_begin does to its own login is up to it.
LEMMA LoginStep ==
  ASSUME IInv, NEW l \in Login, NEW x \in Stage, begin' = [begin EXCEPT ![l] = x],
         UNCHANGED <<holder, step, on, ends, audits, aborted, world>>,
         slot' \in [Login -> BOOLEAN], exec' \in [Login -> {"none", "live", "stopped", "handed off"}],
         DOMAIN entries' \subseteq Login,
         slot'[l] # slot[l] => begin[l] \in Unregistered,
         \A m \in Login : m # l => /\ slot'[m] = slot[m] /\ exec'[m] = exec[m]
                                   /\ m \in DOMAIN entries' <=> m \in DOMAIN entries,
         LoginInv(l)', Past(l)'
  PROVE  IInv'
<1>1. TypeOK'
  BY Zenon DEF IInv, TypeOK, world
<1>2. \A m \in Login : m # l => begin'[m] = begin[m]
  BY Zenon DEF IInv, TypeOK
<1>3. SweepInv'
  BY <1>2, Zenon DEF IInv, SweepInv, Past, world
<1>4. \A m : Takers(m)' = Takers(m) /\ Handing(m)' = Handing(m) /\ Of(m)' = Of(m)
  BY Zenon DEF Takers, Handing, Of
<1>5. ASSUME NEW m \in Login PROVE LoginInv(m)'
  <2>1. CASE m # l
    <3>1. Alike(m)
      BY <1>2, <1>4, <2>1, Zenon DEF Alike
    <3> QED BY <3>1, AlikeKeeps, Zenon DEF IInv
  <2> QED BY <2>1, Zenon
<1>6. ASSUME NEW c \in Call PROVE CallInv(c)'
  <2>1. step[c] \in AtWork => on[c] \in Login
    BY Zenon DEF IInv, CallInv, AtWork
  <2>2. on[c] = l => slot'[l] = slot[l]
    BY Zenon DEF IInv, LoginInv, Fresh
  <2>3. Unmoved(c)
    BY <2>1, <2>2, Zenon DEF Unmoved
  <2> QED BY <2>3, UnmovedKeeps, Zenon DEF IInv
<1> QED BY <1>1, <1>3, <1>5, <1>6, Zenon DEF IInv

\* A login that is not yet known of.
LEMMA FreshFacts ==
  ASSUME IInv, NEW l \in Login, begin[l] \in Unregistered
  PROVE  /\ TypeOK /\ l \notin DOMAIN entries /\ ~slot[l] /\ audits[l] = 0
         /\ Of(l) = {} /\ Stops(l) = {} /\ Takers(l) = {} /\ Handing(l) = {}
         /\ \A c \in Call : on[c] # l
<1>1. /\ l \notin DOMAIN entries /\ ~slot[l] /\ Of(l) = {} /\ audits[l] = 0
      /\ \A c \in Call : on[c] # l
  BY Zenon DEF IInv, LoginInv, Fresh
<1> QED BY <1>1, Zenon DEF IInv, Stops, Takers, Handing

LEMMA BeginKeeps == ASSUME IInv, NEW l \in Login, Begin(l) PROVE IInv'
<1>1. /\ begin[l] = "new" /\ begin' = [begin EXCEPT ![l] = "launched"]
      /\ exec' = [exec EXCEPT ![l] = "live"]
      /\ UNCHANGED <<entries, slot, holder, step, on, ends, audits, aborted, world>>
  BY Zenon DEF Begin, calls, history
<1>2. /\ begin[l] \in Unregistered /\ "launched" \in Stage /\ "launched" # "new"
      /\ "live" \in {"none", "live", "stopped", "handed off"}
      /\ "launched" \notin {"unlocked", "respond", "pending"} /\ "launched" \notin {"respond", "pending"}
  BY <1>1, Zenon DEF Unregistered, Stage
<1>3. /\ TypeOK /\ l \notin DOMAIN entries /\ ~slot[l] /\ audits[l] = 0
      /\ Of(l) = {} /\ Stops(l) = {} /\ Takers(l) = {} /\ Handing(l) = {}
      /\ \A c \in Call : on[c] # l
  BY <1>2, FreshFacts, Zenon
<1>4. /\ begin'[l] = "launched" /\ exec' \in [Login -> {"none", "live", "stopped", "handed off"}]
      /\ \A m \in Login : m # l => exec'[m] = exec[m]
  BY <1>1, <1>2, <1>3, Zenon DEF TypeOK
<1>5. Of(l)' = Of(l) /\ Handing(l)' = Handing(l)
  BY <1>1, Zenon DEF Of, Handing
<1>6. LoginInv(l)'
  <2>1. Fresh(l)'
    BY <1>1, <1>2, <1>3, <1>4, <1>5, Zenon DEF Fresh
  <2>2. Owned(l)'
    BY <1>1, <1>3, <1>4, Zenon DEF Owned
  <2>3. Once(l)'
    BY <1>1, <1>3, <1>5, Zenon DEF Once
  <2> QED BY <2>1, <2>2, <2>3, Zenon DEF LoginInv
<1>7. Past(l)'
  BY <1>1, <1>3, Zenon DEF Past
<1>8. slot' \in [Login -> BOOLEAN] /\ DOMAIN entries' \subseteq Login
  BY <1>1, <1>3, Zenon DEF TypeOK
<1> QED BY <1>1, <1>2, <1>4, <1>6, <1>7, <1>8, LoginStep, Zenon

LEMMA BeginDoneKeeps == ASSUME IInv, NEW l \in Login, BeginDone(l) PROVE IInv'
<1>1. /\ begin[l] = "launched" /\ begin' = [begin EXCEPT ![l] = "over"]
      /\ UNCHANGED <<entries, slot, holder, step, on, ends, audits, aborted, world>>
  BY Zenon DEF BeginDone, calls, history
<1>2. /\ begin[l] \in Unregistered /\ "over" \in Stage /\ "over" \notin Unregistered /\ "over" # "new"
  BY <1>1, Zenon DEF Unregistered, Stage
<1>3. /\ TypeOK /\ l \notin DOMAIN entries /\ ~slot[l] /\ audits[l] = 0
      /\ Of(l) = {} /\ Stops(l) = {} /\ Takers(l) = {} /\ Handing(l) = {}
      /\ \A c \in Call : on[c] # l
  BY <1>2, FreshFacts, Zenon
<1>4. /\ begin'[l] = "over" /\ exec' \in [Login -> {"none", "live", "stopped", "handed off"}]
      /\ exec'[l] # "live" /\ \A m \in Login : m # l => exec'[m] = exec[m]
  <2>1. PICK x \in {"stopped", "handed off"} : exec' = [exec EXCEPT ![l] = x]
    BY Zenon DEF BeginDone
  <2>2. x # "live" /\ x \in {"none", "live", "stopped", "handed off"}
    BY Zenon
  <2> QED BY <1>1, <1>3, <2>1, <2>2, Zenon DEF TypeOK
<1>5. Of(l)' = Of(l) /\ Handing(l)' = Handing(l)
  BY <1>1, Zenon DEF Of, Handing
<1>6. LoginInv(l)'
  <2>1. Fresh(l)'
    BY <1>2, <1>4, Zenon DEF Fresh
  <2>2. Owned(l)'
    BY <1>1, <1>3, <1>4, Zenon DEF Owned
  <2>3. Once(l)'
    BY <1>1, <1>3, <1>5, Zenon DEF Once
  <2> QED BY <2>1, <2>2, <2>3, Zenon DEF LoginInv
<1>7. Past(l)'
  BY <1>1, <1>3, Zenon DEF Past
<1>8. slot' \in [Login -> BOOLEAN] /\ DOMAIN entries' \subseteq Login
  BY <1>1, <1>3, Zenon DEF TypeOK
<1> QED BY <1>1, <1>2, <1>4, <1>6, <1>7, <1>8, LoginStep, Zenon

LEMMA RegisterKeeps == ASSUME IInv, NEW l \in Login, Register(l) PROVE IInv'
<1>1. /\ begin[l] = "launched" /\ begin' = [begin EXCEPT ![l] = "registered"]
      /\ slot' = [slot EXCEPT ![l] = TRUE] /\ DOMAIN entries' = DOMAIN entries \cup {l}
      /\ UNCHANGED <<exec, holder, step, on, ends, audits, aborted, world>>
  BY Zenon DEF Register, calls, history
<1>2. /\ begin[l] \in Unregistered /\ "registered" \in Stage /\ "registered" \notin Unregistered
      /\ "registered" # "new" /\ "registered" \notin {"unlocked", "respond", "pending"}
      /\ "registered" \notin {"respond", "pending"}
  BY <1>1, Zenon DEF Unregistered, Stage
<1>3. /\ TypeOK /\ l \notin DOMAIN entries /\ ~slot[l] /\ audits[l] = 0
      /\ Of(l) = {} /\ Stops(l) = {} /\ Takers(l) = {} /\ Handing(l) = {}
      /\ \A c \in Call : on[c] # l
  BY <1>2, FreshFacts, Zenon
<1>4. /\ begin'[l] = "registered" /\ slot' \in [Login -> BOOLEAN] /\ slot'[l]
      /\ \A m \in Login : m # l => slot'[m] = slot[m]
  BY <1>1, <1>3, Zenon DEF TypeOK
<1>5. Of(l)' = {} /\ Handing(l)' = {} /\ Stops(l)' = {} /\ Takers(l)' = {}
  <2>1. Of(l)' = Of(l) /\ Handing(l)' = Handing(l) /\ Stops(l)' = Stops(l) /\ Takers(l)' = Takers(l)
    BY <1>1, Zenon DEF Of, Handing, Stops, Takers
  <2> QED BY <1>3, <2>1, Zenon
<1>6. LoginInv(l)'
  <2>1. Fresh(l)'
    BY <1>2, <1>4, Zenon DEF Fresh
  <2>2. Owned(l)'
    BY <1>1, <1>4, <1>5, Zenon DEF Owned
  <2>3. Once(l)'
    BY <1>1, <1>3, <1>5, Zenon DEF Once
  <2> QED BY <2>1, <2>2, <2>3, Zenon DEF LoginInv
<1>7. Past(l)'
  BY <1>2, <1>4, Zenon DEF Past
<1>8. /\ exec' \in [Login -> {"none", "live", "stopped", "handed off"}]
      /\ DOMAIN entries' \subseteq Login
  BY <1>1, <1>3, Zenon DEF TypeOK
<1>9. \A m \in Login : m # l => (m \in DOMAIN entries' <=> m \in DOMAIN entries)
  BY <1>1, Zenon
<1> QED BY <1>1, <1>2, <1>4, <1>6, <1>7, <1>8, <1>9, LoginStep, Zenon

\* A registered login goes on.
LEMMA GoesOn ==
  ASSUME IInv, NEW l \in Login, begin[l] \notin Unregistered, NEW x \in Stage \ Unregistered,
         begin' = [begin EXCEPT ![l] = x], Past(l)',
         UNCHANGED <<entries, slot, exec, holder, step, on, ends, audits, aborted, world>>
  PROVE  IInv'
<1>1. begin'[l] = x /\ x \notin Unregistered /\ x \in Stage
  BY Zenon DEF IInv, TypeOK
<1>2. Of(l)' = Of(l) /\ Takers(l)' = Takers(l) /\ Handing(l)' = Handing(l)
  BY Zenon DEF Of, Takers, Handing
<1>3. Alike(l)
  BY <1>1, <1>2, Zenon DEF Alike
<1>4. LoginInv(l)'
  BY <1>3, AlikeKeeps, Zenon DEF IInv
<1>5. /\ slot' \in [Login -> BOOLEAN] /\ exec' \in [Login -> {"none", "live", "stopped", "handed off"}]
      /\ DOMAIN entries' \subseteq Login
  BY Zenon DEF IInv, TypeOK
<1> QED BY <1>1, <1>4, <1>5, LoginStep, Zenon

LEMMA CheckLockKeeps == ASSUME IInv, NEW l \in Login, CheckLock(l) PROVE IInv'
<1>1. /\ begin[l] = "registered"
      /\ UNCHANGED <<entries, slot, exec, holder, step, on, ends, audits, aborted, world>>
  BY Zenon DEF CheckLock, calls, history
<1>2. begin[l] \notin Unregistered
  BY <1>1, Zenon DEF Unregistered
<1>3. PICK x \in {"lock_vault", "unlocked"} :
         /\ begin' = [begin EXCEPT ![l] = x]
         /\ x = "unlocked" => ~locked[NamespaceOf[l]]
  BY Zenon DEF CheckLock
<1>4. /\ x \in Stage \ Unregistered /\ x \notin {"respond", "pending"}
      /\ x \in {"unlocked", "respond", "pending"} => x = "unlocked"
  BY Zenon DEF Stage, Reason, Unregistered
<1>5. NamespaceOf[l] \in Namespace
  BY StepwiseAssumption, Zenon
<1>6. begin'[l] = x
  BY <1>3, Zenon DEF IInv, TypeOK
<1>7. Past(l)'
  BY <1>1, <1>3, <1>4, <1>5, <1>6, Zenon DEF IInv, SweepInv, Past, world
<1> QED BY <1>1, <1>2, <1>3, <1>4, <1>7, GoesOn, Zenon

LEMMA CheckPeerKeeps == ASSUME IInv, NEW l \in Login, CheckPeer(l) PROVE IInv'
<1>1. /\ begin[l] = "unlocked"
      /\ UNCHANGED <<entries, slot, exec, holder, step, on, ends, audits, aborted, world>>
  BY Zenon DEF CheckPeer, calls, history
<1>2. begin[l] \notin Unregistered /\ begin[l] \in {"unlocked", "respond", "pending"}
  BY <1>1, Zenon DEF Unregistered
<1>3. PICK x \in {"peer_revoked", "shutdown", "respond"} :
         /\ begin' = [begin EXCEPT ![l] = x]
         /\ x = "respond" => peer[PrincipalOf[l]] = "active" /\ down = "up"
  BY Zenon DEF CheckPeer
<1>4. /\ x \in Stage \ Unregistered /\ "active" # "swept" /\ "up" # "swept"
      /\ x \in {"respond", "pending"} => x = "respond"
  BY Zenon DEF Stage, Reason, Unregistered
<1>5. begin'[l] = x
  BY <1>3, Zenon DEF IInv, TypeOK
<1>6. Past(l)'
  <2>1. l \in DOMAIN entries => vault[NamespaceOf[l]] # "locked"
    BY <1>2, Zenon DEF IInv, SweepInv, Past
  <2> QED BY <1>1, <1>3, <1>4, <1>5, <2>1, Zenon DEF Past, world
<1> QED BY <1>1, <1>2, <1>3, <1>4, <1>6, GoesOn, Zenon

LEMMA DeliverKeeps == ASSUME IInv, NEW l \in Login, Deliver(l) PROVE IInv'
<1>1. /\ begin[l] = "respond" /\ begin' = [begin EXCEPT ![l] = "pending"]
      /\ UNCHANGED <<entries, slot, exec, holder, step, on, ends, audits, aborted, world>>
  BY Zenon DEF Deliver, calls, history
<1>2. /\ begin[l] \notin Unregistered /\ "pending" \in Stage \ Unregistered
      /\ begin[l] \in {"unlocked", "respond", "pending"} /\ begin[l] \in {"respond", "pending"}
  BY <1>1, Zenon DEF Unregistered, Stage
<1>3. Past(l)'
  BY <1>1, <1>2, Zenon DEF IInv, SweepInv, Past, world
<1> QED BY <1>1, <1>2, <1>3, GoesOn, Zenon

LEMMA ExecutorExitsKeeps == ASSUME IInv, NEW l \in Login, ExecutorExits(l) PROVE IInv'
<1>1. /\ exec[l] = "live" /\ exec' = [exec EXCEPT ![l] = "stopped"]
      /\ UNCHANGED <<entries, slot, begin, holder, step, on, ends, audits, aborted, world>>
  BY Zenon DEF ExecutorExits, calls, history
<1>2. /\ exec[l] # "none" /\ "stopped" # "live"
      /\ "stopped" \in {"none", "live", "stopped", "handed off"}
  BY <1>1, Zenon
<1>3. /\ begin[l] # "new" /\ exec' \in [Login -> {"none", "live", "stopped", "handed off"}]
      /\ exec'[l] = "stopped" /\ \A m \in Login : m # l => exec'[m] = exec[m]
  BY <1>1, <1>2, Zenon DEF IInv, TypeOK, LoginInv, Fresh
<1>4. TypeOK'
  BY <1>1, <1>3, Zenon DEF IInv, TypeOK, world
<1>5. SweepInv'
  BY <1>1, StaysPast, Zenon DEF IInv
<1>6. \A m : Takers(m)' = Takers(m) /\ Handing(m)' = Handing(m) /\ Of(m)' = Of(m)
  BY <1>1, Zenon DEF Takers, Handing, Of
<1>7. ASSUME NEW m \in Login PROVE LoginInv(m)'
  <2>1. exec'[m] = exec[m] \/ (exec'[m] # "live" /\ begin[m] # "new")
    BY <1>2, <1>3, Zenon
  <2>2. Alike(m)
    BY <1>1, <1>6, <2>1, Zenon DEF Alike
  <2> QED BY <2>2, AlikeKeeps, Zenon DEF IInv
<1>8. ASSUME NEW c \in Call PROVE CallInv(c)'
  BY <1>1, UnmovedKeeps, Zenon DEF Unmoved, IInv
<1> QED BY <1>4, <1>5, <1>7, <1>8, Zenon DEF IInv

-----------------------------------------------------------------------------
(* Flags. *)

LEMMA FlagStep ==
  ASSUME IInv, UNCHANGED <<entries, slot, holder, exec, begin, calls, ends, history>>,
         locked' \in [Namespace -> BOOLEAN],
         vault' \in [Namespace -> {"idle", "locking", "locked"}],
         peer' \in [Principal -> {"active", "revoked", "swept"}],
         SweepInv'
  PROVE  IInv'
<1>1. UNCHANGED <<step, on, audits, aborted>>
  BY Zenon DEF calls, history
<1>2. TypeOK'
  BY <1>1, Zenon DEF IInv, TypeOK
<1>3. \A m : Takers(m)' = Takers(m) /\ Handing(m)' = Handing(m) /\ Of(m)' = Of(m)
  BY <1>1, Zenon DEF Takers, Handing, Of
<1>4. ASSUME NEW l \in Login PROVE LoginInv(l)'
  <2>1. Alike(l)
    BY <1>1, <1>3, Zenon DEF Alike
  <2> QED BY <2>1, AlikeKeeps, Zenon DEF IInv
<1>5. ASSUME NEW c \in Call PROVE CallInv(c)'
  BY <1>1, UnmovedKeeps, Zenon DEF Unmoved, IInv
<1> QED BY <1>2, <1>4, <1>5, Zenon DEF IInv

\* No flag says more than before that a sweep is over.
LEMMA LessSwept ==
  ASSUME SweepInv, UNCHANGED <<entries, begin>>,
         \A n \in Namespace : vault'[n] = "locked" => vault[n] = "locked" /\ locked'[n],
         \A p \in Principal : peer'[p] = "swept" => peer[p] = "swept",
         down' = "swept" => down = "swept"
  PROVE  SweepInv'
<1>1. ASSUME NEW l \in Login PROVE Past(l)'
  <2>1. NamespaceOf[l] \in Namespace /\ PrincipalOf[l] \in Principal
    BY StepwiseAssumption, Zenon
  <2> QED BY <2>1, Zenon DEF SweepInv, Past
<1> QED BY <1>1, Zenon DEF SweepInv

LEMMA LockFlagsKeep ==
  ASSUME IInv, NEW n \in Namespace, Lock(n) \/ Unlock(n) \/ AutoLock(n)
  PROVE  IInv'
<1>1. UNCHANGED <<entries, slot, holder, exec, begin, calls, ends, history, peer, down>>
  BY Zenon DEF Lock, Unlock, AutoLock
<1>2. /\ locked \in [Namespace -> BOOLEAN] /\ vault \in [Namespace -> {"idle", "locking", "locked"}]
      /\ \A m \in Namespace : vault[m] = "locked" => locked[m]
  BY Zenon DEF IInv, TypeOK, SweepInv
<1>3. /\ locked' \in [Namespace -> BOOLEAN]
      /\ vault' \in [Namespace -> {"idle", "locking", "locked"}]
      /\ \A m \in Namespace : vault'[m] = "locked" => vault[m] = "locked" /\ locked'[m]
  <2>1. CASE Lock(n)
    BY <1>2, <2>1, Zenon DEF Lock
  <2>2. CASE Unlock(n)
    BY <1>2, <2>2, Zenon DEF Unlock
  <2>3. CASE AutoLock(n)
    BY <1>2, <2>3, Zenon DEF AutoLock
  <2> QED BY <2>1, <2>2, <2>3, Zenon
<1>4. SweepInv'
  BY <1>1, <1>3, LessSwept, Zenon DEF IInv
<1> QED BY <1>1, <1>3, <1>4, FlagStep, Zenon DEF IInv, TypeOK

LEMMA RevokeKeeps == ASSUME IInv, NEW p \in Principal, Revoke(p) PROVE IInv'
<1>1. /\ UNCHANGED <<entries, slot, holder, exec, begin, calls, ends, history, locked, vault, down>>
      /\ peer' = [peer EXCEPT ![p] = "revoked"]
  BY Zenon DEF Revoke
<1>2. /\ peer' \in [Principal -> {"active", "revoked", "swept"}]
      /\ \A q \in Principal : peer'[q] = "swept" => peer[q] = "swept"
  BY <1>1, Zenon DEF IInv, TypeOK
<1>3. SweepInv'
  BY <1>1, <1>2, LessSwept, Zenon DEF IInv, SweepInv
<1> QED BY <1>1, <1>2, <1>3, FlagStep, Zenon DEF IInv, TypeOK

\* ShutDown, a tick of the clock and a step that changes nothing.
LEMMA QuietKeeps ==
  ASSUME IInv, ShutDown \/ Tick \/ UNCHANGED vars
  PROVE  IInv'
<1>1. /\ UNCHANGED <<entries, slot, holder, exec, begin, calls, ends, history, locked, vault, peer>>
      /\ down' = "swept" => down = "swept"
  BY Zenon DEF ShutDown, Tick, vars, world
<1>2. SweepInv'
  BY <1>1, LessSwept, Zenon DEF IInv, SweepInv
<1> QED BY <1>1, <1>2, FlagStep, Zenon DEF IInv, TypeOK

-----------------------------------------------------------------------------

LEMMA IInvKept == IInv /\ [Next]_vars => IInv'
<1> SUFFICES ASSUME IInv, [Next]_vars PROVE IInv'
  BY Zenon
<1>1. ASSUME NEW l \in Login, Begin(l) \/ BeginStep(l) \/ EndLeaked(l) \/ ExecutorExits(l)
      PROVE  IInv'
  BY <1>1, BeginKeeps, BeginDoneKeeps, RegisterKeeps, CheckLockKeeps, CheckPeerKeeps, EndItselfKeeps,
     DeliverKeeps, EndLeakedKeeps, ExecutorExitsKeeps, Zenon DEF BeginStep
<1>2. ASSUME NEW l \in Login, Ending(l) PROVE IInv'
  BY <1>2, TakeSlotKeeps, StopKeeps, RecordKeeps, Zenon DEF Ending
<1>3. ASSUME NEW c \in Call, CallStep(c) PROVE IInv'
  BY <1>3, LockSlotKeeps, CheckCurrentKeeps, AbortTakeKeeps, AbortRemoveKeeps, ReleaseKeeps, SendKeeps,
     DeliverStepKeeps, ReplyDoneKeeps, ReplyEndsKeeps, HandOffKeeps, Zenon DEF CallStep
<1>4. ASSUME NEW c \in Call, NEW l \in Login, Claim(c, l) PROVE IInv'
  BY <1>4, ClaimKeeps, Zenon
<1>5. CASE Sweeps
  BY <1>5, LockFlagsKeep, LockSweepKeeps, RevokeKeeps, RevokeSweepKeeps, QuietKeeps,
     ShutDownSweepKeeps, Zenon DEF Sweeps
<1>6. CASE Reaper \/ Tick \/ UNCHANGED vars
  BY <1>6, ReaperKeeps, QuietKeeps, Zenon
<1> QED BY <1>1, <1>2, <1>3, <1>4, <1>5, <1>6, Zenon DEF Next

LEMMA Invariance == Spec => []IInv
  BY Initially, IInvKept, PTL DEF Spec

\* No ending pulls the executor away from under a step (end_entry waits for the slot).
THEOREM StepsUndisturbed == Spec => []StepUndisturbed
<1>1. IInv => StepUndisturbed
  BY Zenon DEF IInv, CallInv, StepUndisturbed, AtWork
<1> QED BY <1>1, Invariance, PTL

\* No sweep is outrun by a login_begin that was starting its executor meanwhile.
THEOREM NoPendingAfterSweep == Spec => []NoneAfterSweep
<1>1. IInv => NoneAfterSweep
  BY Zenon DEF IInv, SweepInv, Past, NoneAfterSweep
<1> QED BY <1>1, Invariance, PTL

\* Whoever ends a login that was not aborted is the only one to: the end is audited once.
THEOREM LoginEndsOnce == Spec => []EndsOnce
<1>1. ASSUME IInv, NEW l \in Login, l \notin aborted
      PROVE  audits[l] + Cardinality({e \in ends : e.login = l}) <= 1
  <2>1. Once(l)
    BY <1>1, Zenon DEF IInv, LoginInv
  <2>2. CASE Of(l) = {}
    <3>1. Cardinality(Of(l)) = 0
      BY <2>2, FS_EmptySet, Zenon
    <3>2. audits[l] \in {0, 1}
      BY <2>1, Zenon DEF Once
    <3> QED BY <3>1, <3>2 DEF Of
  <2>3. ASSUME NEW e, e \in Of(l)
        PROVE  audits[l] + Cardinality({d \in ends : d.login = l}) <= 1
    <3>1. Of(l) = {e} /\ audits[l] = 0
      BY <2>1, <2>3, Zenon DEF Once
    <3>2. Cardinality(Of(l)) = 1
      BY <3>1, FS_Singleton, Zenon
    <3> QED BY <3>1, <3>2 DEF Of
  <2> QED BY <2>2, <2>3, Zenon
<1>2. IInv => EndsOnce
  BY <1>1, Zenon DEF EndsOnce
<1> QED BY <1>2, Invariance, PTL

\* A live executor is in exactly one place: with login_begin, in the slot, or with the
\* one call or ending that took it out.
THEOREM ExecutorInOnePlace == Spec => []ExecutorOwned
<1> DEFINE Place(l) == IF begin[l] = "launched" THEN 1 ELSE 0
<1>1. ASSUME IInv, NEW l \in Login, exec[l] = "live"
      PROVE  /\ slot[l] => /\ Takers(l) = {} /\ Stops(l) = {}
                           /\ l \in DOMAIN entries \/ \E e \in ends : e.login = l /\ e.at = "slot"
             /\ ~slot[l] => Cardinality(Takers(l)) + Cardinality(Stops(l)) + Place(l) = 1
  <2>1. Fresh(l) /\ Owned(l)
    BY <1>1, Zenon DEF IInv, LoginInv
  <2>2. slot[l] => /\ Takers(l) = {} /\ Stops(l) = {}
                   /\ l \in DOMAIN entries \/ \E e \in ends : e.login = l /\ e.at = "slot"
    BY <2>1, Zenon DEF Owned, Of
  <2>3. CASE begin[l] = "launched"
    <3>1. begin[l] \in Unregistered
      BY <2>3, Zenon DEF Unregistered
    <3>2. Takers(l) = {} /\ Stops(l) = {}
      BY <1>1, <3>1, FreshFacts, Zenon
    <3>3. Cardinality(Takers(l)) = 0 /\ Cardinality(Stops(l)) = 0
      BY <3>2, FS_EmptySet, Zenon
    <3>4. Place(l) = 1
      BY <2>3, Zenon
    <3> QED BY <2>2, <3>3, <3>4
  <2>4. ASSUME begin[l] # "launched", ~slot[l]
        PROVE  Cardinality(Takers(l)) + Cardinality(Stops(l)) + Place(l) = 1
    <3>1. \/ Stops(l) = {} /\ \E c \in Call : Takers(l) = {c}
          \/ Takers(l) = {} /\ \E e \in Of(l) : Stops(l) = {e}
      BY <1>1, <2>1, <2>4, Zenon DEF Owned
    <3>2. \/ Cardinality(Stops(l)) = 0 /\ Cardinality(Takers(l)) = 1
          \/ Cardinality(Takers(l)) = 0 /\ Cardinality(Stops(l)) = 1
      BY <3>1, FS_EmptySet, FS_Singleton, Zenon
    <3>3. Place(l) = 0
      BY <2>4, Zenon
    <3> HIDE DEF Place
    <3> QED BY <3>2, <3>3
  <2> QED BY <2>2, <2>3, <2>4, Zenon
<1>2. \A l : /\ Takers(l) = {c \in Call : on[c] = l /\ step[c] \in {"aborting", "handoff"}}
             /\ Stops(l) = {e \in ends : e.login = l /\ e.at = "stop"}
  BY Zenon DEF Takers, Took, Stops, Of
<1>3. IInv => ExecutorOwned
  BY <1>1, <1>2, Zenon DEF ExecutorOwned
<1> QED BY <1>3, Invariance, PTL
=============================================================================
