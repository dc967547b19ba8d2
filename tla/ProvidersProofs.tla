--------------------------- MODULE ProvidersProofs ---------------------------
(***************************************************************************)
(* The credential providers, for any set of providers of any kinds, any     *)
(* number of connections and any TTL; and the commands they run.  The       *)
(* mutexes make the proofs local: whoever is in a method of a provider      *)
(* holds its mutex (ActorInv), so that everybody else sees the provider   *)
(* as the last method left it.                                              *)
(***************************************************************************)
EXTENDS Credentials, TLAPS

\* The steps of ensure_session before there is a session.
Preparing == {"password", "server", "check", "login", "unlock", "status"}

\* Where a method of a provider can be, and where a call is without one.
Method ==
    Preparing \cup {"resolve", "list", "lock", "expire", "return", "error", "unavailable", "again",
                    "decrypt", "read", "show", "fetch", "sync"}
Outside == {"wait", "next", "failed"}
Auditing == {"audit", "auditFailed"}

Calls ==
    [op : {"resolve", "list", "lock", "expire"}, at : Method \cup Outside \cup Auditing,
     rest : Seq(Provider) \ {<< >>}, entry : Entry \cup {NoEntry}, round : {1, 2}, attempt : {1, 2},
     scope : Seq(Provider), locked : SUBSET Provider]

TypeOK ==
    /\ kind \in [Provider -> {"bitwarden", "file", "pass", "static"}]
    /\ session \in [Provider -> BOOLEAN]
    /\ held \in [Provider -> SUBSET (Entry \cup {NoEntry})]
    /\ age \in [Provider -> Nat \cup {None}]
    /\ locked \in [Provider -> BOOLEAN] /\ pending \in [Provider -> BOOLEAN]
    /\ mutex \in [Provider -> Actor \cup {NoOne}]
    /\ call \in [Actor -> {Idle} \cup Calls]
    /\ owed \subseteq Provider

Busy(a) == call[a].at # "idle"
Inside(a) == call[a].at \in Method
Members(s) == {s[i] : i \in 1..Len(s)}

\* The material and its time are there together, and only if the provider is not locked.
Settled(p) ==
    /\ (session[p] \/ held[p] # {}) <=> age[p] # None
    /\ locked[p] => age[p] = None

\* A session is verified before it has a time: while Bitwarden synchronises it, and only
\* then, there is a session that would not expire.
ActorInv(a) ==
    /\ Inside(a) => mutex[P(a)] = a
    /\ call[a].at \in Preparing => age[P(a)] = None
    /\ call[a].at = "sync" => session[P(a)] /\ age[P(a)] = None
    /\ Busy(a) /\ call[a].op = "lock" =>
          /\ call[a].at \in Outside \cup {"lock"}
          /\ call[a].at = "next" => P(a) \in call[a].locked
          /\ Members(call[a].scope) \subseteq call[a].locked \cup Members(call[a].rest)

Holds(a, p) == Inside(a) /\ P(a) = p

ProviderInv(p) ==
    /\ mutex[p] # NoOne => Holds(mutex[p], p)
    /\ kind[p] = "static" \/ Settled(p) \/ (mutex[p] # NoOne /\ call[mutex[p]].at = "sync")
    /\ kind[p] = "bitwarden" => held[p] = {}
    /\ pending[p] => mutex[p] # NoOne /\ call[mutex[p]].op # "lock"
    /\ p \in owed => pending[p] \/ \E a \in Actor : call[a].at \in Auditing /\ P(a) = p

IInv ==
    /\ TypeOK /\ ~missed
    /\ \A a \in Actor : ActorInv(a)
    /\ \A p \in Provider : ProviderInv(p)

-----------------------------------------------------------------------------
(* Calls. *)

LEMMA CallFacts ==
  ASSUME TypeOK, NEW a \in Actor, Busy(a)
  PROVE  call[a] \in Calls /\ P(a) \in Provider
<1>1. call[a] \in Calls
  BY DEF TypeOK, Busy, Idle
<1>2. call[a].rest \in Seq(Provider) /\ call[a].rest # << >>
  BY <1>1, Zenon DEF Calls
<1> QED BY <1>1, <1>2 DEF P

LEMMA InsideFacts ==
  ASSUME IInv, NEW a \in Actor, Inside(a)
  PROVE  /\ Busy(a) /\ call[a] \in Calls /\ P(a) \in Provider /\ TypeOK
         /\ mutex[P(a)] = a /\ mutex[P(a)] # NoOne
         /\ call[a].op = "lock" => call[a].at = "lock"
         /\ call[a].at \notin Auditing
<1>1. Busy(a) /\ call[a].at \notin Auditing /\ call[a].at \notin Outside
  BY Zenon DEF Inside, Busy, Method, Preparing, Auditing, Outside
<1>2. TypeOK /\ mutex[P(a)] = a
  BY Zenon DEF IInv, ActorInv
<1>3. call[a] \in Calls /\ P(a) \in Provider
  BY <1>1, <1>2, CallFacts, Zenon
<1>4. a # NoOne
  BY ProvidersAssumption, Zenon DEF Actor, NoOne
<1>5. call[a].op = "lock" => call[a].at = "lock"
  BY <1>1, Zenon DEF IInv, ActorInv
<1> QED BY <1>1, <1>2, <1>3, <1>4, <1>5, Zenon

\* Only the place of a's call changes.
Moved(a, x) ==
    /\ call' \in [Actor -> {Idle} \cup Calls]
    /\ call'[a].at = x /\ call'[a].op = call[a].op /\ call'[a].rest = call[a].rest
    /\ call'[a].scope = call[a].scope /\ call'[a].locked = call[a].locked
    /\ \A b \in Actor : b # a => call'[b] = call[b]

LEMMA GotoMoves ==
  ASSUME TypeOK, NEW a \in Actor, Busy(a), NEW x \in Method \cup Outside \cup Auditing, Goto(a, x)
  PROVE  Moved(a, x)
<1> DEFINE r == [call[a] EXCEPT !.at = x]
<1>1. call[a] \in Calls /\ call \in [Actor -> {Idle} \cup Calls]
  BY CallFacts, Zenon DEF TypeOK
<1>2. /\ r \in Calls /\ r.at = x /\ r.op = call[a].op /\ r.rest = call[a].rest
      /\ r.scope = call[a].scope /\ r.locked = call[a].locked
  BY <1>1, Zenon DEF Calls
<1>3. call' = [call EXCEPT ![a] = r]
  BY <1>1, Zenon DEF Goto
<1> HIDE DEF r
<1> QED BY <1>1, <1>2, <1>3, Zenon DEF Moved

\* What a method changes of its provider p.
Touches(p) ==
    /\ session' \in [Provider -> BOOLEAN] /\ held' \in [Provider -> SUBSET (Entry \cup {NoEntry})]
    /\ age' \in [Provider -> Nat \cup {None}] /\ locked' \in [Provider -> BOOLEAN]
    /\ \A q \in Provider : q # p => /\ session'[q] = session[q] /\ held'[q] = held[q]
                                    /\ age'[q] = age[q] /\ locked'[q] = locked[q]
    /\ kind[p] = "bitwarden" => held'[p] = {}

\* ... and of the record of its expiry.
Notes(p) ==
    /\ pending' \in [Provider -> BOOLEAN] /\ owed' \subseteq Provider
    /\ \A q \in Provider : q # p => pending'[q] = pending[q] /\ (q \in owed' <=> q \in owed)
    /\ pending[p] => pending'[p]
    /\ p \in owed' => p \in owed \/ pending'[p]

\* Whoever else is in a method is in one of another provider.
LEMMA Elsewhere ==
  ASSUME IInv, NEW a \in Actor, Inside(a), NEW b \in Actor, b # a, Inside(b)
  PROVE  P(b) # P(a) /\ P(b) \in Provider
  BY InsideFacts, Zenon

LEMMA MethodStep ==
  ASSUME IInv, NEW a \in Actor, Inside(a), call[a].at # "lock", NEW p, p = P(a),
         NEW x \in Method, x # "lock", Moved(a, x), Touches(p), Notes(p), UNCHANGED <<kind, mutex, missed>>,
         x \in Preparing => age'[p] = None,
         x = "sync" => session'[p] /\ age'[p] = None,
         kind[p] = "static" \/ Settled(p)' \/ x = "sync"
  PROVE  IInv'
<1>1. /\ p \in Provider /\ mutex[p] = a /\ mutex[p] # NoOne /\ call[a].op # "lock" /\ TypeOK
      /\ call[a].at \notin Auditing
  BY InsideFacts, Zenon
<1>2. /\ P(a)' = p /\ call'[a].at = x /\ call'[a].op = call[a].op
      /\ \A b \in Actor : b # a => call'[b] = call[b] /\ P(b)' = P(b)
  BY Zenon DEF Moved, P
<1>3. TypeOK'
  BY <1>1, Zenon DEF TypeOK, Moved, Touches, Notes
<1>4. ASSUME NEW b \in Actor PROVE ActorInv(b)'
  <2>1. CASE b = a
    BY <1>1, <1>2, <2>1, Zenon DEF ActorInv
  <2>2. CASE b # a
    <3>1. ActorInv(b) /\ (Inside(b) => P(b) # p /\ P(b) \in Provider)
      BY <2>2, Elsewhere, Zenon DEF IInv
    <3>2. \A y \in Preparing \cup {"sync"} : y \in Method
      BY Zenon DEF Method
    <3>3. Inside(b) => age'[P(b)] = age[P(b)] /\ session'[P(b)] = session[P(b)]
      BY <3>1, Zenon DEF Touches
    <3>4. call[b].at \in Preparing \/ call[b].at = "sync" => Inside(b)
      BY <3>2, Zenon DEF Inside
    <3> QED BY <1>2, <2>2, <3>1, <3>3, <3>4, Zenon DEF ActorInv, Inside, Busy
  <2> QED BY <2>1, <2>2, Zenon
<1>5. ASSUME NEW q \in Provider PROVE ProviderInv(q)'
  <2>1. q \in owed => pending[q] \/ \E b \in Actor : b # a /\ call[b].at \in Auditing /\ P(b) = q
    BY <1>1, Zenon DEF IInv, ProviderInv
  <2>2. (\E b \in Actor : b # a /\ call[b].at \in Auditing /\ P(b) = q) =>
           \E b \in Actor : call'[b].at \in Auditing /\ P(b)' = q
    BY <1>2, Zenon
  <2>3. CASE q = p
    <3>1. Holds(a, p)'
      BY <1>2, Zenon DEF Holds, Inside
    <3>2. kind[p] = "bitwarden" => held'[p] = {}
      BY Zenon DEF Touches
    <3>3. p \in owed' => pending'[p] \/ \E b \in Actor : call'[b].at \in Auditing /\ P(b)' = p
      BY <2>1, <2>2, <2>3, Zenon DEF Notes
    <3> QED BY <1>1, <1>2, <2>3, <3>1, <3>2, <3>3, Zenon DEF ProviderInv
  <2>4. CASE q # p
    <3>1. /\ pending'[q] = pending[q] /\ (q \in owed' <=> q \in owed) /\ session'[q] = session[q]
          /\ held'[q] = held[q] /\ age'[q] = age[q] /\ locked'[q] = locked[q]
      BY <2>4, Zenon DEF Touches, Notes
    <3>2. ProviderInv(q)
      BY Zenon DEF IInv
    <3>3. mutex[q] # NoOne => mutex[q] \in Actor /\ mutex[q] # a
      BY <1>1, <2>4, <3>2, Zenon DEF ProviderInv, Holds, TypeOK
    <3>4. mutex[q] # NoOne => call'[mutex[q]] = call[mutex[q]] /\ Holds(mutex[q], q)'
      BY <1>2, <3>2, <3>3, Zenon DEF ProviderInv, Holds, Inside
    <3>5. Settled(q) => Settled(q)'
      BY <3>1, Zenon DEF Settled
    <3> QED BY <2>1, <2>2, <3>1, <3>2, <3>4, <3>5, Zenon DEF ProviderInv
  <2> QED BY <2>3, <2>4, Zenon
<1> QED BY <1>3, <1>4, <1>5, Zenon DEF IInv

-----------------------------------------------------------------------------
(* Material. *)

LEMMA Untouched ==
  ASSUME IInv, NEW p \in Provider, UNCHANGED <<material, locked, pending, owed>>
  PROVE  /\ Touches(p) /\ Notes(p)
         /\ Settled(p) => Settled(p)'
         /\ age'[p] = age[p] /\ session'[p] = session[p]
<1>1. UNCHANGED <<session, held, age, locked, pending, owed>>
  BY Zenon DEF material
<1>2. TypeOK /\ ProviderInv(p)
  BY Zenon DEF IInv
<1>3. Touches(p) /\ Notes(p)
  BY <1>1, <1>2, Zenon DEF Touches, Notes, TypeOK, ProviderInv
<1> QED BY <1>1, <1>3, Zenon DEF Settled

\* A provider that has given up everything.
LEMMA DiscardTouches ==
  ASSUME IInv, NEW p \in Provider, Discard(p), locked' \in [Provider -> BOOLEAN],
         \A q \in Provider : q # p => locked'[q] = locked[q]
  PROVE  /\ Touches(p) /\ age'[p] = None
         /\ kind[p] # "static" => Settled(p)'
<1>1. /\ session \in [Provider -> BOOLEAN] /\ held \in [Provider -> SUBSET (Entry \cup {NoEntry})]
      /\ age \in [Provider -> Nat \cup {None}]
  BY Zenon DEF IInv, TypeOK
<1>2. (kind[p] = "static") \in BOOLEAN /\ None \in Nat \cup {None}
  BY Zenon
<1>3. /\ session' \in [Provider -> BOOLEAN] /\ held' \in [Provider -> SUBSET (Entry \cup {NoEntry})]
      /\ age' \in [Provider -> Nat \cup {None}]
      /\ session'[p] <=> kind[p] = "static"
      /\ held'[p] = {} /\ age'[p] = None
  BY <1>1, <1>2, Zenon DEF Discard
<1>4. \A q \in Provider : q # p => /\ session'[q] = session[q] /\ held'[q] = held[q]
                                   /\ age'[q] = age[q]
  BY <1>1, Zenon DEF Discard
<1>5. Touches(p)
  BY <1>3, <1>4, Zenon DEF Touches
<1>6. kind[p] # "static" => Settled(p)'
  BY <1>3, Zenon DEF Settled
<1> QED BY <1>3, <1>5, <1>6, Zenon

LEMMA ExpireTouches ==
  ASSUME IInv, NEW p \in Provider, Expire(p)
  PROVE  /\ Touches(p) /\ Notes(p) /\ age'[p] = None
         /\ kind[p] # "static" => Settled(p)'
<1>1. locked \in [Provider -> BOOLEAN] /\ pending \in [Provider -> BOOLEAN] /\ owed \subseteq Provider
  BY Zenon DEF IInv, TypeOK
<1>2. locked' \in [Provider -> BOOLEAN] /\ \A q \in Provider : q # p => locked'[q] = locked[q]
  BY <1>1, Zenon DEF Expire
<1>3. Notes(p)
  <2>1. /\ pending' \in [Provider -> BOOLEAN] /\ owed' \subseteq Provider /\ pending'[p]
        /\ \A q \in Provider : q # p => pending'[q] = pending[q] /\ (q \in owed' <=> q \in owed)
    BY <1>1, Zenon DEF Expire
  <2> QED BY <2>1, Zenon DEF Notes
<1>4. Discard(p)
  BY Zenon DEF Expire
<1> QED BY <1>2, <1>3, <1>4, DiscardTouches, Zenon

\* An expiry, if it is due.
LEMMA MayExpire ==
  ASSUME IInv, NEW p \in Provider, NEW due \in BOOLEAN,
         IF due THEN Expire(p) ELSE UNCHANGED <<material, locked, pending, owed>>,
         kind[p] = "static" \/ Settled(p)
  PROVE  /\ Touches(p) /\ Notes(p) /\ (kind[p] = "static" \/ Settled(p)')
         /\ due => age'[p] = None
         /\ ~due => age'[p] = age[p]
<1>1. CASE due
  BY <1>1, ExpireTouches, Zenon
<1>2. CASE ~due
  BY <1>2, Untouched, Zenon
<1> QED BY <1>1, <1>2, Zenon

\* The material becomes usable.
LEMMA UnlockTouches ==
  ASSUME IInv, NEW p \in Provider, Unlocked(p), UNCHANGED <<pending, owed>>,
         session' \in [Provider -> BOOLEAN], held' \in [Provider -> SUBSET (Entry \cup {NoEntry})],
         \A q \in Provider : q # p => session'[q] = session[q] /\ held'[q] = held[q],
         kind[p] = "bitwarden" => held'[p] = {},
         session'[p] \/ held'[p] # {}
  PROVE  Touches(p) /\ Notes(p) /\ Settled(p)'
<1>1. age \in [Provider -> Nat \cup {None}] /\ locked \in [Provider -> BOOLEAN]
  BY Zenon DEF IInv, TypeOK
<1>2. 0 \in Nat \cup {None} /\ 0 # None
  BY DEF None
<1>3. /\ age' \in [Provider -> Nat \cup {None}] /\ age'[p] # None
      /\ locked' \in [Provider -> BOOLEAN] /\ ~locked'[p]
      /\ \A q \in Provider : q # p => age'[q] = age[q] /\ locked'[q] = locked[q]
  BY <1>1, <1>2, Zenon DEF Unlocked
<1>4. Notes(p)
  BY Zenon DEF Notes, IInv, TypeOK
<1> QED BY <1>3, <1>4, Zenon DEF Touches, Settled

-----------------------------------------------------------------------------
(* Methods. *)

\* In a method that is not about to synchronise, the provider is settled.
LEMMA SettledInside ==
  ASSUME IInv, NEW a \in Actor, Inside(a), call[a].at # "sync"
  PROVE  kind[P(a)] = "static" \/ Settled(P(a))
<1>1. P(a) \in Provider /\ mutex[P(a)] = a
  BY InsideFacts, Zenon
<1> QED BY <1>1, Zenon DEF IInv, ProviderInv

\* A step that only moves the call.
LEMMA MoveKeeps ==
  ASSUME IInv, NEW a \in Actor, Inside(a), call[a].at # "lock", call[a].at # "sync",
         NEW x \in Method, x # "lock", x # "sync", Moved(a, x),
         UNCHANGED <<kind, material, locked, pending, owed, mutex, missed>>,
         x \in Preparing => age[P(a)] = None
  PROVE  IInv'
<1>1. PICK p \in Provider : p = P(a)
  BY InsideFacts, Zenon
<1>2. /\ Touches(p) /\ Notes(p) /\ age'[p] = age[p] /\ (kind[p] = "static" \/ Settled(p)')
  BY <1>1, Untouched, SettledInside, Zenon
<1> QED BY <1>1, <1>2, MethodStep, Zenon

\* Where a call is when it is at a point of a method.
LEMMA AtFacts ==
  ASSUME NEW a, NEW x \in Method, x # "lock", x # "sync", In(a, x)
  PROVE  Inside(a) /\ call[a].at = x /\ call[a].at # "lock" /\ call[a].at # "sync"
  BY Zenon DEF In, Inside

LEMMA Points ==
  /\ \A x \in {"resolve", "list", "expire", "return", "error", "unavailable", "again",
               "decrypt", "read", "show", "fetch"} :
        x \in Method /\ x \notin Preparing /\ x # "lock" /\ x # "sync"
  /\ \A x \in Preparing : x \in Method /\ x # "lock" /\ x # "sync"
  /\ "sync" \in Method /\ "sync" \notin Preparing /\ "sync" # "lock"
  BY Zenon DEF Method, Preparing

LEMMA InMethod ==
  ASSUME IInv, NEW a \in Actor, NEW x \in Method, Inside(a), Goto(a, x)
  PROVE  Moved(a, x)
  BY InsideFacts, GotoMoves, Zenon

LEMMA ExpireNowKeeps == ASSUME IInv, NEW a \in Actor, ExpireNow(a) PROVE IInv'
<1>1. /\ Inside(a) /\ call[a].at # "lock" /\ call[a].at # "sync"
  BY Points, AtFacts, Zenon DEF ExpireNow
<1>2. PICK p \in Provider : p = P(a)
  BY <1>1, InsideFacts, Zenon
<1>3. /\ IF Due(p) THEN Expire(p) ELSE UNCHANGED <<material, locked, pending, owed>>
      /\ UNCHANGED <<kind, mutex, missed>> /\ Goto(a, "return")
  BY <1>2, Zenon DEF ExpireNow
<1>4. Touches(p) /\ Notes(p) /\ (kind[p] = "static" \/ Settled(p)')
  <2>1. Due(p) \in BOOLEAN
    BY Zenon DEF Due
  <2> QED BY <1>1, <1>2, <1>3, <2>1, MayExpire, SettledInside, Zenon
<1>5. Moved(a, "return")
  BY <1>1, <1>3, Points, InMethod, Zenon
<1> QED BY <1>1, <1>2, <1>3, <1>4, <1>5, Points, MethodStep, Zenon

LEMMA PlainKeeps == ASSUME IInv, NEW a \in Actor, Plain(a) \/ ListLocked(a) PROVE IInv'
<1>1. /\ Inside(a) /\ call[a].at # "lock" /\ call[a].at # "sync"
  BY Points, AtFacts, Zenon DEF Plain, ListLocked, At
<1>2. PICK x \in {"return", "error"} : Goto(a, x)
  BY Zenon DEF Plain, ListLocked
<1>3. x \in Method /\ x # "lock" /\ x # "sync" /\ x \notin Preparing
  BY Points, Zenon
<1>4. Moved(a, x)
  BY <1>1, <1>2, <1>3, InMethod, Zenon
<1>5. UNCHANGED <<kind, material, locked, pending, owed, mutex, missed>>
  BY Zenon DEF Plain, ListLocked, flags, history
<1> QED BY <1>1, <1>3, <1>4, <1>5, MoveKeeps, Zenon

LEMMA FileUnlockKeeps == ASSUME IInv, NEW a \in Actor, FileUnlock(a) PROVE IInv'
<1>1. /\ Inside(a) /\ call[a].at # "lock" /\ call[a].at # "sync"
  BY Points, AtFacts, Zenon DEF FileUnlock, At
<1>2. PICK p \in Provider : p = P(a)
  BY <1>1, InsideFacts, Zenon
<1>3. /\ IF Due(p) THEN Expire(p) ELSE UNCHANGED <<material, locked, pending, owed>>
      /\ UNCHANGED <<kind, mutex, missed>>
  BY <1>2, Zenon DEF FileUnlock
<1>4. PICK x \in {"read", "decrypt"} : Goto(a, x)
  BY Zenon DEF FileUnlock
<1>5. x \in Method /\ x # "lock" /\ x # "sync" /\ x \notin Preparing
  BY Points, Zenon
<1>6. Touches(p) /\ Notes(p) /\ (kind[p] = "static" \/ Settled(p)')
  <2>1. Due(p) \in BOOLEAN
    BY Zenon DEF Due
  <2> QED BY <1>1, <1>2, <1>3, <2>1, MayExpire, SettledInside, Zenon
<1>7. Moved(a, x)
  BY <1>1, <1>4, <1>5, InMethod, Zenon
<1> QED BY <1>1, <1>2, <1>3, <1>5, <1>6, <1>7, MethodStep, Zenon

LEMMA FileDecryptKeeps == ASSUME IInv, NEW a \in Actor, FileDecrypt(a) PROVE IInv'
<1>1. /\ Inside(a) /\ call[a].at # "lock" /\ call[a].at # "sync"
  BY Points, AtFacts, Zenon DEF FileDecrypt, At
<1>2. PICK p \in Provider : p = P(a)
  BY <1>1, InsideFacts, Zenon
<1>3. UNCHANGED <<kind, held, pending, owed, mutex, missed>>
  BY Zenon DEF FileDecrypt, history
<1>4. CASE session' = [session EXCEPT ![p] = TRUE] /\ Unlocked(p) /\ Goto(a, "read")
  <2>1. /\ session \in [Provider -> BOOLEAN] /\ held \in [Provider -> SUBSET (Entry \cup {NoEntry})]
        /\ kind[p] = "bitwarden" => held[p] = {}
    BY Zenon DEF IInv, TypeOK, ProviderInv
  <2>2. /\ session' \in [Provider -> BOOLEAN] /\ session'[p]
        /\ \A q \in Provider : q # p => session'[q] = session[q]
    BY <1>4, <2>1, Zenon
  <2>3. Touches(p) /\ Notes(p) /\ Settled(p)'
    BY <1>3, <1>4, <2>1, <2>2, UnlockTouches, Zenon
  <2>4. Moved(a, "read")
    BY <1>1, <1>4, Points, InMethod, Zenon
  <2> QED BY <1>1, <1>2, <1>3, <2>3, <2>4, Points, MethodStep, Zenon
<1>5. CASE Goto(a, "error") /\ UNCHANGED <<session, age, locked>>
  <2>1. Moved(a, "error")
    BY <1>1, <1>5, Points, InMethod, Zenon
  <2> QED BY <1>1, <1>3, <1>5, <2>1, Points, MoveKeeps, Zenon DEF material
<1> QED BY <1>2, <1>4, <1>5, Zenon DEF FileDecrypt

LEMMA ReadKeeps == ASSUME IInv, NEW a \in Actor, FileRead(a) \/ Fetch(a) PROVE IInv'
<1>1. /\ Inside(a) /\ call[a].at # "lock" /\ call[a].at # "sync"
  BY Points, AtFacts, Zenon DEF FileRead, Fetch, Bw, At
<1>2. PICK x \in {"return", "error", "unavailable"} : Goto(a, x)
  BY Zenon DEF FileRead, Fetch, Fail
<1>3. x \in Method /\ x # "lock" /\ x # "sync" /\ x \notin Preparing
  BY Points, Zenon
<1>4. Moved(a, x)
  BY <1>1, <1>2, <1>3, InMethod, Zenon
<1>5. UNCHANGED <<kind, material, locked, pending, owed, mutex, missed>>
  BY Zenon DEF FileRead, Fetch, history
<1> QED BY <1>1, <1>3, <1>4, <1>5, MoveKeeps, Zenon

LEMMA PassResolveKeeps == ASSUME IInv, NEW a \in Actor, PassResolve(a) PROVE IInv'
<1>1. /\ Inside(a) /\ call[a].at # "lock" /\ call[a].at # "sync"
  BY Points, AtFacts, Zenon DEF PassResolve, At
<1>2. PICK p \in Provider : p = P(a)
  BY <1>1, InsideFacts, Zenon
<1>3. /\ IF Due(p) THEN Expire(p) ELSE UNCHANGED <<material, locked, pending, owed>>
      /\ UNCHANGED <<kind, mutex, missed>>
  BY <1>2, Zenon DEF PassResolve
<1>4. PICK x \in {"return", "show"} : Goto(a, x)
  BY Zenon DEF PassResolve
<1>5. x \in Method /\ x # "lock" /\ x # "sync" /\ x \notin Preparing
  BY Points, Zenon
<1>6. Touches(p) /\ Notes(p) /\ (kind[p] = "static" \/ Settled(p)')
  <2>1. Due(p) \in BOOLEAN
    BY Zenon DEF Due
  <2> QED BY <1>1, <1>2, <1>3, <2>1, MayExpire, SettledInside, Zenon
<1>7. Moved(a, x)
  BY <1>1, <1>4, <1>5, InMethod, Zenon
<1> QED BY <1>1, <1>2, <1>3, <1>5, <1>6, <1>7, MethodStep, Zenon

LEMMA PassShowKeeps == ASSUME IInv, NEW a \in Actor, PassShow(a) PROVE IInv'
<1>1. /\ Inside(a) /\ call[a].at # "lock" /\ call[a].at # "sync" /\ kind[P(a)] = "pass"
  BY Points, AtFacts, Zenon DEF PassShow, At
<1>2. PICK p \in Provider : p = P(a)
  BY <1>1, InsideFacts, Zenon
<1>3. UNCHANGED <<kind, session, pending, owed, mutex, missed>>
  BY Zenon DEF PassShow, history
<1>4. CASE held' = [held EXCEPT ![p] = @ \cup {call[a].entry}] /\ Unlocked(p) /\ Goto(a, "return")
  <2>1. session \in [Provider -> BOOLEAN] /\ held \in [Provider -> SUBSET (Entry \cup {NoEntry})]
    BY Zenon DEF IInv, TypeOK
  <2>2. call[a].entry \in Entry \cup {NoEntry} /\ kind[p] # "bitwarden"
    BY <1>1, <1>2, InsideFacts, Zenon DEF Calls
  <2>3. /\ held' \in [Provider -> SUBSET (Entry \cup {NoEntry})] /\ held'[p] # {}
        /\ \A q \in Provider : q # p => held'[q] = held[q]
    BY <1>4, <2>1, <2>2, Zenon
  <2>4. Touches(p) /\ Notes(p) /\ Settled(p)'
    BY <1>3, <1>4, <2>1, <2>2, <2>3, UnlockTouches, Zenon
  <2>5. Moved(a, "return")
    BY <1>1, <1>4, Points, InMethod, Zenon
  <2> QED BY <1>1, <1>2, <1>3, <2>4, <2>5, Points, MethodStep, Zenon
<1>5. CASE Goto(a, "error") /\ UNCHANGED <<held, age, locked>>
  <2>1. Moved(a, "error")
    BY <1>1, <1>5, Points, InMethod, Zenon
  <2> QED BY <1>1, <1>3, <1>5, <2>1, Points, MoveKeeps, Zenon DEF material
<1> QED BY <1>2, <1>4, <1>5, Zenon DEF PassShow

-----------------------------------------------------------------------------
(* Bitwarden. *)

LEMMA EnsureSessionKeeps == ASSUME IInv, NEW a \in Actor, EnsureSession(a) PROVE IInv'
<1>1. /\ Inside(a) /\ call[a].at # "lock" /\ call[a].at # "sync" /\ kind[P(a)] = "bitwarden"
  BY Points, AtFacts, Zenon DEF EnsureSession, Bw, At
<1>2. PICK p \in Provider : p = P(a)
  BY <1>1, InsideFacts, Zenon
<1>3. PICK due \in BOOLEAN : /\ due <=> session[p] /\ Due(p)
                             /\ IF due THEN Expire(p) ELSE UNCHANGED <<material, locked, pending, owed>>
  <2>1. (session[p] /\ Due(p)) \in BOOLEAN
    BY Zenon
  <2> QED BY <1>2, <2>1, Zenon DEF EnsureSession
<1>4. PICK x \in {"fetch", "password"} :
         Goto(a, x) /\ (x = "password" => ~(session[p] /\ age[p] # None /\ ~Due(p)))
  BY <1>2, Zenon DEF EnsureSession
<1>5. /\ x \in Method /\ x # "lock" /\ x # "sync" /\ (x \in Preparing => x = "password")
  BY Zenon DEF Method, Preparing
<1>6. kind[p] # "static" /\ Settled(p) /\ held[p] = {}
  <2>1. kind[p] # "static"
    BY <1>1, <1>2, Zenon
  <2> QED BY <1>1, <1>2, <2>1, SettledInside, Zenon DEF IInv, ProviderInv
<1>7. /\ Touches(p) /\ Notes(p) /\ Settled(p)'
      /\ due => age'[p] = None
      /\ ~due => age'[p] = age[p]
  BY <1>3, <1>6, MayExpire, Zenon
<1>8. x \in Preparing => age'[p] = None
  BY <1>3, <1>4, <1>5, <1>6, <1>7, Zenon DEF Settled
<1>9. Moved(a, x)
  BY <1>1, <1>4, <1>5, InMethod, Zenon
<1>10. UNCHANGED <<kind, mutex, missed>>
  BY Zenon DEF EnsureSession
<1> QED BY <1>1, <1>2, <1>5, <1>7, <1>8, <1>9, <1>10, MethodStep, Zenon

LEMMA PrepareKeeps == ASSUME IInv, NEW a \in Actor, Prepare(a) \/ Establish(a) PROVE IInv'
<1>1. /\ call[a].at \in Preparing
  BY Zenon DEF Prepare, Establish, Bw, At, In, Preparing
<1>2. Inside(a) /\ call[a].at # "lock" /\ call[a].at # "sync"
  BY <1>1, Points, Zenon DEF Inside
<1>3. PICK x \in Preparing \cup {"error", "unavailable"} : Goto(a, x)
  BY Zenon DEF Prepare, Establish, Fail, Preparing
<1>4. x \in Method /\ x # "lock" /\ x # "sync"
  BY Points, Zenon
<1>5. Moved(a, x)
  BY <1>2, <1>3, <1>4, InMethod, Zenon
<1>6. UNCHANGED <<kind, material, locked, pending, owed, mutex, missed>>
  BY Zenon DEF Prepare, Establish, flags, history
<1>7. age[P(a)] = None
  BY <1>1, Zenon DEF IInv, ActorInv
<1> QED BY <1>2, <1>4, <1>5, <1>6, <1>7, MoveKeeps, Zenon

LEMMA VerifyKeeps == ASSUME IInv, NEW a \in Actor, Verify(a) PROVE IInv'
<1>1. call[a].at = "status" /\ call[a].at \in Preparing /\ kind[P(a)] = "bitwarden"
  BY Zenon DEF Verify, Bw, At, In, Preparing
<1>2. Inside(a) /\ call[a].at # "lock" /\ call[a].at # "sync"
  BY <1>1, Points, Zenon DEF Inside
<1>3. PICK p \in Provider : p = P(a)
  BY <1>2, InsideFacts, Zenon
<1>4. UNCHANGED <<kind, locked, pending, owed, mutex, missed>> /\ age[p] = None
  BY <1>1, <1>3, Zenon DEF Verify, flags, history, IInv, ActorInv
<1>5. /\ locked \in [Provider -> BOOLEAN] /\ session \in [Provider -> BOOLEAN]
      /\ pending \in [Provider -> BOOLEAN] /\ owed \subseteq Provider
      /\ held \in [Provider -> SUBSET (Entry \cup {NoEntry})] /\ age \in [Provider -> Nat \cup {None}]
      /\ kind[p] = "bitwarden" => held[p] = {}
  BY Zenon DEF IInv, TypeOK, ProviderInv
<1>6. Notes(p)
  BY <1>4, <1>5, Zenon DEF Notes
<1>7. CASE session' = [session EXCEPT ![p] = TRUE] /\ Goto(a, "sync") /\ UNCHANGED <<held, age>>
  <2>1. /\ session' \in [Provider -> BOOLEAN] /\ session'[p]
        /\ \A q \in Provider : q # p => session'[q] = session[q]
    BY <1>5, <1>7, Zenon
  <2>2. Touches(p)
    BY <1>4, <1>5, <1>7, <2>1, Zenon DEF Touches
  <2>3. Moved(a, "sync")
    BY <1>2, <1>7, Points, InMethod, Zenon
  <2> QED BY <1>2, <1>3, <1>4, <1>6, <1>7, <2>1, <2>2, <2>3, Points, MethodStep, Zenon
<1>8. CASE Discard(p) /\ Goto(a, "error")
  <2>1. kind[p] # "static"
    BY <1>1, <1>3, Zenon
  <2>2. Touches(p) /\ Settled(p)'
    BY <1>4, <1>5, <1>8, <2>1, DiscardTouches, Zenon
  <2>3. Moved(a, "error")
    BY <1>2, <1>8, Points, InMethod, Zenon
  <2> QED BY <1>2, <1>3, <1>4, <1>6, <2>2, <2>3, Points, MethodStep, Zenon
<1>9. CASE Goto(a, "unavailable") /\ UNCHANGED material
  <2>1. Moved(a, "unavailable")
    BY <1>2, <1>9, Points, InMethod, Zenon
  <2> QED BY <1>2, <1>4, <1>9, <2>1, Points, MoveKeeps, Zenon
<1> QED BY <1>3, <1>7, <1>8, <1>9, Zenon DEF Verify

\* A call that moves, and whose round or attempt changes.
LEMMA RoundMoves ==
  ASSUME TypeOK, NEW a \in Actor, Busy(a), NEW x \in Method, NEW n \in {1, 2}, NEW m \in {1, 2},
         \/ call' = [call EXCEPT ![a].at = x, ![a].round = n]
         \/ call' = [call EXCEPT ![a].at = x, ![a].attempt = m, ![a].round = n]
  PROVE  Moved(a, x)
<1>1. call[a] \in Calls /\ call \in [Actor -> {Idle} \cup Calls]
  BY CallFacts, Zenon DEF TypeOK
<1>2. PICK r \in Calls : /\ call' = [call EXCEPT ![a] = r]
                         /\ r.at = x /\ r.op = call[a].op /\ r.rest = call[a].rest
                         /\ r.scope = call[a].scope /\ r.locked = call[a].locked
  <2>1. CASE call' = [call EXCEPT ![a].at = x, ![a].round = n]
    <3> DEFINE r == [call[a] EXCEPT !.at = x, !.round = n]
    <3>1. /\ r \in Calls /\ r.at = x /\ r.op = call[a].op /\ r.rest = call[a].rest
          /\ r.scope = call[a].scope /\ r.locked = call[a].locked
      BY <1>1, Zenon DEF Calls
    <3>2. call' = [call EXCEPT ![a] = r]
      BY <1>1, <2>1, Zenon
    <3> HIDE DEF r
    <3> QED BY <3>1, <3>2, Zenon
  <2>2. CASE call' = [call EXCEPT ![a].at = x, ![a].attempt = m, ![a].round = n]
    <3> DEFINE r == [call[a] EXCEPT !.at = x, !.attempt = m, !.round = n]
    <3>1. /\ r \in Calls /\ r.at = x /\ r.op = call[a].op /\ r.rest = call[a].rest
          /\ r.scope = call[a].scope /\ r.locked = call[a].locked
      BY <1>1, Zenon DEF Calls
    <3>2. call' = [call EXCEPT ![a] = r]
      BY <1>1, <2>2, Zenon
    <3> HIDE DEF r
    <3> QED BY <3>1, <3>2, Zenon
  <2> QED BY <2>1, <2>2, Zenon
<1> QED BY <1>1, <1>2, Zenon DEF Moved

LEMMA SyncKeeps == ASSUME IInv, NEW a \in Actor, Sync(a) PROVE IInv'
<1>1. call[a].at = "sync" /\ kind[P(a)] = "bitwarden" /\ call[a].at # "lock"
  BY Zenon DEF Sync, Bw, At, In
<1>2. Inside(a)
  BY <1>1, Points, Zenon DEF Inside
<1>3. PICK p \in Provider : p = P(a)
  BY <1>2, InsideFacts, Zenon
<1>4. UNCHANGED <<kind, pending, owed, mutex, missed>> /\ session[p]
  BY <1>1, <1>3, Zenon DEF Sync, history, IInv, ActorInv
<1>5. /\ locked \in [Provider -> BOOLEAN] /\ session \in [Provider -> BOOLEAN]
      /\ pending \in [Provider -> BOOLEAN] /\ owed \subseteq Provider
      /\ held \in [Provider -> SUBSET (Entry \cup {NoEntry})]
      /\ kind[p] = "bitwarden" => held[p] = {}
  BY Zenon DEF IInv, TypeOK, ProviderInv
<1>6. Notes(p)
  BY <1>4, <1>5, Zenon DEF Notes
<1>7. CASE Unlocked(p) /\ Goto(a, "fetch") /\ UNCHANGED <<session, held>>
  <2>1. Touches(p) /\ Settled(p)'
    BY <1>4, <1>5, <1>7, UnlockTouches, Zenon
  <2>2. Moved(a, "fetch")
    BY <1>2, <1>7, Points, InMethod, Zenon
  <2> QED BY <1>1, <1>2, <1>3, <1>4, <1>6, <2>1, <2>2, Points, MethodStep, Zenon
<1>8. CASE SyncFails(a) /\ UNCHANGED locked
  <2>1. kind[p] # "static" /\ Discard(p)
    BY <1>1, <1>3, <1>8, Zenon DEF SyncFails
  <2>2. Touches(p) /\ Settled(p)' /\ age'[p] = None
    BY <1>5, <1>8, <2>1, DiscardTouches, Zenon
  <2>3. \E x \in {"password", "unavailable", "error"} : Moved(a, x)
    <3>1. CASE call' = [call EXCEPT ![a].at = "password", ![a].round = 2]
      <4>1. "password" \in Method /\ 2 \in {1, 2}
        BY Zenon DEF Method, Preparing
      <4> QED BY <1>2, <3>1, <4>1, InsideFacts, RoundMoves, Zenon
    <3>2. CASE Goto(a, "unavailable") \/ Goto(a, "error")
      BY <1>2, <3>2, Points, InMethod, Zenon
    <3>3. \/ Unlocked(p) /\ Goto(a, "fetch") /\ UNCHANGED <<session, held>>
          \/ call' = [call EXCEPT ![a].at = "password", ![a].round = 2]
          \/ Goto(a, "unavailable") \/ Goto(a, "error")
      BY <1>3, Zenon DEF Sync
    <3>4. ~Unlocked(p)
      <4>1. 0 # None /\ age \in [Provider -> Nat \cup {None}]
        BY DEF None, IInv, TypeOK
      <4> QED BY <2>2, <4>1, Zenon DEF Unlocked
    <3> QED BY <3>1, <3>2, <3>3, <3>4, Zenon
  <2>4. PICK x \in {"password", "unavailable", "error"} : Moved(a, x)
    BY <2>3, Zenon
  <2>5. x \in Method /\ x # "lock"
    BY Zenon DEF Method, Preparing
  <2>6. x # "sync"
    BY Zenon
  <2> QED BY <1>1, <1>2, <1>3, <1>4, <1>6, <2>2, <2>4, <2>5, <2>6, MethodStep, Zenon
<1> QED BY <1>3, <1>7, <1>8, Zenon DEF Sync

LEMMA RetryKeeps == ASSUME IInv, NEW a \in Actor, RetryColdStart(a) PROVE IInv'
<1>1. Inside(a) /\ call[a].at # "lock" /\ call[a].at # "sync"
  BY Points, AtFacts, Zenon DEF RetryColdStart, Bw, At
<1>2. call' = [call EXCEPT ![a].at = "again", ![a].attempt = 2, ![a].round = 1]
  BY Zenon DEF RetryColdStart
<1>3. 1 \in {1, 2} /\ 2 \in {1, 2}
  BY Zenon
<1>4. Moved(a, "again")
  BY <1>1, <1>2, <1>3, Points, InsideFacts, RoundMoves, Zenon
<1>5. UNCHANGED <<kind, material, locked, pending, owed, mutex, missed>>
  BY Zenon DEF RetryColdStart, flags, history
<1> QED BY <1>1, <1>4, <1>5, Points, MoveKeeps, Zenon

-----------------------------------------------------------------------------
(* The end of a visit. *)

\* Leave, as far as the call and its provider p are concerned.
LEMMA LeaveMoves ==
  ASSUME IInv, NEW a \in Actor, Inside(a), NEW p \in Provider, p = P(a), NEW ok \in BOOLEAN, Leave(a, ok)
  PROVE  /\ call' \in [Actor -> {Idle} \cup Calls]
         /\ \A b \in Actor : b # a => call'[b] = call[b] /\ P(b)' = P(b)
         /\ P(a)' = p /\ call'[a].op = call[a].op /\ call'[a].rest = call[a].rest
         /\ call'[a].scope = call[a].scope /\ call[a].locked \subseteq call'[a].locked
         /\ call[a].op # "lock" /\ pending[p] => call'[a].at \in Auditing
         /\ call[a].op # "lock" /\ ~pending[p] => call'[a].at \in {"next", "failed"}
         /\ call[a].op = "lock" => /\ call'[a].at \in {"next", "failed"}
                                   /\ call'[a].at = "next" => p \in call'[a].locked
<1> DEFINE to == CASE pending[p] /\ call[a].op # "lock" -> IF ok THEN "audit" ELSE "auditFailed"
                   [] OTHER -> IF ok THEN "next" ELSE "failed"
           lock == IF ok /\ call[a].op = "lock" THEN call[a].locked \cup {p} ELSE call[a].locked
           r == [call[a] EXCEPT !.at = to, !.locked = lock]
<1>1. call[a] \in Calls /\ call \in [Actor -> {Idle} \cup Calls] /\ pending[p] \in BOOLEAN
  BY InsideFacts, Zenon DEF IInv, TypeOK
<1>2. /\ to \in {"audit", "auditFailed", "next", "failed"}
      /\ call[a].op # "lock" /\ pending[p] => to \in Auditing
      /\ call[a].op # "lock" /\ ~pending[p] => to \in {"next", "failed"}
      /\ call[a].op = "lock" => to = IF ok THEN "next" ELSE "failed"
  BY <1>1, Zenon DEF Auditing
<1>3. call' = [call EXCEPT ![a] = r]
  BY <1>1, Zenon DEF Leave
<1>4. /\ lock \in SUBSET Provider /\ call[a].locked \subseteq lock
      /\ call[a].op = "lock" /\ ok => p \in lock
  BY <1>1, Zenon DEF Calls
<1> HIDE DEF to, lock
<1>5. to \in Method \cup Outside \cup Auditing
  BY <1>2, Zenon DEF Outside, Auditing
<1>6. /\ r \in Calls /\ r.at = to /\ r.op = call[a].op /\ r.rest = call[a].rest
      /\ r.scope = call[a].scope /\ r.locked = lock
  BY <1>1, <1>4, <1>5, Zenon DEF Calls
<1> HIDE DEF r
<1>7. /\ call' \in [Actor -> {Idle} \cup Calls] /\ call'[a] = r
      /\ \A b \in Actor : b # a => call'[b] = call[b]
  BY <1>1, <1>3, <1>6, Zenon
<1>8. P(a)' = p /\ \A b \in Actor : b # a => P(b)' = P(b)
  BY <1>6, <1>7, Zenon DEF P
<1>9. call[a].op = "lock" => /\ to \in {"next", "failed"}
                             /\ to = "next" => p \in lock
  BY <1>2, <1>4, Zenon
<1> QED BY <1>2, <1>4, <1>6, <1>7, <1>8, <1>9, Zenon

LEMMA LeaveKeeps ==
  ASSUME IInv, NEW a \in Actor, Inside(a), NEW p \in Provider, p = P(a), NEW ok \in BOOLEAN, Leave(a, ok),
         Touches(p), kind[p] = "static" \/ Settled(p)', UNCHANGED <<kind, owed, missed>>
  PROVE  IInv'
<1>1. /\ TypeOK /\ mutex[p] = a /\ mutex[p] # NoOne /\ call[a].at \notin Auditing /\ Busy(a)
      /\ pending[p] => call[a].op # "lock"
  BY InsideFacts, Zenon DEF IInv, ProviderInv
<1>2. /\ mutex' \in [Provider -> Actor \cup {NoOne}] /\ mutex'[p] = NoOne
      /\ \A q \in Provider : q # p => mutex'[q] = mutex[q]
  BY <1>1, Zenon DEF Leave, TypeOK
<1>3. /\ pending' \in [Provider -> BOOLEAN] /\ ~pending'[p]
      /\ \A q \in Provider : q # p => pending'[q] = pending[q]
  <2>1. (call[a].op = "lock" /\ pending[p]) \in BOOLEAN /\ pending \in [Provider -> BOOLEAN]
    BY <1>1, Zenon DEF TypeOK
  <2>2. pending' = [pending EXCEPT ![p] = call[a].op = "lock" /\ pending[p]]
    BY <2>1, Zenon DEF Leave
  <2> QED BY <1>1, <2>1, <2>2, Zenon
<1>4. TypeOK'
  BY <1>1, <1>2, <1>3, LeaveMoves, Zenon DEF TypeOK, Touches
<1>5. \A x \in {"next", "failed"} \cup Auditing : x \notin Method /\ x \notin Preparing /\ x # "sync"
  BY Zenon DEF Auditing, Method, Preparing
<1>6. \A b \in Actor : b # a => call'[b] = call[b] /\ P(b)' = P(b)
  BY LeaveMoves, Zenon
<1>7. ASSUME NEW b \in Actor PROVE ActorInv(b)'
  <2>1. CASE b = a
    <3>1. call'[a].at \in {"next", "failed"} \cup Auditing
      BY LeaveMoves, Zenon
    <3>2. call'[a].at \notin Method /\ call'[a].at \notin Preparing /\ call'[a].at # "sync"
      BY <1>5, <3>1, Zenon
    <3>3. call[a].op = "lock" => Members(call[a].scope) \subseteq call[a].locked \cup Members(call[a].rest)
      BY <1>1, Zenon DEF IInv, ActorInv
    <3>4. call[a].op = "lock" =>
             /\ call'[a].at \in Outside \cup {"lock"}
             /\ call'[a].at = "next" => p \in call'[a].locked
      <4>1. \A x \in {"next", "failed"} : x \in Outside
        BY Zenon DEF Outside
      <4> QED BY <4>1, LeaveMoves, Zenon
    <3>5. /\ call'[a].op = call[a].op /\ P(a)' = p
          /\ call[a].op = "lock" => Members(call'[a].scope) \subseteq call'[a].locked \cup Members(call'[a].rest)
      BY <3>3, LeaveMoves, Zenon
    <3> QED BY <2>1, <3>2, <3>4, <3>5, Zenon DEF ActorInv, Inside
  <2>2. CASE b # a
    <3>1. ActorInv(b) /\ (Inside(b) => P(b) # p /\ P(b) \in Provider)
      BY <2>2, Elsewhere, Zenon DEF IInv
    <3>2. \A y \in Preparing \cup {"sync"} : y \in Method
      BY Zenon DEF Method
    <3>3. Inside(b) => /\ age'[P(b)] = age[P(b)] /\ session'[P(b)] = session[P(b)]
                       /\ mutex'[P(b)] = mutex[P(b)]
      BY <1>2, <3>1, Zenon DEF Touches
    <3>4. call[b].at \in Preparing \/ call[b].at = "sync" => Inside(b)
      BY <3>2, Zenon DEF Inside
    <3> QED BY <1>6, <2>2, <3>1, <3>3, <3>4, Zenon DEF ActorInv, Inside, Busy
  <2> QED BY <2>1, <2>2, Zenon
<1>8. ASSUME NEW q \in Provider PROVE ProviderInv(q)'
  <2>1. q \in owed => pending[q] \/ \E b \in Actor : b # a /\ call[b].at \in Auditing /\ P(b) = q
    BY <1>1, Zenon DEF IInv, ProviderInv
  <2>2. (\E b \in Actor : b # a /\ call[b].at \in Auditing /\ P(b) = q) =>
           \E b \in Actor : call'[b].at \in Auditing /\ P(b)' = q
    BY <1>6, Zenon
  <2>3. CASE q = p
    <3>1. pending[p] => \E b \in Actor : call'[b].at \in Auditing /\ P(b)' = p
      BY <1>1, LeaveMoves, ZenonT(40)
    <3>2. kind[p] = "bitwarden" => held'[p] = {}
      BY Zenon DEF Touches
    <3> QED BY <1>2, <1>3, <2>1, <2>2, <2>3, <3>1, <3>2, Zenon DEF ProviderInv
  <2>4. CASE q # p
    <3>1. /\ pending'[q] = pending[q] /\ mutex'[q] = mutex[q] /\ session'[q] = session[q]
          /\ held'[q] = held[q] /\ age'[q] = age[q] /\ locked'[q] = locked[q]
      BY <1>2, <1>3, <2>4, Zenon DEF Touches
    <3>2. ProviderInv(q)
      BY Zenon DEF IInv
    <3>3. mutex[q] # NoOne => mutex[q] \in Actor /\ mutex[q] # a
      BY <1>1, <2>4, <3>2, Zenon DEF ProviderInv, Holds, TypeOK
    <3>4. mutex[q] # NoOne => call'[mutex[q]] = call[mutex[q]] /\ (mutex'[q] # NoOne => Holds(mutex[q], q)')
      BY <1>6, <3>1, <3>2, <3>3, Zenon DEF ProviderInv, Holds, Inside
    <3>5. Settled(q) => Settled(q)'
      BY <3>1, Zenon DEF Settled
    <3> QED BY <2>1, <2>2, <3>1, <3>2, <3>4, <3>5, Zenon DEF ProviderInv
  <2> QED BY <2>3, <2>4, Zenon
<1> QED BY <1>4, <1>7, <1>8, Zenon DEF IInv

LEMMA LockKeeps == ASSUME IInv, NEW a \in Actor, Lock(a) PROVE IInv'
<1>1. Inside(a)
  BY Zenon DEF Lock, In, Inside, Method
<1>2. PICK p \in Provider : p = P(a)
  BY <1>1, InsideFacts, Zenon
<1>3. PICK ok \in BOOLEAN : Discard(p) /\ locked' = [locked EXCEPT ![p] = @ \/ ok] /\ Leave(a, ok)
  BY <1>2, Zenon DEF Lock
<1>4. UNCHANGED <<kind, owed, missed>>
  BY Zenon DEF Lock, history
<1>5. locked \in [Provider -> BOOLEAN]
  BY Zenon DEF IInv, TypeOK
<1>6. (locked[p] \/ ok) \in BOOLEAN
  BY Zenon
<1>7. locked' \in [Provider -> BOOLEAN] /\ \A q \in Provider : q # p => locked'[q] = locked[q]
  BY <1>3, <1>5, <1>6, Zenon
<1>8. Touches(p) /\ (kind[p] = "static" \/ Settled(p)')
  BY <1>3, <1>7, DiscardTouches, Zenon
<1> QED BY <1>1, <1>2, <1>3, <1>4, <1>8, LeaveKeeps, Zenon

LEMMA ReturnKeeps == ASSUME IInv, NEW a \in Actor, Return(a) PROVE IInv'
<1>1. call[a].at \in {"return", "error", "unavailable"}
  BY Zenon DEF Return, In
<1>2. Inside(a) /\ call[a].at # "sync"
  BY <1>1, Points, Zenon DEF Inside
<1>3. PICK p \in Provider : p = P(a)
  BY <1>2, InsideFacts, Zenon
<1>4. PICK ok \in BOOLEAN : Leave(a, ok)
  <2>1. In(a, "return") \in BOOLEAN
    BY Zenon DEF In
  <2> QED BY <2>1, Zenon DEF Return
<1>5. UNCHANGED <<kind, session, held, age, locked, owed, missed>>
  BY Zenon DEF Return, material, history
<1>6. Touches(p) /\ (kind[p] = "static" \/ Settled(p)')
  <2>1. Touches(p)
    BY <1>5, Zenon DEF Touches, IInv, TypeOK, ProviderInv
  <2>2. Settled(p) => Settled(p)'
    BY <1>5, Zenon DEF Settled
  <2> QED BY <1>2, <1>3, <2>1, <2>2, SettledInside, Zenon
<1> QED BY <1>2, <1>3, <1>4, <1>5, <1>6, LeaveKeeps, Zenon

-----------------------------------------------------------------------------
(* Steps outside of methods. *)

LEMMA OutsideStep ==
  ASSUME IInv, NEW a \in Actor, ~Inside(a), ~Inside(a)',
         call' \in [Actor -> {Idle} \cup Calls],
         \A b \in Actor : b # a => call'[b] = call[b],
         UNCHANGED <<kind, material, locked, pending, mutex>>, ~missed',
         owed' \subseteq owed, call[a].at \in Auditing => P(a) \notin owed',
         Busy(a)' /\ call'[a].op = "lock" =>
            /\ call'[a].at \in Outside \cup {"lock"}
            /\ call'[a].at = "next" => P(a)' \in call'[a].locked
            /\ Members(call'[a].scope) \subseteq call'[a].locked \cup Members(call'[a].rest)
  PROVE  IInv'
<1>1. UNCHANGED <<session, held, age>> /\ TypeOK
  BY Zenon DEF material, IInv
<1>2. TypeOK'
  BY <1>1, Zenon DEF TypeOK
<1>3. \A b \in Actor : b # a => P(b)' = P(b)
  BY Zenon DEF P
<1>4. \A y \in Preparing \cup {"sync"} : y \in Method
  BY Zenon DEF Method
<1>5. ASSUME NEW b \in Actor PROVE ActorInv(b)'
  <2>1. CASE b = a
    BY <1>4, <2>1, Zenon DEF ActorInv, Inside
  <2>2. CASE b # a
    BY <1>1, <1>3, <2>2, Zenon DEF IInv, ActorInv, Inside, Busy
  <2> QED BY <2>1, <2>2, Zenon
<1>6. ASSUME NEW q \in Provider PROVE ProviderInv(q)'
  <2>1. ProviderInv(q)
    BY Zenon DEF IInv
  <2>2. mutex[q] # NoOne => mutex[q] \in Actor /\ mutex[q] # a
    BY <1>1, <2>1, Zenon DEF ProviderInv, Holds, TypeOK
  <2>3. mutex[q] # NoOne => call'[mutex[q]] = call[mutex[q]] /\ (mutex'[q] # NoOne => Holds(mutex[q], q)')
    BY <1>3, <2>1, <2>2, Zenon DEF ProviderInv, Holds, Inside
  <2>4. Settled(q) => Settled(q)'
    BY <1>1, Zenon DEF Settled
  <2>5. q \in owed' => pending[q] \/ \E b \in Actor : call'[b].at \in Auditing /\ P(b)' = q
    BY <1>3, <2>1, Zenon DEF ProviderInv
  <2> QED BY <1>1, <2>1, <2>3, <2>4, <2>5, Zenon DEF ProviderInv
<1> QED BY <1>2, <1>5, <1>6, Zenon DEF IInv

LEMMA AuditKeeps == ASSUME IInv, NEW a \in Actor, Audit(a) PROVE IInv'
<1>1. call[a].at \in Auditing
  BY Zenon DEF Audit, In, Auditing
<1>2. Busy(a) /\ ~Inside(a) /\ TypeOK /\ call[a].at \notin Outside \cup {"lock"}
  BY <1>1, Zenon DEF Auditing, Busy, Inside, Method, Preparing, IInv, Outside
<1>3. call[a].op # "lock"
  BY <1>2, Zenon DEF IInv, ActorInv
<1>4. PICK x \in {"next", "failed"} : Goto(a, x)
  BY Zenon DEF Audit
<1>5. x \in Method \cup Outside \cup Auditing /\ x \notin Method
  BY Zenon DEF Outside, Method, Preparing
<1>6. Moved(a, x)
  BY <1>2, <1>4, <1>5, GotoMoves, Zenon
<1>7. ~Inside(a)' /\ call'[a].op # "lock"
  BY <1>3, <1>5, <1>6, Zenon DEF Inside, Moved
<1>8. UNCHANGED <<kind, material, locked, pending, mutex>> /\ ~missed' /\ owed' = owed \ {P(a)}
  BY Zenon DEF Audit, flags, IInv
<1> QED BY <1>1, <1>2, <1>6, <1>7, <1>8, OutsideStep, Zenon DEF Moved

\* What is left of a list of providers.
LEMMA TailMembers ==
  ASSUME NEW s \in Seq(Provider), s # << >>
  PROVE  /\ Tail(s) \in Seq(Provider) /\ Members(s) \subseteq {Head(s)} \cup Members(Tail(s))
         /\ Tail(s) = << >> => Members(s) \subseteq {Head(s)}
<1>1. Tail(s) \in Seq(Provider) /\ Len(Tail(s)) = Len(s) - 1 /\ Head(s) = s[1] /\ Len(s) \in Nat
  OBVIOUS
<1>2. ASSUME NEW i \in 1..Len(s) PROVE s[i] = Head(s) \/ s[i] \in Members(Tail(s))
  <2>1. CASE i = 1
    BY <1>1, <2>1, Zenon
  <2>2. CASE i # 1
    <3>1. i - 1 \in 1..Len(Tail(s)) /\ Tail(s)[i - 1] = s[i]
      BY <1>1, <2>2
    <3> QED BY <3>1, Zenon DEF Members
  <2> QED BY <2>1, <2>2, Zenon
<1>3. Tail(s) = << >> => Members(Tail(s)) = {}
  <2>1. Len(<< >>) = 0 /\ 1..0 = {}
    OBVIOUS
  <2> QED BY <2>1, Zenon DEF Members
<1>4. Members(s) \subseteq {Head(s)} \cup Members(Tail(s))
  BY <1>2, Zenon DEF Members
<1> QED BY <1>1, <1>3, <1>4, Zenon

LEMMA ProceedKeeps == ASSUME IInv, NEW a \in Actor, Proceed(a) PROVE IInv'
<1>1. call[a].at \in {"next", "failed"}
  BY Zenon DEF Proceed, In
<1>2. Busy(a) /\ ~Inside(a) /\ TypeOK /\ call[a].at \notin Auditing
  BY <1>1, Zenon DEF Auditing, Busy, Inside, Method, Preparing, IInv
<1>3. UNCHANGED <<kind, material, locked, pending, mutex>> /\ owed' = owed
  BY Zenon DEF Proceed, flags
<1>4. call \in [Actor -> {Idle} \cup Calls] /\ call[a] \in Calls
  BY <1>2, CallFacts, Zenon DEF TypeOK
<1>5. call[a].rest \in Seq(Provider) /\ call[a].rest # << >>
  BY <1>4, Zenon DEF Calls
<1>6. In(a, "next") /\ call[a].op = "lock" =>
         /\ Head(call[a].rest) \in call[a].locked
         /\ Members(call[a].scope) \subseteq call[a].locked \cup Members(call[a].rest)
  BY <1>2, Zenon DEF IInv, ActorInv, In, P
<1>7. CASE /\ In(a, "next") /\ Remaining(a) # << >> /\ UNCHANGED missed
           /\ call' = [call EXCEPT ![a].at = "wait", ![a].rest = Remaining(a)]
  <2> DEFINE r == [call[a] EXCEPT !.at = "wait", !.rest = Tail(call[a].rest)]
  <2>1. Tail(call[a].rest) \in Seq(Provider) \ {<< >>}
    BY <1>5, <1>7, TailMembers, Zenon DEF Remaining
  <2>2. "wait" \in Outside /\ "wait" \notin Method /\ "wait" # "next"
    BY Zenon DEF Outside, Method, Preparing
  <2>3. /\ r \in Calls /\ r.at = "wait" /\ r.op = call[a].op /\ r.rest = Tail(call[a].rest)
        /\ r.scope = call[a].scope /\ r.locked = call[a].locked
    BY <1>4, <2>1, <2>2, Zenon DEF Calls
  <2>4. call' = [call EXCEPT ![a] = r]
    BY <1>4, <1>7, Zenon DEF Remaining
  <2> HIDE DEF r
  <2>5. call'[a] = r /\ call' \in [Actor -> {Idle} \cup Calls] /\ \A b \in Actor : b # a => call'[b] = call[b]
    BY <1>4, <2>3, <2>4, Zenon
  <2>6. r.op = "lock" => Members(r.scope) \subseteq r.locked \cup Members(r.rest)
    BY <1>5, <1>6, <1>7, <2>3, TailMembers, Zenon
  <2>7. ~Inside(a)' /\ ~missed'
    BY <1>7, <2>2, <2>3, <2>5, Zenon DEF Inside, IInv
  <2> QED BY <1>2, <1>3, <2>2, <2>3, <2>5, <2>6, <2>7, OutsideStep, Zenon
<1>8. CASE /\ In(a, "failed") \/ (In(a, "next") /\ Remaining(a) = << >>)
           /\ call' = [call EXCEPT ![a] = Idle]
           /\ missed' = (missed \/ (/\ In(a, "next") /\ call[a].op = "lock"
                                    /\ \E i \in 1..Len(call[a].scope) :
                                          call[a].scope[i] \notin call[a].locked))
  <2>1. /\ call'[a] = Idle /\ call' \in [Actor -> {Idle} \cup Calls]
        /\ \A b \in Actor : b # a => call'[b] = call[b]
    BY <1>4, <1>8, Zenon
  <2>2. Idle.at = "idle" /\ "idle" \notin Method
    BY Zenon DEF Idle, Method, Preparing
  <2>3. ~Inside(a)' /\ ~Busy(a)'
    BY <2>1, <2>2, Zenon DEF Inside, Busy
  <2>4. ASSUME In(a, "next"), call[a].op = "lock"
        PROVE  \A i \in 1..Len(call[a].scope) : call[a].scope[i] \in call[a].locked
    <3>1. ~In(a, "failed")
      BY <2>4, Zenon DEF In
    <3>2. Tail(call[a].rest) = << >>
      BY <1>8, <3>1, Zenon DEF Remaining
    <3>3. Members(call[a].scope) \subseteq call[a].locked
      BY <1>5, <1>6, <2>4, <3>2, TailMembers, Zenon
    <3> QED BY <3>3, Zenon DEF Members
  <2>5. ~missed'
    BY <1>8, <2>4, Zenon DEF IInv
  <2> QED BY <1>2, <1>3, <2>1, <2>3, <2>5, OutsideStep, Zenon
<1> QED BY <1>7, <1>8, Zenon DEF Proceed

LEMMA BeginKeeps == ASSUME IInv, NEW a \in Actor, Begin(a) PROVE IInv'
<1>1. call[a].at = "idle" /\ UNCHANGED <<kind, material, locked, pending, mutex, owed>> /\ ~missed'
  BY Zenon DEF Begin, flags, history, IInv
<1>2. ~Inside(a) /\ call[a].at \notin Auditing
  BY <1>1, Zenon DEF Inside, Method, Preparing, Auditing
<1>3. PICK op \in {"resolve", "list", "lock", "expire"}, rest \in {<<p>> : p \in Provider} \cup {Order},
           e \in Entry \cup {NoEntry} :
         call' = [call EXCEPT ![a] = [op |-> op, at |-> "wait", rest |-> rest,
                                      entry |-> e, round |-> 1, attempt |-> 1,
                                      scope |-> IF op = "lock" THEN rest ELSE << >>,
                                      locked |-> {}]]
  <2>1. PICK op \in IF a = Reaper THEN {"expire"} ELSE {"resolve", "list", "lock"} :
           \E rest \in {<<p>> : p \in Provider} \cup {Order} :
           \E e \in IF op = "resolve" /\ kind[rest[1]] = "pass" THEN Entry ELSE {NoEntry} :
              /\ (op = "expire" => rest = Order) /\ (op = "resolve" => Len(rest) = 1)
              /\ call' = [call EXCEPT ![a] = [op |-> op, at |-> "wait", rest |-> rest,
                                              entry |-> e, round |-> 1, attempt |-> 1,
                                              scope |-> IF op = "lock" THEN rest ELSE << >>,
                                              locked |-> {}]]
    BY Zenon DEF Begin
  <2>2. op \in {"resolve", "list", "lock", "expire"}
    BY Zenon
  <2>3. PICK rest \in {<<p>> : p \in Provider} \cup {Order} :
           \E e \in Entry \cup {NoEntry} :
              call' = [call EXCEPT ![a] = [op |-> op, at |-> "wait", rest |-> rest,
                                           entry |-> e, round |-> 1, attempt |-> 1,
                                           scope |-> IF op = "lock" THEN rest ELSE << >>,
                                           locked |-> {}]]
    BY <2>1, Zenon
  <2> QED BY <2>2, <2>3, Zenon
<1> DEFINE scope == IF op = "lock" THEN rest ELSE << >>
           r == [op |-> op, at |-> "wait", rest |-> rest, entry |-> e, round |-> 1, attempt |-> 1,
                 scope |-> scope, locked |-> {}]
<1>4. rest \in Seq(Provider) \ {<< >>}
  <2>1. CASE rest = Order
    BY <2>1, ProvidersAssumption, Zenon
  <2>2. ASSUME NEW p \in Provider, rest = <<p>> PROVE rest \in Seq(Provider) \ {<< >>}
    BY <2>2
  <2> QED BY <2>1, <2>2, Zenon
<1>5. scope \in Seq(Provider) /\ (op = "lock" => scope = rest)
  BY <1>4
<1>6. call' = [call EXCEPT ![a] = r]
  BY <1>3, Zenon
<1> HIDE DEF scope
<1>7. "wait" \in Outside /\ "wait" \notin Method /\ "wait" # "next"
  BY Zenon DEF Outside, Method, Preparing
<1>8. r \in Calls /\ r.at = "wait" /\ r.op = op /\ r.rest = rest /\ r.scope = scope
  BY <1>4, <1>5, <1>7, Zenon DEF Calls
<1> HIDE DEF r
<1>9. /\ call'[a] = r /\ call' \in [Actor -> {Idle} \cup Calls]
      /\ \A b \in Actor : b # a => call'[b] = call[b]
  BY <1>6, <1>8, Zenon DEF IInv, TypeOK
<1>10. ~Inside(a)'
  BY <1>7, <1>8, <1>9, Zenon DEF Inside
<1>11. r.op = "lock" => Members(r.scope) \subseteq r.locked \cup Members(r.rest)
  BY <1>5, <1>8, Zenon
<1> QED BY <1>1, <1>2, <1>7, <1>8, <1>9, <1>10, <1>11, OutsideStep, Zenon

LEMMA VisitKeeps == ASSUME IInv, NEW a \in Actor, Visit(a) PROVE IInv'
<1>1. call[a].at = "wait" /\ Busy(a) /\ ~Inside(a) /\ TypeOK /\ call[a].at \notin Auditing
  BY Zenon DEF Visit, In, Busy, Inside, Method, Preparing, IInv, Auditing
<1>2. call[a] \in Calls /\ call \in [Actor -> {Idle} \cup Calls] /\ P(a) \in Provider
  BY <1>1, CallFacts, Zenon DEF TypeOK
<1>3. PICK p \in Provider : p = P(a)
  BY <1>2, Zenon
<1>4. /\ mutex[p] = NoOne /\ mutex' = [mutex EXCEPT ![p] = a]
      /\ UNCHANGED <<kind, session, held, age, locked, pending, owed, missed>>
      /\ call' = [call EXCEPT ![a].at = call[a].op, ![a].round = 1, ![a].attempt = 1]
  BY <1>3, Zenon DEF Visit, material, flags, history
<1>5. /\ mutex' \in [Provider -> Actor \cup {NoOne}] /\ mutex'[p] = a
      /\ \A q \in Provider : q # p => mutex'[q] = mutex[q]
  BY <1>1, <1>4, Zenon DEF TypeOK
<1>6. /\ call[a].op \in Method /\ call[a].op \notin Preparing /\ call[a].op # "sync"
  BY <1>2, Zenon DEF Calls, Method, Preparing
<1>7. /\ call' \in [Actor -> {Idle} \cup Calls] /\ call'[a].at = call[a].op /\ call'[a].op = call[a].op
      /\ call'[a].rest = call[a].rest /\ call'[a].scope = call[a].scope
      /\ call'[a].locked = call[a].locked
      /\ \A b \in Actor : b # a => call'[b] = call[b]
  <2> DEFINE r == [call[a] EXCEPT !.at = call[a].op, !.round = 1, !.attempt = 1]
  <2>1. /\ r \in Calls /\ r.at = call[a].op /\ r.op = call[a].op /\ r.rest = call[a].rest
        /\ r.scope = call[a].scope /\ r.locked = call[a].locked
    BY <1>2, <1>6, Zenon DEF Calls
  <2>2. call' = [call EXCEPT ![a] = r]
    BY <1>2, <1>4, Zenon
  <2> HIDE DEF r
  <2> QED BY <1>2, <2>1, <2>2, Zenon
<1>8. P(a)' = p /\ \A b \in Actor : b # a => P(b)' = P(b)
  BY <1>3, <1>7, Zenon DEF P
<1>9. TypeOK'
  BY <1>1, <1>4, <1>5, <1>7, Zenon DEF TypeOK
<1>10. ASSUME NEW b \in Actor PROVE ActorInv(b)'
  <2>1. CASE b = a
    <3>1. call[a].op = "lock" => /\ Members(call[a].scope) \subseteq call[a].locked \cup Members(call[a].rest)
      BY <1>1, Zenon DEF IInv, ActorInv
    <3>2. "lock" \in Outside \cup {"lock"} /\ "lock" # "next"
      BY Zenon
    <3> QED BY <1>5, <1>6, <1>7, <1>8, <2>1, <3>1, <3>2, Zenon DEF ActorInv
  <2>2. CASE b # a
    <3>1. b # NoOne
      BY ProvidersAssumption, Zenon DEF Actor, NoOne
    <3>2. ActorInv(b)
      BY Zenon DEF IInv
    <3>3. Inside(b) => mutex'[P(b)] = b
      <4>1. Inside(b) => Busy(b)
        BY Zenon DEF Inside, Busy, Method, Preparing
      <4>2. Inside(b) => P(b) \in Provider /\ P(b) # p
        BY <1>1, <1>4, <3>1, <3>2, <4>1, CallFacts, Zenon DEF ActorInv
      <4> QED BY <1>5, <3>2, <4>2, Zenon DEF ActorInv
    <3> QED BY <1>4, <1>7, <1>8, <2>2, <3>2, <3>3, Zenon DEF ActorInv, Inside, Busy
  <2> QED BY <2>1, <2>2, Zenon
<1>11. ASSUME NEW q \in Provider PROVE ProviderInv(q)'
  <2>1. ProviderInv(q)
    BY Zenon DEF IInv
  <2>2. q \in owed => pending[q] \/ \E b \in Actor : call'[b].at \in Auditing /\ P(b)' = q
    BY <1>1, <1>7, <1>8, <2>1, Zenon DEF ProviderInv
  <2>3. Settled(q) => Settled(q)'
    BY <1>4, Zenon DEF Settled
  <2>4. CASE q = p
    <3>1. Holds(a, p)'
      BY <1>6, <1>7, <1>8, Zenon DEF Holds, Inside
    <3>2. ~pending[p] /\ (kind[p] = "static" \/ Settled(p))
      BY <1>4, <2>1, <2>4, Zenon DEF ProviderInv
    <3> QED BY <1>4, <1>5, <2>1, <2>2, <2>3, <2>4, <3>1, <3>2, Zenon DEF ProviderInv
  <2>5. CASE q # p
    <3>1. mutex[q] # NoOne => mutex[q] \in Actor /\ mutex[q] # a
      BY <1>1, <2>1, Zenon DEF ProviderInv, Holds, TypeOK
    <3>2. mutex[q] # NoOne => call'[mutex[q]] = call[mutex[q]] /\ (mutex'[q] # NoOne => Holds(mutex[q], q)')
      BY <1>5, <1>7, <1>8, <2>1, <2>5, <3>1, Zenon DEF ProviderInv, Holds, Inside
    <3> QED BY <1>4, <1>5, <2>1, <2>2, <2>3, <2>5, <3>2, Zenon DEF ProviderInv
  <2> QED BY <2>4, <2>5, Zenon
<1> QED BY <1>4, <1>9, <1>10, <1>11, Zenon DEF IInv

\* Time passes, or nothing happens: a time that is there stays, and none comes up.
LEMMA TickKeeps == ASSUME IInv, Tick \/ UNCHANGED vars PROVE IInv'
<1>1. UNCHANGED <<kind, session, held, locked, pending, mutex, call, owed, missed>>
  BY Zenon DEF Tick, vars, material, flags, history
<1>2. /\ age' \in [Provider -> Nat \cup {None}]
      /\ \A p \in Provider : age'[p] = None <=> age[p] = None
  <2>1. age \in [Provider -> Nat \cup {None}]
    BY Zenon DEF IInv, TypeOK
  <2>2. CASE age' = [p \in Provider |-> IF age[p] = None \/ Due(p) THEN age[p] ELSE age[p] + 1]
    BY <2>1, <2>2 DEF None
  <2>3. CASE age' = age
    BY <2>1, <2>3, Zenon
  <2> QED BY <2>2, <2>3, Zenon DEF Tick, vars, material
<1>3. TypeOK'
  BY <1>1, <1>2, Zenon DEF IInv, TypeOK
<1>4. \A b : P(b)' = P(b)
  BY <1>1, Zenon DEF P
<1>5. ASSUME NEW b \in Actor PROVE ActorInv(b)'
  <2>1. \A y \in Preparing \cup {"sync"} : y \in Method
    BY Zenon DEF Method
  <2>2. call[b].at \in Preparing \cup {"sync"} => P(b) \in Provider
    BY <2>1, InsideFacts, Zenon DEF Inside
  <2> QED BY <1>1, <1>2, <1>4, <2>2, Zenon DEF IInv, ActorInv, Inside, Busy
<1>6. ASSUME NEW q \in Provider PROVE ProviderInv(q)'
  <2>1. Settled(q) => Settled(q)'
    BY <1>1, <1>2, Zenon DEF Settled
  <2>2. \A b : Holds(b, q) => Holds(b, q)'
    BY <1>1, <1>4, Zenon DEF Holds, Inside
  <2>3. mutex'[q] # NoOne => Holds(mutex[q], q)'
    BY <1>1, <2>2, Zenon DEF IInv, ProviderInv
  <2> QED BY <1>1, <1>4, <2>1, <2>3, Zenon DEF IInv, ProviderInv
<1> QED BY <1>1, <1>3, <1>5, <1>6, Zenon DEF IInv

-----------------------------------------------------------------------------

LEMMA Initially == Init => IInv
<1> SUFFICES ASSUME Init PROVE IInv
  BY Zenon
<1>1. kind \in [Provider -> {"bitwarden", "file", "pass", "static"}]
  BY ProvidersAssumption, Zenon DEF Init
<1>2. TypeOK
  BY <1>1 DEF Init, TypeOK
<1>3. \A a \in Actor : call[a].at = "idle"
  BY Zenon DEF Init, Idle
<1>4. "idle" \notin Method /\ "idle" \notin Preparing /\ "idle" # "sync"
  BY Zenon DEF Method, Preparing
<1>5. \A a \in Actor : ActorInv(a)
  BY <1>3, <1>4, Zenon DEF ActorInv, Inside, Busy
<1>6. ASSUME NEW p \in Provider PROVE ProviderInv(p)
  <2>1. /\ mutex[p] = NoOne /\ ~pending[p] /\ p \notin owed /\ held[p] = {} /\ age[p] = None
        /\ session[p] <=> kind[p] = "static"
    BY Zenon DEF Init
  <2> QED BY <2>1, Zenon DEF ProviderInv, Settled
<1> QED BY <1>2, <1>5, <1>6, Zenon DEF IInv, Init

LEMMA IInvKept == IInv /\ [Next]_vars => IInv'
<1> SUFFICES ASSUME IInv, [Next]_vars PROVE IInv'
  BY Zenon
<1>1. ASSUME NEW a \in Actor, Begin(a) PROVE IInv'
  BY <1>1, BeginKeeps, Zenon
<1>2. ASSUME NEW a \in Actor, Step(a) PROVE IInv'
  BY <1>2, VisitKeeps, AuditKeeps, ProceedKeeps, ReturnKeeps, LockKeeps, ExpireNowKeeps, PlainKeeps,
     FileUnlockKeeps, FileDecryptKeeps, ReadKeeps, PassResolveKeeps, PassShowKeeps, EnsureSessionKeeps,
     PrepareKeeps, VerifyKeeps, SyncKeeps, RetryKeeps, Zenon DEF Step
<1> QED BY <1>1, <1>2, TickKeeps, Zenon DEF Next

LEMMA Invariance == Spec => []IInv
  BY Initially, IInvKept, PTL DEF Spec

\* Whichever command fails on the way, a provider that nobody uses has no material that
\* would never expire, and none when it says that it is locked.
THEOREM NoMaterialOutlives == Spec => []MaterialExpires
<1>1. IInv => MaterialExpires
  BY Zenon DEF IInv, ProviderInv, Settled, MaterialExpires
<1> QED BY <1>1, Invariance, PTL

\* Every autolock is in the audit log, or its record is being written.
THEOREM EveryAutolockRecorded == Spec => []AutolockRecorded
<1>1. IInv => AutolockRecorded
  BY Zenon DEF IInv, TypeOK, ProviderInv, Auditing, AutolockRecorded
<1> QED BY <1>1, Invariance, PTL

\* lock_vault answers ok only if it has locked every provider it was asked to lock.
THEOREM LockVaultHonest == Spec => []LockVaultLocks
<1>1. IInv => LockVaultLocks
  BY Zenon DEF IInv, LockVaultLocks
<1> QED BY <1>1, Invariance, PTL

-----------------------------------------------------------------------------
(* The commands: by the time of the clean-up the process group is gone, and   *)
(* stays gone.                                                                *)

GroupGone == leader = "gone" /\ helper # "group"

CommandInv ==
    /\ result = "timeout" => where = "done"
    /\ reaped => leader = "gone" /\ where # "start"
    /\ runner \in {"bw", "approve"} /\ (where = "cleanup" \/ result = "timeout") => GroupGone

\* Nothing is left of a bw or an approve_cmd that ran into its timeout, for bw even if it
\* was itself gone by then and only a helper kept its output open.
THEOREM NoTimedOutGroup == Command!Spec => []TimedOutGroupGone
<1>1. Command!Init => CommandInv
  BY Zenon DEF Command!Init, CommandInv
<1>2. ASSUME CommandInv, [Command!Next]_(Command!vars) PROVE CommandInv'
  <2>1. CASE Command!Run
    <3>1. CASE Command!NotSpawned \/ Command!Spawn
      BY <1>2, <3>1 DEF Command!NotSpawned, Command!Spawn, Command!Done, CommandInv, GroupGone
    <3>2. CASE Command!Reap
      BY <1>2, <3>2, Zenon DEF Command!Reap, CommandInv, GroupGone
    <3>3. CASE Command!Finish
      <4>1. PICK r \in {"ok", "exit", "error"} : result' = r
        BY <3>3, Zenon DEF Command!Finish, Command!Done
      <4>2. where' = "done" /\ r # "timeout" /\ UNCHANGED <<runner, leader, helper, reaped>>
        BY <3>3, Zenon DEF Command!Finish, Command!Done
      <4> QED BY <1>2, <4>1, <4>2, Zenon DEF CommandInv, GroupGone
    <3>4. CASE Command!Timeout
      <4>1. runner \in {"bw", "approve"} => Command!GroupKnown
        BY <3>4, Zenon DEF Command!Timeout, Command!Waited, Command!GroupKnown
      <4> QED BY <1>2, <3>4, <4>1, Zenon DEF Command!Timeout, CommandInv, GroupGone
    <3>5. CASE Command!Cleanup
      BY <1>2, <3>5, Zenon DEF Command!Cleanup, Command!Done, CommandInv, GroupGone
    <3> QED BY <2>1, <3>1, <3>2, <3>3, <3>4, <3>5, Zenon DEF Command!Run
  <2>2. CASE Command!Fork \/ Command!Exit
    BY <1>2, <2>2 DEF Command!Fork, Command!Exit, CommandInv, GroupGone
  <2>3. CASE UNCHANGED Command!vars
    BY <1>2, <2>3, Zenon DEF Command!vars, CommandInv, GroupGone
  <2> QED BY <1>2, <2>1, <2>2, <2>3, Zenon DEF Command!Next
<1>3. CommandInv => TimedOutGroupGone
  BY Zenon DEF CommandInv, GroupGone, TimedOutGroupGone, Command!TimedOutGroupGone
<1> QED BY <1>1, <1>2, <1>3, PTL DEF Command!Spec
=============================================================================
