------------------------------ MODULE Providers ------------------------------
(***************************************************************************)
(* The credential providers and everything that takes their mutexes:        *)
(* resolve_credential, list_credentials, lock_vault and the expiry reaper.  *)
(* A provider keeps unlocked material for its TTL: a bw session, decrypted  *)
(* entries, or the values that pass printed.  Unlocking is implicit, and    *)
(* for Bitwarden a chain of bw commands each of which may fail.             *)
(*                                                                          *)
(* Time moves in ticks that are long compared with the reaper's interval:   *)
(* it does not pass while material whose TTL is over could be reaped.       *)
(***************************************************************************)
EXTENDS Integers, Sequences

CONSTANTS
    Provider,   \* the configured providers
    Order,      \* their order in the configuration
    Kinds,      \* functions of Provider: what they may be
    Entry,      \* entries of a pass store
    Caller,     \* connections, on which one call follows another
    NoEntry,    \* not an entry
    Reaper,     \* the task of spawn_provider_expiry_reaper
    TTL         \* session_ttl, in ticks

ASSUME ProvidersAssumption ==
    /\ Order \in Seq(Provider) /\ Order # << >>
    /\ Kinds \subseteq [Provider -> {"bitwarden", "file", "pass", "static"}]
    /\ Reaper \notin Caller /\ "no one" \notin Caller \cup {Reaper}
    /\ TTL \in Nat

VARIABLES
    kind,      \* Provider -> "bitwarden", "file", "pass" or "static"
    session,   \* Provider -> whether it holds a session or decrypted entries
    held,      \* Provider -> the entries whose values it keeps (pass)
    age,       \* Provider -> ticks since unlocked_at, or None
    locked, pending, catalog,  \* Provider -> the flags of that name; catalog: not empty
    mutex,     \* Provider -> who holds it
    cli,       \* what bw keeps in its appdata: the right server, a login
    call,      \* Caller and Reaper -> the call it is at
    owed,      \* history: the providers with an autolock that is not yet in the audit log
    missed     \* history: lock_vault answered ok without locking a provider

material == <<session, held, age>>
flags == <<locked, pending, catalog>>
history == <<owed, missed>>
vars == <<kind, material, flags, mutex, cli, call, history>>

Actor == Caller \cup {Reaper}
None == -1
NoOne == "no one"
Idle == [op |-> "none", at |-> "idle"]

Init ==
    /\ kind \in Kinds
    /\ session = [p \in Provider |-> kind[p] = "static"]
    /\ held = [p \in Provider |-> {}]
    /\ age = [p \in Provider |-> None]
    /\ locked = [p \in Provider |-> kind[p] \in {"file", "pass"}]
    /\ pending = [p \in Provider |-> FALSE]
    /\ catalog = [p \in Provider |-> FALSE]
    /\ mutex = [p \in Provider |-> NoOne]
    /\ cli \in [server : BOOLEAN, login : BOOLEAN]
    /\ call = [a \in Actor |-> Idle]
    /\ owed = {} /\ missed = FALSE

-----------------------------------------------------------------------------
(* Material. *)

Due(p) == age[p] # None /\ age[p] >= TTL

\* The provider gives up what it holds.  Static entries stay.
Discard(p) ==
    /\ session' = [session EXCEPT ![p] = kind[p] = "static"]
    /\ held' = [held EXCEPT ![p] = {}]
    /\ age' = [age EXCEPT ![p] = None]

\* expire_session and its kin, when the TTL is over.  A failure of "bw lock" is
\* ignored.
Expire(p) ==
    /\ Discard(p)
    /\ locked' = [locked EXCEPT ![p] = TRUE]
    /\ pending' = [pending EXCEPT ![p] = TRUE]
    /\ owed' = owed \cup {p}

\* The step that makes the material usable.
Unlocked(p) ==
    /\ age' = [age EXCEPT ![p] = 0]
    /\ locked' = [locked EXCEPT ![p] = FALSE]

Tick ==
    /\ \A p \in Provider : Due(p) => mutex[p] # NoOne
    /\ \E p \in Provider : age[p] # None
    /\ age' = [p \in Provider |-> IF age[p] = None \/ Due(p) THEN age[p] ELSE age[p] + 1]
    /\ UNCHANGED <<kind, session, held, flags, mutex, cli, call, history>>

-----------------------------------------------------------------------------
(* Calls: which providers they visit, and how a visit begins and ends. *)

\* resolve_credential visits the provider of a namespace; list_credentials and
\* lock_vault those of one namespace or all of them in their order; the reaper all.
Begin(a) ==
    /\ call[a].at = "idle"
    /\ \E op \in IF a = Reaper THEN {"expire"} ELSE {"resolve", "list", "lock"} :
         \E rest \in {<<p>> : p \in Provider} \cup {Order} :
         \E e \in IF op = "resolve" /\ kind[rest[1]] = "pass" THEN Entry ELSE {NoEntry} :
            /\ (op = "expire" => rest = Order) /\ (op = "resolve" => Len(rest) = 1)
            /\ call' = [call EXCEPT ![a] = [op |-> op, at |-> "wait", rest |-> rest,
                                            entry |-> e, round |-> 1, attempt |-> 1,
                                            scope |-> IF op = "lock" THEN rest ELSE << >>,
                                            locked |-> {}]]
    /\ UNCHANGED <<kind, material, flags, mutex, cli, history>>

P(a) == Head(call[a].rest)
Goto(a, at) == call' = [call EXCEPT ![a].at = at]
In(a, at) == call[a].at = at

\* a is at this point of a method of a provider of kind k.
At(a, k, at) == In(a, at) /\ kind[P(a)] = k

\* Faulty variant: an error is returned before the event is taken.
Leave_Early(a, ok) ==
    LET p == P(a) IN
    /\ mutex' = [mutex EXCEPT ![p] = NoOne]
    /\ pending' = [pending EXCEPT ![p] = (call[a].op = "lock" \/ ~ok) /\ @]
    /\ call' = [call EXCEPT
                 ![a].at = CASE pending[p] /\ ok /\ call[a].op # "lock" -> "audit"
                             [] OTHER -> IF ok THEN "next" ELSE "failed",
                 ![a].locked = IF ok /\ call[a].op = "lock" THEN @ \cup {p} ELSE @]

\* The end of a visit: take_autolock_event, then the mutex is let go.  lock_vault
\* takes no event: lock raises none.
Leave(a, ok) ==
    LET p == P(a) IN
    /\ mutex' = [mutex EXCEPT ![p] = NoOne]
    /\ pending' = [pending EXCEPT ![p] = call[a].op = "lock" /\ @]
    /\ call' = [call EXCEPT
                 ![a].at = CASE pending[p] /\ call[a].op # "lock" ->
                                    IF ok THEN "audit" ELSE "auditFailed"
                             [] OTHER -> IF ok THEN "next" ELSE "failed",
                 ![a].locked = IF ok /\ call[a].op = "lock" THEN @ \cup {p} ELSE @]

\* audit_provider_autolock
Audit(a) ==
    /\ In(a, "audit") \/ In(a, "auditFailed")
    /\ owed' = owed \ {P(a)}
    /\ Goto(a, IF In(a, "audit") THEN "next" ELSE "failed")
    /\ UNCHANGED <<kind, material, flags, mutex, cli, missed>>

\* Faulty variant: one provider is enough.
Remaining_One(a) == << >>

\* The providers after this one.
Remaining(a) == Tail(call[a].rest)

\* The next provider, or the answer; the first error ends the call.
Proceed(a) ==
    /\ \/ In(a, "next") /\ Remaining(a) # << >>
          /\ call' = [call EXCEPT ![a].at = "wait", ![a].rest = Remaining(a)]
          /\ UNCHANGED missed
       \/ /\ In(a, "failed") \/ (In(a, "next") /\ Remaining(a) = << >>)
          /\ call' = [call EXCEPT ![a] = Idle]
          /\ missed' = (missed \/ (/\ In(a, "next") /\ call[a].op = "lock"
                                   /\ \E i \in 1..Len(call[a].scope) :
                                         call[a].scope[i] \notin call[a].locked))
    /\ UNCHANGED <<kind, material, flags, mutex, cli, owed>>

\* The mutex is free: the provider's method begins.
Visit(a) ==
    /\ In(a, "wait") /\ mutex[P(a)] = NoOne
    /\ mutex' = [mutex EXCEPT ![P(a)] = a]
    /\ call' = [call EXCEPT ![a].at = call[a].op, ![a].round = 1, ![a].attempt = 1]
    /\ UNCHANGED <<kind, material, flags, cli, history>>

-----------------------------------------------------------------------------
(* lock and expire. *)

\* lock_session drops the session whatever "bw lock" says, which can fail only if
\* there is one; then the flag stays.
Lock(a) ==
    LET p == P(a) IN
    /\ In(a, "lock")
    /\ \E ok \in {TRUE} \cup {~(kind[p] = "bitwarden" /\ session[p])} :
          /\ Discard(p)
          /\ locked' = [locked EXCEPT ![p] = @ \/ ok]
          /\ Leave(a, ok)
    /\ UNCHANGED <<kind, catalog, cli, history>>

ExpireNow(a) ==
    LET p == P(a) IN
    /\ In(a, "expire")
    /\ Goto(a, "return")
    /\ IF Due(p) THEN Expire(p)
       ELSE UNCHANGED <<material, locked, pending, owed>>
    /\ UNCHANGED <<kind, catalog, mutex, cli, missed>>

\* Faulty variant: it tries as often as nothing was ever listed.
ColdStart_Ever(a) == call[a].op = "list" /\ ~catalog[P(a)]

\* list_refs_inner of Bitwarden tries once more if nothing was ever listed.
ColdStart(a) == call[a].op = "list" /\ call[a].attempt = 1 /\ ~catalog[P(a)]

\* A method that has only to return.
Return(a) ==
    /\ call[a].at \in {"return", "error"} \/ (In(a, "unavailable") /\ ~ColdStart(a))
    /\ Leave(a, In(a, "return"))
    /\ UNCHANGED <<kind, material, locked, catalog, cli, history>>

-----------------------------------------------------------------------------
(* list_refs and resolve of the static, file and pass providers. *)

\* Static entries change nothing; pass lists by scanning the store.
Plain(a) ==
    /\ \/ At(a, "static", "list") /\ Goto(a, "return")
       \/ At(a, "static", "resolve") /\ Goto(a, "return")
       \/ At(a, "pass", "list") /\ \E at \in {"return", "error"} : Goto(a, at)
    /\ UNCHANGED <<kind, material, flags, mutex, cli, history>>

\* A locked provider lists its catalog; the file provider only if it has one.
ListLocked(a) ==
    /\ At(a, "bitwarden", "list") \/ (At(a, "file", "list") /\ catalog[P(a)])
    /\ locked[P(a)]
    /\ Goto(a, "return")
    /\ UNCHANGED <<kind, material, flags, mutex, cli, history>>

\* unlock of the file provider: an expired session goes, and the file is read.
FileUnlock(a) ==
    LET p == P(a) IN
    /\ At(a, "file", "resolve") \/ (At(a, "file", "list") /\ ~(locked[p] /\ catalog[p]))
    /\ IF Due(p) THEN Expire(p) ELSE UNCHANGED <<material, locked, pending, owed>>
    /\ Goto(a, IF age[p] # None /\ ~Due(p) THEN "read" ELSE "decrypt")
    /\ UNCHANGED <<kind, catalog, mutex, cli, missed>>

FileDecrypt(a) ==
    LET p == P(a) IN
    /\ At(a, "file", "decrypt")
    /\ \/ session' = [session EXCEPT ![p] = TRUE] /\ Unlocked(p) /\ Goto(a, "read")
       \/ Goto(a, "error") /\ UNCHANGED <<session, age, locked>>
    /\ UNCHANGED <<kind, held, pending, catalog, mutex, cli, history>>

FileRead(a) ==
    LET p == P(a) IN
    /\ At(a, "file", "read")
    /\ catalog' = [catalog EXCEPT ![p] = @ \/ call[a].op = "list"]
    /\ Goto(a, "return")
    /\ UNCHANGED <<kind, material, locked, pending, mutex, cli, history>>

\* resolve of the pass provider: an expired session goes, a kept value is returned,
\* and otherwise pass is run.
PassResolve(a) ==
    LET p == P(a) IN
    /\ At(a, "pass", "resolve")
    /\ IF Due(p) THEN Expire(p) ELSE UNCHANGED <<material, locked, pending, owed>>
    /\ Goto(a, IF ~Due(p) /\ call[a].entry \in held[p] THEN "return" ELSE "show")
    /\ UNCHANGED <<kind, catalog, mutex, cli, missed>>

\* run_pass.  Every value it fetches restarts the TTL of all of them.
PassShow(a) ==
    LET p == P(a) IN
    /\ At(a, "pass", "show")
    /\ \/ held' = [held EXCEPT ![p] = @ \cup {call[a].entry}] /\ Unlocked(p) /\ Goto(a, "return")
       \/ Goto(a, "error") /\ UNCHANGED <<held, age, locked>>
    /\ UNCHANGED <<kind, session, pending, catalog, mutex, cli, history>>

-----------------------------------------------------------------------------
(* The Bitwarden provider: ensure_session, a bw command per step.            *)

\* The commands are run by run_bw_unreported, which returns after its timeout at
\* the latest.  What fails is "unavailable" when the command itself did, and an
\* "error" when it said something unexpected.
Bw(a, at) == At(a, "bitwarden", at)
Fail == {"unavailable", "error"}

\* A session within its TTL is used, after a resync at most, whose failure is
\* ignored; an expired one is given up.
EnsureSession(a) ==
    LET p == P(a) IN
    /\ Bw(a, "resolve") \/ Bw(a, "again") \/ (Bw(a, "list") /\ ~locked[p])
    /\ IF session[p] /\ Due(p) THEN Expire(p)
       ELSE UNCHANGED <<material, locked, pending, owed>>
    /\ Goto(a, IF session[p] /\ age[p] # None /\ ~Due(p) THEN "fetch" ELSE "password")
    /\ UNCHANGED <<kind, catalog, mutex, cli, missed>>

\* The master password, and whether bw is set up for the right server and logged in.
\* For another server, the login is discarded and the server set.
Prepare(a) ==
    /\ \/ Bw(a, "password") /\ UNCHANGED cli
          /\ \E at \in {"error", IF call[a].round = 1 THEN "server" ELSE "login"} : Goto(a, at)
       \/ Bw(a, "server") /\ cli.server /\ UNCHANGED cli
          /\ \E at \in Fail \cup {"check"} : Goto(a, at)
       \/ Bw(a, "server") /\ ~cli.server
          /\ \E set, out \in BOOLEAN, at \in Fail :
                /\ cli' = [server |-> set, login |-> cli.login /\ ~out]
                /\ Goto(a, IF set THEN "check" ELSE at)
       \/ Bw(a, "check") /\ UNCHANGED cli
          /\ \E at \in Fail \cup {IF cli.login THEN "unlock" ELSE "login"} : Goto(a, at)
    /\ UNCHANGED <<kind, material, flags, mutex, history>>

\* logout_best_effort may fail.
Logout == \E out \in BOOLEAN : cli' = [cli EXCEPT !.login = @ /\ ~out]

\* establish_session: unlock or log in.  When the server has rejected the grant, the
\* login is discarded and unlock_or_relogin signs in afresh, once.
Establish(a) ==
    /\ \/ Bw(a, "unlock") /\ UNCHANGED cli
          /\ \E at \in Fail \cup {"status"} : Goto(a, at)
       \/ Bw(a, "unlock") /\ Logout /\ Goto(a, "login")
       \/ Bw(a, "login") /\ UNCHANGED cli /\ \E at \in Fail : Goto(a, at)
       \/ Bw(a, "login") /\ cli' = [cli EXCEPT !.login = TRUE] /\ Goto(a, "status")
    /\ UNCHANGED <<kind, material, flags, mutex, history>>

\* The session counts once "bw status" says that it is unlocked.
Verify(a) ==
    LET p == P(a) IN
    /\ Bw(a, "status")
    /\ \/ session' = [session EXCEPT ![p] = TRUE] /\ Goto(a, "sync") /\ UNCHANGED <<held, age>>
       \/ Discard(p) /\ Goto(a, "error")
       \/ Goto(a, "unavailable") /\ UNCHANGED material
    /\ UNCHANGED <<kind, flags, mutex, cli, history>>

\* Faulty variant: a session that cannot be synchronised is kept.
SyncFails_Keep(a) == UNCHANGED material

SyncFails(a) == Discard(P(a))

\* The first synchronisation that bw reports as failed is followed by a logout and
\* a fresh login, the second, and any other failure, by an error.
Sync(a) ==
    /\ Bw(a, "sync")
    /\ \/ Unlocked(P(a)) /\ Goto(a, "fetch") /\ UNCHANGED <<session, held, cli>>
       \/ /\ SyncFails(a) /\ UNCHANGED locked
          /\ \/ /\ call[a].round = 1 /\ Logout
                /\ call' = [call EXCEPT ![a].at = "password", ![a].round = 2]
             \/ call[a].round = 2 /\ Goto(a, "unavailable") /\ UNCHANGED cli
             \/ Goto(a, "error") /\ UNCHANGED cli
    /\ UNCHANGED <<kind, pending, catalog, mutex, history>>

\* list_items or get_item, of a vault that is not empty.
Fetch(a) ==
    LET p == P(a) IN
    /\ Bw(a, "fetch")
    /\ \/ catalog' = [catalog EXCEPT ![p] = TRUE] /\ Goto(a, "return")
       \/ UNCHANGED catalog /\ \E at \in Fail : Goto(a, at)
    /\ UNCHANGED <<kind, material, locked, pending, mutex, cli, history>>

RetryColdStart(a) ==
    /\ Bw(a, "unavailable") /\ ColdStart(a)
    /\ call' = [call EXCEPT ![a].at = "again", ![a].attempt = 2, ![a].round = 1]
    /\ UNCHANGED <<kind, material, flags, mutex, cli, history>>

-----------------------------------------------------------------------------

Step(a) ==
    \/ Visit(a) \/ Audit(a) \/ Proceed(a) \/ Return(a)
    \/ Lock(a) \/ ExpireNow(a)
    \/ Plain(a) \/ ListLocked(a)
    \/ FileUnlock(a) \/ FileDecrypt(a) \/ FileRead(a) \/ PassResolve(a) \/ PassShow(a)
    \/ EnsureSession(a) \/ Prepare(a) \/ Establish(a) \/ Verify(a) \/ Sync(a) \/ Fetch(a)
    \/ RetryColdStart(a)

Next == Tick \/ \E a \in Actor : Begin(a) \/ Step(a)

Spec == Init /\ [][Next]_vars

\* The tasks run, and the mutex, which is fair, comes to whoever waits for it; the
\* reaper keeps coming back.
Fairness == \A a \in Actor : SF_vars(Step(a)) /\ WF_vars(a = Reaper /\ Begin(a))

FairSpec == Spec /\ Fairness

-----------------------------------------------------------------------------

\* A provider that nobody is using holds unlocked material exactly when it knows
\* since when, so that the reaper will find it, and none when it says that it is
\* locked: whichever bw command failed on the way, no session is left behind that
\* would never expire.  (The file provider also panics if it has a time and no
\* session.)
MaterialExpires ==
    \A p \in Provider : mutex[p] = NoOne /\ kind[p] # "static" =>
        /\ (session[p] \/ held[p] # {}) <=> age[p] # None
        /\ locked[p] => age[p] = None

\* Every autolock is in the audit log, or its record is still being written: the
\* event is taken before the mutex is let go, by whoever caused it, even when that
\* call then fails.
AutolockRecorded ==
    /\ \A p \in Provider : mutex[p] = NoOne => ~pending[p]
    /\ \A p \in owed : \/ pending[p]
                       \/ \E a \in Actor : call[a].at \in {"audit", "auditFailed"} /\ P(a) = p

\* lock_vault answers ok only if it has locked every provider it was asked to lock.
LockVaultLocks == ~missed

\* Every call that takes a provider's mutex is answered, whatever bw, pass and the
\* askpass command do: the retries are bounded, and nobody waits for a mutex for ever.
EveryCallAnswered ==
    \A c \in Caller : call[c].at = "wait" ~> call[c].at = "idle"
=============================================================================
