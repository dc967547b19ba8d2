------------------------------- MODULE Storage -------------------------------
(***************************************************************************)
(* What the daemon keeps in files: the peers (PeerStore), the cookies       *)
(* (CookieStore) and the audit log (AuditLog), and the start that finds     *)
(* them (Startup).  Each has its own files and its own lock, or none, and   *)
(* they share nothing but the process that crashes.                         *)
(***************************************************************************)
EXTENDS PeerStore

CONSTANTS
    Key, CredOf, Policies, Task, MaxSaves, MaxForgets, MaxStarts,   \* CookieStore
    MaxBytes, MaxRecords,                                           \* AuditLog
    Platforms, Executors, ProviderLists                             \* Startup

VARIABLES
    cDaemon, policy, cFile, litter, task, todo, saves, forgets, starts, cFaults,
    gone, skipped, left,
    log, old, step, rotated, record, aCrashes, aFaults, mine,
    platform, executor, stage, building, probe, hello, bound, result,
    channel, sender, service, status, code, stop

Cookies == INSTANCE CookieStore WITH daemon <- cDaemon, file <- cFile, faults <- cFaults

Audit == INSTANCE AuditLog WITH crashes <- aCrashes, faults <- aFaults

Starting == INSTANCE Startup WITH step <- stage

\* CookieStore: of what was stored before a forget, only a document that forget could
\* not read can be restored after it.
CookiesForgotten == Cookies!CookiesForgotten

\* CookieStore: nothing that was stored before a forget can be restored after it.
ForgetPurposeMet == Cookies!ForgetPurposeMet

\* CookieStore: a daemon that is up holds only cookies that its configuration names.
SweptClean == Cookies!SweptClean

\* AuditLog: a process loses none of its own records to a rotation.
RecordsKept == Audit!RecordsKept

\* Startup: the service control manager is told the truth, and told it.
ServiceTold == Starting!ServiceTold
=============================================================================
