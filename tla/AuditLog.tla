------------------------------ MODULE AuditLog ------------------------------
(***************************************************************************)
(* append_audit: one record after the other, under audit_lock, is appended  *)
(* to the audit log.  A process rotates the log at most once, to ".1",      *)
(* whose previous contents go.  Every file operation may fail, which loses  *)
(* the record being written, and the process may crash between any two.     *)
(***************************************************************************)
EXTENDS Naturals, FiniteSets

CONSTANTS
    MaxBytes,   \* audit_log_max_bytes, in records
    MaxRecords, \* bound: records that are written
    MaxCrashes, MaxFaults   \* bounds: ends of the process, failed operations

VARIABLES
    log, old,   \* the sets of records in the log and in ".1"
    step,       \* where append_audit stands, "idle" without a call
    rotated,    \* audit_rotated
    record,     \* the number of the last record
    crashes, faults,
    mine        \* history: records this process appended with success

vars == <<log, old, step, rotated, record, crashes, faults, mine>>

Init ==
    /\ log = {} /\ old = {}
    /\ step = "idle" /\ rotated = FALSE
    /\ record = 0 /\ crashes = 0 /\ faults = 0
    /\ mine = {}

Fault == faults < MaxFaults /\ faults' = faults + 1

\* Faulty variant: the log is rotated whenever it is full.
Full_Always == Cardinality(log) + 1 > MaxBytes /\ Cardinality(log) > 0

\* The next record would exceed the limit and nothing was rotated yet.  The size of
\* a log that was not there is 0.
Full == ~rotated /\ Cardinality(log) + 1 > MaxBytes /\ Cardinality(log) > 0

\* A call takes audit_lock and looks at the size of the log.
AppendAudit ==
    /\ step = "idle" /\ record < MaxRecords
    /\ record' = record + 1
    /\ step' = IF Full THEN "remove" ELSE "write"
    /\ UNCHANGED <<log, old, rotated, crashes, faults, mine>>

RemoveOld ==
    /\ step = "remove"
    /\ step' = "rename" /\ old' = {}
    /\ UNCHANGED <<log, rotated, record, crashes, faults, mine>>

Rename ==
    /\ step = "rename"
    /\ step' = "write"
    /\ old' = log /\ log' = {}
    /\ rotated' = TRUE
    /\ UNCHANGED <<record, crashes, faults, mine>>

\* create_private_file or an append, then the write and its flush.
Write ==
    /\ step = "write"
    /\ step' = "idle"
    /\ log' = log \cup {record}
    /\ mine' = mine \cup {record}
    /\ UNCHANGED <<old, rotated, record, crashes, faults>>

\* The operation of a step fails, and with it the append; write_response and the
\* other callers report that on stderr and go on.
Fail ==
    /\ step # "idle"
    /\ Fault
    /\ step' = "idle"
    /\ UNCHANGED <<log, old, rotated, record, crashes, mine>>

\* The process ends and is started again; a write under way may have arrived.
Restart ==
    /\ crashes < MaxCrashes
    /\ crashes' = crashes + 1
    /\ \/ UNCHANGED log
       \/ step = "write" /\ log' = log \cup {record}
    /\ step' = "idle" /\ rotated' = FALSE /\ mine' = {}
    /\ UNCHANGED <<old, record, faults>>

Next == AppendAudit \/ RemoveOld \/ Rename \/ Write \/ Fail \/ Restart

Spec == Init /\ [][Next]_vars

\* What a running process has recorded is in the log or in ".1": a process rotates
\* once, so only records of earlier processes go with the old ".1", whichever
\* operation of a rotation fails and however often it is tried again.
RecordsKept == mine \subseteq log \cup old
=============================================================================
