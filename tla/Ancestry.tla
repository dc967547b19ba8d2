------------------------------- MODULE Ancestry -------------------------------
(***************************************************************************)
(* Where the client of a named pipe comes from: the daemon takes a snapshot *)
(* of the process table, reads the creation times of the client and its     *)
(* ancestors one process at a time, and walks from parent to parent.        *)
(* Meanwhile processes start and exit, and process ids are used again.      *)
(***************************************************************************)
EXTENDS Naturals, Sequences

CONSTANTS
    Pid,                \* process ids; 0 is no process
    Candidate,          \* those that the client may have, or 0
    MaxStarts,          \* bound: processes started
    Wsl,                \* which of them, in order of their start, are WSL's
    MaxDepth            \* MAX_ANCESTRY_DEPTH

VARIABLES
    procs,              \* the running processes: Pid -> process or None
    clock,              \* processes started so far, a process's creation time
    table,              \* the snapshot: Pid -> process or None
    times,              \* Pid -> creation time read for it, 0 for none
    todo,               \* ids whose creation time is still to be read
    client,             \* the client's id, 0 if it could not be obtained
    phase,              \* "run", "times", "walk" or "done"
    verdict             \* the outcome: origin, chain and termination

vars == <<procs, clock, table, times, todo, client, phase, verdict>>

None == [ppid |-> 0, wsl |-> FALSE, born |-> 0, line |-> {}]
NoTimes == [p \in Pid |-> 0]

\* A process knows its parent's id; "line" is the truth, the creation times of its
\* ancestors and its own.
Process(q) ==
    [ppid |-> q, wsl |-> clock + 1 \in Wsl, born |-> clock + 1,
     line |-> {clock + 1} \cup IF q = 0 THEN {} ELSE procs[q].line]

Init ==
    /\ procs = [p \in Pid |-> None] /\ clock = 0
    /\ table = [p \in Pid |-> None] /\ times = NoTimes /\ todo = << >>
    /\ client = 0 /\ phase = "run"
    /\ verdict = [origin |-> "none", chain |-> << >>, end |-> "none"]

-----------------------------------------------------------------------------
(* Processes (external). *)

Start(p, q) ==
    /\ phase # "done" /\ clock < MaxStarts /\ procs[p] = None
    /\ q # 0 => procs[q] # None
    /\ procs' = [procs EXCEPT ![p] = Process(q)]
    /\ clock' = clock + 1
    /\ UNCHANGED <<table, times, todo, client, phase, verdict>>

Exit(p) ==
    /\ phase # "done" /\ procs[p] # None
    /\ procs' = [procs EXCEPT ![p] = None]
    /\ UNCHANGED <<clock, table, times, todo, client, phase, verdict>>

-----------------------------------------------------------------------------
(* trace_ancestry *)

\* Faulty variant: ids that are used again are not noticed.
Reversed_Never(child, parent) == FALSE

\* If both creation times are known, a parent is not younger than its child.
Reversed(child, parent) == times[child] # 0 /\ times[parent] # 0 /\ times[parent] > times[child]

\* One round: the parent of the last process joins the chain, or the walk ends.
Round(w) ==
    LET p == w.chain[Len(w.chain)]
        q == table[p].ppid
        Ends(why) == [w EXCEPT !.end = why]
    IN  IF w.end # "none" THEN w
        ELSE IF q = 0 THEN Ends("root")
        ELSE IF \E i \in DOMAIN w.chain : w.chain[i] = q THEN Ends("cycle")
        ELSE IF table[q] = None THEN Ends("parent_missing")
        ELSE IF Reversed(p, q) THEN Ends("creation_time_reversed")
        ELSE [w EXCEPT !.chain = Append(@, q)]

\* The walk from c: the chain and the reason it ended for.
Walk(c) ==
    LET after[n \in 0..MaxDepth + 1] ==
            IF n = 0 THEN [chain |-> <<c>>, end |-> "none"] ELSE Round(after[n - 1])
        last == after[MaxDepth + 1]
    IN  IF c = 0 \/ table[c] = None THEN [chain |-> << >>, end |-> "client_missing"]
        ELSE IF last.end = "none"
             THEN [chain |-> SubSeq(last.chain, 1, MaxDepth + 1), end |-> "depth_limit"]
             ELSE last

\* classify_ancestry
Origin(w) ==
    IF w.end = "client_missing" THEN "unknown"
    ELSE IF \E i \in DOMAIN w.chain : table[w.chain[i]].wsl THEN "wsl_interop" ELSE "native"

-----------------------------------------------------------------------------
(* process_origin *)

\* The snapshot, which may fail; none is taken for a client without an id.
Snapshot(c) ==
    /\ phase = "run"
    /\ client' = c
    /\ \/ /\ c # 0 /\ table' = procs
          /\ phase' = "times" /\ UNCHANGED verdict
       \/ /\ c = 0 /\ phase' = "walk" /\ UNCHANGED <<table, verdict>>
       \/ /\ c # 0 /\ phase' = "done"
          /\ verdict' = [origin |-> "unknown", chain |-> << >>, end |-> "snapshot_failed"]
          /\ UNCHANGED table
    /\ todo' = << >>
    /\ UNCHANGED <<procs, clock, times>>

\* fill_creation_times: whose times are wanted is known from a walk without times.
Wanted ==
    /\ phase = "times" /\ todo = << >> /\ times = NoTimes
    /\ todo' = Walk(client).chain
    /\ phase' = IF todo' = << >> THEN "walk" ELSE phase
    /\ UNCHANGED <<procs, clock, table, times, client, verdict>>

\* process_creation_time: that of the process which has the id by now, if it can be
\* opened.
ReadTime ==
    /\ phase = "times" /\ todo # << >>
    /\ LET p == Head(todo)
       IN  \E t \in {0, procs[p].born} : times' = [times EXCEPT ![p] = t]
    /\ todo' = Tail(todo)
    /\ phase' = IF todo' = << >> THEN "walk" ELSE phase
    /\ UNCHANGED <<procs, clock, table, client, verdict>>

Classify ==
    /\ phase = "walk"
    /\ LET w == Walk(client)
       IN  verdict' = [origin |-> Origin(w), chain |-> w.chain, end |-> w.end]
    /\ phase' = "done"
    /\ UNCHANGED <<procs, clock, table, times, todo, client>>

Next ==
    \/ \E p \in Pid : Exit(p) \/ \E q \in Pid \cup {0} : Start(p, q)
    \/ \E c \in Candidate : Snapshot(c)
    \/ Wanted \/ ReadTime \/ Classify

Spec == Init /\ [][Next]_vars

-----------------------------------------------------------------------------

\* The time read for an id is that of the process which had it in the snapshot.
Kept(p) == times[p] = table[p].born

\* Every process that decides over the client's origin is the client or one it
\* descends from, if its time could be read and those below it on the chain were
\* still there when theirs were: an id that was used again, before the snapshot or
\* between the snapshot and the reading, never lets a stranger in.
ChainGenuine ==
    phase = "done" =>
        \A i \in DOMAIN verdict.chain :
            times[verdict.chain[i]] # 0 /\ (\A j \in 1..(i - 1) : Kept(verdict.chain[j])) =>
                table[verdict.chain[i]].born \in table[client].line
=============================================================================
