----------------------------- MODULE CookieStore -----------------------------
(***************************************************************************)
(* The stored cookies of cookie_store.rs: one file per browser key, without *)
(* a lock.  Logins load, ends of sessions save and the operator forgets     *)
(* them in tasks that meet on the files; the sweep of the next start tidies *)
(* up after a changed configuration and an interrupted write.               *)
(*                                                                          *)
(* A document stands for the number of the save that wrote it.  Which of    *)
(* its cookies have expired, and the limits on their number and size, only  *)
(* decide whether a save or a load has an effect at all.                    *)
(***************************************************************************)
EXTENDS Integers

CONSTANTS
    Key, CredOf,  \* browser keys, and the credential of each
    Policies,     \* the configurations a start may find: sets of credentials
    Task,
    MaxSaves, MaxForgets, MaxStarts,   \* bounds
    MaxFaults     \* bound: reads that fail for once, files that go bad, failed removals

VARIABLES
    daemon,  \* "down", "sweeping" or "up"
    policy,  \* CookiePolicy: the credentials whose cookies are kept
    file,    \* Key -> NoFile, Bad, or the number of the save
    litter,  \* a temporary file of an interrupted write is left
    task,    \* what each task is at
    todo,    \* the files a sweep has not looked at yet
    saves, forgets, starts, faults,
    gone,    \* history: Key -> the last save before a forget that has returned
    skipped, \* history: Key -> the document that a forget could not read
    left     \* history: the files that the sweep could neither read nor remove

history == <<gone, skipped, left>>
vars == <<daemon, policy, file, litter, task, todo, saves, forgets, starts, faults, history>>
counters == <<saves, forgets, starts, faults>>

NoFile == 0
Bad == -1
Readable(k) == file[k] \notin {NoFile, Bad}
Files == {k \in Key : file[k] # NoFile}
All == {CredOf[k] : k \in Key}
Idle == [at |-> "idle"]

Init ==
    /\ daemon = "down" /\ policy = {}
    /\ file = [k \in Key |-> NoFile] /\ litter = FALSE
    /\ task = [t \in Task |-> Idle]
    /\ todo = {}
    /\ saves = 0 /\ forgets = 0 /\ starts = 0 /\ faults = 0
    /\ gone = [k \in Key |-> 0] /\ skipped = [k \in Key |-> NoFile] /\ left = {}

Fault == faults < MaxFaults /\ faults' = faults + 1
Remove(k) == file' = [file EXCEPT ![k] = NoFile]

-----------------------------------------------------------------------------
(* prepare *)

Start ==
    /\ daemon = "down" /\ starts < MaxStarts
    /\ starts' = starts + 1
    /\ policy' \in Policies
    /\ daemon' = "sweeping"
    /\ todo' = Files /\ left' = {}
    /\ UNCHANGED <<file, litter, task, saves, forgets, faults, gone, skipped>>

\* Faulty variant: whatever can be read stays.
Sweeps_Bad(k) == ~Readable(k)

\* A document of a credential that is kept stays.
Sweeps(k) == ~Readable(k) \/ CredOf[k] \notin policy

\* sweep, file by file.  A file whose read fails, if only for once, counts as
\* unreadable.  Being unable to remove a document ends the start; being unable to
\* remove an unreadable file does not.
SweepFile(k) ==
    /\ daemon = "sweeping" /\ k \in todo
    /\ todo' = todo \ {k}
    /\ \/ /\ IF Sweeps(k) THEN Remove(k) ELSE UNCHANGED file
          /\ UNCHANGED <<daemon, faults, left>>
       \/ Fault /\ Remove(k) /\ UNCHANGED <<daemon, left>>
       \/ /\ Fault /\ Readable(k) /\ Sweeps(k)
          /\ daemon' = "down"
          /\ UNCHANGED <<file, left>>
       \/ Fault /\ left' = left \cup {k} /\ UNCHANGED <<daemon, file>>
    /\ UNCHANGED <<policy, litter, task, saves, forgets, starts, gone, skipped>>

\* The temporary files go as well, or the start ends there.
SweepEnd ==
    /\ daemon = "sweeping" /\ todo = {}
    /\ \/ daemon' = "up" /\ litter' = FALSE /\ UNCHANGED faults
       \/ litter /\ Fault /\ daemon' = "down" /\ UNCHANGED litter
    /\ UNCHANGED <<policy, file, task, todo, saves, forgets, starts, history>>

\* The process ends; a save that was not renamed leaves its temporary file.
Crash ==
    /\ daemon # "down"
    /\ daemon' = "down"
    /\ litter' = (litter \/ \E t \in Task : task[t].at = "save")
    /\ task' = [t \in Task |-> Idle]
    /\ todo' = {}
    /\ UNCHANGED <<policy, file, counters, history>>

\* A file becomes unreadable: another version wrote it, or it was damaged.
GoBad(k) ==
    /\ Readable(k) /\ Fault
    /\ file' = [file EXCEPT ![k] = Bad]
    /\ UNCHANGED <<daemon, policy, litter, task, todo, saves, forgets, starts, history>>

-----------------------------------------------------------------------------
(* load, save and forget. *)

At(t, where) == daemon = "up" /\ task[t].at = where
Becomes(t, state) == task' = [task EXCEPT ![t] = state]

\* load: a document that does not decode is removed, after the read; one that
\* cannot be read is not.  A good one is returned, which changes nothing.
LoadRead(t, k) ==
    /\ At(t, "idle") /\ CredOf[k] \in policy
    /\ file[k] = Bad
    /\ Becomes(t, [at |-> "discard", key |-> k])
    /\ UNCHANGED <<daemon, policy, file, litter, todo, counters, history>>

LoadDiscard(t) ==
    /\ At(t, "discard")
    /\ Remove(task[t].key)
    /\ Becomes(t, Idle)
    /\ UNCHANGED <<daemon, policy, litter, todo, counters, history>>

\* persists, asked at login; a session's answer stays with its browser.
MaySave(k) == CredOf[k] \in policy

\* save: the temporary file, then its rename; a failure removes the file again.
SaveWrite(t, k) ==
    /\ At(t, "idle") /\ MaySave(k) /\ saves < MaxSaves
    /\ Becomes(t, [at |-> "save", key |-> k])
    /\ UNCHANGED <<daemon, policy, file, litter, todo, counters, history>>

SaveRename(t) ==
    /\ At(t, "save")
    /\ \/ /\ saves < MaxSaves /\ saves' = saves + 1
          /\ file' = [file EXCEPT ![task[t].key] = saves']
          /\ UNCHANGED faults
       \/ Fault /\ UNCHANGED <<file, saves>>
    /\ Becomes(t, Idle)
    /\ UNCHANGED <<daemon, policy, litter, todo, forgets, starts, history>>

\* forget lists the files first.  target is a credential or all of them.
ForgetBegin(t, target) ==
    /\ At(t, "idle") /\ forgets < MaxForgets
    /\ forgets' = forgets + 1
    /\ Becomes(t, [at |-> "forget", target |-> target, files |-> Files,
                   since |-> saves])
    /\ UNCHANGED <<daemon, policy, file, litter, todo, saves, starts, faults, history>>

\* A document of the credential, or any file when all are to go.
Matched(k, target) == target = All \/ (Readable(k) /\ CredOf[k] \in target)

\* Faulty variant: one file per credential.
Rest_None(f, k) == {l \in f.files : CredOf[l] # CredOf[k]}

\* The files still to look at, after this one.
Rest(f, k) == f.files \ {k}

\* A file that cannot be read is skipped, and so is a document whose read fails for
\* once; failing to remove one ends the call.
ForgetFile(t, k) ==
    /\ At(t, "forget") /\ k \in task[t].files
    /\ \/ /\ IF Matched(k, task[t].target) THEN Remove(k) ELSE UNCHANGED file
          /\ Becomes(t, [task[t] EXCEPT !.files = Rest(task[t], k)])
          /\ UNCHANGED <<faults, skipped>>
       \/ /\ task[t].target # All /\ Readable(k) /\ Fault
          /\ skipped' = [skipped EXCEPT ![k] = file[k]]
          /\ Becomes(t, [task[t] EXCEPT !.files = Rest(task[t], k)])
          /\ UNCHANGED file
       \/ /\ Fault /\ Matched(k, task[t].target)
          /\ Becomes(t, Idle)
          /\ UNCHANGED <<file, skipped>>
    /\ UNCHANGED <<daemon, policy, litter, todo, saves, forgets, starts, gone, left>>

\* The call returns the number of files removed, whatever it skipped.
ForgetEnd(t) ==
    /\ At(t, "forget") /\ task[t].files = {}
    /\ gone' = [k \in Key |-> IF CredOf[k] \in task[t].target THEN task[t].since ELSE gone[k]]
    /\ Becomes(t, Idle)
    /\ UNCHANGED <<daemon, policy, file, litter, todo, counters, skipped, left>>

-----------------------------------------------------------------------------

Targets == {{CredOf[k]} : k \in Key} \cup {All}

Next ==
    \/ Start \/ SweepEnd \/ Crash
    \/ \E k \in Key : SweepFile(k) \/ GoBad(k)
    \/ \E t \in Task :
          \/ \E k \in Key : LoadRead(t, k) \/ SaveWrite(t, k) \/ ForgetFile(t, k)
          \/ LoadDiscard(t) \/ SaveRename(t) \/ ForgetEnd(t)
          \/ \E target \in Targets : ForgetBegin(t, target)

Spec == Init /\ [][Next]_vars

\* Once forget has returned, a document stored before it began can be restored only
\* if it is the very one that forget could not read when it came to its file, for any
\* principal and whatever is saved, loaded or restarted meanwhile.
CookiesForgotten ==
    \A k \in Key : Readable(k) /\ file[k] <= gone[k] => file[k] = skipped[k]

\* What the comment on forget claims, without that exception: a file that cannot be
\* read gives no cookies back, so after forget none of the credential's are restored.
ForgetPurposeMet == \A k \in Key : Readable(k) => file[k] > gone[k]

\* A daemon that is up holds no cookies of a credential that its configuration does
\* not name, whatever earlier configurations, crashes and failed starts have left;
\* only a file that the sweep could neither read nor remove may still be there.
SweptClean ==
    daemon = "up" => \A k \in Key \ left : Readable(k) => CredOf[k] \in policy
=============================================================================
