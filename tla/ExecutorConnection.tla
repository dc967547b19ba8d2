------------------------- MODULE ExecutorConnection -------------------------
(***************************************************************************)
(* The daemon's end of one executor: how it is launched and its first       *)
(* request answered (open_executor_with, authorize_device_with_executor),   *)
(* how several tasks then share it for their requests (executor_request),   *)
(* how the reader task sorts its lines into answers and events              *)
(* (spawn_executor_reaper), and how it is stopped: asked (shutdown_executor),*)
(* killed (kill_executor) or dropped.                                       *)
(*                                                                          *)
(* The executor answers one line at a time, in order, and may stall for     *)
(* longer than any limit of the daemon and then go on: a request that ran   *)
(* into its limit leaves an answer behind that the next one will read.      *)
(* A limit passes only while the executor stalls, except the short one of   *)
(* export_cookies and shutdown (EXECUTOR_SHUTDOWN_TIMEOUT), which a request *)
(* in front of them may exhaust.                                            *)
(***************************************************************************)
EXTENDS Integers, Sequences, FiniteSets

CONSTANTS
    Caller,      \* the tasks that use the connection
    Kinds,       \* what the tasks may be doing: functions of Caller
    NoOne,
    MaxStalls,   \* bound: how often the executor stalls
    MaxEvents    \* bound: how many event lines it writes

\* On a browser: join_browser, and disconnect of a lease that is not the last, or
\* is the last and stores the cookies.  On a service: disconnect, and
\* end_service_lease, which an event starts.
ASSUME CallerAssumption ==
    /\ Kinds \subseteq [Caller -> {"join", "leave", "close", "stop", "end"}]
    /\ NoOne \notin Caller
ASSUME BoundAssumption == MaxStalls \in Nat /\ MaxEvents \in Nat

VARIABLES
    kind,      \* what the tasks do, a member of Kinds
    handle,    \* ExecutorHandle: "Spawned" or "Socket"
    use,       \* "keep": the connection stays open; "once": authorize_device
    launch,    \* where the launch stands
    known,     \* whether the browser is in the ledger
    proc,      \* the executor's process
    hungUp,    \* the daemon closed the executor's input
    stdin,     \* lines on their way to the executor
    torn,      \* an unfinished line is on its way: a write was given up
    stdout,    \* lines on their way to the daemon
    reader,    \* the task of spawn_executor_reaper
    responses, \* the channel from the reader to the requests
    operation, \* who holds the mutex operation
    pc,        \* where each caller stands
    job,       \* the operation it is about
    stalled,   \* the executor does not react
    stalls, events,   \* how often that happened, how many events were written
    served,    \* history: the pending requests that the executor has served
    mistaken,  \* history: an operation returned Ok whose request was not served
    ending     \* history: a browser is to be closed, a service was asked to stop

pipes == <<stdin, torn, stdout>>
callers == <<operation, pc, job>>
setup == <<kind, handle, use, launch>>
env == <<stalled, stalls, events>>
history == <<served, mistaken, ending>>
vars == <<setup, known, proc, hungUp, pipes, reader, responses, callers, env,
          history>>

\* next_id gives every request an id of its own: here its sender and its job.
Id(c) == <<c, job[c]>>
First == <<NoOne, "first">>
Farewell == <<NoOne, "shutdown">>
NoId == <<NoOne, "garbage">>

Service == \E c \in Caller : kind[c] = "end"

Answer(id, ok) == [event |-> "", id |-> id, ok |-> ok]
Event(e) == [event |-> e, id |-> NoId, ok |-> FALSE]
Eof == Event("eof")

Init ==
    /\ kind \in Kinds
    /\ handle \in {"Spawned", "Socket"}
    /\ use \in {"keep", "once"}
    /\ launch = "connect"
    /\ known = FALSE
    /\ proc = "none" /\ hungUp = FALSE
    /\ stdin = << >> /\ torn = FALSE /\ stdout = << >>
    /\ reader = "none" /\ responses = << >>
    /\ operation = NoOne
    /\ pc = [c \in Caller |-> "idle"]
    /\ job = [c \in Caller |-> "none"]
    /\ stalled = FALSE /\ stalls = 0 /\ events = 0
    /\ served = {} /\ mistaken = FALSE /\ ending = FALSE

-----------------------------------------------------------------------------
(* Pipes and processes. *)

\* Writing fails once the other end is gone or was hung up on.
Open == proc = "up" /\ ~hungUp

\* write_line.  A line after an unfinished one reaches the executor as part of it.
Send(id) ==
    /\ stdin' = Append(stdin, IF torn THEN NoId ELSE id)
    /\ torn' = FALSE
    /\ UNCHANGED stdout

\* A write that is given up may leave part of its line behind.
Tear == torn' \in {torn, TRUE} /\ UNCHANGED <<stdin, stdout>>

\* Faulty variant: a child is left to itself.
KillHandle_Forget == UNCHANGED <<proc, hungUp>>

\* kill_executor_handle, stop_child and the drop of the handle: a child is
\* killed, a socket is shut down for writing.  Neither matters to an executor
\* that is gone.
KillHandle ==
    IF proc # "up" THEN UNCHANGED <<proc, hungUp>>
    ELSE IF handle = "Spawned" THEN proc' = "killed" /\ UNCHANGED hungUp
    ELSE hungUp' = TRUE /\ UNCHANGED proc

-----------------------------------------------------------------------------
(* The launch. *)

\* connect_executor, which may fail.
Connect ==
    /\ launch = "connect"
    /\ \/ launch' = "write" /\ proc' = "up"
       \/ launch' = "failed" /\ UNCHANGED proc
    /\ UNCHANGED <<kind, handle, use, known, hungUp, pipes, reader, responses, callers, env, history>>

\* exchange_first_request.  The write has no limit: a request that does not fit
\* the pipe waits for the executor.
WriteFirst ==
    /\ launch = "write"
    /\ \/ Open /\ ~stalled /\ Send(First) /\ launch' = "read"
       \/ ~Open /\ launch' = "refuse" /\ UNCHANGED pipes
    /\ UNCHANGED <<kind, handle, use, known, proc, hungUp, reader, responses, callers, env, history>>

\* register_shared_browser and its kin: the reader starts and the browser enters
\* the ledger.  Without a reader nobody would notice the executor's end.
Register ==
    /\ launch' = "up"
    /\ known' = TRUE
    /\ reader' = "reading"

\* The first line is the answer to id 1 or a failure, and so are the end of the
\* output and EXECUTOR_TIMEOUT.
ReadFirst ==
    /\ launch = "read"
    /\ \/ /\ stdout # << >>
          /\ stdout' = Tail(stdout)
          /\ IF use = "once" THEN launch' = "byeWrite" /\ UNCHANGED <<known, reader>>
             ELSE IF Head(stdout).id = First /\ Head(stdout).ok THEN Register
             ELSE launch' = "refuse" /\ UNCHANGED <<known, reader>>
       \/ /\ stdout = << >> /\ (proc # "up" \/ stalled)
          /\ launch' = IF use = "once" THEN "byeWrite" ELSE "refuse"
          /\ UNCHANGED <<stdout, known, reader>>
    /\ UNCHANGED <<kind, handle, use, proc, hungUp, stdin, torn, responses, callers, env, history>>

\* open_executor_with stops the executor of a failed launch; in authorize_device
\* the same failure leads to a shutdown.
Refuse ==
    /\ launch = "refuse"
    /\ IF use = "once" THEN launch' = "byeWrite" /\ UNCHANGED <<proc, hungUp>>
       ELSE launch' = "failed" /\ KillHandle
    /\ UNCHANGED <<kind, handle, use, known, pipes, reader, responses, callers, env, history>>

\* shutdown_executor_handle: ask, read one line, and wait or kill.
SayFarewell ==
    /\ \/ /\ launch = "byeWrite"
          /\ \/ Open /\ Send(Farewell) /\ launch' = "byeRead"
             \/ stalled /\ Tear /\ launch' = "byeWait"
             \/ ~Open /\ launch' = "byeWait" /\ UNCHANGED pipes
          /\ UNCHANGED <<proc, hungUp>>
       \/ /\ launch = "byeRead" /\ launch' = "byeWait"
          /\ stdout' = IF stdout = << >> THEN stdout ELSE Tail(stdout)
          /\ UNCHANGED <<stdin, torn, proc, hungUp>>
       \/ /\ launch = "byeWait" /\ launch' = "failed"
          /\ KillHandle
          /\ UNCHANGED pipes
    /\ UNCHANGED <<kind, handle, use, known, reader, responses, callers,
                   env, history>>

-----------------------------------------------------------------------------
(* What callers do between two operations. *)

\* The operation after this one, given whether it succeeded.
JobAfter(c, ok) ==
    CASE job[c] = "export" -> "release"
      [] job[c] = "release" /\ kind[c] = "leave" /\ ok -> "none"
      [] job[c] = "release" -> "shutdown"
      [] OTHER -> "none"

Unlock(c) == operation' = IF operation = c THEN NoOne ELSE operation

\* An operation returns: its guard is dropped and the caller goes on.
Return(c, ok) ==
    /\ Unlock(c)
    /\ job' = [job EXCEPT ![c] = JobAfter(c, ok)]
    /\ pc' = [pc EXCEPT ![c] = IF JobAfter(c, ok) = "none" THEN "done" ELSE "operation"]
    /\ ending' = (ending \/ (~Service /\ JobAfter(c, ok) = "shutdown"))
    /\ mistaken' = (mistaken \/ (ok /\ Id(c) \notin served))
    /\ served' = served \ {Id(c)}

Goto(c, to) ==
    /\ pc' = [pc EXCEPT ![c] = to]
    /\ UNCHANGED <<job, history>>

\* The lookup of a browser in the ledger gives the caller its connection; a
\* caller that closes the browser takes it out.  A service is not exported.
Begin(c) ==
    /\ pc[c] = IF kind[c] = "end" THEN "spawned" ELSE "idle"
    /\ known
    /\ pc' = [pc EXCEPT ![c] = "operation"]
    /\ job' = [job EXCEPT ![c] =
                   CASE kind[c] = "join" -> "lease"
                     [] kind[c] = "close" -> "export"
                     [] OTHER -> "release"]
    /\ known' = (kind[c] \in {"join", "leave"})
    /\ ending' = (ending \/ kind[c] = "close")
    /\ UNCHANGED <<setup, proc, hungUp, pipes, reader, responses, operation, env,
                   served, mistaken>>

-----------------------------------------------------------------------------
(* executor_request and shutdown_executor. *)

Short(c) == job[c] \in {"export", "shutdown"}

\* Faulty variant: no limit on the wait.
Late_Never(c) == FALSE

\* The limit of the caller's step may pass.
Late(c) == stalled \/ Short(c)

\* Whoever gets the operation gets the executor too: nobody else keeps that mutex.
\* A request that does not get the operation fails, a shutdown kills.
LockOperation(c) ==
    /\ pc[c] = "operation"
    /\ \/ operation = NoOne /\ operation' = c /\ Goto(c, "write")
       \/ /\ operation # NoOne /\ Late(c)
          /\ IF job[c] = "shutdown" THEN Goto(c, "kill") /\ UNCHANGED operation
             ELSE Return(c, FALSE)
    /\ UNCHANGED <<setup, known, proc, hungUp, pipes, reader, responses, env>>

\* A written request lets go of the executor; a shutdown keeps it and waits.
Write(c) ==
    /\ pc[c] = "write"
    /\ \/ /\ Open /\ Send(Id(c))
          /\ Goto(c, IF job[c] = "shutdown" THEN "wait" ELSE "receive")
          /\ UNCHANGED <<operation, proc, hungUp>>
       \/ /\ IF Open THEN stalled /\ Tear ELSE UNCHANGED pipes
          /\ Return(c, FALSE)
          /\ IF job[c] = "shutdown" THEN KillHandle ELSE UNCHANGED <<proc, hungUp>>
    /\ UNCHANGED <<setup, known, reader, responses, env>>

\* wait_or_kill_executor: a child exits within the limit or is killed; there is
\* no process behind a socket to wait for.
WaitOrKill(c) ==
    /\ pc[c] = "wait"
    /\ IF handle = "Spawned" THEN KillHandle ELSE UNCHANGED <<proc, hungUp>>
    /\ Goto(c, "receive")
    /\ UNCHANGED <<setup, known, pipes, reader, responses, operation, env>>

\* Faulty variant: whatever is received is taken for the answer.
Mine_Any(c, line) == line.event # "eof"

\* The line is the answer to the caller's request.
Mine(c, line) == line.event = "" /\ line.id = Id(c)

\* The channel yields a line, or nothing more once the reader is gone, or the
\* limit passes: then the answer, when it comes, is left to the next request.
\* A line with another id makes a request kill the executor.
Receive(c) ==
    /\ pc[c] = "receive"
    /\ \/ /\ responses # << >>
          /\ responses' = Tail(responses)
          /\ IF Mine(c, Head(responses)) THEN Return(c, Head(responses).ok)
             ELSE IF job[c] # "shutdown" /\ Head(responses).event = "eof"
             THEN Return(c, FALSE)
             ELSE Goto(c, "kill") /\ Unlock(c)
       \/ /\ responses = << >> /\ (reader # "reading" \/ Late(c))
          /\ IF job[c] = "shutdown" THEN Goto(c, "kill") /\ Unlock(c)
             ELSE Return(c, FALSE)
          /\ UNCHANGED responses
    /\ UNCHANGED <<setup, known, proc, hungUp, pipes, reader, env>>

\* kill_executor: if the mutex of the executor is not free within the limit, the
\* executor lives on.
Kill(c) ==
    /\ pc[c] = "kill"
    /\ IF \A d \in Caller : pc[d] \notin {"write", "wait"} THEN KillHandle ELSE UNCHANGED <<proc, hungUp>>
    /\ Return(c, FALSE)
    /\ UNCHANGED <<setup, known, pipes, reader, responses, env>>

\* executor_export_cookies puts one limit around the whole request, which is
\* dropped wherever it stands.
CancelExport(c) ==
    /\ job[c] = "export"
    /\ pc[c] \in {"operation", "write", "receive", "kill"}
    /\ IF pc[c] = "write" THEN Tear ELSE UNCHANGED pipes
    /\ Return(c, FALSE)
    /\ UNCHANGED <<setup, known, proc, hungUp, reader, responses, env>>

\* The connection goes with its last user: kill_on_drop ends a child, and a
\* socket's writing half is shut down.
Unused ==
    /\ launch = "up" /\ ~known
    /\ \A c \in Caller : pc[c] \in {"idle", "spawned", "done"}

Drop ==
    /\ Unused
    /\ KillHandle
    /\ <<proc, hungUp>>' # <<proc, hungUp>>
    /\ UNCHANGED <<setup, known, pipes, reader, responses, callers,
                   env, history>>

-----------------------------------------------------------------------------
(* The reader task. *)

\* Faulty variant: event lines go to the requests.
ExecutorEvent_None(line) == FALSE

\* executor_event
ExecutorEvent(line) == line.event \in {"audited", "exit"}

\* The callers that an event starts: handle_mcp_server_event ends the lease in a
\* task of its own.
Spawned(line) ==
    pc' = [c \in Caller |->
              IF line.event = "exit" /\ kind[c] = "end" /\ pc[c] = "idle"
              THEN "spawned" ELSE pc[c]]

\* Events are handled, every other line is an answer.  Without anybody to take
\* the answer the reader is done.
Read ==
    /\ reader = "reading"
    /\ stdout # << >>
    /\ stdout' = Tail(stdout)
    /\ LET line == Head(stdout)
       IN  IF ExecutorEvent(line) THEN Spawned(line) /\ UNCHANGED <<reader, responses>>
           ELSE IF Unused THEN reader' = "done" /\ UNCHANGED <<pc, responses>>
           ELSE responses' = Append(responses, line) /\ UNCHANGED <<pc, reader>>
    /\ UNCHANGED <<setup, known, proc, hungUp, stdin, torn, operation, job, env, history>>

\* At the end of the output the requests are told, and the browser, if it is
\* still there, leaves the ledger.
ReadEof ==
    /\ \/ /\ reader = "reading"
          /\ stdout = << >> /\ proc # "up"
          /\ reader' = "cleanup"
          /\ responses' = Append(responses, Eof)
          /\ UNCHANGED known
       \/ /\ reader = "cleanup"
          /\ reader' = "done"
          /\ known' = FALSE
          /\ UNCHANGED responses
    /\ UNCHANGED <<setup, proc, hungUp, pipes, callers, env, history>>

-----------------------------------------------------------------------------
(* The executor (external). *)

\* Serve the next line.  A line that is no request is answered without an id.
Serve ==
    /\ proc = "up" /\ ~stalled /\ stdin # << >>
    /\ stdin' = Tail(stdin)
    /\ LET id == Head(stdin)
       IN  /\ \E ok \in IF id = NoId \/ id[2] = "shutdown" THEN {id # NoId} ELSE BOOLEAN :
                stdout' = Append(stdout, Answer(id, ok))
           /\ served' = served \cup ({id} \cap {Id(c) : c \in Caller})
           /\ ending' = (ending \/ (Service /\ id[2] = "release"))
           /\ proc' = IF id[2] = "shutdown" THEN "exited" ELSE proc
    /\ UNCHANGED <<setup, known, hungUp, torn, reader, responses, callers, env, mistaken>>

\* The end of its input ends the executor, and it may crash at any time.
Exit ==
    /\ proc = "up"
    /\ proc' = "exited"
    /\ UNCHANGED <<setup, known, hungUp, pipes, reader, responses, callers, env, history>>

\* A service reports what it does, and that its server has exited, after the
\* answer to the first request.
Report(e) ==
    /\ Service
    /\ proc = "up" /\ ~stalled /\ launch = "up" /\ events < MaxEvents
    /\ events' = events + 1
    /\ stdout' = Append(stdout, Event(e))
    /\ UNCHANGED <<setup, known, proc, hungUp, stdin, torn, reader, responses,
                   callers, stalled, stalls, history>>

Stall ==
    /\ proc = "up" /\ ~stalled /\ stalls < MaxStalls
    /\ stalled' = TRUE /\ stalls' = stalls + 1
    /\ UNCHANGED <<setup, known, proc, hungUp, pipes, reader, responses, callers, events, history>>

GoOn ==
    /\ stalled
    /\ stalled' = FALSE
    /\ UNCHANGED <<setup, known, proc, hungUp, pipes, reader, responses, callers, stalls, events, history>>

-----------------------------------------------------------------------------

Launching == Connect \/ WriteFirst \/ ReadFirst \/ Refuse \/ SayFarewell

Calling(c) ==
    \/ LockOperation(c) \/ Write(c) \/ WaitOrKill(c)
    \/ Receive(c) \/ Kill(c) \/ CancelExport(c)

Next ==
    \/ Launching
    \/ \E c \in Caller : Begin(c) \/ Calling(c)
    \/ Drop \/ Read \/ ReadEof
    \/ Serve \/ Exit \/ Stall \/ GoOn
    \/ \E e \in {"audited", "exit"} : Report(e)

Spec == Init /\ [][Next]_vars

\* The tasks of the daemon are scheduled fairly, and their timers fire.  A task
\* that was spawned runs.  Of the executor nothing is assumed but that it serves
\* its lines unless it stalls, and ends when its input does.
Fairness ==
    /\ WF_vars(Launching)
    /\ \A c \in Caller : WF_vars(Calling(c)) /\ WF_vars(kind[c] = "end" /\ Begin(c))
    /\ WF_vars(Drop) /\ WF_vars(Read) /\ WF_vars(ReadEof)
    /\ WF_vars(Serve) /\ WF_vars(hungUp /\ ~stalled /\ Exit)

FairSpec == Spec /\ Fairness

-----------------------------------------------------------------------------
(* Properties. *)

\* A request that returns Ok was served by the executor: it never takes the late
\* answer of an earlier request that was given up, or an event, for its own.
OkMeansServed == ~mistaken

\* An executor that reacts in time is not cut off, by killing it or by hanging up,
\* before somebody set out to close the browser, or before a service has served
\* its stop request, in which it revokes its token and ends its server: neither an
\* event line among the answers nor any order of requests gets it killed.
CutOffForCause ==
    launch = "up" /\ (proc = "killed" \/ hungUp) => stalls > 0 \/ ending

\* Every operation on the connection returns, whether the executor answers,
\* stalls or is gone, and whoever holds the connection's mutexes.
EveryCallReturns ==
    \A c \in Caller : pc[c] \notin {"idle", "spawned", "done"} ~> pc[c] = "done"

\* An executor that was launched in vain, or whose browser has left the ledger,
\* ends or is at least hung up on, even if kill_executor did not get the mutex.
Unwanted == launch = "failed" \/ (launch = "up" /\ ~known)
EveryExecutorEnds == Unwanted ~> (proc # "up" \/ hungUp)
=============================================================================
