----------------------- MODULE MCExecutorConnection -----------------------
(* Instance of ExecutorConnection for TLC: two tasks, on the browser of a     *)
(* login or on a service.  Each goes through up to three requests, so one     *)
(* meets what several earlier ones left behind.                               *)
EXTENDS ExecutorConnection, TLC

CONSTANTS c1, c2

MCCaller == {c1, c2}

\* A join meets a disconnect, of the last lease or not; two disconnects meet that
\* leave a lease; a service ends by itself while its lease is disconnected.
MCKinds ==
    { c1 :> "join" @@ c2 :> "leave",
      c1 :> "join" @@ c2 :> "close",
      c1 :> "leave" @@ c2 :> "leave",
      c1 :> "stop" @@ c2 :> "end" }
===========================================================================
