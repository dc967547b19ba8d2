---------------------- MODULE ExecutorConnectionProofs ----------------------
(***************************************************************************)
(* Proofs about the executor connection, for any number of tasks of any    *)
(* kind, any number of stalls and any number of events.                    *)
(*                                                                         *)
(* An answer is taken only for the request it names: a task never sends    *)
(* the same request twice, so that a late answer names one it has left     *)
(* behind (Sent).                                                          *)
(*                                                                         *)
(* An executor is cut off for cause: as long as nobody is closing and      *)
(* nothing has stalled, the connection is orderly, that is, whatever is on *)
(* its way belongs to the one request that is being waited for (Orderly).  *)
(***************************************************************************)
EXTENDS ExecutorConnection, TLAPS

Job == {"lease", "export", "release", "shutdown"}
Busy == {"operation", "write", "wait", "receive", "kill"}

LineId == (Caller \X Job) \cup {First, Farewell, NoId}
Line == [event : {"", "audited", "exit", "eof"}, id : LineId, ok : BOOLEAN]

CallersOK ==
    /\ operation \in Caller \cup {NoOne}
    /\ pc \in [Caller -> {"idle", "spawned", "done"} \cup Busy]
    /\ job \in [Caller -> Job \cup {"none"}]
    /\ \A c \in Caller : pc[c] \in Busy <=> job[c] # "none"

TypeOK ==
    /\ kind \in [Caller -> {"join", "leave", "close", "stop", "end"}]
    /\ use \in {"keep", "once"}
    /\ known \in BOOLEAN /\ hungUp \in BOOLEAN /\ torn \in BOOLEAN
    /\ stdin \in Seq(LineId) /\ stdout \in Seq(Line) /\ responses \in Seq(Line)
    /\ CallersOK
    /\ stalled \in BOOLEAN /\ stalls \in Nat
    /\ mistaken \in BOOLEAN /\ ending \in BOOLEAN

\* No caller has a connection before the launch has succeeded.
Before ==
    launch # "up" =>
        /\ ~known /\ reader = "none" /\ responses = << >>
        /\ operation = NoOne
        /\ \A c \in Caller : pc[c] \in {"idle", "spawned"}

-----------------------------------------------------------------------------
(* Late answers. *)

\* The requests of a task that come before the job it is at.
Earlier(j) ==
    CASE j = "release" -> {"export"}
      [] j = "shutdown" -> {"export", "release"}
      [] OTHER -> {}

\* The requests that it may have sent.
Sent(c) ==
    IF pc[c] = "done" THEN Job
    ELSE Earlier(job[c]) \cup (IF pc[c] \in {"wait", "receive", "kill"} THEN {job[c]} ELSE {})

Elems(s) == {s[i] : i \in 1..Len(s)}
Asked == Elems(stdin)

AnswersOf(s) == {s[i].id : i \in {k \in 1..Len(s) : s[k].event = ""}}
Answered == AnswersOf(stdout) \cup AnswersOf(responses)

IdInv ==
    /\ \A c \in Caller : \A j \in Job : <<c, j>> \in Asked \cup Answered => j \in Sent(c)
    /\ \A c \in Caller : Id(c) \in Answered => Id(c) \in served
    /\ OkMeansServed

-----------------------------------------------------------------------------
(* The orderly connection. *)

\* An event line, and a list of nothing else.
IsEvent(line) == line.event \in {"audited", "exit"}
NoAnswer(s) == \A i \in 1..Len(s) : IsEvent(s[i])

\* One answer, to the request id, among events.
OneAnswer(s, id) ==
    \E i \in 1..Len(s) :
        /\ s[i].event = "" /\ s[i].id = id
        /\ \A k \in 1..Len(s) : k # i => IsEvent(s[k])

Nothing == stdin = << >> /\ NoAnswer(stdout) /\ responses = << >>

\* The request id, or its answer, and nothing else is on its way.
OnItsWay(id) ==
    \/ stdin = <<id>> /\ NoAnswer(stdout) /\ responses = << >>
    \/ stdin = << >> /\ OneAnswer(stdout, id) /\ responses = << >>
    \/ stdin = << >> /\ NoAnswer(stdout) /\ OneAnswer(responses, id) /\ Len(responses) = 1

\* Somebody has taken the browser or service out of the ledger to stop it.
Stopping == \E c \in Caller :
    kind[c] \in {"stop", "end"} /\ job[c] = "release" /\ pc[c] \in {"operation", "write", "receive"}

Orderly ==
    /\ ~torn /\ reader = "reading"
    /\ known \/ Stopping
    /\ \A c \in Caller :
          /\ pc[c] \notin {"wait", "kill"} /\ job[c] \in {"none", "lease", "release"}
          /\ pc[c] \in {"write", "receive"} <=> operation = c
          /\ pc[c] = "receive" => OnItsWay(Id(c))
          /\ pc[c] = "receive" /\ job[c] = "release" /\ Service => stdin # << >>
    /\ (\A c \in Caller : pc[c] # "receive") => Nothing

CalmInv ==
    stalls = 0 /\ ~ending =>
        /\ ~stalled
        /\ launch \in {"connect", "write", "read", "up"} => ~hungUp /\ proc # "killed"
        /\ launch \in {"connect", "write"} => ~torn /\ stdin = << >> /\ stdout = << >>
        /\ launch = "read" =>
              /\ ~torn
              /\ \/ stdin = <<First>> /\ stdout = << >>
                 \/ stdin = << >> /\ Len(stdout) = 1
        /\ launch = "up" /\ proc = "up" => Orderly

\* The ids that are no caller's.
Strange == {First, Farewell, NoId}

IInv == TypeOK /\ Before /\ IdInv /\ CalmInv

-----------------------------------------------------------------------------
(* Lists. *)

LEMMA Appended ==
  ASSUME NEW S, NEW s \in Seq(S), NEW x \in S
  PROVE  /\ Append(s, x) \in Seq(S) /\ Len(s) \in Nat /\ Len(Append(s, x)) = Len(s) + 1
         /\ \A i \in 1..Len(s) : Append(s, x)[i] = s[i]
         /\ Append(s, x)[Len(s) + 1] = x
  OBVIOUS

LEMMA Taken ==
  ASSUME NEW S, NEW s \in Seq(S), s # << >>
  PROVE  /\ Tail(s) \in Seq(S) /\ Head(s) \in S /\ Head(s) = s[1]
         /\ Len(s) \in Nat /\ Len(s) > 0 /\ Len(Tail(s)) = Len(s) - 1
         /\ \A i \in 1..Len(Tail(s)) : Tail(s)[i] = s[i + 1]
  OBVIOUS

LEMMA LastTaken ==
  ASSUME NEW S, NEW s \in Seq(S), s # << >>, Len(s) = 1
  PROVE  Tail(s) = << >>
<1> DEFINE r == Tail(s)
<1>1. r \in Seq(S) /\ Len(r) = Len(s) - 1
  BY Taken, Zenon
<1> HIDE DEF r
<1>2. Len(r) = 0
  BY <1>1
<1>3. r = << >>
  BY <1>1, <1>2
<1> QED BY <1>3, Zenon DEF r

LEMMA AppendElems ==
  ASSUME NEW S, NEW s \in Seq(S), NEW x \in S
  PROVE  Append(s, x) \in Seq(S) /\ Elems(Append(s, x)) \subseteq Elems(s) \cup {x}
  BY DEF Elems

LEMMA TailElems ==
  ASSUME NEW S, NEW s \in Seq(S), s # << >>
  PROVE  /\ Tail(s) \in Seq(S) /\ Head(s) \in S
         /\ Elems(Tail(s)) \subseteq Elems(s) /\ Head(s) \in Elems(s)
  BY DEF Elems

LEMMA AppendAnswers ==
  ASSUME NEW s \in Seq(Line), NEW l \in Line
  PROVE  /\ Append(s, l) \in Seq(Line)
         /\ AnswersOf(Append(s, l)) \subseteq AnswersOf(s) \cup {l.id}
         /\ l.event # "" => AnswersOf(Append(s, l)) \subseteq AnswersOf(s)
<1> DEFINE r == Append(s, l)
<1>1. /\ r \in Seq(Line) /\ Len(s) \in Nat /\ Len(r) = Len(s) + 1
      /\ \A i \in 1..Len(s) : r[i] = s[i]
      /\ r[Len(s) + 1] = l
  BY Appended
<1> HIDE DEF r
<1>2. ASSUME NEW i \in 1..Len(r), r[i].event = ""
      PROVE  r[i].id \in AnswersOf(s) \/ (r[i].id = l.id /\ l.event = "")
  <2>1. CASE i \in 1..Len(s)
    BY <1>1, <1>2, <2>1, Zenon DEF AnswersOf
  <2>2. CASE i = Len(s) + 1
    BY <1>1, <1>2, <2>2, Zenon
  <2>3. i \in 1..Len(s) \/ i = Len(s) + 1
    BY <1>1
  <2> QED BY <2>1, <2>2, <2>3, Zenon
<1>3. /\ AnswersOf(r) \subseteq AnswersOf(s) \cup {l.id}
      /\ l.event # "" => AnswersOf(r) \subseteq AnswersOf(s)
  BY <1>2, Zenon DEF AnswersOf
<1> QED BY <1>1, <1>3, Zenon DEF r

LEMMA TailAnswers ==
  ASSUME NEW s \in Seq(Line), s # << >>
  PROVE  /\ Tail(s) \in Seq(Line) /\ Head(s) \in Line
         /\ AnswersOf(Tail(s)) \subseteq AnswersOf(s)
         /\ Head(s).event = "" => Head(s).id \in AnswersOf(s)
<1> DEFINE r == Tail(s)
<1>1. /\ r \in Seq(Line) /\ Head(s) \in Line /\ Head(s) = s[1]
      /\ Len(s) \in Nat /\ Len(s) > 0 /\ Len(r) = Len(s) - 1
      /\ \A i \in 1..Len(r) : r[i] = s[i + 1]
  BY Taken, Zenon
<1> HIDE DEF r
<1>2. ASSUME NEW i \in 1..Len(r), r[i].event = "" PROVE r[i].id \in AnswersOf(s)
  <2>1. i + 1 \in 1..Len(s) /\ r[i] = s[i + 1]
    BY <1>1
  <2> QED BY <1>2, <2>1, Zenon DEF AnswersOf
<1>3. AnswersOf(r) \subseteq AnswersOf(s)
  BY <1>2, Zenon DEF AnswersOf
<1>4. 1 \in 1..Len(s)
  BY <1>1
<1>5. Head(s).event = "" => Head(s).id \in AnswersOf(s)
  BY <1>1, <1>4, Zenon DEF AnswersOf
<1> QED BY <1>1, <1>3, <1>5, Zenon DEF r

\* What an event does to the lists of the orderly connection.
LEMMA EventAppended ==
  ASSUME NEW s \in Seq(Line), NEW l \in Line, IsEvent(l), NEW id
  PROVE  /\ NoAnswer(s) => NoAnswer(Append(s, l))
         /\ OneAnswer(s, id) => OneAnswer(Append(s, l), id)
<1> DEFINE r == Append(s, l)
<1>0. /\ r \in Seq(Line) /\ Len(s) \in Nat /\ Len(r) = Len(s) + 1
      /\ \A i \in 1..Len(s) : r[i] = s[i]
      /\ r[Len(s) + 1] = l
  BY Appended
<1> HIDE DEF r
<1>1. NoAnswer(s) => NoAnswer(r)
  BY <1>0 DEF NoAnswer
<1>2. ASSUME OneAnswer(s, id) PROVE OneAnswer(r, id)
  <2>1. PICK i \in 1..Len(s) :
            /\ s[i].event = "" /\ s[i].id = id
            /\ \A k \in 1..Len(s) : k # i => IsEvent(s[k])
    BY <1>2, Zenon DEF OneAnswer
  <2>2. i \in 1..Len(r) /\ r[i] = s[i]
    BY <1>0
  <2>3. ASSUME NEW k \in 1..Len(r), k # i PROVE IsEvent(r[k])
    <3>1. k \in 1..Len(s) \/ k = Len(s) + 1
      BY <1>0
    <3> QED BY <1>0, <2>1, <2>3, <3>1, Zenon
  <2> QED BY <2>1, <2>2, <2>3, Zenon DEF OneAnswer
<1> QED BY <1>1, <1>2, Zenon DEF r

LEMMA AnswerAppended ==
  ASSUME NEW s \in Seq(Line), NEW l \in Line
  PROVE  NoAnswer(s) /\ l.event = "" => OneAnswer(Append(s, l), l.id)
<1> DEFINE r == Append(s, l)
<1>0. /\ r \in Seq(Line) /\ Len(s) \in Nat /\ Len(r) = Len(s) + 1
      /\ \A i \in 1..Len(s) : r[i] = s[i]
      /\ r[Len(s) + 1] = l
  BY Appended
<1> HIDE DEF r
<1>1. Len(s) + 1 \in 1..Len(r)
  BY <1>0
<1>2. ASSUME NoAnswer(s), NEW k \in 1..Len(r), k # Len(s) + 1 PROVE IsEvent(r[k])
  <2>1. k \in 1..Len(s)
    BY <1>0, <1>2
  <2> QED BY <1>0, <1>2, <2>1, Zenon DEF NoAnswer
<1>3. NoAnswer(s) /\ l.event = "" => OneAnswer(r, l.id)
  BY <1>0, <1>1, <1>2, Zenon DEF OneAnswer
<1> QED BY <1>3, Zenon DEF r

LEMMA LineTaken ==
  ASSUME NEW s \in Seq(Line), s # << >>, NEW id
  PROVE  /\ NoAnswer(s) => NoAnswer(Tail(s)) /\ IsEvent(Head(s))
         /\ OneAnswer(s, id) /\ IsEvent(Head(s)) => OneAnswer(Tail(s), id)
         /\ OneAnswer(s, id) /\ ~IsEvent(Head(s)) =>
               NoAnswer(Tail(s)) /\ Head(s).event = "" /\ Head(s).id = id
<1> DEFINE r == Tail(s)
<1>0. /\ r \in Seq(Line) /\ Head(s) \in Line /\ Head(s) = s[1]
      /\ Len(s) \in Nat /\ Len(s) > 0 /\ Len(r) = Len(s) - 1
      /\ \A i \in 1..Len(r) : r[i] = s[i + 1]
  BY Taken
<1> HIDE DEF r
<1>1. NoAnswer(s) => NoAnswer(r) /\ IsEvent(Head(s))
  BY <1>0 DEF NoAnswer
<1>2. ASSUME OneAnswer(s, id)
      PROVE  /\ IsEvent(Head(s)) => OneAnswer(r, id)
             /\ ~IsEvent(Head(s)) =>
                   NoAnswer(r) /\ Head(s).event = "" /\ Head(s).id = id
  <2>1. PICK i \in 1..Len(s) :
            /\ s[i].event = "" /\ s[i].id = id
            /\ \A k \in 1..Len(s) : k # i => IsEvent(s[k])
    BY <1>2, Zenon DEF OneAnswer
  <2>2. ASSUME IsEvent(Head(s)) PROVE OneAnswer(r, id)
    <3>1. i # 1
      BY <1>0, <2>1, <2>2, Zenon DEF IsEvent
    <3>2. i - 1 \in 1..Len(r) /\ (i - 1) + 1 = i
      BY <1>0, <3>1
    <3>3. r[i - 1] = s[i]
      BY <1>0, <3>2, Zenon
    <3>4. ASSUME NEW k \in 1..Len(r), k # i - 1 PROVE IsEvent(r[k])
      <4>1. k + 1 \in 1..Len(s) /\ k + 1 # i
        BY <1>0, <3>4
      <4> QED BY <1>0, <2>1, <4>1, Zenon
    <3> QED BY <2>1, <3>2, <3>3, <3>4, Zenon DEF OneAnswer
  <2>3. ASSUME ~IsEvent(Head(s))
        PROVE  NoAnswer(r) /\ Head(s).event = "" /\ Head(s).id = id
    <3>1. 1 \in 1..Len(s)
      BY <1>0
    <3>2. i = 1
      BY <1>0, <2>1, <2>3, <3>1, Zenon
    <3>3. ASSUME NEW k \in 1..Len(r) PROVE IsEvent(r[k])
      <4>1. k + 1 \in 1..Len(s) /\ k + 1 # i
        BY <1>0, <3>2
      <4> QED BY <1>0, <2>1, <4>1
    <3> QED BY <1>0, <2>1, <3>2, <3>3, Zenon DEF NoAnswer
  <2> QED BY <2>2, <2>3, Zenon
<1> QED BY <1>1, <1>2, Zenon DEF r

-----------------------------------------------------------------------------
(* What the steps share. *)

LEMMA Others == ASSUME NEW c \in Caller, NEW j PROVE <<c, j>> \notin Strange
  BY CallerAssumption, Zenon DEF Strange, First, Farewell, NoId

LEMMA NoneAnswered == ASSUME TypeOK, NEW c \in Caller PROVE <<c, "none">> \notin Answered
<1>1. <<c, "none">> \notin Caller \X Job
  BY Zenon DEF Job
<1>2. <<c, "none">> \notin {First, Farewell, NoId}
  BY Others, Zenon DEF Strange
<1>3. \A l \in Line : l.id \in LineId
  BY Zenon DEF Line
<1>4. ASSUME NEW s \in Seq(Line) PROVE AnswersOf(s) \subseteq LineId
  <2>1. \A i \in 1..Len(s) : s[i] \in Line
    BY <1>4
  <2> QED BY <1>3, <2>1, Zenon DEF AnswersOf
<1>5. Answered \subseteq LineId
  BY <1>4, Zenon DEF Answered, TypeOK
<1> QED BY <1>1, <1>2, <1>5, Zenon DEF LineId

LEMMA IdFrame ==
  ASSUME TypeOK, IdInv, UNCHANGED <<job, served, mistaken>>,
         Asked' \subseteq Asked \cup Strange, Answered' \subseteq Answered \cup Strange,
         \A c \in Caller : Sent(c) \subseteq Sent(c)'
  PROVE  IdInv'
<1>1. \A c \in Caller : Id(c)' = Id(c) /\ Id(c) \notin Strange
  BY Others, Zenon DEF Id
<1>2. ASSUME NEW c \in Caller, NEW j \in Job, <<c, j>> \in (Asked \cup Answered)' PROVE j \in Sent(c)'
  <2>1. <<c, j>> \in Asked \cup Answered
    BY <1>2, Others, Zenon
  <2> QED BY <2>1, Zenon DEF IdInv
<1>3. ASSUME NEW c \in Caller, Id(c)' \in Answered' PROVE Id(c)' \in served'
  BY <1>1, <1>3, Zenon DEF IdInv
<1>4. OkMeansServed'
  BY Zenon DEF IdInv, OkMeansServed
<1> QED BY <1>2, <1>3, <1>4, Zenon DEF IdInv

LEMMA SameIds ==
  ASSUME TypeOK, IdInv, UNCHANGED <<stdin, stdout, responses, pc, job, served, mistaken>>
  PROVE  IdInv'
<1>1. Asked' = Asked /\ Answered' = Answered /\ \A c \in Caller : Sent(c)' = Sent(c)
  BY Zenon DEF Asked, Answered, Sent
<1> QED BY <1>1, IdFrame, Zenon

LEMMA NextJob ==
  ASSUME TypeOK, NEW c \in Caller, pc[c] \in Busy, NEW ok \in BOOLEAN
  PROVE  /\ JobAfter(c, ok) \in {"none", "release", "shutdown"}
         /\ JobAfter(c, ok) \notin Sent(c)
         /\ JobAfter(c, ok) # "none" => Sent(c) \subseteq Earlier(JobAfter(c, ok))
         /\ Sent(c) \subseteq Job
<1>1. job[c] \in Job /\ pc[c] # "done"
  BY Zenon DEF TypeOK, CallersOK, Busy
<1>2. CASE job[c] = "lease"
  BY <1>1, <1>2, Zenon DEF JobAfter, Sent, Earlier, Job
<1>3. CASE job[c] = "export"
  BY <1>1, <1>3, Zenon DEF JobAfter, Sent, Earlier, Job
<1>4. CASE job[c] = "release"
  BY <1>1, <1>4 DEF JobAfter, Sent, Earlier, Job
<1>5. CASE job[c] = "shutdown"
  BY <1>1, <1>5, Zenon DEF JobAfter, Sent, Earlier, Job
<1> QED BY <1>1, <1>2, <1>3, <1>4, <1>5, Zenon DEF Job

LEMMA Returned ==
  ASSUME TypeOK, NEW c \in Caller, pc[c] \in Busy, NEW ok \in BOOLEAN, Return(c, ok)
  PROVE  CallersOK' /\ mistaken' \in BOOLEAN /\ ending' \in BOOLEAN
<1> DEFINE j == JobAfter(c, ok)
<1>1. j \in {"none", "release", "shutdown"}
  BY NextJob, Zenon
<1> HIDE DEF j
<1>2. /\ operation' = IF operation = c THEN NoOne ELSE operation
      /\ job' = [job EXCEPT ![c] = j]
      /\ pc' = [pc EXCEPT ![c] = IF j = "none" THEN "done" ELSE "operation"]
      /\ ending' = (ending \/ (~Service /\ j = "shutdown"))
      /\ mistaken' = (mistaken \/ (ok /\ Id(c) \notin served))
  BY Zenon DEF Return, Unlock, j
<1>3. CallersOK'
  BY <1>1, <1>2, Zenon DEF TypeOK, CallersOK, Busy, Job
<1> QED BY <1>2, <1>3, Zenon

LEMMA ReturnedIds ==
  ASSUME TypeOK, IdInv, NEW c \in Caller, pc[c] \in Busy, NEW ok \in BOOLEAN, Return(c, ok),
         ok => Id(c) \in served, Asked' \subseteq Asked, Answered' \subseteq Answered
  PROVE  IdInv'
<1> DEFINE j == JobAfter(c, ok)
<1>1. /\ j \in {"none", "release", "shutdown"} /\ j \notin Sent(c)
      /\ j # "none" => Sent(c) \subseteq Earlier(j)
      /\ Sent(c) \subseteq Job
  BY NextJob, Zenon
<1> HIDE DEF j
<1>2. /\ job' = [job EXCEPT ![c] = j]
      /\ pc' = [pc EXCEPT ![c] = IF j = "none" THEN "done" ELSE "operation"]
      /\ mistaken' = (mistaken \/ (ok /\ Id(c) \notin served))
      /\ served' = served \ {Id(c)}
  BY Zenon DEF Return, j
<1>3. /\ job'[c] = j /\ pc'[c] = IF j = "none" THEN "done" ELSE "operation"
      /\ \A d \in Caller : d # c => job'[d] = job[d] /\ pc'[d] = pc[d]
  BY <1>2, Zenon DEF TypeOK, CallersOK
<1>4. Sent(c) \subseteq Sent(c)'
  BY <1>1, <1>3, Zenon DEF Sent
<1>5. \A d \in Caller : d # c => Sent(d)' = Sent(d) /\ Id(d)' = Id(d) /\ Id(d) # Id(c)
  BY <1>3, Zenon DEF Sent, Id
<1>6. Id(c)' \notin Answered'
  <2>1. Id(c)' = <<c, j>>
    BY <1>3, Zenon DEF Id
  <2>2. <<c, j>> \notin Answered
    <3>1. CASE j = "none"
      BY <3>1, NoneAnswered, Zenon
    <3>2. CASE j # "none"
      BY <1>1, <3>2, Zenon DEF IdInv, Job
    <3> QED BY <3>1, <3>2, Zenon
  <2> QED BY <2>1, <2>2, Zenon
<1>7. ASSUME NEW d \in Caller, NEW i \in Job, <<d, i>> \in (Asked \cup Answered)' PROVE i \in Sent(d)'
  <2>1. i \in Sent(d)
    BY <1>7, Zenon DEF IdInv
  <2> QED BY <2>1, <1>4, <1>5, Zenon
<1>8. ASSUME NEW d \in Caller, Id(d)' \in Answered' PROVE Id(d)' \in served'
  BY <1>2, <1>5, <1>6, <1>8, Zenon DEF IdInv
<1>9. OkMeansServed'
  BY <1>2, Zenon DEF IdInv, OkMeansServed
<1> QED BY <1>7, <1>8, <1>9, Zenon DEF IdInv

\* What may be done to an executor that is gone, or is being closed, or has stalled.
LEMMA GoneCalm ==
  ASSUME TypeOK, CalmInv, launch = "up", launch' = "up", stalls > 0 \/ ending \/ proc # "up",
         proc # "up" => UNCHANGED <<proc, hungUp>>, UNCHANGED <<stalled, stalls>>,
         ending => ending'
  PROVE  CalmInv'
  BY DEF CalmInv, TypeOK

LEMMA Killed == KillHandle => /\ proc # "up" => UNCHANGED <<proc, hungUp>>
                              /\ hungUp' \in {hungUp, TRUE}
  BY Zenon DEF KillHandle

LEMMA Written ==
  ASSUME TypeOK, NEW id \in LineId, Send(id)
  PROVE  /\ stdin' \in Seq(LineId) /\ torn' = FALSE /\ stdout' = stdout
         /\ Asked' \subseteq Asked \cup {id, NoId}
         /\ ~torn /\ stdin = << >> => stdin' = <<id>>
<1> DEFINE x == IF torn THEN NoId ELSE id
<1>1. x \in LineId /\ x \in {id, NoId} /\ (~torn => x = id)
  BY Zenon DEF LineId
<1>2. stdin' = Append(stdin, x) /\ torn' = FALSE /\ stdout' = stdout
  BY Zenon DEF Send
<1> HIDE DEF x
<1>3. stdin \in Seq(LineId)
  BY Zenon DEF TypeOK
<1>4. stdin' \in Seq(LineId) /\ Elems(stdin') \subseteq Elems(stdin) \cup {x}
  BY <1>1, <1>2, <1>3, AppendElems, Zenon
<1>5. ~torn /\ stdin = << >> => stdin' = <<id>>
  BY <1>1, <1>2
<1> QED BY <1>1, <1>2, <1>4, <1>5, Zenon DEF Asked

-----------------------------------------------------------------------------
(* The launch. *)

LEMMA ConnectStep == IInv /\ Connect => IInv'
<1> SUFFICES ASSUME IInv, Connect PROVE IInv'
  BY Zenon
<1>1. TypeOK'
  BY Zenon DEF IInv, TypeOK, CallersOK, Connect, pipes, callers, env, history
<1>2. Before'
  BY Zenon DEF IInv, Before, Connect, callers
<1>3. IdInv'
  BY SameIds, Zenon DEF IInv, Connect, pipes, callers, history
<1>4. CalmInv'
  BY Zenon DEF IInv, CalmInv, Connect, pipes, env, history
<1> QED BY <1>1, <1>2, <1>3, <1>4, Zenon DEF IInv

LEMMA WriteFirstStep == IInv /\ WriteFirst => IInv'
<1> SUFFICES ASSUME IInv, WriteFirst PROVE IInv'
  OBVIOUS
<1>1. CASE Send(First) /\ launch' = "read"
  <2>1. /\ stdin' \in Seq(LineId) /\ torn' = FALSE /\ stdout' = stdout
        /\ Asked' \subseteq Asked \cup {First, NoId}
        /\ ~torn /\ stdin = << >> => stdin' = <<First>>
    BY <1>1, Written, Zenon DEF IInv, LineId
  <2>2. TypeOK'
    BY <2>1, Zenon DEF IInv, TypeOK, CallersOK, WriteFirst, callers, env, history
  <2>3. Before'
    BY <1>1, Zenon DEF IInv, Before, WriteFirst, callers
  <2>4. IdInv'
    <3>1. Answered' = Answered /\ \A c \in Caller : Sent(c)' = Sent(c)
      BY <2>1, Zenon DEF Answered, Sent, WriteFirst, callers
    <3> QED BY <2>1, <3>1, IdFrame, Zenon DEF IInv, Strange, WriteFirst, callers, history
  <2>5. CalmInv'
    BY <1>1, <2>1, Zenon DEF IInv, CalmInv, WriteFirst, env, history
  <2> QED BY <2>2, <2>3, <2>4, <2>5 DEF IInv
<1>2. CASE launch' = "refuse" /\ UNCHANGED pipes
  <2>1. TypeOK'
    BY <1>2, Zenon DEF IInv, TypeOK, CallersOK, WriteFirst, pipes, callers, env, history
  <2>2. Before'
    BY <1>2, Zenon DEF IInv, Before, WriteFirst, callers
  <2>3. IdInv'
    BY <1>2, SameIds, Zenon DEF IInv, WriteFirst, pipes, callers, history
  <2>4. CalmInv'
    BY <1>2, Zenon DEF IInv, CalmInv, WriteFirst, env, history
  <2> QED BY <2>1, <2>2, <2>3, <2>4 DEF IInv
<1> QED BY <1>1, <1>2, Zenon DEF WriteFirst

LEMMA ReadFirstStep == IInv /\ ReadFirst => IInv'
<1> SUFFICES ASSUME IInv, ReadFirst PROVE IInv'
  OBVIOUS
<1>1. /\ stdout' \in Seq(Line) /\ AnswersOf(stdout') \subseteq AnswersOf(stdout)
      /\ \/ launch' \in {"byeWrite", "refuse"} /\ UNCHANGED <<known, reader>>
         \/ stdout # << >> /\ stdout' = Tail(stdout) /\ Register
  BY TailAnswers, Zenon DEF IInv, TypeOK, ReadFirst
<1>2. TypeOK'
  BY <1>1, Zenon DEF IInv, TypeOK, CallersOK, Register, ReadFirst, callers, env, history
<1>3. Before'
  BY <1>1, Zenon DEF IInv, Before, Register, ReadFirst, callers
<1>4. IdInv'
  <2>1. /\ Asked' = Asked /\ Answered' \subseteq Answered
        /\ \A c \in Caller : Sent(c)' = Sent(c)
    BY <1>1, Zenon DEF Asked, Answered, Sent, ReadFirst, callers
  <2> QED BY <2>1, IdFrame, Zenon DEF IInv, ReadFirst, callers, history
<1>5. CalmInv'
  <2>1. CASE launch' \in {"byeWrite", "refuse"}
    BY <2>1, Zenon DEF IInv, CalmInv, ReadFirst, env, history
  <2>2. CASE stdout # << >> /\ stdout' = Tail(stdout) /\ Register
    <3>1. SUFFICES ASSUME stalls = 0, ~ending PROVE CalmInv'
      BY Zenon DEF CalmInv, ReadFirst, env, history
    <3>2. /\ ~stalled /\ ~hungUp /\ proc # "killed" /\ ~torn
          /\ stdin = << >> /\ Len(stdout) = 1
      BY <2>2, <3>1, Zenon DEF IInv, CalmInv, ReadFirst
    <3>3. stdout' = << >>
      BY <2>2, <3>2 DEF IInv, TypeOK
    <3>4. /\ ~torn' /\ reader' = "reading" /\ known' /\ responses' = << >> /\ stdin' = << >>
          /\ operation' = NoOne /\ pc' = pc /\ job' = job
          /\ \A c \in Caller : pc[c] \in {"idle", "spawned"}
      BY <2>2, <3>2, Zenon DEF IInv, Before, Register, ReadFirst, callers
    <3>5. \A c \in Caller : job[c] = "none"
      BY <3>4, Zenon DEF IInv, TypeOK, CallersOK, Busy
    <3>6. Nothing'
      BY <3>3, <3>4 DEF Nothing, NoAnswer
    <3>7. Orderly'
      BY <3>4, <3>5, <3>6, CallerAssumption, Zenon DEF Orderly
    <3> QED BY <2>2, <3>2, <3>7, Zenon DEF CalmInv, Register, ReadFirst, env, history
  <2> QED BY <1>1, <2>1, <2>2, Zenon
<1> QED BY <1>2, <1>3, <1>4, <1>5 DEF IInv

LEMMA RefuseStep == IInv /\ Refuse => IInv'
<1> SUFFICES ASSUME IInv, Refuse PROVE IInv'
  OBVIOUS
<1>1. launch' \in {"byeWrite", "failed"} /\ hungUp' \in BOOLEAN
  BY Killed, Zenon DEF IInv, TypeOK, Refuse
<1>2. TypeOK'
  BY <1>1, Zenon DEF IInv, TypeOK, CallersOK, Refuse, pipes, callers, env, history
<1>3. Before'
  BY <1>1, Zenon DEF IInv, Before, Refuse, callers
<1>4. IdInv'
  BY SameIds, Zenon DEF IInv, Refuse, pipes, callers, history
<1>5. CalmInv'
  BY <1>1, Zenon DEF IInv, CalmInv, Refuse, env, history
<1> QED BY <1>2, <1>3, <1>4, <1>5 DEF IInv

LEMMA SayFarewellStep == IInv /\ SayFarewell => IInv'
<1> SUFFICES ASSUME IInv, SayFarewell PROVE IInv'
  OBVIOUS
<1>1. launch # "up" /\ launch' \in {"byeRead", "byeWait", "failed"} /\ hungUp' \in BOOLEAN
  BY Killed, Zenon DEF IInv, TypeOK, SayFarewell
<1>2. /\ stdin' \in Seq(LineId) /\ torn' \in BOOLEAN /\ stdout' \in Seq(Line)
      /\ Asked' \subseteq Asked \cup Strange /\ AnswersOf(stdout') \subseteq AnswersOf(stdout)
  <2>1. CASE Send(Farewell)
    <3>1. Farewell \in LineId /\ stdout \in Seq(Line) /\ {Farewell, NoId} \subseteq Strange
      BY Zenon DEF IInv, TypeOK, LineId, Strange
    <3> QED BY <2>1, <3>1, Written, Zenon DEF IInv
  <2>2. CASE torn' \in BOOLEAN /\ stdin' = stdin
             /\ (stdout' = stdout \/ (stdout # << >> /\ stdout' = Tail(stdout)))
    BY <2>2, TailAnswers, Zenon DEF IInv, TypeOK, Asked
  <2> QED BY <2>1, <2>2, Zenon DEF SayFarewell, Tear, pipes, IInv, TypeOK
<1>3. TypeOK'
  BY <1>1, <1>2, Zenon DEF IInv, TypeOK, CallersOK, SayFarewell, callers, env, history
<1>4. Before'
  BY <1>1, Zenon DEF IInv, Before, SayFarewell, callers
<1>5. IdInv'
  <2>1. Answered' \subseteq Answered /\ \A c \in Caller : Sent(c)' = Sent(c)
    BY <1>2, Zenon DEF Answered, Sent, SayFarewell, callers
  <2> QED BY <1>2, <2>1, IdFrame, Zenon DEF IInv, SayFarewell, callers, history
<1>6. CalmInv'
  BY <1>1, Zenon DEF IInv, CalmInv, SayFarewell, env, history
<1> QED BY <1>3, <1>4, <1>5, <1>6 DEF IInv

-----------------------------------------------------------------------------
(* The callers. *)

LEMMA BusyUp == ASSUME IInv, NEW c \in Caller, pc[c] \in Busy PROVE launch = "up"
  BY Zenon DEF IInv, Before, Busy

LEMMA BeginStep == ASSUME IInv, NEW c \in Caller, Begin(c) PROVE IInv'
<1>1. PICK j \in {"lease", "export", "release"} :
          /\ job' = [job EXCEPT ![c] = j]
          /\ kind[c] = "join" => j = "lease"
          /\ kind[c] = "close" => j = "export"
          /\ kind[c] \notin {"join", "close"} => j = "release"
  BY Zenon DEF Begin
<1>2. /\ known /\ launch = "up" /\ pc[c] \in {"idle", "spawned"} /\ job[c] = "none"
      /\ pc' = [pc EXCEPT ![c] = "operation"]
      /\ known' = (kind[c] \in {"join", "leave"})
      /\ ending' = (ending \/ kind[c] = "close")
      /\ kind[c] \in {"join", "leave", "close", "stop", "end"}
  BY Zenon DEF Begin, IInv, Before, TypeOK, CallersOK, Busy
<1>3. /\ job'[c] = j /\ pc'[c] = "operation"
      /\ \A d \in Caller : d # c => job'[d] = job[d] /\ pc'[d] = pc[d]
  BY <1>1, <1>2, Zenon DEF IInv, TypeOK, CallersOK
<1>4. CallersOK'
  BY <1>1, <1>2 DEF IInv, TypeOK, CallersOK, Begin, Busy, Job
<1>5. TypeOK'
  BY <1>2, <1>4 DEF IInv, TypeOK, Begin, setup, pipes, env
<1>6. Before'
  BY <1>2, Zenon DEF Before, Begin, setup
<1>7. IdInv'
  <2>1. Sent(c) = {} /\ \A d \in Caller : d # c => Sent(d)' = Sent(d) /\ Id(d)' = Id(d)
    BY <1>2, <1>3 DEF Sent, Earlier, Id
  <2>2. Asked' = Asked /\ Answered' = Answered /\ served' = served /\ mistaken' = mistaken
    BY Zenon DEF Begin, pipes, Asked, Answered
  <2>3. Id(c)' \notin Answered
    BY <1>3, <2>1, Zenon DEF IInv, IdInv, Id, Job
  <2>4. ASSUME NEW d \in Caller, NEW i \in Job, <<d, i>> \in (Asked \cup Answered)' PROVE i \in Sent(d)'
    BY <2>1, <2>2, <2>4, Zenon DEF IInv, IdInv
  <2>5. ASSUME NEW d \in Caller, Id(d)' \in Answered' PROVE Id(d)' \in served'
    BY <2>1, <2>2, <2>3, <2>5, Zenon DEF IInv, IdInv
  <2> QED BY <2>2, <2>4, <2>5, Zenon DEF IInv, IdInv, OkMeansServed
<1>8. CalmInv'
  <2>1. SUFFICES ASSUME stalls = 0, ~ending, kind[c] # "close", proc = "up" PROVE Orderly'
    BY <1>2, Zenon DEF IInv, CalmInv, Begin, setup, env
  <2>2. Orderly
    BY <1>2, <2>1, Zenon DEF IInv, CalmInv
  <2>3. j \in {"lease", "release"} /\ (~known' => kind[c] \in {"stop", "end"} /\ j = "release")
    BY <1>1, <1>2, <2>1, Zenon
  <2>4. (known \/ Stopping)'
    <3>1. kind' = kind
      BY Zenon DEF Begin, setup
    <3> QED BY <1>3, <2>3, <3>1, Zenon DEF Stopping
  <2>5. ASSUME NEW d \in Caller
        PROVE  /\ pc'[d] \notin {"wait", "kill"} /\ job'[d] \in {"none", "lease", "release"}
               /\ pc'[d] \in {"write", "receive"} <=> operation' = d
               /\ pc'[d] = "receive" <=> pc[d] = "receive"
               /\ pc[d] = "receive" => job'[d] = job[d]
    BY <1>2, <1>3, <2>2, <2>3, Zenon DEF Orderly, Begin
  <2> QED BY <2>2, <2>4, <2>5 DEF Orderly, Begin, setup, pipes, Service, Nothing, OnItsWay, Id
<1> QED BY <1>5, <1>6, <1>7, <1>8, Zenon DEF IInv

LEMMA LockOperationStep == ASSUME IInv, NEW c \in Caller, LockOperation(c) PROVE IInv'
<1>1. pc[c] = "operation" /\ pc[c] \in Busy /\ launch = "up" /\ launch' = "up"
  BY BusyUp, Zenon DEF LockOperation, setup, Busy
<1>2. Before'
  BY <1>1, Zenon DEF Before
<1>3. Asked' = Asked /\ Answered' = Answered
  BY Zenon DEF LockOperation, pipes, Asked, Answered
<1>4. CASE operation = NoOne /\ operation' = c /\ Goto(c, "write")
  <2>1. pc' = [pc EXCEPT ![c] = "write"] /\ UNCHANGED <<job, served, mistaken, ending>>
    BY <1>4, Zenon DEF Goto, history
  <2>2. pc'[c] = "write" /\ \A d \in Caller : d # c => pc'[d] = pc[d]
    BY <2>1, Zenon DEF IInv, TypeOK, CallersOK
  <2>3. CallersOK'
    BY <1>1, <1>4, <2>1, Zenon DEF IInv, TypeOK, CallersOK, Busy
  <2>4. TypeOK'
    BY <2>1, <2>3, Zenon DEF IInv, TypeOK, LockOperation, setup, pipes, env
  <2>5. IdInv'
    <3>1. \A d \in Caller : Sent(d)' = Sent(d)
      BY <1>1, <2>1, <2>2, Zenon DEF Sent
    <3> QED BY <1>3, <2>1, <3>1, IdFrame, Zenon DEF IInv
  <2>6. CalmInv'
    <3>1. SUFFICES ASSUME stalls = 0, ~ending, proc = "up" PROVE Orderly'
      BY <1>1, <2>1, Zenon DEF IInv, CalmInv, LockOperation, setup, env
    <3>2. Orderly
      BY <1>1, <3>1, Zenon DEF IInv, CalmInv
    <3>3. \A d \in Caller : pc[d] \notin {"write", "receive"}
      BY <1>4, <3>2, CallerAssumption, Zenon DEF Orderly
    <3>4. (known \/ Stopping)'
      <4>1. UNCHANGED <<kind, known, job>>
        BY <2>1, Zenon DEF LockOperation, setup
      <4> QED BY <1>1, <2>2, <3>2, <4>1, Zenon DEF Orderly, Stopping
    <3>5. ASSUME NEW d \in Caller
          PROVE  /\ pc'[d] \notin {"wait", "kill"} /\ job'[d] \in {"none", "lease", "release"}
                 /\ pc'[d] \in {"write", "receive"} <=> operation' = d
                 /\ pc'[d] # "receive"
      BY <1>4, <2>1, <2>2, <3>2, <3>3, Zenon DEF Orderly
    <3> QED BY <3>2, <3>3, <3>4, <3>5, Zenon DEF Orderly, LockOperation, setup, pipes, Nothing
  <2> QED BY <1>2, <2>4, <2>5, <2>6, Zenon DEF IInv
<1>5. CASE operation # NoOne /\ Late(c) /\ job[c] = "shutdown" /\ Goto(c, "kill") /\ UNCHANGED operation
  <2>1. pc' = [pc EXCEPT ![c] = "kill"] /\ UNCHANGED <<job, served, mistaken, ending>>
    BY <1>5, Zenon DEF Goto, history
  <2>2. pc'[c] = "kill" /\ \A d \in Caller : d # c => pc'[d] = pc[d]
    BY <2>1, Zenon DEF IInv, TypeOK, CallersOK
  <2>3. CallersOK'
    BY <1>1, <1>5, <2>1, Zenon DEF IInv, TypeOK, CallersOK, Busy
  <2>4. TypeOK'
    BY <2>1, <2>3, Zenon DEF IInv, TypeOK, LockOperation, setup, pipes, env
  <2>5. IdInv'
    <3>1. \A d \in Caller : Sent(d) \subseteq Sent(d)'
      BY <1>1, <2>1, <2>2, Zenon DEF Sent
    <3> QED BY <1>3, <2>1, <3>1, IdFrame, Zenon DEF IInv
  <2>6. CalmInv'
    <3>1. stalls > 0 \/ ending \/ proc # "up"
      BY <1>1, <1>5 DEF IInv, TypeOK, CalmInv, Orderly
    <3> QED BY <1>1, <2>1, <3>1, GoneCalm, Zenon DEF IInv, LockOperation, setup, env
  <2> QED BY <1>2, <2>4, <2>5, <2>6 DEF IInv
<1>6. CASE operation # NoOne /\ Late(c) /\ Return(c, FALSE)
  <2>1. CallersOK' /\ mistaken' \in BOOLEAN /\ ending' \in BOOLEAN
    BY <1>1, <1>6, Returned, Zenon DEF IInv
  <2>2. TypeOK'
    BY <2>1, Zenon DEF IInv, TypeOK, LockOperation, setup, pipes, env
  <2>3. IdInv'
    BY <1>1, <1>3, <1>6, ReturnedIds, Zenon DEF IInv
  <2>4. CalmInv'
    <3>1. ending => ending'
      BY <1>6, Zenon DEF Return
    <3>2. stalls > 0 \/ ending \/ proc # "up"
      <4>1. stalls = 0 /\ ~ending /\ proc = "up" =>
              ~stalled /\ job[c] \in {"none", "lease", "release"}
        BY <1>1, Zenon DEF IInv, CalmInv, Orderly
      <4>2. stalls \in Nat /\ ending \in BOOLEAN
        BY Zenon DEF IInv, TypeOK
      <4> QED BY <1>6, <4>1, <4>2 DEF Late, Short
    <3> QED BY <1>1, <3>1, <3>2, GoneCalm, Zenon DEF IInv, LockOperation, setup, env
  <2> QED BY <1>2, <2>2, <2>3, <2>4 DEF IInv
<1> QED BY <1>4, <1>5, <1>6, Zenon DEF LockOperation

LEMMA WriteStep == ASSUME IInv, NEW c \in Caller, Write(c) PROVE IInv'
<1>1. pc[c] = "write" /\ pc[c] \in Busy /\ launch = "up" /\ launch' = "up" /\ job[c] \in Job
  BY BusyUp, Zenon DEF Write, setup, Busy, IInv, TypeOK, CallersOK
<1>2. Before'
  BY <1>1, Zenon DEF Before
<1>3. CASE /\ Open /\ Send(Id(c)) /\ Goto(c, IF job[c] = "shutdown" THEN "wait" ELSE "receive")
           /\ UNCHANGED <<operation, proc, hungUp>>
  <2>1. Id(c) \in LineId
    BY <1>1, Zenon DEF Id, LineId
  <2>2. /\ stdin' \in Seq(LineId) /\ torn' = FALSE /\ stdout' = stdout
        /\ Asked' \subseteq Asked \cup {Id(c), NoId}
        /\ ~torn /\ stdin = << >> => stdin' = <<Id(c)>>
    BY <1>3, <2>1, Written, Zenon DEF IInv
  <2>3. PICK to \in {"wait", "receive"} :
            pc' = [pc EXCEPT ![c] = to] /\ (job[c] # "shutdown" => to = "receive")
    BY <1>3, Zenon DEF Goto
  <2>4. UNCHANGED <<job, served, mistaken, ending>>
    BY <1>3, Zenon DEF Goto, history
  <2>5. pc'[c] = to /\ \A d \in Caller : d # c => pc'[d] = pc[d]
    BY <2>3, Zenon DEF IInv, TypeOK, CallersOK
  <2>6. CallersOK'
    BY <1>1, <1>3, <2>3, <2>4, Zenon DEF IInv, TypeOK, CallersOK, Busy
  <2>7. TypeOK'
    BY <1>3, <2>2, <2>4, <2>6, Zenon DEF IInv, TypeOK, Write, setup, env
  <2>8. IdInv'
    <3>1. \A d \in Caller : Sent(d) \subseteq Sent(d)' /\ Id(d)' = Id(d)
      BY <1>1, <2>4, <2>5, Zenon DEF Sent, Id
    <3>2. job[c] \in Sent(c)' /\ Id(c) = <<c, job[c]>>
      BY <2>4, <2>5, Zenon DEF Sent, Id
    <3>3. Answered' = Answered
      BY <2>2, Zenon DEF Answered, Write
    <3>4. ASSUME NEW d \in Caller, NEW i \in Job, <<d, i>> \in (Asked \cup Answered)' PROVE i \in Sent(d)'
      <4>1. <<d, i>> # NoId
        BY Others, Zenon DEF Strange
      <4>2. CASE <<d, i>> = Id(c)
        BY <3>2, <4>2
      <4>3. CASE <<d, i>> \in Asked \cup Answered
        BY <3>1, <4>3, Zenon DEF IInv, IdInv
      <4> QED BY <2>2, <3>3, <3>4, <4>1, <4>2, <4>3, Zenon
    <3>5. ASSUME NEW d \in Caller, Id(d)' \in Answered' PROVE Id(d)' \in served'
      BY <2>4, <3>1, <3>3, <3>5, Zenon DEF IInv, IdInv
    <3> QED BY <2>4, <3>4, <3>5, Zenon DEF IInv, IdInv, OkMeansServed
  <2>9. CalmInv'
    <3>1. SUFFICES ASSUME stalls = 0, ~ending, proc = "up" PROVE Orderly'
      BY <1>1, <1>3, <2>4, Zenon DEF IInv, CalmInv, Write, setup, env
    <3>2. Orderly
      BY <1>1, <3>1, Zenon DEF IInv, CalmInv
    <3>3. operation = c /\ (\A d \in Caller : pc[d] # "receive") /\ Nothing /\ job[c] # "shutdown"
      BY <1>1, <3>2, Zenon DEF Orderly
    <3>4. to = "receive" /\ stdin' = <<Id(c)>> /\ NoAnswer(stdout') /\ responses' = << >>
      BY <2>2, <2>3, <3>2, <3>3, Zenon DEF Orderly, Nothing, Write
    <3>5. (known \/ Stopping)'
      <4>1. UNCHANGED <<kind, known, job>>
        BY <2>4, Zenon DEF Write, setup
      <4> QED BY <2>5, <3>2, <3>4, <4>1, Zenon DEF Orderly, Stopping
    <3>6. OnItsWay(Id(c))' /\ stdin' # << >>
      BY <2>4, <3>4, Zenon DEF OnItsWay, Id
    <3>7. ASSUME NEW d \in Caller
          PROVE  /\ pc'[d] \notin {"wait", "kill"} /\ job'[d] \in {"none", "lease", "release"}
                 /\ pc'[d] \in {"write", "receive"} <=> operation' = d
                 /\ pc'[d] = "receive" => d = c
      BY <1>3, <2>4, <2>5, <3>2, <3>3, <3>4, Zenon DEF Orderly
    <3>8. ~torn' /\ reader' = "reading" /\ pc'[c] = "receive"
      BY <2>2, <2>5, <3>2, <3>4, Zenon DEF Orderly, Write
    <3> QED BY <3>5, <3>6, <3>7, <3>8, Zenon DEF Orderly
  <2> QED BY <1>2, <2>7, <2>8, <2>9, Zenon DEF IInv
<1>4. CASE /\ IF Open THEN stalled /\ Tear ELSE UNCHANGED pipes
           /\ Return(c, FALSE)
           /\ IF job[c] = "shutdown" THEN KillHandle ELSE UNCHANGED <<proc, hungUp>>
  <2>1. CallersOK' /\ mistaken' \in BOOLEAN /\ ending' \in BOOLEAN
    BY <1>1, <1>4, Returned, Zenon DEF IInv
  <2>2. stdin' = stdin /\ stdout' = stdout /\ torn' \in BOOLEAN
    BY <1>4, Zenon DEF Tear, pipes, IInv, TypeOK
  <2>3. (proc # "up" => UNCHANGED <<proc, hungUp>>) /\ hungUp' \in BOOLEAN
    BY <1>4, Killed, Zenon DEF IInv, TypeOK
  <2>4. TypeOK'
    BY <2>1, <2>2, <2>3, Zenon DEF IInv, TypeOK, Write, setup, env
  <2>5. Asked' = Asked /\ Answered' = Answered
    BY <2>2, Zenon DEF Write, Asked, Answered
  <2>6. IdInv'
    BY <1>1, <1>4, <2>5, ReturnedIds, Zenon DEF IInv
  <2>7. CalmInv'
    <3>1. ending => ending'
      BY <1>4, Zenon DEF Return
    <3>2. stalls > 0 \/ ending \/ proc # "up"
      BY <1>1, <1>4 DEF IInv, TypeOK, CalmInv, Open
    <3> QED BY <1>1, <2>3, <3>1, <3>2, GoneCalm, Zenon DEF IInv, Write, setup, env
  <2> QED BY <1>2, <2>4, <2>6, <2>7 DEF IInv
<1> QED BY <1>3, <1>4, Zenon DEF Write

LEMMA WaitOrKillStep == ASSUME IInv, NEW c \in Caller, WaitOrKill(c) PROVE IInv'
<1>1. pc[c] = "wait" /\ pc[c] \in Busy /\ launch = "up" /\ launch' = "up"
  BY BusyUp, Zenon DEF WaitOrKill, setup, Busy
<1>2. Before'
  BY <1>1, Zenon DEF Before
<1>3. pc' = [pc EXCEPT ![c] = "receive"] /\ UNCHANGED <<job, served, mistaken, ending>>
  BY Zenon DEF WaitOrKill, Goto, history
<1>4. pc'[c] = "receive" /\ \A d \in Caller : d # c => pc'[d] = pc[d]
  BY <1>3, Zenon DEF IInv, TypeOK, CallersOK
<1>5. CallersOK'
  BY <1>1, <1>3, Zenon DEF IInv, TypeOK, CallersOK, Busy, WaitOrKill
<1>6. (proc # "up" => UNCHANGED <<proc, hungUp>>) /\ hungUp' \in BOOLEAN
  BY Killed, Zenon DEF IInv, TypeOK, WaitOrKill
<1>7. TypeOK'
  BY <1>3, <1>5, <1>6, Zenon DEF IInv, TypeOK, WaitOrKill, setup, pipes, env
<1>8. IdInv'
  <2>1. Asked' = Asked /\ Answered' = Answered
    BY Zenon DEF WaitOrKill, pipes, Asked, Answered
  <2>2. \A d \in Caller : Sent(d) \subseteq Sent(d)'
    BY <1>1, <1>3, <1>4, Zenon DEF Sent
  <2> QED BY <1>3, <2>1, <2>2, IdFrame, Zenon DEF IInv
<1>9. CalmInv'
  <2>1. stalls > 0 \/ ending \/ proc # "up"
    BY <1>1 DEF IInv, TypeOK, CalmInv, Orderly
  <2> QED BY <1>1, <1>3, <1>6, <2>1, GoneCalm, Zenon DEF IInv, WaitOrKill, setup, env
<1> QED BY <1>2, <1>7, <1>8, <1>9 DEF IInv

LEMMA KillStep == ASSUME IInv, NEW c \in Caller, Kill(c) PROVE IInv'
<1>1. pc[c] = "kill" /\ pc[c] \in Busy /\ launch = "up" /\ launch' = "up"
  BY BusyUp, Zenon DEF Kill, setup, Busy
<1>2. Before'
  BY <1>1, Zenon DEF Before
<1>3. CallersOK' /\ mistaken' \in BOOLEAN /\ ending' \in BOOLEAN
  BY <1>1, Returned, Zenon DEF IInv, Kill
<1>4. (proc # "up" => UNCHANGED <<proc, hungUp>>) /\ hungUp' \in BOOLEAN
  BY Killed, Zenon DEF IInv, TypeOK, Kill
<1>5. TypeOK'
  BY <1>3, <1>4, Zenon DEF IInv, TypeOK, Kill, setup, pipes, env
<1>6. IdInv'
  <2>1. Asked' = Asked /\ Answered' = Answered
    BY Zenon DEF Kill, pipes, Asked, Answered
  <2> QED BY <1>1, <2>1, ReturnedIds, Zenon DEF IInv, Kill
<1>7. CalmInv'
  <2>1. stalls > 0 \/ ending \/ proc # "up"
    BY <1>1 DEF IInv, TypeOK, CalmInv, Orderly
  <2> QED BY <1>1, <1>4, <2>1, GoneCalm, Zenon DEF IInv, Kill, Return, setup, env
<1> QED BY <1>2, <1>5, <1>6, <1>7 DEF IInv

LEMMA CancelExportStep == ASSUME IInv, NEW c \in Caller, CancelExport(c) PROVE IInv'
<1>1. job[c] = "export" /\ pc[c] \in Busy /\ launch = "up" /\ launch' = "up"
  BY BusyUp, Zenon DEF CancelExport, setup, Busy
<1>2. Before'
  BY <1>1, Zenon DEF Before
<1>3. CallersOK' /\ mistaken' \in BOOLEAN /\ ending' \in BOOLEAN
  BY <1>1, Returned, Zenon DEF IInv, CancelExport
<1>4. stdin' = stdin /\ stdout' = stdout /\ torn' \in BOOLEAN
  BY Zenon DEF CancelExport, Tear, pipes, IInv, TypeOK
<1>5. TypeOK'
  BY <1>3, <1>4, Zenon DEF IInv, TypeOK, CancelExport, setup, env
<1>6. IdInv'
  <2>1. Asked' = Asked /\ Answered' = Answered
    BY <1>4, Zenon DEF CancelExport, Asked, Answered
  <2> QED BY <1>1, <2>1, ReturnedIds, Zenon DEF IInv, CancelExport
<1>7. CalmInv'
  <2>1. stalls > 0 \/ ending \/ proc # "up"
    <3>1. stalls = 0 /\ ~ending /\ proc = "up" => job[c] \in {"none", "lease", "release"}
      BY <1>1, Zenon DEF IInv, CalmInv, Orderly
    <3>2. stalls \in Nat /\ ending \in BOOLEAN
      BY DEF IInv, TypeOK
    <3> QED BY <1>1, <3>1, <3>2
  <2> QED BY <1>1, <2>1, GoneCalm, Zenon DEF IInv, CancelExport, Return, setup, env
<1> QED BY <1>2, <1>5, <1>6, <1>7 DEF IInv

LEMMA DropStep == IInv /\ Drop => IInv'
<1> SUFFICES ASSUME IInv, Drop PROVE IInv'
  OBVIOUS
<1>1. launch = "up" /\ launch' = "up" /\ ~known
      /\ \A c \in Caller : pc[c] \in {"idle", "spawned", "done"}
  BY Zenon DEF Drop, Unused, setup
<1>2. Before'
  BY <1>1, Zenon DEF Before
<1>3. (proc # "up" => UNCHANGED <<proc, hungUp>>) /\ hungUp' \in BOOLEAN
  BY Killed, Zenon DEF IInv, TypeOK, Drop
<1>4. TypeOK'
  BY <1>3, Zenon DEF IInv, TypeOK, CallersOK, Drop, setup, pipes, callers, env, history
<1>5. IdInv'
  BY SameIds, Zenon DEF IInv, Drop, pipes, callers, history
<1>6. CalmInv'
  <2>1. stalls > 0 \/ ending \/ proc # "up"
    BY <1>1 DEF IInv, TypeOK, CalmInv, Orderly, Stopping
  <2> QED BY <1>1, <1>3, <2>1, GoneCalm, Zenon DEF IInv, Drop, setup, env, history
<1> QED BY <1>2, <1>4, <1>5, <1>6, Zenon DEF IInv

\* The answer to a caller's request, in the orderly connection.
LEMMA OwnAnswer ==
  ASSUME IInv, Orderly, NEW c \in Caller, pc[c] = "receive", responses # << >>
  PROVE  /\ Mine(c, Head(responses)) /\ Tail(responses) = << >>
         /\ stdin = << >> /\ NoAnswer(stdout)
<1>1. /\ stdin = << >> /\ NoAnswer(stdout)
      /\ OneAnswer(responses, Id(c)) /\ Len(responses) = 1
  BY Zenon DEF Orderly, OnItsWay
<1>2. responses \in Seq(Line)
  BY Zenon DEF IInv, TypeOK
<1>3. Tail(responses) = << >> /\ Head(responses) = responses[1] /\ 1..Len(responses) = {1}
  <2>1. Head(responses) = responses[1]
    BY <1>2, Taken, Zenon
  <2>2. Tail(responses) = << >>
    BY <1>1, <1>2, LastTaken, Zenon
  <2>3. 1..Len(responses) = {1}
    BY <1>1
  <2> QED BY <2>1, <2>2, <2>3, Zenon
<1>4. responses[1].event = "" /\ responses[1].id = Id(c)
  BY <1>1, <1>3, Zenon DEF OneAnswer
<1> QED BY <1>1, <1>3, <1>4, Zenon DEF Mine

LEMMA ReceiveStep == ASSUME IInv, NEW c \in Caller, Receive(c) PROVE IInv'
<1>1. pc[c] = "receive" /\ pc[c] \in Busy /\ launch = "up" /\ launch' = "up" /\ job[c] # "none"
  BY BusyUp, Zenon DEF Receive, setup, Busy, IInv, TypeOK, CallersOK
<1>2. Before'
  BY <1>1, Zenon DEF Before
<1>3. /\ responses' \in Seq(Line) /\ AnswersOf(responses') \subseteq AnswersOf(responses)
      /\ responses # << >> => Head(responses) \in Line
      /\ responses # << >> /\ Head(responses).event = "" => Head(responses).id \in Answered
  BY TailAnswers, Zenon DEF IInv, TypeOK, Receive, Answered
<1>4. Asked' = Asked /\ Answered' \subseteq Answered
  BY <1>3, Zenon DEF Receive, pipes, Asked, Answered
<1>5. ASSUME NEW ok \in BOOLEAN, Return(c, ok), ok => Id(c) \in served PROVE TypeOK' /\ IdInv'
  <2>1. CallersOK' /\ mistaken' \in BOOLEAN /\ ending' \in BOOLEAN
    BY <1>1, <1>5, Returned, Zenon DEF IInv
  <2>2. TypeOK'
    BY <1>3, <2>1, Zenon DEF IInv, TypeOK, Receive, setup, pipes, env
  <2>3. IdInv'
    BY <1>1, <1>4, <1>5, ReturnedIds, Zenon DEF IInv
  <2> QED BY <2>2, <2>3, Zenon
<1>6. ASSUME Return(c, FALSE) \/ (Goto(c, "kill") /\ Unlock(c)),
             stalls > 0 \/ ending \/ proc # "up"
      PROVE  IInv'
  <2>1. CASE Return(c, FALSE)
    <3>1. ending => ending'
      BY <2>1, Zenon DEF Return
    <3>2. CalmInv'
      BY <1>1, <1>6, <3>1, GoneCalm, Zenon DEF IInv, Receive, setup, env
    <3> QED BY <1>2, <1>5, <2>1, <3>2, Zenon DEF IInv
  <2>2. CASE Goto(c, "kill") /\ Unlock(c)
    <3>1. /\ pc' = [pc EXCEPT ![c] = "kill"] /\ UNCHANGED <<job, served, mistaken, ending>>
          /\ operation' \in Caller \cup {NoOne}
      BY <2>2, Zenon DEF Goto, history, Unlock, IInv, TypeOK, CallersOK
    <3>2. pc'[c] = "kill" /\ \A d \in Caller : d # c => pc'[d] = pc[d]
      BY <3>1, Zenon DEF IInv, TypeOK, CallersOK
    <3>3. CallersOK'
      BY <1>1, <3>1, Zenon DEF IInv, TypeOK, CallersOK, Busy
    <3>4. TypeOK'
      BY <1>3, <3>1, <3>3, Zenon DEF IInv, TypeOK, Receive, setup, pipes, env
    <3>5. \A d \in Caller : Sent(d) \subseteq Sent(d)'
      BY <1>1, <3>1, <3>2, Zenon DEF Sent
    <3>6. IdInv'
      BY <1>4, <3>1, <3>5, IdFrame, Zenon DEF IInv
    <3>7. CalmInv'
      BY <1>1, <1>6, <3>1, GoneCalm, Zenon DEF IInv, Receive, setup, env
    <3> QED BY <1>2, <3>4, <3>6, <3>7 DEF IInv
  <2> QED BY <1>6, <2>1, <2>2, Zenon
<1>7. CASE responses # << >> /\ Mine(c, Head(responses))
  <2> DEFINE ok == Head(responses).ok
  <2>1. ok \in BOOLEAN /\ Return(c, ok) /\ responses' = Tail(responses)
    BY <1>3, <1>7, Zenon DEF Receive, Line
  <2> HIDE DEF ok
  <2>2. Id(c) \in served
    BY <1>3, <1>7, Zenon DEF Mine, IInv, IdInv
  <2>3. TypeOK' /\ IdInv'
    BY <1>5, <2>1, <2>2, Zenon
  <2>4. CalmInv'
    <3>1. CASE stalls > 0 \/ ending \/ proc # "up"
      BY <1>1, <2>1, <3>1, GoneCalm, Zenon DEF IInv, Receive, Return, setup, env
    <3>2. CASE stalls = 0 /\ ~ending /\ proc = "up"
      <4>1. Orderly
        BY <1>1, <3>2, Zenon DEF IInv, CalmInv
      <4>2. Tail(responses) = << >> /\ stdin = << >> /\ NoAnswer(stdout)
        BY <1>1, <1>7, <4>1, OwnAnswer, Zenon
      <4>3. Nothing'
        BY <2>1, <4>2, Zenon DEF Nothing, Receive, pipes
      <4>4. job[c] = "lease" \/ (job[c] = "release" /\ ~Service)
        BY <1>1, <4>1, <4>2, Zenon DEF Orderly
      <4>5. CASE ending'
        BY <4>5, Zenon DEF CalmInv
      <4>6. CASE ~ending'
        <5>1. JobAfter(c, ok) = "none" /\ ~(job[c] = "release" /\ kind[c] # "leave")
          <6>1. ~(~Service /\ JobAfter(c, ok) = "shutdown")
            BY <2>1, <4>6, Zenon DEF Return
          <6>2. CASE job[c] = "lease"
            BY <6>2, Zenon DEF JobAfter
          <6>3. CASE job[c] = "release" /\ JobAfter(c, ok) # "shutdown"
            BY <6>3 DEF JobAfter
          <6> QED BY <4>4, <6>1, <6>2, <6>3, Zenon
        <5>2. /\ job' = [job EXCEPT ![c] = "none"] /\ pc' = [pc EXCEPT ![c] = "done"]
              /\ operation' = IF operation = c THEN NoOne ELSE operation
          BY <2>1, <5>1, Zenon DEF Return, Unlock
        <5>3. /\ job'[c] = "none" /\ pc'[c] = "done"
              /\ \A d \in Caller : d # c => job'[d] = job[d] /\ pc'[d] = pc[d]
          BY <5>2, Zenon DEF IInv, TypeOK, CallersOK
        <5>4. operation = c /\ operation' = NoOne
          BY <1>1, <4>1, <5>2, Zenon DEF Orderly
        <5>5. (known \/ Stopping)'
          <6>1. UNCHANGED <<kind, known>>
            BY Zenon DEF Receive, setup
          <6>2. CASE known
            BY <6>1, <6>2, Zenon
          <6>3. CASE Stopping
            <7>1. PICK d \in Caller : /\ kind[d] \in {"stop", "end"} /\ job[d] = "release"
                                      /\ pc[d] \in {"operation", "write", "receive"}
              BY <6>3, Zenon DEF Stopping
            <7>2. d # c
              BY <5>1, <7>1, Zenon
            <7> QED BY <5>3, <6>1, <7>1, <7>2, Zenon DEF Stopping
          <6> QED BY <4>1, <6>2, <6>3, Zenon DEF Orderly
        <5>6. ASSUME NEW d \in Caller
              PROVE  /\ pc'[d] \notin {"wait", "kill"} /\ job'[d] \in {"none", "lease", "release"}
                     /\ pc'[d] \in {"write", "receive"} <=> operation' = d
                     /\ pc'[d] # "receive"
          BY <4>1, <5>3, <5>4, CallerAssumption, Zenon DEF Orderly
        <5>7. ~torn' /\ reader' = "reading"
          BY <4>1, Zenon DEF Orderly, Receive, pipes
        <5>8. Orderly'
          BY <4>3, <5>5, <5>6, <5>7, Zenon DEF Orderly
        <5> QED BY <1>1, <3>2, <5>8, Zenon DEF IInv, CalmInv, Receive, setup, env
      <4> QED BY <2>3, <4>5, <4>6, Zenon DEF TypeOK
    <3> QED BY <3>1, <3>2 DEF IInv, TypeOK
  <2> QED BY <1>2, <2>3, <2>4, Zenon DEF IInv
<1>8. CASE responses # << >> /\ ~Mine(c, Head(responses))
  <2>1. stalls > 0 \/ ending \/ proc # "up"
    BY <1>1, <1>8, OwnAnswer DEF IInv, TypeOK, CalmInv
  <2>2. Return(c, FALSE) \/ (Goto(c, "kill") /\ Unlock(c))
    BY <1>8, Zenon DEF Receive
  <2> QED BY <1>6, <2>1, <2>2, Zenon
<1>9. CASE responses = << >>
  <2>1. stalls > 0 \/ ending \/ proc # "up"
    <3>1. reader # "reading" \/ stalled \/ job[c] = "shutdown" \/ job[c] = "export"
      BY <1>9, Zenon DEF Receive, Late, Short
    <3>2. stalls = 0 /\ ~ending /\ proc = "up" =>
            reader = "reading" /\ ~stalled /\ job[c] \in {"none", "lease", "release"}
      BY <1>1, Zenon DEF IInv, CalmInv, Orderly
    <3>3. stalls \in Nat /\ ending \in BOOLEAN
      BY DEF IInv, TypeOK
    <3> QED BY <3>1, <3>2, <3>3
  <2>2. Return(c, FALSE) \/ (Goto(c, "kill") /\ Unlock(c))
    BY <1>9, Zenon DEF Receive
  <2> QED BY <1>6, <2>1, <2>2
<1> QED BY <1>7, <1>8, <1>9, Zenon

-----------------------------------------------------------------------------
(* The reader task. *)

LEMMA ReadStep == IInv /\ Read => IInv'
<1> SUFFICES ASSUME IInv, Read PROVE IInv'
  OBVIOUS
<1> DEFINE line == Head(stdout)
<1>1. launch = "up" /\ launch' = "up" /\ reader = "reading" /\ stdout # << >> /\ stdout' = Tail(stdout)
  BY Zenon DEF Read, IInv, Before, setup
<1>2. /\ stdout' \in Seq(Line) /\ line \in Line
      /\ AnswersOf(stdout') \subseteq AnswersOf(stdout)
      /\ line.event = "" => line.id \in AnswersOf(stdout)
  BY <1>1, TailAnswers, Zenon DEF IInv, TypeOK
<1>3. \/ IsEvent(line) /\ Spawned(line) /\ UNCHANGED <<reader, responses>>
      \/ ~IsEvent(line) /\ Unused /\ reader' = "done" /\ UNCHANGED <<pc, responses>>
      \/ ~IsEvent(line) /\ ~Unused /\ responses' = Append(responses, line) /\ UNCHANGED <<pc, reader>>
  BY Zenon DEF Read, ExecutorEvent, IsEvent
<1> HIDE DEF line
<1>4. /\ responses' \in Seq(Line)
      /\ AnswersOf(responses') \subseteq AnswersOf(responses) \cup AnswersOf(stdout)
  <2>1. responses \in Seq(Line)
    BY Zenon DEF IInv, TypeOK
  <2>2. CASE responses' = responses
    BY <2>1, <2>2, Zenon
  <2>3. CASE responses' = Append(responses, line)
    BY <1>2, <2>1, <2>3, AppendAnswers, Zenon
  <2> QED BY <1>3, <2>2, <2>3, Zenon
<1>5. /\ pc' \in [Caller -> {"idle", "spawned", "done"} \cup Busy]
      /\ \A c \in Caller : pc'[c] = pc[c] \/ (pc[c] = "idle" /\ pc'[c] = "spawned")
  <2>1. CASE pc' = pc
    BY <2>1, Zenon DEF IInv, TypeOK, CallersOK
  <2>2. CASE Spawned(line)
    BY <2>2, Zenon DEF Spawned, IInv, TypeOK, CallersOK
  <2> QED BY <1>3, <2>1, <2>2, Zenon
<1>6. UNCHANGED <<kind, use, known, proc, hungUp, stdin, torn, operation, job, stalled, stalls, served,
                  mistaken, ending>>
  BY Zenon DEF Read, setup, env, history
<1>7. TypeOK'
  <2>1. CallersOK'
    BY <1>5, <1>6, Zenon DEF IInv, TypeOK, CallersOK, Busy
  <2> QED BY <1>2, <1>4, <1>6, <2>1, Zenon DEF IInv, TypeOK
<1>8. Before'
  BY <1>1, Zenon DEF Before
<1>9. IdInv'
  <2>1. Asked' = Asked /\ Answered' \subseteq Answered
    BY <1>2, <1>4, <1>6, Zenon DEF Asked, Answered
  <2>2. \A c \in Caller : Sent(c) \subseteq Sent(c)'
    BY <1>5, <1>6, Zenon DEF Sent
  <2> QED BY <1>6, <2>1, <2>2, IdFrame, Zenon DEF IInv
<1>10. CalmInv'
  <2>1. SUFFICES ASSUME stalls = 0, ~ending, proc = "up" PROVE Orderly'
    BY <1>1, <1>6, Zenon DEF IInv, CalmInv
  <2>2. Orderly
    BY <1>1, <2>1, Zenon DEF IInv, CalmInv
  <2>3. ~Unused
    BY <2>2, Zenon DEF Orderly, Unused, Stopping
  <2>4. (known \/ Stopping)'
    BY <1>5, <1>6, <2>2, Zenon DEF Orderly, Stopping
  <2>5. /\ ~torn' /\ reader' = "reading"
        /\ \A d \in Caller :
              /\ pc'[d] \notin {"wait", "kill"} /\ job'[d] \in {"none", "lease", "release"}
              /\ pc'[d] \in {"write", "receive"} <=> operation' = d
              /\ pc'[d] = "receive" <=> pc[d] = "receive"
    BY <1>1, <1>3, <1>5, <1>6, <2>2, <2>3, Zenon DEF Orderly
  <2>6. stdout \in Seq(Line) /\ responses \in Seq(Line)
    BY Zenon DEF IInv, TypeOK
  <2>7. ASSUME Nothing PROVE Nothing'
    <3>1. NoAnswer(stdout') /\ IsEvent(line)
      BY <1>1, <2>6, <2>7, LineTaken, Zenon DEF Nothing, line
    <3> QED BY <1>3, <1>6, <2>7, <3>1, Zenon DEF Nothing
  <2>8. ASSUME NEW id, OnItsWay(id) PROVE OnItsWay(id)'
    <3>1. CASE NoAnswer(stdout)
      <4>1. NoAnswer(stdout') /\ IsEvent(line)
        BY <1>1, <2>6, <3>1, LineTaken, Zenon DEF line
      <4>2. ~OneAnswer(stdout, id)
        BY <3>1, Zenon DEF OneAnswer, NoAnswer, IsEvent
      <4> QED BY <1>3, <1>6, <2>8, <4>1, <4>2, Zenon DEF OnItsWay
    <3>2. CASE stdin = << >> /\ OneAnswer(stdout, id) /\ responses = << >>
      <4>1. CASE IsEvent(line)
        <5>1. OneAnswer(stdout', id)
          BY <1>1, <2>6, <3>2, <4>1, LineTaken, Zenon DEF line
        <5> QED BY <1>3, <1>6, <3>2, <4>1, <5>1, Zenon DEF OnItsWay
      <4>2. CASE ~IsEvent(line)
        <5>1. NoAnswer(stdout') /\ line.event = "" /\ line.id = id
          BY <1>1, <2>6, <3>2, <4>2, LineTaken, Zenon DEF line
        <5>2. responses' = Append(responses, line) /\ Len(responses') = 1
          <6>1. responses' = Append(responses, line)
            BY <1>3, <2>3, <4>2, Zenon
          <6>2. Len(responses') = Len(responses) + 1 /\ Len(responses) = 0
            BY <1>2, <2>6, <3>2, <6>1, Appended, Zenon
          <6> QED BY <6>1, <6>2
        <5>3. NoAnswer(responses)
          BY <3>2 DEF NoAnswer
        <5>4. OneAnswer(responses', id)
          BY <1>2, <2>6, <5>1, <5>2, <5>3, AnswerAppended, Zenon
        <5> QED BY <1>6, <3>2, <5>1, <5>2, <5>4, Zenon DEF OnItsWay
      <4> QED BY <4>1, <4>2, Zenon
    <3> QED BY <2>8, <3>1, <3>2, Zenon DEF OnItsWay
  <2>9. ASSUME NEW d \in Caller, pc'[d] = "receive"
        PROVE  OnItsWay(Id(d))' /\ (job'[d] = "release" /\ Service' => stdin' # << >>)
    <3>1. OnItsWay(Id(d)) /\ (job[d] = "release" /\ Service => stdin # << >>)
      BY <2>2, <2>5, <2>9, Zenon DEF Orderly
    <3>2. PICK id : id = Id(d)
      BY Zenon
    <3>3. OnItsWay(id)' /\ Id(d)' = id
      BY <1>6, <2>8, <3>1, <3>2, Zenon DEF Id
    <3>4. OnItsWay(Id(d))'
      BY <3>3, Zenon DEF OnItsWay
    <3> QED BY <1>6, <3>1, <3>4, Zenon DEF Service
  <2> QED BY <2>2, <2>4, <2>5, <2>7, <2>9, Zenon DEF Orderly
<1> QED BY <1>7, <1>8, <1>9, <1>10 DEF IInv

LEMMA ReadEofStep == IInv /\ ReadEof => IInv'
<1> SUFFICES ASSUME IInv, ReadEof PROVE IInv'
  OBVIOUS
<1>1. launch = "up" /\ launch' = "up" /\ known' \in BOOLEAN
  BY Zenon DEF ReadEof, IInv, Before, TypeOK, setup
<1>2. responses' \in Seq(Line) /\ AnswersOf(responses') \subseteq AnswersOf(responses)
  <2>1. Eof \in Line /\ Eof.event # "" /\ responses \in Seq(Line)
    BY Zenon DEF Eof, Event, Line, LineId, IInv, TypeOK
  <2>2. responses' = responses \/ responses' = Append(responses, Eof)
    BY Zenon DEF ReadEof
  <2> QED BY <2>1, <2>2, AppendAnswers, Zenon
<1>3. TypeOK'
  BY <1>1, <1>2, Zenon DEF IInv, TypeOK, CallersOK, ReadEof, setup, pipes, callers, env, history
<1>4. Before'
  BY <1>1, Zenon DEF Before
<1>5. IdInv'
  <2>1. /\ Asked' = Asked /\ Answered' \subseteq Answered
        /\ \A c \in Caller : Sent(c)' = Sent(c)
    BY <1>2, Zenon DEF Asked, Answered, Sent, ReadEof, pipes, callers
  <2> QED BY <2>1, IdFrame, Zenon DEF IInv, ReadEof, callers, history
<1>6. CalmInv'
  <2>1. stalls > 0 \/ ending \/ proc # "up"
    BY <1>1 DEF IInv, TypeOK, CalmInv, Orderly, ReadEof
  <2> QED BY <1>1, <2>1, GoneCalm, Zenon DEF IInv, ReadEof, setup, env, history
<1> QED BY <1>3, <1>4, <1>5, <1>6 DEF IInv

-----------------------------------------------------------------------------
(* The executor. *)

LEMMA ServeStep == IInv /\ Serve => IInv'
<1> SUFFICES ASSUME IInv, Serve PROVE IInv'
  OBVIOUS
<1>1. PICK id : id = Head(stdin)
  BY Zenon
<1>2. /\ proc = "up" /\ stdin # << >> /\ stdin \in Seq(LineId) /\ stdin' = Tail(stdin)
      /\ served' = served \cup ({id} \cap {Id(c) : c \in Caller})
      /\ ending' = (ending \/ (Service /\ id[2] = "release"))
      /\ proc' = IF id[2] = "shutdown" THEN "exited" ELSE proc
      /\ stdout \in Seq(Line)
  BY <1>1, Zenon DEF Serve, IInv, TypeOK
<1>3. PICK ok \in BOOLEAN : stdout' = Append(stdout, Answer(id, ok))
  BY <1>1, Zenon DEF Serve
<1>4. /\ stdin' \in Seq(LineId) /\ id \in LineId
      /\ Elems(stdin') \subseteq Elems(stdin) /\ id \in Elems(stdin)
  BY <1>1, <1>2, TailElems, Zenon
<1>5. PICK l \in Line : l = Answer(id, ok) /\ l.event = "" /\ l.id = id
  <2>1. Answer(id, ok) \in Line
    BY <1>4, Zenon DEF Answer, Line
  <2>2. Answer(id, ok).event = "" /\ Answer(id, ok).id = id
    BY Zenon DEF Answer
  <2> QED BY <2>1, <2>2, Zenon
<1>6. stdout' \in Seq(Line) /\ AnswersOf(stdout') \subseteq AnswersOf(stdout) \cup {id}
  BY <1>2, <1>3, <1>5, AppendAnswers, Zenon
<1>7. UNCHANGED <<kind, use, launch, known, hungUp, torn, reader, responses, operation, pc, job, stalled,
                  stalls, mistaken>>
  BY Zenon DEF Serve, setup, callers, env
<1>8. TypeOK'
  BY <1>2, <1>4, <1>6, <1>7, Zenon DEF IInv, TypeOK, CallersOK
<1>9. Before'
  BY <1>7, Zenon DEF IInv, Before
<1>10. IdInv'
  <2>1. Asked' \subseteq Asked /\ id \in Asked /\ Answered' \subseteq Answered \cup {id}
    BY <1>4, <1>6, <1>7, Zenon DEF Asked, Answered
  <2>2. \A c \in Caller : Sent(c)' = Sent(c) /\ Id(c)' = Id(c)
    BY <1>7, Zenon DEF Sent, Id
  <2>3. ASSUME NEW c \in Caller, NEW j \in Job, <<c, j>> \in (Asked \cup Answered)' PROVE j \in Sent(c)'
    BY <2>1, <2>2, <2>3, Zenon DEF IInv, IdInv
  <2>4. ASSUME NEW c \in Caller, Id(c)' \in Answered' PROVE Id(c)' \in served'
    BY <1>2, <2>1, <2>2, <2>4, Zenon DEF IInv, IdInv
  <2> QED BY <1>7, <2>3, <2>4, Zenon DEF IInv, IdInv, OkMeansServed
<1>11. CalmInv'
  <2>1. SUFFICES ASSUME stalls = 0, ~ending' PROVE CalmInv'
    BY <1>7, Zenon DEF CalmInv
  <2>2. ~ending /\ ~stalled /\ ~(Service /\ id[2] = "release")
    BY <1>2, <2>1, Zenon DEF IInv, CalmInv
  <2>3. ASSUME NEW x, stdin = <<x>> PROVE id = x /\ stdin' = << >>
    BY <1>1, <1>2, <2>3
  <2>4. CASE launch \in {"connect", "write"}
    BY <1>2, <2>1, <2>2, <2>4, Zenon DEF IInv, CalmInv
  <2>5. CASE launch = "read"
    <3>1. stdin = <<First>> /\ stdout = << >> /\ ~torn /\ ~hungUp
      BY <1>2, <2>1, <2>2, <2>5, Zenon DEF IInv, CalmInv
    <3>2. stdin' = << >> /\ id = First
      BY <2>3, <3>1, Zenon
    <3>3. Len(stdout') = 1
      BY <1>3, <3>1
    <3>4. proc' # "killed"
      BY <1>2, Zenon
    <3> QED BY <1>7, <2>2, <2>5, <3>1, <3>2, <3>3, <3>4, Zenon DEF CalmInv
  <2>6. CASE launch = "up"
    <3>1. Orderly /\ ~hungUp
      BY <1>2, <2>1, <2>2, <2>6, Zenon DEF IInv, CalmInv
    <3>2. PICK c \in Caller : pc[c] = "receive"
      BY <1>2, <3>1, Zenon DEF Orderly, Nothing
    <3>3. stdin = <<Id(c)>> /\ NoAnswer(stdout) /\ responses = << >>
      BY <1>2, <3>1, <3>2, Zenon DEF Orderly, OnItsWay
    <3>4. stdin' = << >> /\ id = Id(c)
      <4>1. PICK x : x = Id(c)
        BY Zenon
      <4> QED BY <2>3, <3>3, <4>1, Zenon
    <3>5. id[2] = job[c] /\ job[c] \in {"none", "lease", "release"}
      BY <3>1, <3>4, Zenon DEF Id, Orderly
    <3>6. ~(job[c] = "release" /\ Service) /\ proc' = "up"
      BY <1>2, <2>2, <3>5, Zenon
    <3>7. OneAnswer(stdout', id)
      BY <1>2, <1>3, <1>5, <3>3, AnswerAppended, Zenon
    <3>8. OnItsWay(Id(c))'
      <4>1. Id(c)' = id
        BY <1>7, <3>4, Zenon DEF Id
      <4> QED BY <1>7, <3>3, <3>4, <3>7, <4>1, Zenon DEF OnItsWay
    <3>9. \A d \in Caller : pc[d] = "receive" => d = c
      BY <3>1, <3>2, Zenon DEF Orderly
    <3>10. (known \/ Stopping)'
      BY <1>7, <3>1, Zenon DEF Orderly, Stopping
    <3>11. ASSUME NEW d \in Caller
           PROVE  /\ pc'[d] \notin {"wait", "kill"} /\ job'[d] \in {"none", "lease", "release"}
                  /\ pc'[d] \in {"write", "receive"} <=> operation' = d
                  /\ pc'[d] = "receive" => d = c
      BY <1>7, <3>1, <3>9, Zenon DEF Orderly
    <3>12. ~torn' /\ reader' = "reading" /\ pc'[c] = "receive" /\ ~(job'[c] = "release" /\ Service')
      BY <1>7, <3>1, <3>2, <3>6, Zenon DEF Orderly, Service
    <3>13. Orderly'
      BY <3>8, <3>10, <3>11, <3>12, Zenon DEF Orderly
    <3> QED BY <1>7, <2>2, <2>6, <3>1, <3>6, <3>13, Zenon DEF CalmInv
  <2>7. CASE launch \notin {"connect", "write", "read", "up"}
    BY <1>7, <2>2, <2>7, Zenon DEF CalmInv
  <2> QED BY <2>4, <2>5, <2>6, <2>7, Zenon
<1> QED BY <1>8, <1>9, <1>10, <1>11, Zenon DEF IInv

LEMMA ReportStep == ASSUME IInv, NEW e \in {"audited", "exit"}, Report(e) PROVE IInv'
<1>1. PICK l \in Line : l = Event(e) /\ IsEvent(l) /\ l.event # ""
  <2>1. Event(e) \in Line
    BY Zenon DEF Event, Line, LineId
  <2>2. Event(e).event = e
    BY Zenon DEF Event
  <2> QED BY <2>1, <2>2, Zenon DEF IsEvent
<1>2. launch = "up" /\ stdout' = Append(stdout, l) /\ stdout \in Seq(Line)
  BY <1>1, Zenon DEF Report, IInv, TypeOK
<1>3. stdout' \in Seq(Line) /\ AnswersOf(stdout') \subseteq AnswersOf(stdout)
  BY <1>1, <1>2, AppendAnswers, Zenon
<1>4. UNCHANGED <<kind, use, launch, known, proc, hungUp, stdin, torn, reader, responses, operation, pc,
                  job, stalled, stalls, served, mistaken, ending>>
  BY Zenon DEF Report, setup, callers, history
<1>5. TypeOK'
  BY <1>3, <1>4, Zenon DEF IInv, TypeOK, CallersOK
<1>6. Before'
  BY <1>2, <1>4, Zenon DEF Before
<1>7. IdInv'
  <2>1. /\ Asked' = Asked /\ Answered' \subseteq Answered
        /\ \A c \in Caller : Sent(c)' = Sent(c)
    BY <1>3, <1>4, Zenon DEF Asked, Answered, Sent
  <2> QED BY <1>4, <2>1, IdFrame, Zenon DEF IInv
<1>8. CalmInv'
  <2>1. SUFFICES ASSUME stalls = 0, ~ending, proc = "up" PROVE Orderly'
    BY <1>2, <1>4, Zenon DEF IInv, CalmInv
  <2>2. Orderly
    BY <1>2, <2>1, Zenon DEF IInv, CalmInv
  <2>3. Nothing => Nothing'
    BY <1>1, <1>2, <1>4, EventAppended, Zenon DEF Nothing
  <2>4. ASSUME NEW c \in Caller, pc[c] = "receive" PROVE OnItsWay(Id(c))'
    <3>1. PICK id : id = Id(c)
      BY Zenon
    <3>2. Id(c)' = id /\ OnItsWay(id)
      BY <1>4, <2>2, <2>4, <3>1, Zenon DEF Id, Orderly
    <3>3. /\ NoAnswer(stdout) => NoAnswer(stdout')
          /\ OneAnswer(stdout, id) => OneAnswer(stdout', id)
      BY <1>1, <1>2, EventAppended, Zenon
    <3> QED BY <1>4, <3>2, <3>3, Zenon DEF OnItsWay
  <2>5. (known \/ Stopping)' /\ Service' = Service
    BY <1>4, <2>2, Zenon DEF Orderly, Stopping, Service
  <2> QED BY <1>4, <2>2, <2>3, <2>4, <2>5, Zenon DEF Orderly
<1> QED BY <1>5, <1>6, <1>7, <1>8, Zenon DEF IInv

\* What changes neither lines nor callers, but the executor or its time.
LEMMA ExecutorStep == IInv /\ (Exit \/ Stall \/ GoOn) => IInv'
<1> SUFFICES ASSUME IInv, Exit \/ Stall \/ GoOn PROVE IInv'
  BY Zenon
<1>1. UNCHANGED <<kind, use, launch, known, hungUp, stdin, torn, stdout, reader, responses, operation, pc,
                  job, served, mistaken, ending>>
  BY Zenon DEF Exit, Stall, GoOn, setup, pipes, callers, history
<1>2. TypeOK'
  <2>1. stalled' \in BOOLEAN /\ stalls' \in Nat
    <3>1. CASE Exit
      BY <3>1, Zenon DEF IInv, TypeOK, Exit, env
    <3>2. CASE Stall
      BY <3>2 DEF IInv, TypeOK, Stall
    <3>3. CASE GoOn
      BY <3>3, Zenon DEF IInv, TypeOK, GoOn
    <3> QED BY <3>1, <3>2, <3>3, Zenon
  <2> QED BY <1>1, <2>1, Zenon DEF IInv, TypeOK, CallersOK
<1>3. Before'
  BY <1>1, Zenon DEF IInv, Before
<1>4. IdInv'
  BY <1>1, SameIds, Zenon DEF IInv
<1>5. CalmInv'
  <2>1. CASE Exit
    <3>1. UNCHANGED <<stalled, stalls>> /\ proc' \notin {"up", "killed"}
      BY <2>1, Zenon DEF Exit, env
    <3> QED BY <1>1, <3>1, Zenon DEF IInv, CalmInv
  <2>2. CASE Stall
    <3>1. stalls' # 0
      BY <2>2 DEF Stall, IInv, TypeOK
    <3> QED BY <3>1, Zenon DEF CalmInv
  <2>3. CASE GoOn
    BY <1>1, <2>3, Zenon DEF IInv, CalmInv, GoOn
  <2> QED BY <2>1, <2>2, <2>3, Zenon
<1> QED BY <1>2, <1>3, <1>4, <1>5, Zenon DEF IInv

-----------------------------------------------------------------------------
(* The theorems. *)

LEMMA InitInv == Init => IInv
<1> SUFFICES ASSUME Init PROVE IInv
  BY Zenon
<1>1. TypeOK
  <2>1. CallersOK
    BY Zenon DEF Init, CallersOK, Busy
  <2>2. kind \in [Caller -> {"join", "leave", "close", "stop", "end"}]
    BY CallerAssumption, Zenon DEF Init
  <2>3. stdin \in Seq(LineId) /\ stdout \in Seq(Line) /\ responses \in Seq(Line)
    BY DEF Init
  <2> QED BY <2>1, <2>2, <2>3, Zenon DEF Init, TypeOK
<1>2. Before
  BY Zenon DEF Init, Before
<1>3. IdInv
  <2>1. Asked = {} /\ Answered = {}
    BY DEF Init, Asked, Elems, Answered, AnswersOf
  <2> QED BY <2>1, Zenon DEF Init, IdInv, OkMeansServed
<1>4. CalmInv
  BY Zenon DEF Init, CalmInv
<1> QED BY <1>1, <1>2, <1>3, <1>4, Zenon DEF IInv

LEMMA Stutter == IInv /\ UNCHANGED vars => IInv'
<1> SUFFICES ASSUME IInv, UNCHANGED vars PROVE IInv'
  BY Zenon
<1>1. UNCHANGED <<kind, use, launch, known, proc, hungUp, stdin, torn, stdout, reader, responses,
                  operation, pc, job, stalled, stalls, served, mistaken, ending>>
  BY Zenon DEF vars, setup, pipes, callers, env, history
<1>2. TypeOK' /\ Before'
  BY <1>1 DEF IInv, TypeOK, CallersOK, Before
<1>3. IdInv'
  BY <1>1, SameIds, Zenon DEF IInv
<1>4. (Orderly <=> Orderly')
  BY <1>1 DEF Orderly, Stopping, Service, Nothing, OnItsWay, Id
<1>5. CalmInv'
  BY <1>1, <1>4, Zenon DEF IInv, CalmInv
<1> QED BY <1>2, <1>3, <1>5, Zenon DEF IInv

\* The inductive invariant of the executor connection: the callers are at a request they have not
\* sent before, and an executor that nobody closes and that has not stalled sees one request at a
\* time, to which alone it owes an answer.
THEOREM Invariance == Spec => []IInv
<1>1. IInv /\ [Next]_vars => IInv'
  BY ConnectStep, WriteFirstStep, ReadFirstStep, RefuseStep, SayFarewellStep, BeginStep,
     LockOperationStep, WriteStep, WaitOrKillStep, ReceiveStep, KillStep, CancelExportStep, DropStep,
     ReadStep, ReadEofStep, ServeStep, ReportStep, ExecutorStep, Stutter, Zenon
     DEF Next, Launching, Calling
<1> QED BY <1>1, InitInv, PTL DEF Spec

\* A request that executor_request answers with Ok was served by the executor: neither the late
\* answer of a request that was given up, nor an event, nor the end of the output is taken for its
\* answer.
THEOREM NoAnswerMistaken == Spec => []OkMeansServed
<1>1. IInv => OkMeansServed
  BY Zenon DEF IInv, IdInv
<1> QED BY <1>1, Invariance, PTL

\* An executor that has never stalled is killed or hung up on only once its browser is being
\* closed, or its service was asked to stop.
THEOREM NoneCutOff == Spec => []CutOffForCause
<1>1. IInv => CutOffForCause
  BY DEF IInv, TypeOK, CalmInv, CutOffForCause
<1> QED BY <1>1, Invariance, PTL

=============================================================================
