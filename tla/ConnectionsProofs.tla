-------------------------- MODULE ConnectionsProofs --------------------------
(***************************************************************************)
(* Three facts about the daemon's connections, for any set of connections,  *)
(* any limit and any number of requests:                                    *)
(*                                                                          *)
(*  - the counter of unauthenticated TCP connections is exact (IInv: it is  *)
(*    counted after the end of the process too, and no connection is        *)
(*    dialled twice);                                                       *)
(*  - a revoked peer is served nothing that it sends afterwards (AskInv: no *)
(*    request is in two places, so those handled, on their way and waiting  *)
(*    in the bridge are never more than those sent);                        *)
(*  - a refusal reaches the client of the bridge (TellInv: it waits in a    *)
(*    connection that is not reset until the bridge has read it).           *)
(***************************************************************************)
EXTENDS Connections, FiniteSetTheorems, TLAPS

Stage == {"none", "backlog", "preamble", "queued", "read", "handle", "draining",
          "spliced", "closed"}

\* The connections that have not yet said who they are.
Unknown == {c \in Conn : at[c] = "preamble"}

TypeOK ==
    /\ at \in [Conn -> Stage]
    /\ client \in [Conn -> {"idle", "dialled", "open", "closed"}]

\* A client that has not dialled has no connection.
Fresh == \A c \in Conn : client[c] = "idle" => at[c] = "none"

IInv ==
    /\ TypeOK /\ Fresh
    /\ pending = Cardinality(Unknown)
    /\ pending <= Limit

\* Whoever has not dialled after the step had not before it, and nothing happened to it.
FreshKept ==
    \A d \in Conn : client'[d] = "idle" => client[d] = "idle" /\ at'[d] = at[d]

\* Nobody joins or leaves the unknown.
Quiet == pending' = pending /\ \A d \in Conn : at'[d] = "preamble" <=> at[d] = "preamble"

-----------------------------------------------------------------------------

LEMMA Counted == IsFiniteSet(Unknown) /\ Cardinality(Unknown) \in Nat
<1>1. IsFiniteSet(Unknown)
  BY ConnAssumption, FS_Subset, Zenon DEF Unknown
<1> QED
  BY <1>1, FS_CardinalityType, Zenon

LEMMA QuietKeeps == IInv /\ TypeOK' /\ FreshKept /\ Quiet => IInv'
<1> SUFFICES ASSUME IInv, TypeOK', FreshKept, Quiet PROVE IInv'
  BY Zenon
<1>1. Unknown' = Unknown
  BY Zenon DEF Quiet, Unknown
<1>2. Fresh'
  BY Zenon DEF IInv, Fresh, FreshKept
<1> QED
  BY <1>1, <1>2, Zenon DEF IInv, Quiet

\* The daemon moves one connection, which is not fresh, and no client.
LEMMA Moved ==
  ASSUME IInv, NEW c \in Conn, NEW x \in Stage, at[c] # "none",
         at' = [at EXCEPT ![c] = x], client' = client
  PROVE  TypeOK' /\ FreshKept /\ \A d \in Conn : at'[d] = IF d = c THEN x ELSE at[d]
<1>1. client[c] # "idle"
  BY Zenon DEF IInv, Fresh
<1> QED
  BY <1>1, Zenon DEF IInv, TypeOK, FreshKept

\* Between two stages other than reading the preamble, nothing is counted.
LEMMA MovedQuietly ==
  ASSUME IInv, NEW c \in Conn, NEW x \in Stage \ {"preamble"}, at[c] \notin {"none", "preamble"},
         at' = [at EXCEPT ![c] = x], client' = client, pending' = pending
  PROVE  IInv'
<1>1. TypeOK' /\ FreshKept /\ \A d \in Conn : at'[d] = IF d = c THEN x ELSE at[d]
  BY Moved, Zenon
<1>2. Quiet
  BY <1>1, Zenon DEF Quiet
<1> QED
  BY <1>1, <1>2, QuietKeeps, Zenon

\* Clients and the bridge do not touch the counter: they dial once.
LEMMA DialKeeps == ASSUME IInv, NEW c \in Conn, Dial(c) \/ BridgeDial(c) PROVE IInv'
<1>1. at[c] = "none" /\ client[c] = "idle" /\ pending' = pending
  BY Zenon DEF IInv, Fresh, Dial, BridgeDial
<1>2. PICK y \in {"dialled", "open", "closed"} : client' = [client EXCEPT ![c] = y]
  BY Zenon DEF Dial, BridgeDial, Leave
<1>3. at' = at \/ at' = [at EXCEPT ![c] = "backlog"]
  BY Zenon DEF Dial, BridgeDial
<1>4. TypeOK'
  BY <1>2, <1>3, Zenon DEF IInv, TypeOK, Stage
<1>5. FreshKept
  BY <1>2, <1>3, Zenon DEF IInv, TypeOK, FreshKept
<1>6. Quiet
  BY <1>1, <1>3, Zenon DEF IInv, TypeOK, Quiet
<1> QED
  BY <1>4, <1>5, <1>6, QuietKeeps, Zenon

LEMMA ClientKeeps == ASSUME IInv, NEW c \in Conn, Client(c) \/ Bridge(c) PROVE IInv'
<1>1. CASE Dial(c) \/ BridgeDial(c)
  BY <1>1, DialKeeps, Zenon
<1>2. CASE ~(Dial(c) \/ BridgeDial(c))
  <2>1. at' = at /\ pending' = pending
    BY <1>2, Zenon DEF Client, Bridge, SendPreamble, SendRequest, HangUp, Receive, BridgeWrite,
                BridgeUp, BridgeDown, BridgeEof
  <2>2. client' = client \/ \E y \in {"open", "closed"} : client' = [client EXCEPT ![c] = y]
    BY <1>2, Zenon DEF Client, Bridge, SendPreamble, SendRequest, HangUp, Receive, BridgeWrite,
                BridgeUp, BridgeDown, BridgeEof, Leave
  <2>3. TypeOK'
    BY <2>1, <2>2, Zenon DEF IInv, TypeOK
  <2>4. FreshKept /\ Quiet
    BY <2>1, <2>2, Zenon DEF IInv, TypeOK, FreshKept, Quiet
  <2> QED
    BY <2>3, <2>4, QuietKeeps, Zenon
<1> QED
  BY <1>1, <1>2, Zenon

-----------------------------------------------------------------------------
(* The daemon. *)

\* A connection takes a slot if there is one.
LEMMA AcceptKeeps == ASSUME IInv, NEW c \in Conn, AcceptTcp(c) PROVE IInv'
<1>1. at[c] = "backlog" /\ client' = client
  BY Zenon DEF AcceptTcp, clients
<1>2. CASE HasRoom
  <2>1. at' = [at EXCEPT ![c] = "preamble"] /\ pending' = pending + 1 /\ pending < Limit
    BY <1>2, Zenon DEF AcceptTcp, HasRoom
  <2>2. "preamble" \in Stage
    BY Zenon DEF Stage
  <2>3. TypeOK' /\ FreshKept /\ \A d \in Conn : at'[d] = IF d = c THEN "preamble" ELSE at[d]
    BY <1>1, <2>1, <2>2, Moved, Zenon
  <2>4. Unknown' = Unknown \cup {c} /\ c \notin Unknown
    BY <1>1, <2>3, Zenon DEF Unknown
  <2>5. Cardinality(Unknown') = Cardinality(Unknown) + 1
    BY <2>4, Counted, FS_AddElement, Zenon
  <2>6. Fresh'
    BY <2>3, Zenon DEF IInv, Fresh, FreshKept
  <2> QED
    BY <2>1, <2>3, <2>5, <2>6, Counted, ConnAssumption DEF IInv
<1>3. CASE ~HasRoom
  <2>1. at' = [at EXCEPT ![c] = "closed"] /\ pending' = pending
    BY <1>3, Zenon DEF AcceptTcp, CloseAt
  <2> QED
    BY <1>1, <2>1, MovedQuietly, Zenon DEF Stage
<1> QED
  BY <1>2, <1>3, Zenon

\* A connection gives its slot back, whatever its preamble said.
LEMMA PreambleKeeps == ASSUME IInv, NEW c \in Conn, ReadPreamble(c) PROVE IInv'
<1>1. at[c] = "preamble" /\ client' = client /\ pending' = pending - 1
  BY Zenon DEF ReadPreamble, Freed, clients
<1>2. PICK x \in {"draining", "queued", "spliced", "closed"} : at' = [at EXCEPT ![c] = x]
  BY Zenon DEF ReadPreamble, Refuse, Queue
<1>3. x \in Stage /\ x # "preamble"
  BY Zenon DEF Stage
<1>4. TypeOK' /\ FreshKept /\ \A d \in Conn : at'[d] = IF d = c THEN x ELSE at[d]
  BY <1>1, <1>2, <1>3, Moved, Zenon
<1>5. Unknown' = Unknown \ {c} /\ c \in Unknown
  BY <1>1, <1>3, <1>4, Zenon DEF Unknown
<1>6. Cardinality(Unknown') = Cardinality(Unknown) - 1
  BY <1>5, Counted, FS_RemoveElement, Zenon
<1>7. Fresh'
  BY <1>4, Zenon DEF IInv, Fresh, FreshKept
<1> QED
  BY <1>1, <1>4, <1>6, <1>7, Counted, ConnAssumption DEF IInv

LEMMA ServeKeeps ==
  ASSUME IInv, NEW c \in Conn,
         \/ AcceptUnix(c) \/ AcceptPipe(c) \/ DrainRefusal(c) \/ EndSplice(c)
         \/ Serve(c) \/ ReadRequest(c) \/ Answer(c)
  PROVE  IInv'
<1>1. /\ at[c] \in {"backlog", "draining", "spliced", "queued", "read", "handle"}
      /\ client' = client /\ pending' = pending
  BY Zenon DEF AcceptUnix, AcceptPipe, DrainRefusal, EndSplice, Serve, ReadRequest, Answer, clients
<1>2. \/ at' = at
      \/ \E x \in {"queued", "closed", "read", "handle"} : at' = [at EXCEPT ![c] = x]
  BY Zenon DEF AcceptUnix, AcceptPipe, DrainRefusal, EndSplice, Serve, ReadRequest, Answer, CloseAt,
         Drain, Queue
<1>3. CASE at' = at
  BY <1>1, <1>3, QuietKeeps, Zenon DEF IInv, TypeOK, FreshKept, Quiet
<1>4. ASSUME NEW x \in {"queued", "closed", "read", "handle"}, at' = [at EXCEPT ![c] = x]
      PROVE  IInv'
  BY <1>1, <1>4, MovedQuietly, Zenon DEF Stage
<1> QED
  BY <1>2, <1>3, <1>4, Zenon

LEMMA StopKeeps == IInv /\ Stop => IInv'
<1> SUFFICES ASSUME IInv, Stop PROVE IInv'
  BY Zenon
<1>1. /\ at' = [c \in Conn |-> IF at[c] = "backlog" THEN "closed" ELSE at[c]]
      /\ client' = client /\ pending' = pending
  BY Zenon DEF Stop, clients
<1>2. TypeOK'
  BY <1>1, Zenon DEF IInv, TypeOK, Stage
<1>3. FreshKept /\ Quiet
  BY <1>1, Zenon DEF IInv, Fresh, FreshKept, Quiet
<1> QED
  BY <1>2, <1>3, QuietKeeps, Zenon

LEMMA ExitKeeps == IInv /\ Exit => IInv'
<1> SUFFICES ASSUME IInv, Exit PROVE IInv'
  OBVIOUS
<1>1. /\ at' = [c \in Conn |-> IF at[c] = "none" THEN "none" ELSE "closed"]
      /\ client' = client /\ pending' = 0
  BY Zenon DEF Exit, clients
<1>2. TypeOK' /\ Fresh'
  BY <1>1, Zenon DEF IInv, TypeOK, Fresh, Stage
<1>3. Unknown' = {}
  BY <1>1, Zenon DEF Unknown
<1>4. Cardinality(Unknown') = 0
  BY <1>3, FS_EmptySet, Zenon
<1> QED
  BY <1>1, <1>2, <1>4, ConnAssumption DEF IInv

-----------------------------------------------------------------------------

LEMMA Initially == Init => IInv
<1> SUFFICES ASSUME Init PROVE IInv
  BY Zenon
<1>1. TypeOK /\ Fresh
  BY Zenon DEF Init, TypeOK, Fresh, Stage
<1>2. Unknown = {}
  BY Zenon DEF Init, Unknown
<1> QED
  BY <1>1, <1>2, FS_EmptySet, ConnAssumption DEF Init, IInv

LEMMA Inductive == IInv /\ [Next]_vars => IInv'
<1> SUFFICES ASSUME IInv, [Next]_vars PROVE IInv'
  BY Zenon
<1>1. ASSUME NEW c \in Conn, Bridge(c) \/ Client(c) PROVE IInv'
  BY <1>1, ClientKeeps, Zenon
<1>2. ASSUME NEW c \in Conn, Daemon(c) PROVE IInv'
  BY <1>2, AcceptKeeps, PreambleKeeps, ServeKeeps, Zenon DEF Daemon
<1>3. ASSUME \/ \E c \in Conn : Lose(c) \/ Revoke(c)
             \/ SessionEnds \/ UNCHANGED vars
      PROVE  IInv'
  <2>1. UNCHANGED <<at, client, pending>>
    BY <1>3, Zenon DEF Lose, Revoke, SessionEnds, clients, vars
  <2> QED
    BY <2>1, Zenon DEF IInv, TypeOK, Fresh, Unknown
<1>4. CASE Stop \/ Exit
  BY <1>4, StopKeeps, ExitKeeps, Zenon
<1> QED
  BY <1>1, <1>2, <1>3, <1>4, Zenon DEF Next

\* However a connection that has not said who it is ends, its slot is given back once,
\* and there are never more of them than max_pending_connections.
THEOREM SlotsExact == Spec => []PendingExact
<1>1. IInv => PendingExact
  BY Zenon DEF IInv, Unknown, PendingExact
<1> QED
  BY <1>1, Initially, Inductive, PTL DEF Spec

-----------------------------------------------------------------------------
(* A peer whose token is revoked. *)

\* The daemon does not yet know the peer; it serves its requests.
Early == {"none", "backlog", "preamble"}
Serving == {"queued", "read", "handle"}
Line == {"preamble", "request"}

Counts ==
    /\ sent \in [Conn -> Nat] /\ wait \in [Conn -> Nat]
    /\ handled \in [Conn -> Nat] /\ quota \in [Conn -> Nat]
    /\ up \in [Conn -> Seq(Line)]

\* The bridge has read the first request and not yet written it.
InHand(c) == Relayed(c) /\ client[c] = "dialled"

\* No request is counted twice: before the preamble has been read there may be one line
\* more than there are requests, the preamble itself.
Asked(c) ==
    /\ handled[c] <= sent[c] /\ handled[c] <= quota[c]
    /\ client[c] \in {"idle", "dialled"} => up[c] = << >>
    /\ client[c] = "dialled" => Tcp(c)
    /\ at[c] \in Early =>
          /\ handled[c] = 0
          /\ wait[c] <= sent[c]
          /\ InHand(c) => wait[c] + 1 <= sent[c]
          /\ wait[c] + Len(up[c]) <= sent[c] + 1
          /\ ~Tcp(c) => wait[c] + Len(up[c]) <= sent[c]
    /\ at[c] \in Serving =>
          /\ handled[c] + wait[c] + Len(up[c]) <= sent[c]
          /\ client[c] \notin {"idle", "dialled"} /\ ~Tunnel(c)
    /\ c \in valid => quota[c] = MaxSent[c]
    /\ ~Tunnel(c) => sent[c] <= MaxSent[c]
    /\ Tcp(c) \/ c \in valid \/ (handled[c] = 0 /\ at[c] \notin Serving)
    /\ Tunnel(c) => handled[c] = 0

AskInv == Counts /\ \A c \in Conn : Asked(c)

\* Nothing that Asked(d) is about changes.
Kept(d) ==
    /\ sent'[d] = sent[d] /\ wait'[d] = wait[d] /\ handled'[d] = handled[d]
    /\ quota'[d] = quota[d] /\ up'[d] = up[d] /\ at'[d] = at[d] /\ client'[d] = client[d]
    /\ d \in valid' <=> d \in valid

-----------------------------------------------------------------------------

LEMMA KeptAsked ==
  ASSUME NEW d \in Conn, Asked(d), Kept(d), way' = way
  PROVE  Asked(d)'
  BY Zenon DEF Asked, Kept, InHand, Relayed, Tcp, Tunnel

LEMMA OneAsked ==
  ASSUME AskInv, Counts', NEW c \in Conn, way' = way, Asked(c)',
         \A d \in Conn \ {c} : Kept(d)
  PROVE  AskInv'
  BY KeptAsked, Zenon DEF AskInv

LEMMA Lines ==
  ASSUME NEW s \in Seq(Line)
  PROVE  /\ Len(s) \in Nat /\ (s = << >> <=> Len(s) = 0)
         /\ s # << >> => Tail(s) \in Seq(Line) /\ Len(Tail(s)) = Len(s) - 1
         /\ \A x \in Line : s \o <<x>> \in Seq(Line) /\ Len(s \o <<x>>) = Len(s) + 1
<1>1. Len(s) \in Nat /\ (s = << >> <=> Len(s) = 0)
  OBVIOUS
<1>2. s # << >> => Tail(s) \in Seq(Line) /\ Len(Tail(s)) = Len(s) - 1
  OBVIOUS
<1>3. \A x \in Line : s \o <<x>> \in Seq(Line) /\ Len(s \o <<x>>) = Len(s) + 1
  OBVIOUS
<1> QED BY <1>1, <1>2, <1>3, Zenon

LEMMA AskedInit == Init => AskInv
<1> SUFFICES ASSUME Init PROVE AskInv
  OBVIOUS
<1>1. Counts
  BY ConnAssumption DEF Init, Counts
<1>2. ASSUME NEW c \in Conn PROVE Asked(c)
  BY ConnAssumption DEF Init, Asked, InHand, Early, Serving
<1> QED BY <1>1, <1>2, Zenon DEF AskInv

\* The client, or the bridge for it, goes away.
LEMMA LeftAsked ==
  ASSUME IInv, AskInv, NEW c \in Conn, way' = way,
         client' = client \/ Leave(c),
         UNCHANGED <<sent, wait, handled, quota, up, at, valid>>
  PROVE  AskInv'
<1>1. Counts'
  BY Zenon DEF AskInv, Counts
<1>2. \A d \in Conn \ {c} : Kept(d)
  BY Zenon DEF Kept, Leave, IInv, TypeOK
<1>3. client'[c] = client[c] \/ client'[c] = "closed"
  BY Zenon DEF Leave, IInv, TypeOK
<1>4. Asked(c)'
  <2>1. Asked(c) /\ wait[c] \in Nat /\ sent[c] \in Nat
    BY Zenon DEF AskInv, Counts
  <2> QED BY <1>3, <2>1, Zenon DEF Asked, InHand, Relayed, Tcp, Tunnel
<1> QED BY <1>1, <1>2, <1>4, OneAsked, Zenon

LEMMA DialAsked ==
  ASSUME IInv, AskInv, NEW c \in Conn, Dial(c)
  PROVE  AskInv'
<1>1. /\ UNCHANGED <<way, valid, sent, wait, handled, quota, up>> /\ client[c] = "idle"
      /\ ~Relayed(c) /\ at[c] = "none"
  BY Zenon DEF Dial, setup, links, records, IInv, Fresh
<1>2. /\ \A d \in Conn \ {c} : Kept(d)
      /\ client'[c] \in {"open", "closed"} \/ (client'[c] = "dialled" /\ Tcp(c))
      /\ at'[c] \in {"none", "backlog"}
  BY <1>1, Zenon DEF Dial, Leave, Kept, IInv, TypeOK
<1>3. Counts'
  BY <1>1, Zenon DEF AskInv, Counts
<1>4. Asked(c) /\ wait[c] \in Nat /\ sent[c] \in Nat
  BY Zenon DEF AskInv, Counts
<1>5. Asked(c)'
  BY <1>1, <1>2, <1>4, Zenon DEF Asked, InHand, Relayed, Tcp, Tunnel, Early, Serving
<1> QED BY <1>1, <1>2, <1>3, <1>5, OneAsked, Zenon

\* A line is sent: it is on its way, or the connection is closed already.
LEMMA SentFacts ==
  ASSUME IInv, AskInv, NEW c \in Conn, NEW x \in Line, SendUp(c, <<x>>)
  PROVE  /\ up' \in [Conn -> Seq(Line)] /\ \A d \in Conn \ {c} : up'[d] = up[d]
         /\ at[c] = "closed" => up'[c] = up[c]
         /\ at[c] # "closed" => up'[c] = up[c] \o <<x>> /\ up'[c] # << >>
                                /\ Len(up'[c]) = Len(up[c]) + 1
<1>1. up \in [Conn -> Seq(Line)] /\ up[c] \in Seq(Line)
  BY Zenon DEF AskInv, Counts
<1>2. up[c] \o <<x>> \in Seq(Line) /\ Len(up[c] \o <<x>>) = Len(up[c]) + 1 /\ Len(up[c]) \in Nat
  BY <1>1, Lines, Zenon
<1>3. up[c] \o <<x>> # << >>
  BY <1>2, Lines
<1>4. up' = up \/ (at[c] # "closed" /\ up' = [up EXCEPT ![c] = @ \o <<x>>])
  BY Zenon DEF SendUp
<1> QED BY <1>1, <1>2, <1>3, <1>4, Zenon DEF SendUp

LEMMA PreambleAsked ==
  ASSUME IInv, AskInv, NEW c \in Conn, SendPreamble(c)
  PROVE  AskInv'
<1>1. /\ UNCHANGED <<way, valid, sent, wait, handled, quota, at>> /\ client[c] = "dialled"
      /\ client' = [client EXCEPT ![c] = "open"] /\ ~Relayed(c) /\ SendUp(c, <<"preamble">>)
  BY Zenon DEF SendPreamble, setup, records
<1>2. /\ up' \in [Conn -> Seq(Line)] /\ \A d \in Conn \ {c} : up'[d] = up[d]
      /\ at[c] = "closed" => up'[c] = up[c]
      /\ at[c] # "closed" => up'[c] # << >> /\ Len(up'[c]) = Len(up[c]) + 1
  BY <1>1, SentFacts, Zenon DEF Line
<1>3. Counts' /\ \A d \in Conn \ {c} : Kept(d)
  BY <1>1, <1>2, Zenon DEF AskInv, Counts, Kept, IInv, TypeOK
<1>4. /\ Asked(c) /\ wait[c] \in Nat /\ sent[c] \in Nat /\ client'[c] = "open"
      /\ up[c] = << >> => Len(up[c]) = 0
  BY <1>1, Lines, Zenon DEF AskInv, Counts, IInv, TypeOK
<1>5. Asked(c)'
  BY <1>1, <1>2, <1>4 DEF Asked, InHand, Relayed, Tcp, Tunnel, Early, Serving
<1> QED BY <1>1, <1>3, <1>5, OneAsked, Zenon

LEMMA OneOn ==
  ASSUME NEW h \in Nat, NEW w \in Nat, NEW m \in Nat, NEW s \in Nat, h + w + m <= s
  PROVE  /\ h + (w - 1) + (m + 1) <= s /\ h + (w - 1) + m <= s
         /\ h + (w + 1) + m <= s + 1 /\ h + w + (m + 1) <= s + 1
  OBVIOUS

LEMMA RequestAsked ==
  ASSUME IInv, AskInv, NEW c \in Conn, SendRequest(c)
  PROVE  AskInv'
<1>1. /\ UNCHANGED <<way, valid, handled, quota, at, client>>
      /\ sent' = [sent EXCEPT ![c] = @ + 1] /\ sent[c] < IF Tunnel(c) THEN 1 ELSE MaxSent[c]
  BY Zenon DEF SendRequest, setup, records
<1>2. /\ Asked(c) /\ wait[c] \in Nat /\ sent[c] \in Nat /\ handled[c] \in Nat /\ quota[c] \in Nat
      /\ Len(up[c]) \in Nat /\ MaxSent[c] \in Nat /\ (up[c] = << >> <=> Len(up[c]) = 0)
  BY Lines, ConnAssumption, Zenon DEF AskInv, Counts
<1>3. sent' \in [Conn -> Nat] /\ sent'[c] = sent[c] + 1 /\ \A d \in Conn \ {c} : sent'[d] = sent[d]
  BY <1>1 DEF AskInv, Counts
<1>4. ~Tunnel(c) => sent'[c] <= MaxSent[c]
  BY <1>1, <1>2, <1>3
<1>5. CASE wait' = [wait EXCEPT ![c] = @ + 1] /\ UNCHANGED links /\ Relayed(c)
  <2>1. wait'[c] = wait[c] + 1 /\ up' = up
    BY <1>5, Zenon DEF AskInv, Counts, links
  <2>2. Counts' /\ \A d \in Conn \ {c} : Kept(d)
    BY <1>1, <1>3, <1>5 DEF AskInv, Counts, Kept, links
  <2>3. /\ handled[c] <= sent'[c] /\ up'[c] = up[c]
        /\ at[c] \in Early => /\ wait'[c] <= sent'[c] /\ wait'[c] + Len(up[c]) <= sent'[c] + 1
                              /\ InHand(c) => wait'[c] + 1 <= sent'[c]
        /\ at[c] \in Serving => handled[c] + wait'[c] + Len(up[c]) <= sent'[c]
    <3>1. /\ handled[c] <= sent[c]
          /\ at[c] \in Early => /\ wait[c] <= sent[c] /\ wait[c] + Len(up[c]) <= sent[c] + 1
                                /\ InHand(c) => wait[c] + 1 <= sent[c]
          /\ at[c] \in Serving => handled[c] + wait[c] + Len(up[c]) <= sent[c]
      BY <1>2, Zenon DEF Asked
    <3>2. /\ handled[c] <= sent'[c] /\ up'[c] = up[c]
          /\ at[c] \in Early => wait'[c] <= sent'[c] /\ (InHand(c) => wait'[c] + 1 <= sent'[c])
      BY <1>2, <1>3, <2>1, <3>1
    <3>3. at[c] \in Early => wait'[c] + Len(up[c]) <= sent'[c] + 1
      BY <1>2, <1>3, <2>1, <3>1
    <3>4. at[c] \in Serving => handled[c] + wait'[c] + Len(up[c]) <= sent'[c]
      <4>1. at[c] \in Serving => handled[c] + (wait[c] + 1) + Len(up[c]) <= sent[c] + 1
        BY <1>2, <3>1, OneOn, Zenon
      <4> QED BY <1>3, <2>1, <4>1, Zenon
    <3> QED BY <3>2, <3>3, <3>4, Zenon
  <2>4. Tcp(c)
    BY <1>5 DEF Relayed, Tcp
  <2>5. Asked(c)'
    BY <1>1, <1>2, <1>4, <2>3, <2>4, Zenon DEF Asked, InHand, Relayed, Tcp, Tunnel
  <2> QED BY <1>1, <2>2, <2>5, OneAsked, Zenon
<1>6. CASE UNCHANGED wait /\ SendUp(c, <<"request">>) /\ client[c] = "open"
  <2>1. /\ up' \in [Conn -> Seq(Line)] /\ \A d \in Conn \ {c} : up'[d] = up[d]
        /\ at[c] = "closed" => up'[c] = up[c]
        /\ at[c] # "closed" => up'[c] # << >> /\ Len(up'[c]) = Len(up[c]) + 1
    BY <1>6, SentFacts, Zenon DEF Line
  <2>2. Counts' /\ \A d \in Conn \ {c} : Kept(d)
    BY <1>1, <1>3, <1>6, <2>1 DEF AskInv, Counts, Kept
  <2>3. /\ handled[c] <= sent'[c] /\ client[c] \notin {"idle", "dialled"}
        /\ at[c] \in Early =>
              /\ wait[c] <= sent'[c] /\ wait[c] + Len(up'[c]) <= sent'[c] + 1
              /\ ~Tcp(c) => wait[c] + Len(up'[c]) <= sent'[c]
    <3>1. /\ handled[c] <= sent[c]
          /\ at[c] \in Early =>
                /\ wait[c] <= sent[c] /\ wait[c] + Len(up[c]) <= sent[c] + 1
                /\ ~Tcp(c) => wait[c] + Len(up[c]) <= sent[c]
      BY <1>2, Zenon DEF Asked
    <3>2. at[c] \in Early => Len(up'[c]) = Len(up[c]) + 1
      BY <2>1 DEF Early
    <3>3. handled[c] <= sent'[c] /\ (at[c] \in Early => wait[c] <= sent'[c])
      BY <1>2, <1>3, <3>1
    <3>4. at[c] \in Early => wait[c] + Len(up'[c]) <= sent'[c] + 1
      BY <1>2, <1>3, <3>1, <3>2
    <3>5. at[c] \in Early /\ ~Tcp(c) => wait[c] + Len(up'[c]) <= sent'[c]
      BY <1>2, <1>3, <3>1, <3>2
    <3> QED BY <1>6, <3>3, <3>4, <3>5
  <2>4. at[c] \in Serving => handled[c] + wait[c] + Len(up'[c]) <= sent'[c]
    <3>1. at[c] \in Serving => /\ Len(up'[c]) = Len(up[c]) + 1
                               /\ handled[c] + wait[c] + Len(up[c]) <= sent[c]
      BY <1>2, <2>1 DEF Asked, Serving
    <3>2. at[c] \in Serving => handled[c] + wait[c] + (Len(up[c]) + 1) <= sent[c] + 1
      BY <1>2, <3>1, OneOn, Zenon
    <3> QED BY <1>3, <3>1, <3>2, Zenon
  <2>5. Asked(c)'
    BY <1>1, <1>2, <1>4, <1>6, <2>3, <2>4, Zenon DEF Asked, InHand, Relayed, Tcp, Tunnel
  <2> QED BY <1>1, <2>2, <2>5, OneAsked
<1> QED BY <1>5, <1>6, Zenon DEF SendRequest

LEMMA BridgeDialAsked ==
  ASSUME IInv, AskInv, NEW c \in Conn, BridgeDial(c)
  PROVE  AskInv'
<1>1. /\ UNCHANGED <<way, valid, sent, handled, quota, up>> /\ client[c] = "idle"
      /\ Relayed(c) /\ at[c] = "none" /\ wait[c] > 0 /\ wait' = [wait EXCEPT ![c] = @ - 1]
  BY Zenon DEF BridgeDial, setup, links, records, IInv, Fresh
<1>2. /\ client'[c] \in {"dialled", "closed"} /\ at'[c] \in {"none", "backlog"}
      /\ \A d \in Conn \ {c} : client'[d] = client[d] /\ at'[d] = at[d]
  BY <1>1, Zenon DEF BridgeDial, Leave, IInv, TypeOK
<1>3. wait'[c] = wait[c] - 1 /\ \A d \in Conn \ {c} : wait'[d] = wait[d]
  BY <1>1, Zenon DEF AskInv, Counts
<1>4. Counts' /\ \A d \in Conn \ {c} : Kept(d)
  BY <1>1, <1>2, <1>3 DEF AskInv, Counts, Kept
<1>5. Asked(c) /\ wait[c] \in Nat /\ sent[c] \in Nat
  BY DEF AskInv, Counts
<1>6. Asked(c)'
  BY <1>1, <1>2, <1>3, <1>5 DEF Asked, InHand, Relayed, Tcp, Tunnel, Early, Serving
<1> QED BY <1>1, <1>4, <1>6, OneAsked, Zenon

\* The preamble and the request in hand are written; only a tunnel has none.
LEMMA BridgeWriteAsked ==
  ASSUME IInv, AskInv, NEW c \in Conn, BridgeWrite(c)
  PROVE  AskInv'
<1>1. /\ UNCHANGED <<way, valid, sent, wait, handled, quota, at>> /\ client[c] = "dialled"
      /\ Relayed(c)
  BY Zenon DEF BridgeWrite, setup, records
<1>2. CASE Leave(c) /\ UNCHANGED links
  BY <1>1, <1>2, LeftAsked, Zenon DEF links
<1>3. CASE /\ client' = [client EXCEPT ![c] = "open"]
           /\ SendUp(c, IF Tunnel(c) THEN <<"preamble">> ELSE <<"preamble", "request">>)
  <2>1. /\ Asked(c) /\ wait[c] \in Nat /\ sent[c] \in Nat /\ up[c] = << >>
        /\ up \in [Conn -> Seq(Line)]
    BY <1>1, Zenon DEF AskInv, Counts, Asked
  <2>2. PICK n \in {1, 2} : \E s \in Seq(Line) :
           /\ Len(s) = n /\ s # << >>
           /\ SendUp(c, s)
    <3>1. /\ <<"preamble">> \in Seq(Line) /\ Len(<<"preamble">>) = 1 /\ <<"preamble">> # << >>
          /\ <<"preamble", "request">> \in Seq(Line) /\ Len(<<"preamble", "request">>) = 2
          /\ <<"preamble", "request">> # << >>
      BY DEF Line
    <3> QED BY <1>3, <3>1, Zenon
  <2>3. PICK s \in Seq(Line) : Len(s) = n /\ s # << >> /\ SendUp(c, s)
    BY <2>2, Zenon
  <2>4. << >> \o s = s
    OBVIOUS
  <2>5. /\ up' \in [Conn -> Seq(Line)] /\ \A d \in Conn \ {c} : up'[d] = up[d]
        /\ at[c] = "closed" => up'[c] = << >>
        /\ at[c] # "closed" => up'[c] = s
    BY <2>1, <2>3, <2>4 DEF SendUp
  <2>6. Counts' /\ \A d \in Conn \ {c} : Kept(d)
    BY <1>1, <1>3, <2>5, Zenon DEF AskInv, Counts, Kept, IInv, TypeOK
  <2>7. client'[c] = "open" /\ Tcp(c)
    BY <1>1, <1>3, Zenon DEF IInv, TypeOK, Relayed, Tcp
  <2>8. at[c] \in Early => wait[c] + 1 <= sent[c]
    BY <1>1, <2>1, Zenon DEF Asked, InHand
  <2>9. Asked(c)'
    BY <1>1, <2>1, <2>3, <2>5, <2>7, <2>8
       DEF Asked, InHand, Relayed, Tcp, Tunnel, Early, Serving
  <2> QED BY <1>1, <2>6, <2>9, OneAsked, Zenon
<1> QED BY <1>2, <1>3, Zenon DEF BridgeWrite

LEMMA BridgeUpAsked ==
  ASSUME IInv, AskInv, NEW c \in Conn, BridgeUp(c)
  PROVE  AskInv'
<1>1. /\ UNCHANGED <<way, valid, sent, handled, quota, at>> /\ client[c] = "open"
      /\ Relayed(c) /\ Tcp(c)
  BY Zenon DEF BridgeUp, setup, records, Relayed, Tcp
<1>2. /\ Asked(c) /\ wait[c] \in Nat /\ sent[c] \in Nat /\ handled[c] \in Nat
      /\ Len(up[c]) \in Nat /\ (up[c] = << >> <=> Len(up[c]) = 0)
  BY Lines, Zenon DEF AskInv, Counts
<1>3. CASE wait[c] > 0 /\ wait' = [wait EXCEPT ![c] = @ - 1]
  <2>1. /\ wait'[c] = wait[c] - 1 /\ \A d \in Conn \ {c} : wait'[d] = wait[d]
        /\ wait' \in [Conn -> Nat]
    BY <1>3 DEF AskInv, Counts
  <2>2. CASE SendUp(c, <<"request">>) /\ UNCHANGED client
    <3>1. /\ up' \in [Conn -> Seq(Line)] /\ \A d \in Conn \ {c} : up'[d] = up[d]
          /\ at[c] = "closed" => up'[c] = up[c]
          /\ at[c] # "closed" => up'[c] # << >> /\ Len(up'[c]) = Len(up[c]) + 1
      BY <2>2, SentFacts, Zenon DEF Line
    <3>2. Counts' /\ \A d \in Conn \ {c} : Kept(d)
      BY <1>1, <2>1, <2>2, <3>1, Zenon DEF AskInv, Counts, Kept
    <3>3. Asked(c)'
      <4>1. at[c] \in Early =>
               wait'[c] <= sent[c] /\ wait'[c] + Len(up'[c]) <= sent[c] + 1
        BY <1>2, <1>3, <2>1, <3>1 DEF Asked, Early
      <4>2. at[c] \in Serving => handled[c] + wait'[c] + Len(up'[c]) <= sent[c]
        <5>1. at[c] \in Serving => handled[c] + wait[c] + Len(up[c]) <= sent[c] /\ at[c] # "closed"
          BY <1>2, Zenon DEF Asked, Serving
        <5>2. at[c] \in Serving => Len(up'[c]) = Len(up[c]) + 1 /\ wait'[c] = wait[c] - 1
          BY <2>1, <3>1, <5>1, Zenon
        <5>3. at[c] \in Serving => handled[c] + (wait[c] - 1) + (Len(up[c]) + 1) <= sent[c]
          BY <1>2, <5>1, OneOn, Zenon
        <5> QED BY <5>2, <5>3, Zenon
      <4> QED BY <1>1, <1>2, <2>2, <4>1, <4>2, Zenon DEF Asked, InHand, Relayed, Tcp, Tunnel
    <3> QED BY <1>1, <3>2, <3>3, OneAsked, Zenon
  <2>3. CASE Leave(c) /\ UNCHANGED links
    <3>1. client'[c] = "closed" /\ \A d \in Conn \ {c} : client'[d] = client[d]
      BY <2>3, Zenon DEF Leave, IInv, TypeOK
    <3>2. Counts' /\ \A d \in Conn \ {c} : Kept(d)
      BY <1>1, <2>1, <2>3, <3>1, Zenon DEF AskInv, Counts, Kept, links
    <3>3. Asked(c)'
      <4>1. up' = up /\ wait'[c] <= wait[c]
        BY <1>2, <2>1, <2>3 DEF links
      <4>2. at[c] \in Early =>
               wait'[c] <= sent[c] /\ wait'[c] + Len(up'[c]) <= sent[c] + 1
        BY <1>2, <2>1, <4>1 DEF Asked
      <4>3. at[c] \in Serving => handled[c] + wait'[c] + Len(up'[c]) <= sent[c]
        <5>1. at[c] \in Serving => handled[c] + wait[c] + Len(up[c]) <= sent[c]
          BY <1>2, Zenon DEF Asked
        <5> QED BY <1>2, <2>1, <4>1, <5>1, OneOn, Zenon
      <4> QED BY <1>1, <1>2, <3>1, <4>1, <4>2, <4>3, Zenon
              DEF Asked, InHand, Relayed, Tcp, Tunnel
    <3> QED BY <1>1, <3>2, <3>3, OneAsked
  <2> QED BY <1>3, <2>2, <2>3, Zenon DEF BridgeUp
<1>4. CASE Leave(c) /\ UNCHANGED <<wait, links>>
  BY <1>1, <1>4, LeftAsked, Zenon DEF links
<1> QED BY <1>3, <1>4, Zenon DEF BridgeUp

LEMMA ClientAsked == ASSUME IInv, AskInv, NEW c \in Conn, Client(c) \/ Bridge(c) PROVE AskInv'
<1>1. CASE HangUp(c) \/ Receive(c) \/ BridgeDown(c) \/ BridgeEof(c)
  BY <1>1, LeftAsked, Zenon DEF HangUp, Receive, BridgeDown, BridgeEof, setup, links, records
<1> QED BY <1>1, DialAsked, PreambleAsked, RequestAsked, BridgeDialAsked, BridgeWriteAsked,
           BridgeUpAsked, Zenon
        DEF Client, Bridge

-----------------------------------------------------------------------------
\* The daemon moves a connection to a stage where it serves no request.
LEMMA ShutAsked ==
  ASSUME IInv, AskInv, NEW c \in Conn, UNCHANGED <<way, valid, client, sent, wait, handled, quota>>,
         NEW x \in Stage \ (Early \cup Serving), at' = [at EXCEPT ![c] = x],
         NEW s \in Seq(Line), up' = [up EXCEPT ![c] = s], up[c] = << >> => s = << >>
  PROVE  AskInv'
<1>1. Counts' /\ \A d \in Conn \ {c} : Kept(d)
  BY Zenon DEF AskInv, Counts, Kept, IInv, TypeOK
<1>2. at'[c] = x /\ up'[c] = s /\ Asked(c)
  BY Zenon DEF AskInv, Counts, IInv, TypeOK
<1>3. Asked(c)'
  BY <1>2, Zenon DEF Asked, Relayed, Tcp, Tunnel
<1> QED BY <1>1, <1>3, OneAsked, Zenon

LEMMA CloseAsked ==
  ASSUME IInv, AskInv, NEW c \in Conn, UNCHANGED <<way, valid, client, sent, wait, handled, quota>>,
         CloseAt(c)
  PROVE  AskInv'
<1>1. << >> \in Seq(Line) /\ "closed" \in Stage \ (Early \cup Serving)
  BY DEF Stage, Early, Serving
<1> QED BY <1>1, ShutAsked, Zenon DEF CloseAt

\* The daemon moves a connection whose lines it leaves alone.
LEMMA MovedAsked ==
  ASSUME IInv, AskInv, NEW c \in Conn,
         UNCHANGED <<way, valid, client, sent, wait, handled, quota, up>>,
         NEW x \in Stage, at' = [at EXCEPT ![c] = x],
         (at[c] \in Early /\ x \in Early) \/ (at[c] \in Serving /\ x \in Serving)
  PROVE  AskInv'
<1>1. Counts' /\ \A d \in Conn \ {c} : Kept(d)
  BY Zenon DEF AskInv, Counts, Kept, IInv, TypeOK
<1>2. at'[c] = x /\ Asked(c)
  BY Zenon DEF AskInv, IInv, TypeOK
<1>3. Early \cap Serving = {}
  BY Zenon DEF Early, Serving
<1>4. Asked(c)'
  BY <1>2, <1>3, Zenon DEF Asked, InHand, Relayed, Tcp, Tunnel
<1> QED BY <1>1, <1>4, OneAsked, Zenon

\* A local peer that is accepted has said who it is, without a preamble.
LEMMA AcceptAsked ==
  ASSUME IInv, AskInv, NEW c \in Conn, AcceptTcp(c) \/ AcceptUnix(c) \/ AcceptPipe(c)
  PROVE  AskInv'
<1>1. UNCHANGED <<way, valid, client, sent, wait, handled, quota>> /\ at[c] = "backlog"
  BY Zenon DEF AcceptTcp, AcceptUnix, AcceptPipe, setup, clients, records
<1>2. CASE CloseAt(c)
  BY <1>1, <1>2, CloseAsked, Zenon
<1>3. CASE at' = [at EXCEPT ![c] = "preamble"] /\ UNCHANGED up
  <2>1. "preamble" \in Stage /\ "preamble" \in Early /\ at[c] \in Early
    BY <1>1, Zenon DEF Stage, Early
  <2>2. UNCHANGED <<way, valid, client, sent, wait, handled, quota, up>>
    BY <1>1, <1>3, Zenon
  <2>3. \/ at[c] \in Early /\ "preamble" \in Early
        \/ at[c] \in Serving /\ "preamble" \in Serving
    BY <2>1, Zenon
  <2> QED BY <1>3, <2>1, <2>2, <2>3, MovedAsked, Zenon
<1>4. CASE Queue(c) /\ UNCHANGED up /\ ~Tcp(c) /\ c \in valid
  <2>1. Counts' /\ (\A d \in Conn \ {c} : Kept(d)) /\ at'[c] = "queued"
    BY <1>1, <1>4, Zenon DEF AskInv, Counts, Kept, IInv, TypeOK, Queue
  <2>2. /\ Asked(c) /\ wait[c] \in Nat /\ sent[c] \in Nat /\ handled[c] \in Nat
        /\ Len(up[c]) \in Nat
    BY Lines, Zenon DEF AskInv, Counts
  <2>3. client[c] \notin {"idle", "dialled"} /\ ~Tunnel(c)
    BY <1>1, <1>4, <2>2, Zenon DEF IInv, Fresh, Asked, Tcp, Tunnel
  <2>4. handled[c] + wait[c] + Len(up[c]) <= sent[c]
    BY <1>1, <1>4, <2>2 DEF Asked, Early
  <2>5. Asked(c)'
    BY <1>1, <1>4, <2>1, <2>2, <2>3, <2>4, Zenon DEF Asked, Relayed, Tcp, Tunnel, Early
  <2> QED BY <1>1, <2>1, <2>5, OneAsked, Zenon
<1> QED BY <1>2, <1>3, <1>4, Zenon DEF AcceptTcp, AcceptUnix, AcceptPipe, Tcp

\* The first line is the preamble: only the others count.
LEMMA PreambleReadAsked ==
  ASSUME IInv, AskInv, NEW c \in Conn, ReadPreamble(c)
  PROVE  AskInv'
<1>1. /\ UNCHANGED <<way, valid, client, sent, wait, handled, quota>> /\ at[c] = "preamble"
      /\ up' = [up EXCEPT ![c] = IF @ = << >> THEN @ ELSE Tail(@)]
  BY Zenon DEF ReadPreamble, setup, clients
<1>2. /\ Asked(c) /\ wait[c] \in Nat /\ sent[c] \in Nat /\ handled[c] = 0
      /\ up \in [Conn -> Seq(Line)] /\ up[c] \in Seq(Line) /\ Len(up[c]) \in Nat
      /\ up[c] # << >> => Tail(up[c]) \in Seq(Line) /\ Len(Tail(up[c])) = Len(up[c]) - 1
  BY <1>1, Lines, Zenon DEF AskInv, Counts, Asked, Early
<1>3. ASSUME NEW x \in {"draining", "spliced", "closed"}, at' = [at EXCEPT ![c] = x]
      PROVE  AskInv'
  <2>1. PICK s \in Seq(Line) : up' = [up EXCEPT ![c] = s] /\ (up[c] = << >> => s = << >>)
    BY <1>1, <1>2, Zenon
  <2>2. x \in Stage \ (Early \cup Serving)
    BY Zenon DEF Stage, Early, Serving
  <2> QED BY <1>1, <1>3, <2>1, <2>2, ShutAsked, Zenon
<1>4. CASE Preamble(c) /\ ~Tunnel(c) /\ c \in valid /\ Queue(c)
  <2>1. at'[c] = "queued" /\ up[c] # << >> /\ up'[c] = Tail(up[c])
    BY <1>1, <1>2, <1>4, Zenon DEF Preamble, Queue, IInv, TypeOK
  <2>2. Counts' /\ (\A d \in Conn \ {c} : Kept(d))
    BY <1>1, <1>2, <1>4, Zenon DEF AskInv, Counts, Kept, IInv, TypeOK, Queue
  <2>3. handled[c] + wait[c] + Len(up'[c]) <= sent[c]
    BY <1>1, <1>2, <2>1 DEF Asked, Early
  <2>4. Asked(c)'
    BY <1>1, <1>2, <1>4, <2>1, <2>3, Zenon DEF Asked, Relayed, Tcp, Tunnel, Early, Serving
  <2> QED BY <1>1, <2>2, <2>4, OneAsked
<1> QED BY <1>3, <1>4, Zenon DEF ReadPreamble, Refuse

\* A request is handled only if its sender was, at that moment, a valid peer.
LEMMA ReadRequestAsked ==
  ASSUME IInv, AskInv, NEW c \in Conn, ReadRequest(c)
  PROVE  AskInv'
<1>1. UNCHANGED <<way, valid, client, sent, wait, quota>> /\ at[c] = "read"
  BY Zenon DEF ReadRequest, setup, clients
<1>2. /\ Asked(c) /\ wait[c] \in Nat /\ sent[c] \in Nat /\ handled[c] \in Nat
      /\ MaxSent[c] \in Nat
      /\ up \in [Conn -> Seq(Line)] /\ up[c] \in Seq(Line) /\ Len(up[c]) \in Nat
      /\ up[c] # << >> => /\ Len(up[c]) # 0
                          /\ Tail(up[c]) \in Seq(Line) /\ Len(Tail(up[c])) = Len(up[c]) - 1
  BY Lines, ConnAssumption DEF AskInv, Counts
<1>3. CASE CloseAt(c) /\ UNCHANGED handled
  BY <1>1, <1>3, CloseAsked, Zenon
<1>4. CASE UNCHANGED handled /\ at' = [at EXCEPT ![c] = "closed"] /\ up' = [up EXCEPT ![c] = << >>]
  <2>1. << >> \in Seq(Line) /\ "closed" \in Stage \ (Early \cup Serving)
    BY DEF Stage, Early, Serving
  <2> QED BY <1>1, <1>4, <2>1, ShutAsked, Zenon
<1>5. CASE /\ up[c] # << >> /\ Served(c)
           /\ up' = [up EXCEPT ![c] = Tail(@)]
           /\ at' = [at EXCEPT ![c] = "handle"]
           /\ handled' = [handled EXCEPT ![c] = @ + 1]
  <2>1. at'[c] = "handle" /\ up'[c] = Tail(up[c]) /\ handled'[c] = handled[c] + 1
    BY <1>2, <1>5, Zenon DEF AskInv, Counts, IInv, TypeOK
  <2>2. Counts' /\ (\A d \in Conn \ {c} : Kept(d))
    BY <1>1, <1>2, <1>5 DEF AskInv, Counts, Kept, IInv, TypeOK
  <2>3. c \in valid /\ ~Tunnel(c) /\ client[c] \notin {"idle", "dialled"}
    BY <1>1, <1>2, <1>5, Zenon DEF Asked, Served, Serving
  <2>4. handled'[c] + wait[c] + Len(up'[c]) <= sent[c] /\ sent[c] <= MaxSent[c]
    BY <1>1, <1>2, <1>5, <2>1, <2>3 DEF Asked, Serving
  <2>5. handled'[c] <= sent[c] /\ handled'[c] <= quota[c] /\ quota[c] = MaxSent[c]
    BY <1>2, <1>5, <2>1, <2>3, <2>4 DEF Asked
  <2>6. Asked(c)'
    BY <1>1, <1>2, <2>1, <2>3, <2>4, <2>5, Zenon DEF Asked, Relayed, Tcp, Tunnel, Early, Serving
  <2> QED BY <1>1, <2>2, <2>6, OneAsked, Zenon
<1> QED BY <1>3, <1>4, <1>5, Zenon DEF ReadRequest

LEMMA ServeAsked ==
  ASSUME IInv, AskInv, NEW c \in Conn, DrainRefusal(c) \/ EndSplice(c) \/ Serve(c) \/ Answer(c)
  PROVE  AskInv'
<1>1. UNCHANGED <<way, valid, client, sent, wait, handled, quota>>
  BY Zenon DEF DrainRefusal, EndSplice, Serve, Answer, setup, clients, records
<1>2. CASE CloseAt(c)
  BY <1>1, <1>2, CloseAsked, Zenon
<1>3. CASE at[c] = "queued" /\ at' = [at EXCEPT ![c] = "read"] /\ UNCHANGED up
  BY <1>1, <1>3, MovedAsked, Zenon DEF Stage, Serving
<1>4. CASE at[c] = "handle" /\ at' = [at EXCEPT ![c] = "read"] /\ UNCHANGED up
  BY <1>1, <1>4, MovedAsked, Zenon DEF Stage, Serving
<1>5. CASE at[c] = "draining" /\ up[c] # << >> /\ UNCHANGED at /\ up' = [up EXCEPT ![c] = Tail(@)]
  <2>1. at' = [at EXCEPT ![c] = "draining"]
    BY <1>5, Zenon DEF IInv, TypeOK
  <2>2. Tail(up[c]) \in Seq(Line)
    BY <1>5, Lines, Zenon DEF AskInv, Counts
  <2>3. "draining" \in Stage \ (Early \cup Serving) /\ up' = [up EXCEPT ![c] = Tail(up[c])]
    BY <1>5, Zenon DEF Stage, Early, Serving
  <2> QED BY <1>1, <1>5, <2>1, <2>2, <2>3, ShutAsked, Zenon
<1> QED BY <1>2, <1>3, <1>4, <1>5, Zenon DEF DrainRefusal, Drain, EndSplice, Serve, Answer

\* The quota of a peer whose token is revoked is what it has sent by then.
LEMMA RevokeAsked ==
  ASSUME IInv, AskInv, NEW c \in Conn, Revoke(c)
  PROVE  AskInv'
<1>1. /\ UNCHANGED <<way, at, client, sent, wait, handled, up>> /\ Tcp(c)
      /\ valid' = valid \ {c} /\ quota' = [quota EXCEPT ![c] = sent[c]]
  BY Zenon DEF Revoke, clients, links
<1>2. Counts' /\ (\A d \in Conn \ {c} : Kept(d)) /\ quota'[c] = sent[c]
  BY <1>1, Zenon DEF AskInv, Counts, Kept
<1>3. Asked(c)'
  BY <1>1, <1>2, Zenon DEF AskInv, Asked, InHand, Relayed, Tcp, Tunnel
<1> QED BY <1>1, <1>2, <1>3, OneAsked, Zenon

\* The end of the accept loop and of the process closes connections.
LEMMA ShutdownAsked ==
  ASSUME IInv, AskInv, Stop \/ Exit
  PROVE  AskInv'
<1>1. UNCHANGED <<way, valid, client, sent, wait, handled, quota>>
  BY Zenon DEF Stop, Exit, setup, clients, records
<1>2. /\ up' \in [Conn -> Seq(Line)]
      /\ \A c \in Conn : /\ at'[c] \in {at[c], "closed"}
                         /\ up'[c] \in {up[c], << >>}
                         /\ at'[c] # "closed" => up'[c] = up[c] \/ at[c] \in Early
  <2>1. up \in [Conn -> Seq(Line)] /\ << >> \in Seq(Line) /\ "none" \in Early
    BY DEF AskInv, Counts, Early
  <2>2. CASE Stop
    BY <2>1, <2>2, Zenon DEF Stop
  <2>3. CASE Exit
    BY <2>1, <2>3, Zenon DEF Exit
  <2> QED BY <2>2, <2>3, Zenon
<1>3. ASSUME NEW c \in Conn PROVE Asked(c)'
  <2>1. /\ Asked(c) /\ wait[c] \in Nat /\ sent[c] \in Nat /\ Len(up[c]) \in Nat
        /\ up'[c] = << >> => Len(up'[c]) = 0
    BY <1>2, Lines, Zenon DEF AskInv, Counts
  <2>2. CASE at'[c] = "closed"
    BY <1>1, <1>2, <2>1, <2>2, Zenon DEF Asked, Relayed, Tcp, Tunnel, Early, Serving
  <2>3. CASE at'[c] = at[c] /\ up'[c] = up[c]
    BY <1>1, <2>1, <2>3, Zenon DEF Asked, InHand, Relayed, Tcp, Tunnel
  <2>4. CASE at'[c] = at[c] /\ up'[c] = << >> /\ at[c] \in Early
    BY <1>1, <2>1, <2>4 DEF Asked, InHand, Relayed, Tcp, Tunnel, Early, Serving
  <2> QED BY <1>2, <2>2, <2>3, <2>4
<1> QED BY <1>1, <1>2, <1>3, Zenon DEF AskInv, Counts

LEMMA NextAsked == IInv /\ AskInv /\ [Next]_vars => AskInv'
<1> SUFFICES ASSUME IInv, AskInv, [Next]_vars PROVE AskInv'
  BY Zenon
<1>1. ASSUME NEW c \in Conn, Daemon(c) PROVE AskInv'
  BY <1>1, AcceptAsked, PreambleReadAsked, ReadRequestAsked, ServeAsked, Zenon DEF Daemon
<1>2. CASE (\E c \in Conn : Lose(c)) \/ SessionEnds \/ UNCHANGED vars
  <2>1. UNCHANGED <<way, valid, at, client, sent, wait, handled, quota, up>>
    BY <1>2, Zenon DEF Lose, SessionEnds, setup, clients, links, records, vars
  <2> QED BY <2>1, Zenon DEF AskInv, Counts, Asked, InHand, Relayed, Tcp, Tunnel
<1> QED BY <1>1, <1>2, ClientAsked, RevokeAsked, ShutdownAsked, Zenon DEF Next

\* RevokedServedNoMore: a peer whose token is revoked is served no request that it sends
\* afterwards, on connections it already had either (serve_connection looks the token up
\* again for every request).
THEOREM NoMoreServed == Spec => []RevokedServedNoMore
<1>1. AskInv => RevokedServedNoMore
  BY Zenon DEF AskInv, Asked, RevokedServedNoMore
<1> QED BY <1>1, AskedInit, NextAsked, Initially, Inductive, PTL DEF Spec

-----------------------------------------------------------------------------
(* A refusal reaches the client. *)

\* The client was refused for its preamble and has not sent as much as is drained, or
\* for a request that is the last it has sent.
Drains(c) == refused[c] = "preamble" /\ drained[c] < MaxDrain
Lasts(c) == refused[c] = "request" /\ sent[c] = handled[c] + 1

\* Lines on their way back: answers, or answers and a refusal after them.
Answers(s) == s \in Seq({"answer"})
Closing(s) ==
    /\ s \in Seq({"answer", "UNAUTHORIZED"}) /\ s # << >>
    /\ \A i \in 1..Len(s) : s[i] = IF i = Len(s) THEN "UNAUTHORIZED" ELSE "answer"

\* As long as the daemon serves the connection nothing but answers has come back.  From
\* the refusal on, the line waits in a connection that is not reset, until the bridge
\* passes it on.
Tells(c) ==
    /\ at[c] \in Early \cup Serving =>
          /\ c \notin reset /\ refused[c] = "no"
          /\ client[c] = "closed" /\ at[c] # "none" => c \in hung
    /\ at[c] \in Early => down[c] = << >> /\ (client[c] # "closed" => got[c] = "nothing")
    /\ at[c] \in Serving => Answers(down[c])
    /\ Drains(c) =>
          /\ client[c] # "idle"
          /\ client[c] # "closed" =>
                /\ at[c] = "draining" /\ c \notin reset
                /\ down[c] = <<"UNAUTHORIZED">> /\ got[c] = "nothing"
          /\ client[c] = "closed" => c \in hung \/ got[c] = "UNAUTHORIZED"
    /\ refused[c] = "request" =>
          /\ at[c] = "closed" /\ ~Tunnel(c) /\ handled[c] + 1 <= sent[c]
          /\ client[c] \notin {"idle", "dialled"}
    /\ Lasts(c) =>
          /\ wait[c] = 0
          /\ client[c] # "closed" =>
                c \notin reset /\ (got[c] = "UNAUTHORIZED" \/ Closing(down[c]))
          /\ client[c] = "closed" => c \in hung \/ got[c] = "UNAUTHORIZED"

TellInv ==
    /\ down = [c \in Conn |-> down[c]] /\ got = [c \in Conn |-> got[c]]
    /\ refused \in [Conn -> {"no", "preamble", "request"}] /\ drained \in [Conn -> Nat]
    /\ daemon # "down" => \A c \in Conn : Relayed(c) => Tells(c)

\* Nothing that Tells(d) is about changes.
Untold(d) ==
    /\ at'[d] = at[d] /\ client'[d] = client[d] /\ down'[d] = down[d] /\ got'[d] = got[d]
    /\ refused'[d] = refused[d] /\ drained'[d] = drained[d]
    /\ sent'[d] = sent[d] /\ wait'[d] = wait[d] /\ handled'[d] = handled[d]
    /\ (d \in reset' <=> d \in reset) /\ (d \in hung' <=> d \in hung)

LEMMA Put ==
  ASSUME NEW f, f = [d \in Conn |-> f[d]], NEW c \in Conn, NEW v, NEW g, g = [f EXCEPT ![c] = v]
  PROVE  /\ g = [d \in Conn |-> g[d]] /\ g[c] = v
         /\ \A d \in Conn : d # c => g[d] = f[d]
<1>1. DOMAIN f = Conn
  BY Zenon
<1>2. g = [d \in Conn |-> IF d = c THEN v ELSE f[d]]
  BY <1>1, Zenon
<1> QED BY <1>2, Zenon

\* Answers, and the refusal that may follow them.
LEMMA AnswerLines ==
  ASSUME NEW s, Answers(s)
  PROVE  /\ Answers(Append(s, "answer")) /\ Closing(Append(s, "UNAUTHORIZED"))
         /\ s # << >> => Head(s) = "answer" /\ Answers(Tail(s))
<1>1. Answers(Append(s, "answer")) /\ (s # << >> => Head(s) = "answer" /\ Answers(Tail(s)))
  BY DEF Answers
<1> DEFINE t == Append(s, "UNAUTHORIZED")
<1>2. /\ Len(s) \in Nat /\ Len(t) = Len(s) + 1 /\ t[Len(s) + 1] = "UNAUTHORIZED"
      /\ \A i \in 1..Len(s) : t[i] = "answer"
  BY DEF Answers
<1>3. t \in Seq({"answer", "UNAUTHORIZED"}) /\ t # << >>
  <2>1. s \in Seq({"answer", "UNAUTHORIZED"})
    BY DEF Answers
  <2> QED BY <2>1
<1> HIDE DEF t
<1>4. ASSUME NEW i \in 1..Len(t) PROVE t[i] = IF i = Len(t) THEN "UNAUTHORIZED" ELSE "answer"
  BY <1>2
<1>5. Closing(t)
  BY <1>3, <1>4, Zenon DEF Closing
<1> QED BY <1>1, <1>5, Zenon DEF t

LEMMA ClosingLines ==
  ASSUME NEW s, Closing(s)
  PROVE  s # << >> /\ (Head(s) = "UNAUTHORIZED" \/ Closing(Tail(s)))
<1> DEFINE t == Tail(s)
<1>1. /\ s \in Seq({"answer", "UNAUTHORIZED"}) /\ s # << >>
      /\ \A i \in 1..Len(s) : s[i] = IF i = Len(s) THEN "UNAUTHORIZED" ELSE "answer"
  BY Zenon DEF Closing
<1>2. CASE Len(s) = 1
  BY <1>1, <1>2
<1>3. CASE Len(s) # 1
  <2>1. Len(s) \in Nat /\ Len(s) > 1 /\ t \in Seq({"answer", "UNAUTHORIZED"})
    <3>1. Len(s) \in Nat /\ Len(s) # 0
      BY <1>1
    <3>2. t \in Seq({"answer", "UNAUTHORIZED"})
      BY <1>1
    <3>3. \A n \in Nat : n # 0 /\ n # 1 => n > 1
      OBVIOUS
    <3> QED BY <1>3, <3>1, <3>2, <3>3, Zenon
  <2>2. Len(t) = Len(s) - 1 /\ \A i \in 1..Len(t) : t[i] = s[i + 1]
    BY <1>1, <2>1
  <2> HIDE DEF t
  <2>3. t # << >>
    BY <2>1, <2>2
  <2>4. ASSUME NEW i \in 1..Len(t) PROVE t[i] = IF i = Len(t) THEN "UNAUTHORIZED" ELSE "answer"
    <3>1. i + 1 \in 1..Len(s) /\ (i + 1 = Len(s) <=> i = Len(t))
      BY <2>1, <2>2
    <3> QED BY <1>1, <2>2, <3>1, Zenon
  <2>5. Closing(t)
    BY <2>1, <2>3, <2>4, Zenon DEF Closing
  <2> QED BY <1>1, <2>5, Zenon DEF t
<1> QED BY <1>2, <1>3, Zenon

LEMMA UntoldTells ==
  ASSUME NEW d \in Conn, Relayed(d) => Tells(d), Untold(d), way' = way
  PROVE  Relayed(d)' => Tells(d)'
  BY Zenon DEF Untold, Tells, Relayed, Drains, Lasts, Tunnel

\* A step about one connection.
LEMMA OneTells ==
  ASSUME TellInv, NEW c \in Conn, way' = way, daemon' = daemon,
         refused' \in [Conn -> {"no", "preamble", "request"}], drained' \in [Conn -> Nat],
         down' = [d \in Conn |-> down'[d]], got' = [d \in Conn |-> got'[d]],
         daemon # "down" => (Relayed(c) => Tells(c)'),
         \A d \in Conn : d # c => Untold(d)
  PROVE  TellInv'
<1>1. ASSUME daemon # "down", NEW d \in Conn PROVE Relayed(d)' => Tells(d)'
  <2>1. CASE d = c
    BY <1>1, <2>1, Zenon DEF Relayed
  <2>2. CASE d # c
    BY <1>1, <2>2, UntoldTells, Zenon DEF TellInv
  <2> QED BY <2>1, <2>2, Zenon
<1> QED BY <1>1, Zenon DEF TellInv

\* Once the daemon no longer serves it, only the client of a refusal matters.
LEMMA PastTells ==
  ASSUME NEW c \in Conn, Tells(c), at'[c] \notin Early \cup Serving,
         client'[c] = client[c], got'[c] = got[c], hung' = hung,
         UNCHANGED <<way, refused, drained, sent, handled>>,
         Drains(c) => client[c] = "closed", refused[c] # "request"
  PROVE  Tells(c)'
<1>1. at'[c] \notin Early /\ at'[c] \notin Serving /\ "closed" # "idle"
  BY Zenon
<1> QED BY <1>1, Zenon DEF Tells, Drains, Lasts

LEMMA TellsInit == Init => TellInv
<1> SUFFICES ASSUME Init PROVE TellInv
  OBVIOUS
<1>1. /\ down = [c \in Conn |-> down[c]] /\ got = [c \in Conn |-> got[c]]
      /\ refused \in [Conn -> {"no", "preamble", "request"}]
  BY Zenon DEF Init
<1>2. drained \in [Conn -> Nat]
  BY DEF Init
<1>3. ASSUME NEW c \in Conn PROVE Tells(c)
  <2>1. /\ at[c] = "none" /\ at[c] \in Early /\ at[c] \notin Serving /\ refused[c] = "no"
        /\ c \notin reset /\ down[c] = << >> /\ got[c] = "nothing"
    BY Zenon DEF Init, Early, Serving
  <2>2. refused[c] # "preamble" /\ refused[c] # "request"
    BY <2>1, Zenon
  <2> QED BY <2>1, <2>2, Zenon DEF Tells, Drains, Lasts
<1> QED BY <1>1, <1>2, <1>3, Zenon DEF TellInv

\* The client, or the bridge for it, is done, and has been told of a refusal.
LEMMA LeaveTells ==
  ASSUME IInv, TellInv, NEW c \in Conn,
         UNCHANGED <<way, daemon, at, down, reset, refused, drained, sent, handled>>, Leave(c),
         hung' = hung \/ hung' = hung \cup {c}, got' = [d \in Conn |-> got'[d]],
         \A d \in Conn : d # c => got'[d] = got[d] /\ wait'[d] = wait[d],
         daemon # "down" /\ Relayed(c) =>
            /\ at[c] \in Early \cup Serving => at[c] = "none" \/ c \in hung'
            /\ Drains(c) => c \in hung' \/ got'[c] = "UNAUTHORIZED"
            /\ Lasts(c) => wait'[c] = 0 /\ (c \in hung' \/ got'[c] = "UNAUTHORIZED")
  PROVE  TellInv'
<1>1. client'[c] = "closed" /\ \A d \in Conn : d # c => client'[d] = client[d]
  BY Zenon DEF Leave, IInv, TypeOK
<1>2. \A d \in Conn : d # c => Untold(d)
  BY <1>1, Zenon DEF Untold
<1>3. ASSUME daemon # "down", Relayed(c) PROVE Tells(c)'
  <2>1. Tells(c)
    BY <1>3, Zenon DEF TellInv
  <2>2. "closed" # "idle" /\ "closed" # "dialled"
    BY Zenon
  <2> QED BY <1>1, <1>3, <2>1, <2>2, Zenon DEF Tells, Drains, Lasts, Tunnel
<1> QED BY <1>2, <1>3, OneTells, Zenon DEF TellInv

\* A client of the bridge asks for more or hangs up; the others have no part in this.
LEMMA ClientTells ==
  ASSUME IInv, AskInv, TellInv, NEW c \in Conn, Client(c)
  PROVE  TellInv'
<1>1. UNCHANGED <<way, daemon, refused, drained, handled>>
  BY Zenon DEF Client, Dial, SendPreamble, SendRequest, HangUp, Receive, setup, records
<1>2. CASE HangUp(c)
  <2>1. /\ UNCHANGED <<at, down, reset, got, sent, wait>>
        /\ hung' = (IF Relayed(c) THEN hung \cup {c} ELSE hung)
    BY <1>2, Zenon DEF HangUp, links
  <2>2. CASE Leave(c)
    <3>1. Relayed(c) => c \in hung'
      BY <2>1, Zenon
    <3>2. daemon # "down" /\ Relayed(c) /\ Lasts(c) => wait'[c] = 0
      BY <2>1, Zenon DEF TellInv, Tells
    <3> QED BY <1>1, <2>1, <2>2, <3>1, <3>2, LeaveTells, Zenon DEF TellInv
  <2>3. CASE UNCHANGED client
    <3>1. \A d \in Conn : d # c => Untold(d)
      BY <1>1, <2>1, <2>3, Zenon DEF Untold
    <3>2. ASSUME daemon # "down", Relayed(c) PROVE Tells(c)'
      BY <1>1, <2>1, <2>3, <3>2, Zenon DEF Tells, TellInv, Drains, Lasts, Tunnel
    <3> QED BY <1>1, <2>1, <3>1, <3>2, OneTells, Zenon DEF TellInv
  <2> QED BY <1>2, <2>2, <2>3, Zenon DEF HangUp
<1>3. CASE SendRequest(c) /\ Relayed(c)
  <2>1. /\ UNCHANGED <<at, client, down, got, reset, hung>>
        /\ sent' = [sent EXCEPT ![c] = @ + 1] /\ wait' = [wait EXCEPT ![c] = @ + 1]
    BY <1>3, Zenon DEF SendRequest, links
  <2>2. sent'[c] = sent[c] + 1 /\ \A d \in Conn : d # c => sent'[d] = sent[d] /\ wait'[d] = wait[d]
    BY <2>1, Zenon DEF AskInv, Counts
  <2>3. \A d \in Conn : d # c => Untold(d)
    BY <1>1, <2>1, <2>2, Zenon DEF Untold
  <2>4. ASSUME daemon # "down", Relayed(c) PROVE Tells(c)'
    <3>1. Tells(c) /\ sent[c] \in Nat /\ handled[c] \in Nat
      BY <2>4, Zenon DEF TellInv, AskInv, Counts
    <3>2. handled[c] + 1 <= sent[c] => handled[c] + 1 <= sent'[c] /\ sent'[c] # handled[c] + 1
      BY <2>2, <3>1
    <3>3. ~Lasts(c)'
      BY <1>1, <3>1, <3>2, Zenon DEF Lasts, Tells
    <3> QED BY <1>1, <2>1, <3>1, <3>2, <3>3, Zenon DEF Tells, Drains, Tunnel
  <2> QED BY <1>1, <2>1, <2>3, <2>4, OneTells, Zenon DEF TellInv
<1>4. CASE ~Relayed(c) /\ ~HangUp(c)
  <2>1. /\ \A d \in Conn : d # c => at'[d] = at[d] /\ client'[d] = client[d]
        /\ hung' = hung
    BY <1>4, Zenon DEF Client, Dial, SendPreamble, SendRequest, Receive, Leave, IInv, TypeOK
  <2>2. \A d \in Conn : d # c => (d \in reset' <=> d \in reset)
    BY <1>4, Zenon DEF Client, Dial, SendPreamble, SendRequest, Receive, SendUp, links
  <2>3. down' = down \/ \E v : down' = [down EXCEPT ![c] = v]
    BY <1>4, Zenon DEF Client, Dial, SendPreamble, SendRequest, Receive, SendUp, links
  <2>4. got' = got \/ \E v : got' = [got EXCEPT ![c] = v]
    BY <1>4, Zenon DEF Client, Dial, SendPreamble, SendRequest, Receive, Told
  <2>5. down' = [d \in Conn |-> down'[d]] /\ \A d \in Conn : d # c => down'[d] = down[d]
    BY <2>3, Put, Zenon DEF TellInv
  <2>6. got' = [d \in Conn |-> got'[d]] /\ \A d \in Conn : d # c => got'[d] = got[d]
    BY <2>4, Put, Zenon DEF TellInv
  <2>7. \A d \in Conn : d # c => sent'[d] = sent[d] /\ wait'[d] = wait[d]
    BY <1>4, Zenon DEF Client, Dial, SendPreamble, SendRequest, Receive, AskInv, Counts
  <2>8. \A d \in Conn : d # c => Untold(d)
    BY <1>1, <2>1, <2>2, <2>5, <2>6, <2>7, Zenon DEF Untold
  <2> QED BY <1>1, <1>4, <2>5, <2>6, <2>8, OneTells, Zenon DEF TellInv
<1> QED BY <1>2, <1>3, <1>4, Zenon DEF Client, Dial, SendPreamble, Receive

-----------------------------------------------------------------------------

\* Writing to the daemon matters only to a connection that is closed.  While the client
\* is there it is not closed after the preamble, and after the last request there is
\* nothing to write.
LEMMA SendUpTells ==
  ASSUME TellInv, NEW c \in Conn,
         UNCHANGED <<way, daemon, at, refused, drained, sent, handled, hung, got>>,
         NEW l, SendUp(c, l),
         client[c] = "dialled" \/ (client[c] = "open" /\ wait[c] # 0), client'[c] = "open",
         \A d \in Conn : d # c => client'[d] = client[d] /\ wait'[d] = wait[d]
  PROVE  TellInv'
<1>1. down' = down /\ \A d \in Conn : d # c => (d \in reset' <=> d \in reset)
  BY DEF SendUp
<1>2. \A d \in Conn : d # c => Untold(d)
  BY <1>1, Zenon DEF Untold
<1>3. at[c] # "closed" => reset' = reset
  BY Zenon DEF SendUp
<1>4. ASSUME daemon # "down", Relayed(c) PROVE Tells(c)'
  <2>1. Tells(c)
    BY <1>4, Zenon DEF TellInv
  <2>2. /\ client[c] # "closed" /\ client[c] # "idle"
        /\ client'[c] # "closed" /\ client'[c] \notin {"idle", "dialled"}
    BY Zenon
  <2>3. CASE at[c] # "closed"
    <3>1. refused[c] # "request"
      BY <2>1, <2>3, Zenon DEF Tells
    <3> QED BY <1>1, <1>3, <2>1, <2>2, <2>3, <3>1, Zenon DEF Tells, Drains, Lasts
  <2>4. CASE at[c] = "closed"
    <3>1. at[c] \notin Early /\ at[c] \notin Serving /\ at[c] # "draining"
      BY <2>4, Zenon DEF Early, Serving
    <3>2. ~Drains(c) /\ ~Lasts(c)
      BY <2>1, <2>2, <3>1, Zenon DEF Tells, Lasts
    <3> QED BY <2>1, <2>2, <3>1, <3>2, Zenon DEF Tells, Drains, Lasts, Tunnel
  <2> QED BY <2>3, <2>4, Zenon
<1> QED BY <1>1, <1>2, <1>4, OneTells, Zenon DEF TellInv

LEMMA BridgeDialTells ==
  ASSUME IInv, AskInv, TellInv, NEW c \in Conn, BridgeDial(c)
  PROVE  TellInv'
<1>1. /\ UNCHANGED <<way, daemon, down, reset, refused, drained, handled, sent, hung>>
      /\ client[c] = "idle" /\ wait' = [wait EXCEPT ![c] = @ - 1]
  BY Zenon DEF BridgeDial, setup, links, records
<1>2. at[c] = "none" /\ at[c] \in Early
  BY <1>1, Zenon DEF IInv, Fresh, Early
<1>3. \A d \in Conn : d # c => wait'[d] = wait[d]
  BY <1>1, Zenon DEF AskInv, Counts
<1>4. daemon # "down" /\ Relayed(c) => refused[c] = "no" /\ ~Drains(c) /\ ~Lasts(c)
  BY <1>2, Zenon DEF TellInv, Tells, Drains, Lasts
<1>5. CASE /\ client' = [client EXCEPT ![c] = "dialled"]
           /\ at' = [at EXCEPT ![c] = "backlog"] /\ UNCHANGED got
  <2>1. /\ client'[c] = "dialled" /\ at'[c] = "backlog"
        /\ \A d \in Conn : d # c => client'[d] = client[d] /\ at'[d] = at[d]
    BY <1>5, Zenon DEF IInv, TypeOK
  <2>2. \A d \in Conn : d # c => Untold(d)
    BY <1>1, <1>3, <1>5, <2>1, Zenon DEF Untold
  <2>3. ASSUME daemon # "down", Relayed(c) PROVE Tells(c)'
    <3>1. /\ client[c] # "closed" /\ client'[c] # "closed"
          /\ at'[c] \in Early /\ at'[c] \notin Serving
      BY <1>1, <2>1, Zenon DEF Early, Serving
    <3>2. Tells(c)
      BY <2>3, Zenon DEF TellInv
    <3>3. refused'[c] = "no" /\ refused'[c] # "preamble" /\ refused'[c] # "request"
      BY <1>1, <1>4, <2>3, Zenon
    <3> QED BY <1>1, <1>2, <1>5, <3>1, <3>2, <3>3, Zenon DEF Tells, Drains, Lasts
  <2> QED BY <1>1, <1>5, <2>2, <2>3, OneTells, Zenon DEF TellInv
<1>6. CASE Leave(c) /\ Told(c, "INTERNAL") /\ UNCHANGED at
  <2>1. got' = [d \in Conn |-> got'[d]] /\ \A d \in Conn : d # c => got'[d] = got[d]
    BY <1>6, Put, Zenon DEF TellInv, Told
  <2> QED BY <1>1, <1>2, <1>3, <1>4, <1>6, <2>1, LeaveTells, Zenon
<1> QED BY <1>5, <1>6, Zenon DEF BridgeDial

LEMMA BridgeWriteTells ==
  ASSUME IInv, TellInv, NEW c \in Conn, BridgeWrite(c)
  PROVE  TellInv'
<1>1. /\ UNCHANGED <<way, daemon, at, refused, drained, sent, wait, handled, hung>>
      /\ client[c] = "dialled"
  BY Zenon DEF BridgeWrite, setup, records
<1>2. ASSUME NEW l, SendUp(c, l), client' = [client EXCEPT ![c] = "open"], UNCHANGED got
      PROVE  TellInv'
  <2>1. client'[c] = "open" /\ \A d \in Conn : d # c => client'[d] = client[d]
    BY <1>2, Zenon DEF IInv, TypeOK
  <2> QED BY <1>1, <1>2, <2>1, SendUpTells, Zenon
<1>3. CASE at[c] = "closed" /\ Leave(c) /\ Told(c, "INTERNAL") /\ UNCHANGED links
  <2>1. got' = [d \in Conn |-> got'[d]] /\ \A d \in Conn : d # c => got'[d] = got[d]
    BY <1>3, Put, Zenon DEF TellInv, Told
  <2>2. /\ at[c] \notin Early \cup Serving /\ at[c] # "draining" /\ client[c] # "closed"
        /\ client[c] \in {"idle", "dialled"}
    BY <1>1, <1>3, Zenon DEF Early, Serving
  <2>3. daemon # "down" /\ Relayed(c) => ~Drains(c) /\ ~Lasts(c)
    BY <2>2, Zenon DEF TellInv, Tells, Lasts
  <2> QED BY <1>1, <1>3, <2>1, <2>2, <2>3, LeaveTells, Zenon DEF links
<1> QED BY <1>2, <1>3, Zenon DEF BridgeWrite

LEMMA BridgeUpTells ==
  ASSUME IInv, AskInv, TellInv, NEW c \in Conn, BridgeUp(c)
  PROVE  TellInv'
<1>1. /\ UNCHANGED <<way, daemon, at, refused, drained, sent, handled, hung, got>>
      /\ client[c] = "open" /\ client[c] # "closed"
      /\ wait' = wait \/ wait' = [wait EXCEPT ![c] = @ - 1]
  BY Zenon DEF BridgeUp, setup, records
<1>2. \A d \in Conn : d # c => wait'[d] = wait[d]
  BY <1>1, Zenon DEF AskInv, Counts
<1>3. wait[c] > 0 => wait[c] # 0
  OBVIOUS
<1>4. CASE wait[c] > 0 /\ SendUp(c, <<"request">>) /\ UNCHANGED client
  BY <1>1, <1>2, <1>3, <1>4, SendUpTells, Zenon
<1>5. CASE wait[c] > 0 /\ c \in reset /\ Leave(c) /\ UNCHANGED links
  <2>1. daemon # "down" /\ Relayed(c) =>
            at[c] \notin Early \cup Serving /\ ~Drains(c) /\ ~Lasts(c)
    BY <1>1, <1>3, <1>5, Zenon DEF TellInv, Tells
  <2> QED BY <1>1, <1>2, <1>5, <2>1, LeaveTells, Zenon DEF links, TellInv
<1>6. CASE wait[c] = 0 /\ c \in hung /\ Leave(c) /\ UNCHANGED <<wait, links>>
  BY <1>1, <1>2, <1>6, LeaveTells, Zenon DEF links, TellInv
<1> QED BY <1>4, <1>5, <1>6, Zenon DEF BridgeUp

\* The refusal is passed on, and if it is the first line that comes back ends the relay.
LEMMA BridgeDownTells ==
  ASSUME IInv, AskInv, TellInv, NEW c \in Conn, BridgeDown(c)
  PROVE  TellInv'
<1> DEFINE line == Head(down[c])
           said == IF line = "NOT_FOUND" THEN "INTERNAL" ELSE line
<1>1. /\ UNCHANGED <<way, daemon, at, refused, drained, sent, wait, handled, hung, reset>>
      /\ client[c] = "open" /\ client[c] # "closed" /\ down[c] # << >>
      /\ down' = [down EXCEPT ![c] = Tail(@)] /\ Told(c, said)
      /\ client' = client \/ Leave(c)
      /\ got[c] = "nothing" /\ line # "answer" => Leave(c)
      /\ client' # client => c \in hung \/ Tunnel(c) \/ (got[c] = "nothing" /\ line # "answer")
  BY Zenon DEF BridgeDown, records
<1>2. /\ down' = [d \in Conn |-> down'[d]] /\ \A d \in Conn : d # c => down'[d] = down[d]
      /\ down'[c] = Tail(down[c])
      /\ got' = [d \in Conn |-> got'[d]] /\ \A d \in Conn : d # c => got'[d] = got[d]
      /\ got[c] = "nothing" => got'[c] = said
      /\ got[c] = "UNAUTHORIZED" \/ said = "UNAUTHORIZED" => got'[c] = "UNAUTHORIZED"
  BY <1>1, Put, Zenon DEF TellInv, Told
<1>3. /\ client'[c] \in {client[c], "closed"} /\ client'[c] \notin {"idle", "dialled"}
      /\ Leave(c) => client'[c] = "closed"
      /\ client'[c] = "closed" => client' # client
      /\ \A d \in Conn : d # c => client'[d] = client[d]
  BY <1>1, Zenon DEF Leave, IInv, TypeOK
<1>4. \A d \in Conn : d # c => Untold(d)
  BY <1>1, <1>2, <1>3, Zenon DEF Untold
<1>5. ASSUME daemon # "down", Relayed(c) PROVE Tells(c)'
  <2>1. Tells(c) /\ Asked(c) /\ at[c] \notin Early
    BY <1>1, <1>5, Zenon DEF Tells, TellInv, AskInv
  <2>2. CASE at[c] \in Serving
    <3>1. /\ line = "answer" /\ Answers(Tail(down[c])) /\ ~Tunnel(c)
          /\ refused[c] = "no" /\ refused[c] # "preamble" /\ refused[c] # "request"
      BY <1>1, <2>1, <2>2, AnswerLines, Zenon DEF Tells, Asked
    <3>2. client'[c] = "closed" => c \in hung
      BY <1>1, <1>3, <3>1, Zenon
    <3> QED BY <1>1, <1>2, <2>1, <2>2, <3>1, <3>2, Zenon DEF Tells, Drains, Lasts
  <2>3. CASE Drains(c)
    <3>1. down[c] = <<"UNAUTHORIZED">> /\ got[c] = "nothing" /\ at[c] = "draining"
      BY <1>1, <2>1, <2>3, Zenon DEF Tells
    <3>2. line = "UNAUTHORIZED" /\ said = "UNAUTHORIZED" /\ line # "answer"
      BY <3>1
    <3>3. client'[c] = "closed" /\ got'[c] = "UNAUTHORIZED"
      BY <1>1, <1>2, <1>3, <3>1, <3>2, Zenon
    <3>4. at[c] \notin Serving /\ refused[c] # "request"
      BY <2>3, <3>1, Zenon DEF Serving, Drains
    <3> QED BY <1>1, <1>3, <2>1, <3>3, <3>4, Zenon DEF Tells, Drains, Lasts
  <2>4. CASE refused[c] = "request"
    <3>1. /\ at[c] = "closed" /\ ~Tunnel(c) /\ at[c] \notin Serving /\ ~Drains(c)
          /\ handled[c] + 1 <= sent[c]
      BY <2>1, <2>4, Zenon DEF Tells, Drains, Serving
    <3>2. ASSUME Lasts(c)
          PROVE  /\ got'[c] = "UNAUTHORIZED" \/ Closing(down'[c])
                 /\ client'[c] = "closed" => c \in hung \/ got'[c] = "UNAUTHORIZED"
      <4>1. CASE got[c] = "UNAUTHORIZED" \/ line = "UNAUTHORIZED"
        <5>1. line = "UNAUTHORIZED" => said = "UNAUTHORIZED"
          BY Zenon
        <5> QED BY <1>2, <4>1, <5>1, Zenon
      <4>2. CASE got[c] # "UNAUTHORIZED" /\ line # "UNAUTHORIZED"
        <5>1. Closing(down[c])
          BY <1>1, <2>1, <3>2, <4>2, Zenon DEF Tells
        <5>2. line = "answer" /\ Closing(Tail(down[c]))
          <6>1. Closing(Tail(down[c]))
            BY <4>2, <5>1, ClosingLines, Zenon
          <6>2. line \in {"answer", "UNAUTHORIZED"}
            BY <5>1 DEF Closing
          <6> QED BY <4>2, <6>1, <6>2, Zenon
        <5> QED BY <1>1, <1>2, <1>3, <3>1, <5>2, Zenon
      <4> QED BY <4>1, <4>2, Zenon
    <3> QED BY <1>1, <1>3, <2>1, <2>4, <3>1, <3>2, Zenon DEF Tells, Drains, Lasts, Tunnel
  <2>5. CASE at[c] \notin Serving /\ ~Drains(c) /\ refused[c] # "request"
    BY <1>1, <2>1, <2>5, Zenon DEF Tells, Drains, Lasts
  <2> QED BY <2>2, <2>3, <2>4, <2>5, Zenon
<1> QED BY <1>1, <1>2, <1>4, <1>5, OneTells, Zenon DEF TellInv

LEMMA BridgeEofTells ==
  ASSUME IInv, TellInv, NEW c \in Conn, BridgeEof(c)
  PROVE  TellInv'
<1>1. /\ UNCHANGED <<way, daemon, at, refused, drained, sent, wait, handled, hung, down, reset>>
      /\ client[c] = "open" /\ client[c] # "closed" /\ Ended(c) /\ Leave(c)
      /\ got' = got \/ (got[c] = "nothing" /\ Told(c, "INTERNAL"))
  BY Zenon DEF BridgeEof, setup, records, links
<1>2. at[c] \notin Early \cup Serving /\ down[c] # <<"UNAUTHORIZED">> /\ down[c] = << >>
  BY <1>1 DEF Ended, Early, Serving
<1>3. daemon # "down" /\ Relayed(c) => ~Drains(c)
  BY <1>1, <1>2, Zenon DEF TellInv, Tells
<1>4. daemon # "down" /\ Relayed(c) /\ Lasts(c) => wait[c] = 0 /\ got[c] = "UNAUTHORIZED"
  BY <1>1, <1>2, Zenon DEF TellInv, Tells, Closing
<1>5. "UNAUTHORIZED" # "nothing"
  BY Zenon
<1>6. got' = [d \in Conn |-> got'[d]] /\ \A d \in Conn : d # c => got'[d] = got[d]
  BY <1>1, Put, Zenon DEF TellInv, Told
<1> QED BY <1>1, <1>2, <1>3, <1>4, <1>5, <1>6, LeaveTells, Zenon

-----------------------------------------------------------------------------

LEMMA PreambleReadTells ==
  ASSUME IInv, TellInv, NEW c \in Conn, ReadPreamble(c)
  PROVE  TellInv'
<1>1. /\ UNCHANGED <<way, daemon, client, got, hung, reset, drained, sent, wait, handled>>
      /\ at[c] = "preamble" /\ at[c] \in Early /\ at[c] # "none"
  BY Zenon DEF ReadPreamble, setup, clients, Early
<1>2. client[c] # "idle"
  BY <1>1, Zenon DEF IInv, Fresh
<1>3. /\ down' = down \/ \E l : down' = [down EXCEPT ![c] = Append(@, l)]
      /\ \/ /\ refused' = refused
            /\ \/ Queue(c) /\ down' = down
               \/ \E x \in {"draining", "spliced", "closed"} : at' = [at EXCEPT ![c] = x]
         \/ refused' = [refused EXCEPT ![c] = "preamble"] /\ Refuse(c, "UNAUTHORIZED")
  BY Zenon DEF ReadPreamble, Refuse
<1>4. \A d \in Conn : d # c => at'[d] = at[d]
  BY <1>3, Zenon DEF Queue, Refuse, IInv, TypeOK
<1>5. down' = [d \in Conn |-> down'[d]] /\ \A d \in Conn : d # c => down'[d] = down[d]
  BY <1>3, Put, Zenon DEF TellInv
<1>6. /\ refused' \in [Conn -> {"no", "preamble", "request"}]
      /\ \A d \in Conn : d # c => refused'[d] = refused[d]
  BY <1>3, Zenon DEF TellInv
<1>7. \A d \in Conn : d # c => Untold(d)
  BY <1>1, <1>4, <1>5, <1>6, Zenon DEF Untold
<1>8. ASSUME daemon # "down", Relayed(c) PROVE Tells(c)'
  <2>1. Tells(c)
    BY <1>8, Zenon DEF TellInv
  <2>2. /\ down[c] = << >> /\ c \notin reset /\ refused[c] = "no"
        /\ refused[c] # "preamble" /\ refused[c] # "request"
        /\ client[c] = "closed" => c \in hung
    BY <1>1, <2>1, Zenon DEF Tells
  <2>3. CASE refused' = refused /\ Queue(c) /\ down' = down
    <3>1. at'[c] = "queued" /\ at'[c] \notin Early
      BY <2>3, Zenon DEF Queue, IInv, TypeOK, Early
    <3>2. Answers(down'[c])
      <4>1. Answers(<< >>)
        BY DEF Answers
      <4> QED BY <2>2, <2>3, <4>1, Zenon
    <3> QED BY <1>1, <2>2, <2>3, <3>1, <3>2, Zenon DEF Tells, Drains, Lasts
  <2>4. CASE refused' = refused /\ \E x \in {"draining", "spliced", "closed"} : at' = [at EXCEPT ![c] = x]
    <3>1. at'[c] \notin Early /\ at'[c] \notin Serving
      BY <2>4, Zenon DEF IInv, TypeOK, Early, Serving
    <3> QED BY <2>2, <2>4, <3>1, Zenon DEF Tells, Drains, Lasts
  <2>5. CASE refused' = [refused EXCEPT ![c] = "preamble"] /\ Refuse(c, "UNAUTHORIZED")
    <3>1. /\ at'[c] = "draining" /\ at'[c] \notin Early /\ at'[c] \notin Serving
          /\ down' = [down EXCEPT ![c] = Append(@, "UNAUTHORIZED")]
      BY <2>5, Zenon DEF Refuse, IInv, TypeOK, Early, Serving
    <3>2. down'[c] = Append(down[c], "UNAUTHORIZED") /\ refused'[c] # "request"
      BY <2>5, <3>1, Put, Zenon DEF TellInv
    <3>3. down'[c] = <<"UNAUTHORIZED">>
      BY <2>2, <3>2
    <3> QED BY <1>1, <1>2, <2>1, <2>2, <3>1, <3>2, <3>3, Zenon DEF Tells, Drains, Lasts
  <2> QED BY <1>3, <2>3, <2>4, <2>5, Zenon
<1> QED BY <1>1, <1>5, <1>6, <1>7, <1>8, OneTells, Zenon DEF TellInv

\* A request is refused with nothing before it but answers; if it is the last, nothing
\* is left unread, so that the connection is not reset.
LEMMA RequestTells ==
  ASSUME IInv, AskInv, TellInv, NEW c \in Conn, daemon # "down", Relayed(c),
         at[c] = "read", up[c] # << >>, refused' = [refused EXCEPT ![c] = "request"],
         down' = [down EXCEPT ![c] = Append(@, "UNAUTHORIZED")],
         at' = [at EXCEPT ![c] = "closed"],
         reset' \in {reset, IF Len(up[c]) > 1 THEN reset \cup {c} ELSE reset},
         UNCHANGED <<way, client, got, hung, sent, wait, handled>>
  PROVE  Tells(c)'
<1>1. /\ at[c] \in Serving /\ at'[c] = "closed" /\ at'[c] \notin Early /\ at'[c] \notin Serving
      /\ refused'[c] = "request" /\ refused'[c] # "preamble"
  BY Zenon DEF Serving, Early, IInv, TypeOK, TellInv
<1>2. c \notin reset /\ Answers(down[c]) /\ (client[c] = "closed" => c \in hung)
  <2>1. at[c] # "none" /\ Tells(c)
    BY Zenon DEF TellInv
  <2> QED BY <1>1, <2>1, Zenon DEF Tells
<1>3. Closing(down'[c])
  <2>1. down'[c] = Append(down[c], "UNAUTHORIZED")
    BY Put, Zenon DEF TellInv
  <2> QED BY <1>2, <2>1, AnswerLines, Zenon
<1>4. /\ ~Tunnel(c) /\ client[c] \notin {"idle", "dialled"}
      /\ handled[c] + wait[c] + Len(up[c]) <= sent[c]
  BY <1>1, Zenon DEF AskInv, Asked
<1>5. /\ handled[c] + 1 <= sent[c]
      /\ sent[c] = handled[c] + 1 => wait[c] = 0 /\ reset' = reset
  <2>1. /\ handled[c] \in Nat /\ wait[c] \in Nat /\ sent[c] \in Nat
        /\ Len(up[c]) \in Nat /\ Len(up[c]) # 0
    BY Lines, Zenon DEF AskInv, Counts
  <2>2. handled[c] + 1 <= sent[c] /\ (sent[c] = handled[c] + 1 => wait[c] = 0 /\ ~(Len(up[c]) > 1))
    BY <1>4, <2>1
  <2> QED BY <2>2, Zenon
<1> QED BY <1>1, <1>2, <1>3, <1>4, <1>5, Zenon DEF Tells, Drains, Lasts, Tunnel

\* The refused connection is not closed before the client has read the refusal.
LEMMA DrainTells ==
  ASSUME IInv, TellInv, NEW c \in Conn, daemon # "down", Relayed(c), DrainRefusal(c)
  PROVE  Tells(c)'
<1>1. /\ UNCHANGED <<way, client, got, hung, down, refused, sent, wait, handled>>
      /\ at[c] = "draining" /\ Tells(c)
  BY Zenon DEF DrainRefusal, setup, clients, TellInv
<1>2. at[c] \notin Early /\ at[c] \notin Serving /\ refused[c] # "request"
  BY <1>1, Zenon DEF Early, Serving, Tells
<1>3. CASE drained[c] < MaxDrain /\ UNCHANGED <<at, reset>>
  BY <1>1, <1>2, <1>3, Zenon DEF Tells, Drains, Lasts
<1>4. CASE /\ client[c] = "closed" \/ drained[c] = MaxDrain \/ down[c] = << >>
           /\ CloseAt(c) /\ UNCHANGED drained
  <2>1. at'[c] \notin Early \cup Serving /\ << >> # <<"UNAUTHORIZED">>
    BY <1>4, Zenon DEF CloseAt, Early, Serving, IInv, TypeOK
  <2>2. drained[c] = MaxDrain => ~(drained[c] < MaxDrain)
    BY ConnAssumption
  <2>3. Drains(c) => client[c] = "closed"
    BY <1>1, <1>4, <2>1, <2>2, Zenon DEF Tells, Drains
  <2> QED BY <1>1, <1>2, <1>4, <2>1, <2>3, PastTells, Zenon
<1> QED BY <1>3, <1>4, Zenon DEF DrainRefusal, Drain

LEMMA ServeTells ==
  ASSUME IInv, AskInv, TellInv, NEW c \in Conn, Daemon(c), ~ReadPreamble(c)
  PROVE  TellInv'
<1>1. /\ UNCHANGED <<way, daemon, client, got, hung, sent, wait>>
      /\ at' = at \/ \E x : at' = [at EXCEPT ![c] = x]
      /\ down' = down \/ \E v : down' = [down EXCEPT ![c] = v]
      /\ reset' = reset \/ reset' = reset \cup {c}
      /\ refused' = refused \/ refused' = [refused EXCEPT ![c] = "request"]
      /\ drained' = drained \/ drained' = [drained EXCEPT ![c] = @ + 1]
      /\ handled' = handled \/ handled' = [handled EXCEPT ![c] = @ + 1]
  <2>1. CASE AcceptTcp(c) \/ AcceptUnix(c) \/ AcceptPipe(c) \/ DrainRefusal(c) \/ EndSplice(c)
    BY <2>1, Zenon DEF AcceptTcp, AcceptUnix, AcceptPipe, DrainRefusal, Drain, EndSplice, CloseAt,
                       Queue, setup, clients, records
  <2>2. CASE Serve(c) \/ ReadRequest(c) \/ Answer(c)
    BY <2>2, Zenon DEF Serve, ReadRequest, Answer, CloseAt, setup, clients, records
  <2> QED BY <2>1, <2>2, Zenon DEF Daemon
<1>2. down' = [d \in Conn |-> down'[d]] /\ \A d \in Conn : d # c => down'[d] = down[d]
  BY <1>1, Put, Zenon DEF TellInv
<1>3. /\ refused' \in [Conn -> {"no", "preamble", "request"}]
      /\ \A d \in Conn : d # c => refused'[d] = refused[d]
  <2>1. refused \in [Conn -> {"no", "preamble", "request"}]
    BY Zenon DEF TellInv
  <2>2. refused' = refused \/ refused' = [refused EXCEPT ![c] = "request"]
    BY <1>1, Zenon
  <2> QED BY <2>1, <2>2, Zenon
<1>4. drained' \in [Conn -> Nat] /\ \A d \in Conn : d # c => drained'[d] = drained[d]
  <2>1. drained \in [Conn -> Nat] /\ drained[c] + 1 \in Nat
    BY DEF TellInv
  <2> QED BY <1>1, <2>1, Zenon
<1>5. \A d \in Conn : d # c => handled'[d] = handled[d]
  BY <1>1, Zenon DEF AskInv, Counts
<1>6. \A d \in Conn : d # c => Untold(d)
  <2>1. \A d \in Conn : d # c => at'[d] = at[d] /\ (d \in reset' <=> d \in reset)
    BY <1>1, Zenon DEF IInv, TypeOK
  <2> QED BY <1>1, <1>2, <1>3, <1>4, <1>5, <2>1, Zenon DEF Untold
<1>7. ASSUME daemon # "down", Relayed(c) PROVE Tells(c)'
  <2>1. Tells(c)
    BY <1>7, Zenon DEF TellInv
  <2>2. CASE AcceptTcp(c)
    <3>1. /\ at[c] \in Early /\ at[c] # "none" /\ refused[c] = "no"
          /\ refused[c] # "preamble" /\ refused[c] # "request"
          /\ UNCHANGED <<down, refused, drained, handled>>
      BY <2>1, <2>2, Zenon DEF AcceptTcp, Tells, Early, records
    <3>2. CASE at' = [at EXCEPT ![c] = "preamble"]
      <4>1. /\ at'[c] \in Early /\ at'[c] \notin Serving /\ at'[c] # "none"
            /\ UNCHANGED <<reset, down>>
        BY <2>2, <3>2, Zenon DEF AcceptTcp, CloseAt, Early, Serving, IInv, TypeOK
      <4> QED BY <1>1, <2>1, <3>1, <4>1, Zenon DEF Tells, Drains, Lasts
    <3>3. CASE CloseAt(c)
      <4>1. at'[c] \notin Early \cup Serving /\ ~Drains(c)
        BY <3>1, <3>3, Zenon DEF CloseAt, Early, Serving, IInv, TypeOK, Drains
      <4> QED BY <1>1, <2>1, <3>1, <4>1, PastTells, Zenon
    <3> QED BY <2>2, <3>2, <3>3, Zenon DEF AcceptTcp
  <2>3. CASE DrainRefusal(c)
    BY <1>7, <2>3, DrainTells, Zenon
  <2>4. CASE EndSplice(c) \/ Serve(c) \/ ReadRequest(c) \/ Answer(c)
    <3>1. /\ at[c] \in {"spliced"} \cup Serving /\ at[c] # "none" /\ at[c] # "closed"
          /\ at[c] # "draining"
      BY <2>4, Zenon DEF EndSplice, Serve, ReadRequest, Answer, Serving
    <3>2. refused[c] # "request" /\ (Drains(c) => client[c] = "closed")
      BY <2>1, <3>1, Zenon DEF Tells
    <3>3. CASE CloseAt(c) /\ UNCHANGED <<down, refused, drained, handled>>
      <4>1. at'[c] \notin Early \cup Serving
        BY <3>3, Zenon DEF CloseAt, Early, Serving, IInv, TypeOK
      <4> QED BY <1>1, <2>1, <3>2, <3>3, <4>1, PastTells, Zenon
    <3>4. CASE /\ at[c] \in Serving /\ UNCHANGED <<reset, refused>>
               /\ \E x \in Serving : at' = [at EXCEPT ![c] = x]
               /\ down' = down \/ down' = [down EXCEPT ![c] = Append(@, "answer")]
      <4>1. at'[c] \in Serving /\ at'[c] \notin Early /\ at'[c] # "none"
        BY <3>4, Zenon DEF Serving, Early, IInv, TypeOK
      <4>2. Answers(down[c]) /\ refused[c] = "no" /\ c \notin reset
            /\ (client[c] = "closed" => c \in hung)
        BY <2>1, <3>1, <3>4, Zenon DEF Tells
      <4>3. Answers(down'[c])
        <5>1. down'[c] = down[c] \/ down'[c] = Append(down[c], "answer")
          BY <3>4, Put, Zenon DEF TellInv
        <5> QED BY <4>2, <5>1, AnswerLines, Zenon
      <4>4. refused'[c] # "preamble" /\ refused'[c] # "request"
        BY <3>4, <4>2, Zenon
      <4> QED BY <1>1, <3>4, <4>1, <4>2, <4>3, <4>4, Zenon DEF Tells, Drains, Lasts
    <3>5. CASE /\ ReadRequest(c) /\ up[c] # << >>
               /\ refused' = [refused EXCEPT ![c] = "request"]
               /\ down' = [down EXCEPT ![c] = Append(@, "UNAUTHORIZED")]
               /\ at' = [at EXCEPT ![c] = "closed"] /\ UNCHANGED handled
               /\ reset' \in {reset, IF Len(up[c]) > 1 THEN reset \cup {c} ELSE reset}
      <4>1. at[c] = "read"
        BY <3>5, Zenon DEF ReadRequest
      <4> QED BY <1>1, <1>7, <3>5, <4>1, RequestTells, Zenon
    <3>6. CASE EndSplice(c)
      BY <3>3, <3>6, Zenon DEF EndSplice, records
    <3>7. CASE Serve(c)
      BY <3>3, <3>4, <3>7, Zenon DEF Serve, records, Serving
    <3>8. CASE ReadRequest(c)
      BY <3>3, <3>4, <3>5, <3>8, Zenon DEF ReadRequest, Serving
    <3>9. CASE Answer(c)
      BY <3>3, <3>4, <3>9, Zenon DEF Answer, records, Serving
    <3> QED BY <2>4, <3>6, <3>7, <3>8, <3>9, Zenon
  <2>5. ~(AcceptUnix(c) \/ AcceptPipe(c))
    BY <1>7, Zenon DEF AcceptUnix, AcceptPipe, Relayed
  <2> QED BY <2>2, <2>3, <2>4, <2>5, Zenon DEF Daemon
<1> QED BY <1>1, <1>2, <1>3, <1>4, <1>6, <1>7, OneTells, Zenon DEF TellInv

-----------------------------------------------------------------------------

LEMMA LoseTells ==
  ASSUME IInv, TellInv, NEW c \in Conn, Lose(c)
  PROVE  TellInv'
<1>1. /\ UNCHANGED <<way, daemon, at, client, got, hung, refused, drained, sent, wait, handled>>
      /\ reset' = reset /\ c \in reset /\ down' = [down EXCEPT ![c] = << >>]
  BY Zenon DEF Lose, setup, clients, records
<1>2. down' = [d \in Conn |-> down'[d]] /\ \A d \in Conn : d # c => down'[d] = down[d]
  BY <1>1, Put, Zenon DEF TellInv
<1>3. \A d \in Conn : d # c => Untold(d)
  BY <1>1, <1>2, Zenon DEF Untold
<1>4. ASSUME daemon # "down", Relayed(c) PROVE Tells(c)'
  <2>1. Tells(c)
    BY <1>4, Zenon DEF TellInv
  <2>2. at[c] \notin Early /\ at[c] \notin Serving
    BY <1>1, <2>1, Zenon DEF Tells
  <2> QED BY <1>1, <2>1, <2>2, Zenon DEF Tells, Drains, Lasts, Tunnel
<1> QED BY <1>1, <1>2, <1>3, <1>4, OneTells, Zenon DEF TellInv

LEMMA StopTells ==
  ASSUME IInv, TellInv, Stop
  PROVE  TellInv'
<1>1. /\ UNCHANGED <<way, client, got, hung, refused, drained, sent, wait, handled, down>>
      /\ daemon = "up" /\ daemon # "down"
      /\ at' = [c \in Conn |-> IF at[c] = "backlog" THEN "closed" ELSE at[c]]
      /\ reset' = reset \cup {c \in Conn : at[c] = "backlog" /\ up[c] # << >>}
  BY Zenon DEF Stop, setup, clients, records
<1>2. ASSUME NEW c \in Conn, Relayed(c) PROVE Tells(c)'
  <2>1. Tells(c)
    BY <1>1, <1>2, Zenon DEF TellInv
  <2>2. CASE at[c] = "backlog"
    <3>1. /\ at'[c] \notin Early /\ at'[c] \notin Serving /\ at[c] \in Early
          /\ refused[c] = "no" /\ refused[c] # "preamble" /\ refused[c] # "request"
      BY <1>1, <2>1, <2>2, Zenon DEF Early, Serving, Tells
    <3> QED BY <1>1, <3>1, Zenon DEF Tells, Drains, Lasts
  <2>3. CASE at[c] # "backlog"
    <3>1. at'[c] = at[c] /\ (c \in reset' <=> c \in reset)
      BY <1>1, <2>3, Zenon
    <3> QED BY <1>1, <2>1, <3>1, Zenon DEF Tells, Drains, Lasts, Tunnel
  <2> QED BY <2>2, <2>3, Zenon
<1> QED BY <1>1, <1>2, Zenon DEF TellInv, Relayed

LEMMA NextTells == IInv /\ AskInv /\ TellInv /\ [Next]_vars => TellInv'
<1> SUFFICES ASSUME IInv, AskInv, TellInv, [Next]_vars PROVE TellInv'
  OBVIOUS
<1>1. ASSUME NEW c \in Conn, Bridge(c) PROVE TellInv'
  BY <1>1, BridgeDialTells, BridgeWriteTells, BridgeUpTells, BridgeDownTells, BridgeEofTells, Zenon
     DEF Bridge
<1>2. CASE (\E c \in Conn : Revoke(c)) \/ SessionEnds \/ UNCHANGED vars
  <2>1. /\ UNCHANGED <<way, daemon, at, client, down, got, reset, refused, hung>>
        /\ UNCHANGED <<drained, sent, wait, handled>>
    BY <1>2, Zenon DEF Revoke, SessionEnds, setup, clients, links, records, vars
  <2> QED BY <2>1, Zenon DEF TellInv, Tells, Relayed, Drains, Lasts, Tunnel
<1>3. CASE Exit
  <2>1. daemon' = "down" /\ UNCHANGED <<down, got, refused, drained>>
    BY <1>3, Zenon DEF Exit, clients, records
  <2> QED BY <2>1, Zenon DEF TellInv
<1> QED BY <1>1, <1>2, <1>3, ClientTells, PreambleReadTells, ServeTells, LoseTells, StopTells, Zenon
        DEF Next

\* RefusalTold: a client of the bridge whose token the daemon refuses is told so, when it
\* connects, because the daemon drains up to MaxDrain lines of what it still sends before
\* the connection is closed, and with a later request if that is the last it sent.
THEOREM RefusalReachesClient == Spec => []RefusalTold
<1>1. TellInv => RefusalTold
  BY Zenon DEF TellInv, Tells, RefusalTold, Tellable, Drains, Lasts
<1> QED BY <1>1, TellsInit, NextTells, AskedInit, NextAsked, Initially, Inductive, PTL DEF Spec
=============================================================================
