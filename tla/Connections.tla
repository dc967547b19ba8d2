----------------------------- MODULE Connections -----------------------------
(***************************************************************************)
(* How a request reaches the daemon and its answer comes back: the          *)
(* listeners (TCP with a preamble, UNIX socket, named pipe), the accept     *)
(* loop, the loop that serves a connection, and tegata-bridge, which        *)
(* relays a local client to the TCP listener and opens tunnels.             *)
(*                                                                          *)
(* A connection carries lines.  As with TCP, closing it while lines are     *)
(* unread resets it, and lines on their way back may then be lost.          *)
(***************************************************************************)
EXTENDS Naturals, Sequences, FiniteSets

CONSTANTS
    Conn,       \* connections
    Ways,       \* functions of Conn: "local", "pipe", "direct", "bridged", "open", "through"
    Limit,      \* max_pending_connections
    MaxDrain,   \* MAX_REFUSAL_DRAIN_BYTES, in lines
    MaxSent     \* bound: Conn -> requests its client sends

ASSUME ConnAssumption ==
    IsFiniteSet(Conn) /\ Limit \in Nat /\ MaxDrain \in Nat /\ MaxSent \in [Conn -> Nat]

VARIABLES
    way,        \* Conn -> how the client reaches the daemon
    valid,      \* connections whose token, uid or SID is accepted
    session,    \* the session that tunnels are for exists
    listening,  \* the bridge listens for tunnel connections
    daemon,     \* "up", "stopping" or "down"
    pending,    \* the counter of unauthenticated TCP connections
    at,         \* Conn -> where the daemon is with it
    client,     \* Conn -> where the client, or the bridge for it, is
    sent,       \* Conn -> requests the client has sent
    wait,       \* Conn -> those of them that the bridge has not forwarded
    hung,       \* clients of the bridge that have closed their side
    up, down,   \* Conn -> lines on their way to the daemon, and back
    reset,      \* connections that were closed with lines unread
    got,        \* Conn -> the first line written to the client, or "nothing"; or a refusal
    drained,    \* Conn -> lines read after a refusal
    refused,    \* history: Conn -> what was refused as unauthorized, or "no"
    handled,    \* history: Conn -> requests handled
    quota       \* history: Conn -> requests sent before the token was revoked

setup == <<way, valid, session, listening>>
links == <<up, down, reset>>
clients == <<client, sent, wait, hung, got>>
records == <<drained, refused, handled, quota>>
vars == <<setup, daemon, pending, at, clients, links, records>>

Relayed(c) == way[c] \in {"bridged", "open"}
Tcp(c) == way[c] \notin {"local", "pipe"}
Tunnel(c) == way[c] \in {"open", "through"}

Init ==
    /\ way \in Ways
    /\ valid \in SUBSET Conn /\ session = (\E c \in Conn : Tunnel(c)) /\ listening = FALSE
    /\ daemon = "up" /\ pending = 0
    /\ at = [c \in Conn |-> "none"]
    /\ client = [c \in Conn |-> "idle"]
    /\ sent = [c \in Conn |-> 0] /\ wait = [c \in Conn |-> 0]
    /\ hung = {} /\ reset = {}
    /\ up = [c \in Conn |-> << >>] /\ down = [c \in Conn |-> << >>]
    /\ got = [c \in Conn |-> "nothing"]
    /\ drained = [c \in Conn |-> 0] /\ refused = [c \in Conn |-> "no"]
    /\ handled = [c \in Conn |-> 0] /\ quota = [c \in Conn |-> IF c \in valid THEN MaxSent[c] ELSE 0]

-----------------------------------------------------------------------------
(* Both ends of a link. *)

\* A line for the daemon; one that has closed the connection resets it.
SendUp(c, lines) ==
    IF at[c] = "closed"
    THEN reset' = reset \cup {c} /\ UNCHANGED <<up, down>>
    ELSE up' = [up EXCEPT ![c] = @ \o lines] /\ UNCHANGED <<down, reset>>

\* The daemon's end is closed.
CloseAt(c) ==
    /\ at' = [at EXCEPT ![c] = "closed"]
    /\ reset' = IF up[c] # << >> THEN reset \cup {c} ELSE reset
    /\ up' = [up EXCEPT ![c] = << >>]

\* No line will follow: the daemon has closed the connection, or its half of it.
Ended(c) == at[c] \in {"closed", "draining"} /\ down[c] = << >>

\* The client's end is closed: its program, or the bridge, is done with it.
Leave(c) == client' = [client EXCEPT ![c] = "closed"]
Told(c, what) == 
    got' = [got EXCEPT ![c] = IF @ = "nothing" \/ what = "UNAUTHORIZED" THEN what ELSE @]

\* What a reset connection had on its way back may be lost.
Lose(c) ==
    /\ c \in reset /\ down[c] # << >>
    /\ down' = [down EXCEPT ![c] = << >>]
    /\ UNCHANGED <<setup, daemon, pending, at, clients, up, reset, records>>

-----------------------------------------------------------------------------
(* Clients (external), and tegata-bridge. *)

\* A client connects: to the daemon, or to a port of the bridge, which dials the
\* daemon and closes the local connection if it cannot.
Dial(c) ==
    /\ client[c] = "idle" /\ ~Relayed(c)
    /\ way[c] = "through" => listening
    /\ IF daemon = "up"
       THEN /\ client' = [client EXCEPT ![c] = IF Tcp(c) THEN "dialled" ELSE "open"]
            /\ at' = [at EXCEPT ![c] = "backlog"]
       ELSE Leave(c) /\ UNCHANGED at
    /\ UNCHANGED <<setup, daemon, pending, sent, wait, hung, got, links, records>>

\* A TCP client sends its preamble.
SendPreamble(c) ==
    /\ client[c] = "dialled" /\ ~Relayed(c)
    /\ client' = [client EXCEPT ![c] = "open"]
    /\ SendUp(c, <<"preamble">>)
    /\ UNCHANGED <<setup, daemon, pending, at, sent, wait, hung, got, records>>

SendRequest(c) ==
    /\ sent[c] < IF Tunnel(c) THEN 1 ELSE MaxSent[c]
    /\ way[c] # "through" /\ c \notin hung
    /\ sent' = [sent EXCEPT ![c] = @ + 1]
    /\ \/ Relayed(c) /\ client[c] # "closed"
          /\ wait' = [wait EXCEPT ![c] = @ + 1] /\ UNCHANGED links
       \/ ~Relayed(c) /\ client[c] = "open" /\ SendUp(c, <<"request">>) /\ UNCHANGED wait
    /\ UNCHANGED <<setup, daemon, pending, at, client, hung, got, records>>

HangUp(c) ==
    /\ client[c] # "closed" /\ c \notin hung
    /\ hung' = IF Relayed(c) THEN hung \cup {c} ELSE hung
    /\ IF Relayed(c) /\ (client[c] # "idle" \/ wait[c] > 0) THEN UNCHANGED client ELSE Leave(c)
    /\ UNCHANGED <<setup, daemon, pending, at, sent, wait, got, links, records>>

\* A client reads an answer, or learns that there will be none.
Receive(c) ==
    /\ client[c] \in {"dialled", "open"} /\ ~Relayed(c)
    /\ \/ /\ down[c] # << >> /\ Told(c, Head(down[c]))
          /\ down' = [down EXCEPT ![c] = Tail(@)] /\ UNCHANGED client
       \/ Ended(c) /\ Leave(c) /\ UNCHANGED <<down, got>>
    /\ UNCHANGED <<setup, daemon, pending, at, sent, wait, hung, up, reset, records>>

\* serve_client: the first line is read and the daemon dialled.
BridgeDial(c) ==
    /\ Relayed(c) /\ client[c] = "idle" /\ wait[c] > 0
    /\ wait' = [wait EXCEPT ![c] = @ - 1]
    /\ IF daemon = "up"
       THEN /\ client' = [client EXCEPT ![c] = "dialled"]
            /\ at' = [at EXCEPT ![c] = "backlog"] /\ UNCHANGED got
       ELSE Leave(c) /\ Told(c, "INTERNAL") /\ UNCHANGED at
    /\ UNCHANGED <<setup, daemon, pending, sent, hung, links, records>>

\* The preamble, with the token, and the first line; a tunnel has no line.
BridgeWrite(c) ==
    /\ Relayed(c) /\ client[c] = "dialled"
    /\ \/ /\ client' = [client EXCEPT ![c] = "open"] /\ UNCHANGED got
          /\ SendUp(c, IF Tunnel(c) THEN <<"preamble">> ELSE <<"preamble", "request">>)
       \/ at[c] = "closed" /\ Leave(c) /\ Told(c, "INTERNAL") /\ UNCHANGED links
    /\ UNCHANGED <<setup, daemon, pending, at, sent, wait, hung, records>>

\* forward_local: another line, which may fail on a closed connection, or the end of
\* the client's input, either of which ends the relay.
BridgeUp(c) ==
    /\ way[c] = "bridged" /\ client[c] = "open"
    /\ \/ /\ wait[c] > 0
          /\ wait' = [wait EXCEPT ![c] = @ - 1]
          /\ \/ SendUp(c, <<"request">>) /\ UNCHANGED client
             \/ c \in reset /\ Leave(c) /\ UNCHANGED links
       \/ wait[c] = 0 /\ c \in hung /\ Leave(c) /\ UNCHANGED <<wait, links>>
    /\ UNCHANGED <<setup, daemon, pending, at, sent, hung, got, records>>

\* forward_daemon and serve_open_tunnel: a refusal that comes first is turned into
\* an error, an accepted tunnel into the port that the bridge will listen on.
BridgeDown(c) ==
    LET line == Head(down[c])
        first == got[c] = "nothing"
    IN
    /\ Relayed(c) /\ client[c] = "open" /\ down[c] # << >>
    /\ down' = [down EXCEPT ![c] = Tail(@)]
    /\ Told(c, IF line = "NOT_FOUND" THEN "INTERNAL" ELSE line)
    /\ listening' = (listening \/ (line = "accepted" /\ c \notin hung))
    /\ IF c \in hung \/ Tunnel(c) \/ (first /\ line # "answer") THEN Leave(c) ELSE UNCHANGED client
    /\ UNCHANGED <<way, valid, session, daemon, pending, at, sent, wait, hung, up, reset, records>>


\* The end of the daemon's lines ends the relay.
Ends(c) == TRUE

\* If it comes before the first answer, the client gets an error; but reading from a
\* connection that was reset is an error of the relay, which only closes.
BridgeEof(c) ==
    /\ Relayed(c) /\ client[c] = "open" /\ Ends(c)
    /\ Ended(c)
    /\ Leave(c)
    /\ \/ got[c] = "nothing" /\ Told(c, "INTERNAL")
       \/ (got[c] # "nothing" \/ (c \in reset /\ ~Tunnel(c))) /\ UNCHANGED got
    /\ UNCHANGED <<setup, daemon, pending, at, sent, wait, hung, links, records>>

-----------------------------------------------------------------------------
(* The listeners. *)

\* reserve_pending_connection
HasRoom == pending < Limit

\* A slot for a connection that has yet to say who it is, or the connection is closed.
AcceptTcp(c) ==
    /\ daemon = "up" /\ at[c] = "backlog" /\ Tcp(c)
    /\ IF HasRoom
       THEN /\ at' = [at EXCEPT ![c] = "preamble"] /\ pending' = pending + 1
            /\ UNCHANGED <<up, reset>>
       ELSE CloseAt(c) /\ UNCHANGED pending
    /\ UNCHANGED <<setup, daemon, clients, down, records>>

\* The task of each listener passes what it accepted on to the accept loop.
Queue(c) == at' = [at EXCEPT ![c] = "queued"]

\* The peer of a UNIX socket is known from the kernel.
AcceptUnix(c) ==
    /\ daemon = "up" /\ at[c] = "backlog" /\ way[c] = "local"
    /\ IF c \in valid THEN Queue(c) /\ UNCHANGED <<up, reset>>
       ELSE CloseAt(c)
    /\ UNCHANGED <<setup, daemon, pending, clients, down, records>>

\* That of a pipe is known once it has written, for which it has IDENTITY_READ_TIMEOUT.
AcceptPipe(c) ==
    /\ daemon = "up" /\ at[c] = "backlog" /\ way[c] = "pipe"
    /\ IF c \in valid /\ up[c] # << >>
       THEN Queue(c) /\ UNCHANGED <<up, reset>>
       ELSE CloseAt(c)
    /\ UNCHANGED <<setup, daemon, pending, clients, down, records>>

Refuse(c, why) ==
    /\ down' = [down EXCEPT ![c] = Append(@, why)]
    /\ at' = [at EXCEPT ![c] = "draining"]
    /\ refused' = IF why = "UNAUTHORIZED" THEN [refused EXCEPT ![c] = "preamble"] ELSE refused

\* Faulty variant: a slot is given back for a preamble only.
Freed_Preamble(c) == IF up[c] # << >> THEN pending - 1 ELSE pending

Freed(c) == pending - 1

\* read_preamble: a whole line has come.
Preamble(c) == up[c] # << >>

\* handle_connection: the preamble, or its timeout or the end of the input; then the
\* token, and for a tunnel the session and its port, to which the daemon connects.
ReadPreamble(c) ==
    /\ at[c] = "preamble"
    /\ Preamble(c) \/ client[c] \in {"closed", "dialled"}
    /\ pending' = Freed(c)
    /\ up' = [up EXCEPT ![c] = IF @ = << >> THEN @ ELSE Tail(@)]
    /\ \/ /\ ~Preamble(c) \/ c \notin valid
          /\ Refuse(c, "UNAUTHORIZED")
       \/ /\ Preamble(c) /\ c \in valid /\ ~Tunnel(c)
          /\ Queue(c) /\ UNCHANGED <<down, refused>>
       \/ /\ Preamble(c) /\ c \in valid /\ Tunnel(c)
          /\ \/ ~session /\ Refuse(c, "NOT_FOUND")
             \/ session /\ Refuse(c, "FORBIDDEN")
             \/ /\ session /\ UNCHANGED refused
                /\ \/ down' = [down EXCEPT ![c] = Append(@, "accepted")]
                      /\ at' = [at EXCEPT ![c] = "spliced"]
                   \/ at' = [at EXCEPT ![c] = "closed"] /\ UNCHANGED down
    /\ UNCHANGED <<setup, daemon, clients, reset, drained, handled, quota>>

\* Faulty variant: the connection is closed right away.
Drain_No(c) == CloseAt(c) /\ UNCHANGED drained

\* drain_refusal_input reads what the client still sends, until it closes, until as
\* much as is allowed has been read, or until REFUSAL_DRAIN_TIMEOUT, by when the
\* bridge, if it is the client, has read the refusal.
Drain(c) ==
    \/ /\ up[c] # << >> /\ drained[c] < MaxDrain
       /\ up' = [up EXCEPT ![c] = Tail(@)] /\ drained' = [drained EXCEPT ![c] = @ + 1]
       /\ UNCHANGED <<at, reset>>
    \/ /\ \/ up[c] = << >> /\ client[c] = "closed"
          \/ drained[c] = MaxDrain
          \/ Relayed(c) => down[c] = << >>
       /\ CloseAt(c) /\ UNCHANGED drained

DrainRefusal(c) ==
    /\ at[c] = "draining"
    /\ Drain(c)
    /\ UNCHANGED <<setup, daemon, pending, clients, down, refused, handled, quota>>

\* copy_bidirectional: when one side closes, so does the other.
EndSplice(c) ==
    /\ at[c] = "spliced" /\ (client[c] = "closed" \/ ~session)
    /\ CloseAt(c)
    /\ UNCHANGED <<setup, daemon, pending, clients, down, records>>

-----------------------------------------------------------------------------
(* The accept loop and serve_connection. *)

Serve(c) ==
    /\ at[c] = "queued"
    /\ IF daemon = "up" THEN at' = [at EXCEPT ![c] = "read"] /\ UNCHANGED <<up, reset>>
       ELSE CloseAt(c)
    /\ UNCHANGED <<setup, daemon, pending, clients, down, records>>

\* Faulty variant: the token was checked when the connection was made.
Served_Ever(c) == TRUE

\* A token peer is looked up again for every request.
Served(c) == Tcp(c) => c \in valid

\* The next line is handled, or refused because the token has been revoked, in which
\* case lines after it are left unread, in the socket or in the buffer; the end of the
\* input ends the connection.
ReadRequest(c) ==
    /\ at[c] = "read"
    /\ \/ /\ up[c] # << >> /\ Served(c)
          /\ up' = [up EXCEPT ![c] = Tail(@)]
          /\ at' = [at EXCEPT ![c] = "handle"]
          /\ handled' = [handled EXCEPT ![c] = @ + 1]
          /\ UNCHANGED <<down, reset, refused>>
       \/ /\ up[c] # << >> /\ ~Served(c)
          /\ refused' = [refused EXCEPT ![c] = "request"]
          /\ down' = [down EXCEPT ![c] = Append(@, "UNAUTHORIZED")]
          /\ at' = [at EXCEPT ![c] = "closed"]
          /\ reset' \in {reset, IF Len(up[c]) > 1 THEN reset \cup {c} ELSE reset}
          /\ up' = [up EXCEPT ![c] = << >>]
          /\ UNCHANGED handled
       \/ /\ up[c] = << >> /\ client[c] = "closed"
          /\ CloseAt(c) /\ UNCHANGED <<down, refused, handled>>
    /\ UNCHANGED <<setup, daemon, pending, clients, drained, quota>>

\* handle_request and write_response; a client that is gone ends the connection.
Answer(c) ==
    /\ at[c] = "handle"
    /\ IF client[c] = "closed" THEN CloseAt(c) /\ UNCHANGED down
       ELSE /\ down' = [down EXCEPT ![c] = Append(@, "answer")]
            /\ at' = [at EXCEPT ![c] = "read"] /\ UNCHANGED <<up, reset>>
    /\ UNCHANGED <<setup, daemon, pending, clients, records>>

\* admin_peer_revoke
Revoke(c) ==
    /\ daemon # "down" /\ Tcp(c) /\ c \in valid
    /\ valid' = valid \ {c}
    /\ quota' = [quota EXCEPT ![c] = sent[c]]
    /\ UNCHANGED <<way, session, listening, daemon, pending, at, clients, links, drained, refused, handled>>

SessionEnds ==
    /\ session /\ session' = FALSE
    /\ UNCHANGED <<way, valid, listening, daemon, pending, at, clients, links, records>>

\* A signal, a stop request or a failing listener ends the accept loop, and drops the
\* listeners.
Stop ==
    /\ daemon = "up"
    /\ daemon' = "stopping"
    /\ at' = [c \in Conn |-> IF at[c] = "backlog" THEN "closed" ELSE at[c]]
    /\ reset' = reset \cup {c \in Conn : at[c] = "backlog" /\ up[c] # << >>}
    /\ up' = [c \in Conn |-> IF at[c] = "backlog" THEN << >> ELSE up[c]]
    /\ UNCHANGED <<setup, pending, clients, down, records>>

\* The process is gone once the sweep is over (Sessions, Stepwise).
Exit ==
    /\ daemon = "stopping"
    /\ daemon' = "down"
    /\ at' = [c \in Conn |-> IF at[c] = "none" THEN "none" ELSE "closed"]
    /\ reset' = reset \cup {c \in Conn : up[c] # << >>}
    /\ up' = [c \in Conn |-> << >>]
    /\ pending' = 0
    /\ UNCHANGED <<setup, clients, down, records>>

-----------------------------------------------------------------------------

Bridge(c) == BridgeDial(c) \/ BridgeWrite(c) \/ BridgeUp(c) \/ BridgeDown(c) \/ BridgeEof(c)

Daemon(c) ==
    \/ AcceptTcp(c) \/ AcceptUnix(c) \/ AcceptPipe(c) \/ ReadPreamble(c) \/ DrainRefusal(c) \/ EndSplice(c)
    \/ Serve(c) \/ ReadRequest(c) \/ Answer(c)

Client(c) == Dial(c) \/ SendPreamble(c) \/ SendRequest(c) \/ HangUp(c) \/ Receive(c)

Next ==
    \/ \E c \in Conn : Bridge(c) \/ Daemon(c) \/ Client(c) \/ Lose(c) \/ Revoke(c)
    \/ SessionEnds \/ Stop \/ Exit

Spec == Init /\ [][Next]_vars

\* The tasks of the bridge and of the daemon run; clients need do nothing.
Fairness == \A c \in Conn : WF_vars(Bridge(c)) /\ WF_vars(Daemon(c))

FairSpec == Spec /\ Fairness /\ WF_vars(Exit)

-----------------------------------------------------------------------------

\* The counter behind max_pending_connections is the number of TCP connections that
\* have not yet said who they are, and stays within the limit: however such a
\* connection ends, its slot is given back once.
PendingExact ==
    /\ pending <= Limit
    /\ daemon # "down" => pending = Cardinality({c \in Conn : at[c] = "preamble"})

\* A peer whose token is revoked is served no request that it sends afterwards, on
\* connections it already had either, however many are under way.
RevokedServedNoMore == \A c \in Conn : handled[c] <= quota[c]

\* The client has not sent what a refusal would be lost by: as much as the daemon
\* drains, or, since nothing is drained when a token has been revoked, more requests
\* than the one that was refused.
Tellable(c) ==
    \/ refused[c] = "preamble" /\ drained[c] < MaxDrain
    \/ refused[c] = "request" /\ sent[c] = handled[c] + 1

\* A client of the bridge whose token the daemon refuses, when it connects or with a
\* later request, is told so, unless it sent more than that: the bridge does not leave
\* it with a closed connection because the refusal was lost.
RefusalTold ==
    \A c \in Conn :
        /\ Relayed(c) /\ Tellable(c)
        /\ client[c] = "closed" /\ c \notin hung /\ daemon # "down"
        => got[c] = "UNAUTHORIZED"

=============================================================================
