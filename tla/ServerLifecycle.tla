-------------------------- MODULE ServerLifecycle --------------------------
(***************************************************************************)
(* What surrounds a session: servers are started, bind, listen, accept one *)
(* client and exit; clients connect to a port (main.cpp, ServerApp::run    *)
(* 106-136, connectSocket).  A session is one step here, in which the      *)
(* server completes and its client with it, or both fail: CotSession shows *)
(* that it ends in one of these ways.                                      *)
(***************************************************************************)
EXTENDS Integers, Sequences

CONSTANTS
  Server, Client,     \* processes that may be started on this machine
  NoServer, NoClient,
  PortArgument,       \* what servers and clients are given as their port
  Backlog,            \* the argument of listen: 1
  MayBeKilled         \* processes that may be killed

PortCount  == 65536                   \* uint16_t
PortNumber == 0 .. (PortCount-1)

\* An argument whose lower 16 bits are 0 is left out: bind would choose a port.
ASSUME PortAssumption ==
  /\ PortArgument \subseteq Nat /\ \A n \in PortArgument : n % PortCount # 0
  /\ Backlog \in Nat /\ Backlog > 0
  /\ NoServer \notin Server /\ NoClient \notin Client

VARIABLES
  sharing,     \* SO_REUSEADDR as in WinSock: several sockets may listen on a port
  spc,         \* where a server is in run
  argument,    \* the port it was given
  queue,       \* connections that its kernel has established and run not accepted
  serving,     \* the client it has accepted
  result,      \* how it ended
  cpc,         \* where a client is
  cport,       \* the port it connects to
  at,          \* the server whose kernel answered
  lingering    \* ports with a closed connection that TCP has not forgotten yet

server == <<spc, argument, queue, serving, result>>
client == <<cpc, cport, at>>
vars   == <<sharing, server, client, lingering>>

\* static_cast<uint16_t>
Port(s) == argument[s] % PortCount

\* The listening socket exists until run has returned or thrown.
Accepting(s) == spc[s] \in {"accept", "session", "closing"}

\* mutant: the option is not set
NoReuseAddress == FALSE

\* setsockopt(SO_REUSEADDR)
ReuseAddress == TRUE

Init ==
  /\ sharing \in BOOLEAN
  /\ spc = [s \in Server |-> "off"] /\ argument = [s \in Server |-> 0]
  /\ queue = [s \in Server |-> <<>>] /\ serving = [s \in Server |-> NoClient]
  /\ result = [s \in Server |-> "none"]
  /\ cpc = [c \in Client |-> "off"] /\ cport = [c \in Client |-> 0]
  /\ at = [c \in Client |-> NoServer]
  /\ lingering = {}
-----------------------------------------------------------------------------
(* The server.                                                             *)

\* main reads its argument; run creates the socket and sets its option.
Start(s) ==
  /\ spc[s] = "off"
  /\ \E n \in PortArgument : argument' = [argument EXCEPT ![s] = n]
  /\ spc' = [spc EXCEPT ![s] = "bind"]
  /\ UNCHANGED <<sharing, queue, serving, result, client, lingering>>

\* Two sockets that both set the option may be bound to a port as long as neither
\* listens (or, in WinSock, in any case).
BindPossible(s) ==
  /\ ReuseAddress \/ Port(s) \notin lingering
  /\ sharing \/ \A t \in Server : Accepting(t) => Port(t) # Port(s)

ListenPossible(s) == sharing \/ \A t \in Server : Accepting(t) => Port(t) # Port(s)

\* run throws, and main prints the error and returns 1.
Throws(s, error) ==
  /\ spc' = [spc EXCEPT ![s] = "exited"]
  /\ result' = [result EXCEPT ![s] = error]
  /\ UNCHANGED <<sharing, argument, queue, serving, client, lingering>>

Bind(s) ==
  /\ spc[s] = "bind"
  /\ \/ /\ BindPossible(s)
        /\ spc' = [spc EXCEPT ![s] = "listen"]
        /\ UNCHANGED <<sharing, argument, queue, serving, result, client, lingering>>
     \/ ~BindPossible(s) /\ Throws(s, "bindFailed")

Listen(s) ==
  /\ spc[s] = "listen"
  /\ \/ /\ ListenPossible(s)
        /\ spc' = [spc EXCEPT ![s] = "accept"]
        /\ UNCHANGED <<sharing, argument, queue, serving, result, client, lingering>>
     \/ ~ListenPossible(s) /\ Throws(s, "listenFailed")

Accept(s) ==
  /\ spc[s] = "accept" /\ queue[s] # <<>>
  /\ serving' = [serving EXCEPT ![s] = Head(queue[s])]
  /\ queue' = [queue EXCEPT ![s] = Tail(queue[s])]
  /\ spc' = [spc EXCEPT ![s] = "session"]
  /\ UNCHANGED <<sharing, argument, result, client, lingering>>

\* mutant: the connection is reset as soon as the last frame is written
SessionEndsWithReset(s) ==
  /\ spc[s] = "session"
  /\ result' = [result EXCEPT ![s] = "complete"]
  /\ cpc' = [cpc EXCEPT ![serving[s]] = IF @ = "connected" THEN "failed" ELSE @]
  /\ spc' = [spc EXCEPT ![s] = "closing"]
  /\ UNCHANGED <<sharing, argument, queue, serving, cport, at, lingering>>

\* The connection with the client is closed first; the side that closed it keeps its
\* port occupied for a while.
SessionEnds(s) ==
  /\ spc[s] = "session"
  /\ \/ /\ cpc[serving[s]] = "connected"
        /\ result' = [result EXCEPT ![s] = "complete"]
        /\ cpc' = [cpc EXCEPT ![serving[s]] = "done"]
     \/ /\ result' = [result EXCEPT ![s] = "sessionFailed"]
        /\ cpc' = [cpc EXCEPT ![serving[s]] = IF @ = "connected" THEN "failed" ELSE @]
  /\ spc' = [spc EXCEPT ![s] = "closing"]
  /\ lingering' \in {lingering, lingering \cup {Port(s)}}
  /\ UNCHANGED <<sharing, argument, queue, serving, cport, at>>

\* What the kernel does with the connections of a process that is gone.
Reset(clients) ==
  cpc' = [c \in Client |-> IF c \in clients /\ cpc[c] = "connected" THEN "failed" ELSE cpc[c]]

Queued(s) == { queue[s][i] : i \in DOMAIN queue[s] }

\* mutant: the listening socket is left open
ExitLeavesListener(s) ==
  /\ spc[s] = "closing"
  /\ spc' = [spc EXCEPT ![s] = "exited"]
  /\ UNCHANGED <<sharing, argument, queue, serving, result, client, lingering>>

\* The listening socket is closed, and the process ends: whoever waits is reset.
Exit(s) ==
  /\ spc[s] = "closing"
  /\ spc' = [spc EXCEPT ![s] = "exited"]
  /\ Reset(Queued(s))
  /\ queue' = [queue EXCEPT ![s] = <<>>]
  /\ UNCHANGED <<sharing, argument, serving, result, cport, at, lingering>>

ServerKilled(s) ==
  /\ s \in MayBeKilled /\ spc[s] \notin {"off", "exited"}
  /\ spc' = [spc EXCEPT ![s] = "exited"]
  /\ result' = [result EXCEPT ![s] = "killed"]
  /\ Reset(Queued(s) \cup IF spc[s] = "session" THEN {serving[s]} ELSE {})
  /\ queue' = [queue EXCEPT ![s] = <<>>]
  /\ UNCHANGED <<sharing, argument, serving, cport, at, lingering>>
-----------------------------------------------------------------------------
(* The client.                                                             *)

\* parseArgs accepts a port that fits in 16 bits; connectSocket opens a connection.
Connect(c) ==
  /\ cpc[c] = "off"
  /\ \E n \in PortArgument :
       /\ cport' = [cport EXCEPT ![c] = n]
       /\ cpc' = [cpc EXCEPT ![c] = IF n \in 1 .. (PortCount-1) THEN "connecting" ELSE "badPort"]
  /\ UNCHANGED <<sharing, server, at, lingering>>

\* The kernel of a listening server answers by itself, whatever run is doing, while
\* its queue is not longer than the backlog; the client's promise is resolved.
Established(c) ==
  /\ cpc[c] = "connecting"
  /\ \E s \in Server :
       /\ Accepting(s) /\ Port(s) = cport[c] /\ Len(queue[s]) <= Backlog
       /\ queue' = [queue EXCEPT ![s] = Append(@, c)]
       /\ at' = [at EXCEPT ![c] = s]
  /\ cpc' = [cpc EXCEPT ![c] = "connected"]
  /\ UNCHANGED <<sharing, spc, argument, serving, result, cport, lingering>>

\* Nobody listens: the 'error' event rejects the promise.
Refused(c) ==
  /\ cpc[c] = "connecting"
  /\ \A s \in Server : Accepting(s) => Port(s) # cport[c]
  /\ cpc' = [cpc EXCEPT ![c] = "refused"]
  /\ UNCHANGED <<sharing, server, cport, at, lingering>>

\* The queue is full: an attempt is refused by WinSock, repeated for a while by others.
TimesOut(c) ==
  /\ cpc[c] = "connecting"
  /\ \E s \in Server : Accepting(s) /\ Port(s) = cport[c] /\ Len(queue[s]) >= Backlog
  /\ cpc' = [cpc EXCEPT ![c] = "timedOut"]
  /\ UNCHANGED <<sharing, server, cport, at, lingering>>

ClientKilled(c) ==
  /\ c \in MayBeKilled /\ cpc[c] \in {"connecting", "connected"}
  /\ cpc' = [cpc EXCEPT ![c] = "killed"]
  /\ UNCHANGED <<sharing, server, cport, at, lingering>>
-----------------------------------------------------------------------------
Forget == lingering # {} /\ lingering' = {} /\ UNCHANGED <<sharing, server, client>>

ServerStep(s) == Bind(s) \/ Listen(s) \/ Accept(s) \/ SessionEnds(s) \/ Exit(s)
ClientStep(c) == Established(c) \/ Refused(c)

Next ==
  \/ \E s \in Server : Start(s) \/ ServerStep(s) \/ ServerKilled(s)
  \/ \E c \in Client : Connect(c) \/ ClientStep(c) \/ TimesOut(c) \/ ClientKilled(c)
  \/ Forget

\* A process that was started runs until it blocks, the kernel answers, and a
\* session ends.  Nobody has to be started or killed.
Fairness ==
  /\ \A s \in Server : WF_vars(ServerStep(s))
  /\ \A c \in Client : WF_vars(ClientStep(c))

Spec     == Init /\ [][Next]_vars
FairSpec == Spec /\ Fairness
-----------------------------------------------------------------------------
Clients(s) == { c \in Client : at[c] = s }

\* Every reachable state is well typed: ports are numbers of 16 bits, and a server
\* has a result exactly from the end of its session on.
TypeOK ==
  /\ spc \in [Server -> {"off", "bind", "listen", "accept", "session", "closing", "exited"}]
  /\ result \in [Server -> {"none", "bindFailed", "listenFailed", "sessionFailed",
                            "complete", "killed"}]
  /\ cpc \in [Client -> {"off", "badPort", "connecting", "connected", "done", "failed",
                         "refused", "timedOut", "killed"}]
  /\ argument \in [Server -> PortArgument \cup {0}] /\ cport \in [Client -> PortArgument \cup {0}]
  /\ queue \in [Server -> Seq(Client)] /\ serving \in [Server -> Client \cup {NoClient}]
  /\ at \in [Client -> Server \cup {NoServer}]
  /\ sharing \in BOOLEAN /\ lingering \subseteq PortNumber
  /\ \A s \in Server : result[s] # "none" <=> spc[s] \in {"closing", "exited"}

\* A server that is restarted gets its port: bind fails only while another server
\* accepts there, and not because of the connection its predecessor closed.
RestartGetsPort ==
  [][ \A s \in Server :
        result[s] = "none" /\ result'[s] = "bindFailed"
          => \E t \in Server : Accepting(t) /\ Port(t) = Port(s) ]_vars

\* A server serves one client and exits, and the kernel goes on accepting
\* connections that run never will: a client that was connected completes only if
\* its server served it and completed, and fails only if that server served another
\* client, failed in the session or was killed.
UnservedForACause ==
  \A c \in Client :
    /\ cpc[c] = "done" => serving[at[c]] = c /\ result[at[c]] \in {"complete", "killed"}
    /\ cpc[c] = "failed" =>
         /\ spc[at[c]] \in {"closing", "exited"}
         /\ \/ serving[at[c]] # c
            \/ result[at[c]] \in {"sessionFailed", "killed"}

\* No client waits for ever, also in the queue of a server that is busy: it is
\* served, or told that the server has gone.
NoClientHangs ==
  \A c \in Client :
    cpc[c] \in {"connecting", "connected"} ~> cpc[c] \notin {"connecting", "connected"}
-----------------------------------------------------------------------------
(* The inductive invariant.                                                *)

\* A queue holds clients that connected to its server and are not served yet, each
\* once, and goes with the listening socket.
QueueInv ==
  \A s \in Server :
    /\ \A i, j \in DOMAIN queue[s] : queue[s][i] = queue[s][j] => i = j
    /\ \A c \in Queued(s) :
         at[c] = s /\ serving[s] # c /\ cpc[c] \in {"connected", "killed"}
    /\ ~Accepting(s) => queue[s] = <<>>

\* A server serves at most one client, one that connected to it.
ServingInv ==
  \A s \in Server :
    /\ spc[s] \in {"off", "bind", "listen", "accept"} => serving[s] = NoClient
    /\ spc[s] = "session" =>
         serving[s] \in Client /\ cpc[serving[s]] \in {"connected", "killed"}
    /\ serving[s] \in Client => at[serving[s]] = s

\* A client that is connected is in the queue of its server or in its session.
ClientInv ==
  \A c \in Client :
    /\ cpc[c] = "connecting" => cport[c] \in PortNumber
    /\ cpc[c] \in {"off", "connecting"} => at[c] = NoServer
    /\ cpc[c] \in {"connected", "done", "failed"} => at[c] \in Server
    /\ cpc[c] = "connected" =>
         c \in Queued(at[c]) \/ (spc[at[c]] = "session" /\ serving[at[c]] = c)

\* Every reachable state is well typed, and every client is in one place.
IInv == TypeOK /\ QueueInv /\ ServingInv /\ ClientInv /\ UnservedForACause
=============================================================================
