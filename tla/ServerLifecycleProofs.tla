----------------------- MODULE ServerLifecycleProofs -----------------------
(***************************************************************************)
(* The safety of the life cycle for any number of servers and clients, any *)
(* ports, any backlog and any set of processes that may be killed.  The    *)
(* invariant says where each client is: in one queue, in one session, or   *)
(* in none.                                                                *)
(***************************************************************************)
EXTENDS ServerLifecycle, TLAPS

\* Those who wait, and what a step of the queue does to them.
LEMMA QueueEmpty == ASSUME NEW s, queue[s] = <<>> PROVE Queued(s) = {}
BY DEF Queued

LEMMA QueueHead ==
  ASSUME NEW s \in Server, TypeOK, queue[s] # <<>>
  PROVE  /\ Head(queue[s]) \in Queued(s) /\ Head(queue[s]) = queue[s][1]
         /\ Tail(queue[s]) \in Seq(Client) /\ Len(Tail(queue[s])) = Len(queue[s]) - 1
         /\ \A i \in DOMAIN Tail(queue[s]) :
              i + 1 \in DOMAIN queue[s] /\ i + 1 # 1 /\ Tail(queue[s])[i] = queue[s][i+1]
         /\ Queued(s) = {Head(queue[s])} \cup { Tail(queue[s])[i] : i \in DOMAIN Tail(queue[s]) }
<1>1. queue[s] \in Seq(Client)
  <2>1. queue \in [Server -> Seq(Client)]
    BY DEF TypeOK
  <2>2. QED
    BY <2>1
<1>2. Len(queue[s]) \in Nat /\ Len(queue[s]) > 0
  BY <1>1
<1>3. /\ Head(queue[s]) = queue[s][1] /\ Tail(queue[s]) \in Seq(Client)
      /\ Len(Tail(queue[s])) = Len(queue[s]) - 1
      /\ \A i \in 1 .. Len(queue[s]) - 1 : Tail(queue[s])[i] = queue[s][i+1]
  BY <1>1, <1>2
<1>4. DOMAIN queue[s] = 1 .. Len(queue[s]) /\ DOMAIN Tail(queue[s]) = 1 .. Len(queue[s]) - 1
  BY <1>1, <1>3
<1>5. \A i \in 1 .. Len(queue[s]) : i = 1 \/ (i - 1 \in 1 .. Len(queue[s]) - 1 /\ (i - 1) + 1 = i)
  BY <1>2
<1>6. Queued(s) = {Head(queue[s])} \cup { Tail(queue[s])[i] : i \in DOMAIN Tail(queue[s]) }
  <2>1. ASSUME NEW c \in Queued(s)
        PROVE  c = Head(queue[s]) \/ \E i \in DOMAIN Tail(queue[s]) : c = Tail(queue[s])[i]
    <3>1. PICK i \in 1 .. Len(queue[s]) : c = queue[s][i]
      BY <1>4 DEF Queued
    <3>2. QED
      BY <3>1, <1>3, <1>4, <1>5
  <2>2. ASSUME NEW i \in DOMAIN Tail(queue[s]) PROVE Tail(queue[s])[i] \in Queued(s)
    BY <1>2, <1>3, <1>4 DEF Queued
  <2>3. Head(queue[s]) \in Queued(s)
    BY <1>2, <1>3, <1>4 DEF Queued
  <2>4. QED
    BY <2>1, <2>2, <2>3
<1>7. QED
  BY <1>2, <1>3, <1>4, <1>6

LEMMA QueueAppend ==
  ASSUME NEW s \in Server, TypeOK, NEW c \in Client
  PROVE  /\ Append(queue[s], c) \in Seq(Client) /\ Len(queue[s]) \in Nat
         /\ DOMAIN queue[s] = 1 .. Len(queue[s])
         /\ DOMAIN Append(queue[s], c) = 1 .. Len(queue[s]) + 1
         /\ \A i \in 1 .. Len(queue[s]) : Append(queue[s], c)[i] = queue[s][i]
         /\ Append(queue[s], c)[Len(queue[s]) + 1] = c
         /\ { Append(queue[s], c)[i] : i \in DOMAIN Append(queue[s], c) } = Queued(s) \cup {c}
<1>1. queue[s] \in Seq(Client)
  <2>1. queue \in [Server -> Seq(Client)]
    BY DEF TypeOK
  <2>2. QED
    BY <2>1
<1>2. /\ Append(queue[s], c) \in Seq(Client) /\ Len(queue[s]) \in Nat
      /\ DOMAIN queue[s] = 1 .. Len(queue[s])
      /\ DOMAIN Append(queue[s], c) = 1 .. Len(queue[s]) + 1
      /\ \A i \in 1 .. Len(queue[s]) : Append(queue[s], c)[i] = queue[s][i]
      /\ Append(queue[s], c)[Len(queue[s]) + 1] = c
  BY <1>1
<1>3. { Append(queue[s], c)[i] : i \in DOMAIN Append(queue[s], c) } = Queued(s) \cup {c}
  <2>1. \A i \in 1 .. Len(queue[s]) + 1 : i \in 1 .. Len(queue[s]) \/ i = Len(queue[s]) + 1
    BY <1>2
  <2>2. 1 .. Len(queue[s]) \subseteq 1 .. Len(queue[s]) + 1 /\ Len(queue[s]) + 1 \in 1 .. Len(queue[s]) + 1
    BY <1>2
  <2>3. QED
    BY <1>2, <2>1, <2>2 DEF Queued
<1>4. QED
  BY <1>2, <1>3
-----------------------------------------------------------------------------
(* Type correctness.                                                       *)

LEMMA PortType == ASSUME TypeOK, NEW s \in Server PROVE Port(s) \in PortNumber
<1>1. argument[s] \in Nat
  <2>1. argument[s] \in PortArgument \cup {0}
    BY DEF TypeOK
  <2>2. PortArgument \subseteq Nat /\ 0 \in Nat
    BY PortAssumption
  <2>3. QED
    BY <2>1, <2>2
<1>2. PortCount \in Nat /\ PortCount > 0
  BY DEF PortCount
<1>3. \A n \in Nat : n % PortCount \in 0 .. (PortCount-1)
  BY <1>2
<1>4. QED
  BY <1>1, <1>3 DEF Port, PortNumber

LEMMA InitType == Init => TypeOK
<1>1. Init => queue \in [Server -> Seq(Client)]
  BY DEF Init
<1>2. QED
  BY <1>1 DEF Init, TypeOK, client, server

LEMMA NextType == ASSUME TypeOK, [Next]_vars PROVE TypeOK'
<1>1. ASSUME NEW s \in Server, Start(s) PROVE TypeOK'
  BY <1>1 DEF Start, TypeOK, client
<1>2. ASSUME NEW s \in Server, Bind(s) PROVE TypeOK'
  BY <1>2 DEF Bind, Throws, TypeOK, client
<1>3. ASSUME NEW s \in Server, Listen(s) PROVE TypeOK'
  BY <1>3 DEF Listen, Throws, TypeOK, client
<1>4. ASSUME NEW s \in Server, Accept(s) PROVE TypeOK'
  <2>1. Head(queue[s]) \in Client /\ Tail(queue[s]) \in Seq(Client)
    BY <1>4, QueueHead DEF Accept, TypeOK
  <2>2. QED
    BY <1>4, <2>1 DEF Accept, TypeOK, client
<1>5. ASSUME NEW s \in Server, SessionEnds(s) PROVE TypeOK'
  BY <1>5, PortType DEF SessionEnds, TypeOK
<1>6. ASSUME NEW s \in Server, Exit(s) PROVE TypeOK'
  BY <1>6 DEF Exit, Reset, TypeOK
<1>7. ASSUME NEW s \in Server, ServerKilled(s) PROVE TypeOK'
  BY <1>7 DEF ServerKilled, Reset, TypeOK
<1>8. ASSUME NEW c \in Client, Connect(c) PROVE TypeOK'
  <2>1. cport' \in [Client -> PortArgument \cup {0}]
    BY <1>8 DEF Connect, TypeOK
  <2>2. PICK answer \in {"connecting", "badPort"} : cpc' = [cpc EXCEPT ![c] = answer]
    BY <1>8 DEF Connect
  <2>3. QED
    BY <1>8, <2>1, <2>2 DEF Connect, TypeOK, server
<1>9. ASSUME NEW c \in Client, Established(c) PROVE TypeOK'
  <2>1. \A s \in Server : Append(queue[s], c) \in Seq(Client)
    BY QueueAppend
  <2>2. QED
    BY <1>9, <2>1 DEF Established, TypeOK
<1>10. ASSUME NEW c \in Client, Refused(c) \/ TimesOut(c) \/ ClientKilled(c) PROVE TypeOK'
  BY <1>10 DEF Refused, TimesOut, ClientKilled, TypeOK, server
<1>11. CASE Forget
  BY <1>11 DEF Forget, TypeOK, server, client
<1>12. CASE UNCHANGED vars
  BY <1>12 DEF vars, TypeOK, server, client
<1>13. QED
  BY <1>1, <1>2, <1>3, <1>4, <1>5, <1>6, <1>7, <1>8, <1>9, <1>10, <1>11, <1>12
     DEF Next, ServerStep, ClientStep
-----------------------------------------------------------------------------
(* The invariant: what each of its parts needs of a step.                  *)

LEMMA InitIInv == Init => IInv
<1> SUFFICES ASSUME Init PROVE IInv
  OBVIOUS
<1>1. TypeOK
  BY InitType
<1>2. ASSUME NEW s \in Server
      PROVE  queue[s] = <<>> /\ Queued(s) = {} /\ ~Accepting(s)
  <2>1. queue[s] = <<>> /\ spc[s] = "off"
    BY DEF Init
  <2>2. QED
    BY <2>1, QueueEmpty DEF Accepting
<1>3. QueueInv
  <2>1. DOMAIN <<>> = {}
    OBVIOUS
  <2>2. QED
    BY <1>2, <2>1 DEF QueueInv
<1>4. ServingInv
  BY PortAssumption DEF Init, ServingInv
<1>5. ClientInv /\ UnservedForACause
  BY DEF Init, ClientInv, UnservedForACause
<1>6. QED
  BY <1>1, <1>3, <1>4, <1>5 DEF IInv

\* A step that leaves a queue alone must leave those who wait in it where they are.
LEMMA QueueKept ==
  ASSUME NEW s \in Server, QueueInv, queue'[s] = queue[s],
         Accepting(s) => Accepting(s)',
         \A c \in Queued(s) :
           at'[c] = s /\ serving'[s] # c /\ cpc'[c] \in {"connected", "killed"}
  PROVE  /\ \A i, j \in DOMAIN queue'[s] : queue'[s][i] = queue'[s][j] => i = j
         /\ \A c \in Queued(s)' :
              at'[c] = s /\ serving'[s] # c /\ cpc'[c] \in {"connected", "killed"}
         /\ ~Accepting(s)' => queue'[s] = <<>>
<1>1. Queued(s)' = Queued(s)
  BY DEF Queued
<1>2. /\ \A i, j \in DOMAIN queue[s] : queue[s][i] = queue[s][j] => i = j
      /\ ~Accepting(s) => queue[s] = <<>>
  BY DEF QueueInv
<1>3. QED
  BY <1>1, <1>2

Justified(c) ==
  /\ cpc[c] = "done" => serving[at[c]] = c /\ result[at[c]] \in {"complete", "killed"}
  /\ cpc[c] = "failed" =>
       /\ spc[at[c]] \in {"closing", "exited"}
       /\ \/ serving[at[c]] # c
          \/ result[at[c]] \in {"sessionFailed", "killed"}

\* A server that is past its session stays there, and whom it served; so a client that
\* completed or failed goes on having its reason.
LEMMA ReasonsKept ==
  ASSUME IInv, TypeOK',
         \A s \in Server :
           spc[s] \in {"closing", "exited"} =>
             /\ spc'[s] \in {"closing", "exited"} /\ serving'[s] = serving[s]
             /\ result'[s] = result[s] \/ result'[s] = "killed",
         \A c \in Client :
           \/ cpc'[c] = cpc[c] /\ at'[c] = at[c]
           \/ cpc'[c] \notin {"done", "failed"}
           \/ Justified(c)'
  PROVE  UnservedForACause'
<1> SUFFICES ASSUME NEW c \in Client, cpc'[c] = cpc[c], at'[c] = at[c],
                    cpc[c] \in {"done", "failed"}
             PROVE  Justified(c)'
  BY DEF UnservedForACause, Justified
<1>1. at[c] \in Server /\ Justified(c)
  BY DEF IInv, ClientInv, UnservedForACause, Justified
<1>2. spc[at[c]] \in {"closing", "exited"}
  <2>1. CASE cpc[c] = "done"
    <3>1. result[at[c]] # "none"
      BY <2>1, <1>1 DEF Justified
    <3>2. QED
      BY <3>1, <1>1 DEF IInv, TypeOK
  <2>2. CASE cpc[c] = "failed"
    BY <2>2, <1>1 DEF Justified
  <2>3. QED
    BY <2>1, <2>2
<1>3. QED
  BY <1>1, <1>2 DEF Justified
-----------------------------------------------------------------------------
(* The invariant, action by action.                                        *)

\* A server is started, or fails to bind or to listen: nobody is connected to it.
LEMMA EarlyIInv ==
  ASSUME IInv, TypeOK', NEW s \in Server,
         Start(s) \/ Bind(s) \/ (Listen(s) /\ ~ListenPossible(s))
  PROVE  IInv'
<1>1. /\ spc[s] \in {"off", "bind", "listen"} /\ spc'[s] \in {"bind", "listen", "exited"}
      /\ \A t \in Server \ {s} : spc'[t] = spc[t] /\ argument'[t] = argument[t] /\ result'[t] = result[t]
      /\ UNCHANGED <<sharing, queue, serving, cpc, cport, at>>
  BY DEF Start, Bind, Listen, ListenPossible, Throws, client, IInv, TypeOK
<1>2. \A t \in Server : (Accepting(t)' <=> Accepting(t)) /\ (Accepting(t) => t # s)
  BY <1>1 DEF Accepting, IInv, TypeOK
<1>3. \A t \in Server : Queued(t)' = Queued(t)
  BY <1>1 DEF Queued
<1>4. QueueInv'
  <2> SUFFICES ASSUME NEW t \in Server
               PROVE  /\ \A i, j \in DOMAIN queue'[t] : queue'[t][i] = queue'[t][j] => i = j
                      /\ \A c \in Queued(t)' :
                           at'[c] = t /\ serving'[t] # c /\ cpc'[c] \in {"connected", "killed"}
                      /\ ~Accepting(t)' => queue'[t] = <<>>
    BY DEF QueueInv
  <2>1. \A c \in Queued(t) :
          at'[c] = t /\ serving'[t] # c /\ cpc'[c] \in {"connected", "killed"}
    BY <1>1 DEF IInv, QueueInv
  <2>2. QED
    BY <1>1, <1>2, <2>1, QueueKept DEF IInv
<1>5. ServingInv'
  <2> SUFFICES ASSUME NEW t \in Server
               PROVE  /\ spc'[t] \in {"off", "bind", "listen", "accept"} => serving'[t] = NoClient
                      /\ spc'[t] = "session" =>
                           serving'[t] \in Client /\ cpc'[serving'[t]] \in {"connected", "killed"}
                      /\ serving'[t] \in Client => at'[serving'[t]] = t
    BY DEF ServingInv
  <2>1. t = s => serving[t] = NoClient
    BY <1>1 DEF IInv, ServingInv
  <2>2. QED
    BY <1>1, <2>1 DEF IInv, ServingInv
<1>6. ClientInv'
  <2> SUFFICES ASSUME NEW c \in Client, cpc[c] = "connected"
               PROVE  c \in Queued(at[c])' \/ (spc'[at[c]] = "session" /\ serving[at[c]] = c)
    BY <1>1 DEF IInv, ClientInv
  <2>1. at[c] \in Server /\ (c \in Queued(at[c]) \/ (spc[at[c]] = "session" /\ serving[at[c]] = c))
    BY DEF IInv, ClientInv
  <2>2. spc[at[c]] = "session" => at[c] # s
    BY <1>1
  <2>3. QED
    BY <1>1, <1>3, <2>1, <2>2
<1>7. UnservedForACause'
  <2>1. \A t \in Server : spc[t] \in {"closing", "exited"} => t # s
    BY <1>1
  <2>2. QED
    BY <1>1, <2>1, ReasonsKept
<1>8. QED
  BY <1>4, <1>5, <1>6, <1>7 DEF IInv

\* Of two servers that are bound to one port, the second is told so by listen.
LEMMA ListenIInv ==
  ASSUME IInv, TypeOK', NEW s \in Server, Listen(s), ListenPossible(s)
  PROVE  IInv'
<1>1. /\ spc[s] = "listen" /\ spc' = [spc EXCEPT ![s] = "accept"]
      /\ UNCHANGED <<sharing, argument, queue, serving, result, cpc, cport, at>>
  BY DEF Listen, client
<1>2. /\ \A t \in Server : Accepting(t)' <=> Accepting(t) \/ t = s
      /\ \A t \in Server : Queued(t)' = Queued(t) /\ Port(t)' = Port(t)
  BY <1>1 DEF Accepting, IInv, TypeOK, Queued, Port
<1>3. QueueInv'
  <2> SUFFICES ASSUME NEW t \in Server
               PROVE  /\ \A i, j \in DOMAIN queue'[t] : queue'[t][i] = queue'[t][j] => i = j
                      /\ \A c \in Queued(t)' :
                           at'[c] = t /\ serving'[t] # c /\ cpc'[c] \in {"connected", "killed"}
                      /\ ~Accepting(t)' => queue'[t] = <<>>
    BY DEF QueueInv
  <2>1. \A c \in Queued(t) :
          at'[c] = t /\ serving'[t] # c /\ cpc'[c] \in {"connected", "killed"}
    BY <1>1 DEF IInv, QueueInv
  <2>2. QED
    BY <1>1, <1>2, <2>1, QueueKept DEF IInv
<1>4. ServingInv' /\ ClientInv'
  BY <1>1, <1>2 DEF IInv, TypeOK, ServingInv, ClientInv
<1>5. UnservedForACause'
  BY <1>1, ReasonsKept DEF IInv, TypeOK
<1>6. QED
  BY <1>3, <1>4, <1>5 DEF IInv

\* The first of the queue becomes the client that is served.
LEMMA AcceptIInv ==
  ASSUME IInv, TypeOK', NEW s \in Server, Accept(s)
  PROVE  IInv'
<1> DEFINE first == Head(queue[s])
<1>1. /\ spc[s] = "accept" /\ spc' = [spc EXCEPT ![s] = "session"] /\ queue[s] # <<>>
      /\ serving' = [serving EXCEPT ![s] = first] /\ queue' = [queue EXCEPT ![s] = Tail(queue[s])]
      /\ UNCHANGED <<sharing, argument, result, cpc, cport, at>>
  BY DEF Accept, client
<1>2. TypeOK
  BY DEF IInv
<1>3. /\ \A t \in Server : Accepting(t)' <=> Accepting(t)
      /\ \A t \in Server \ {s} : Queued(t)' = Queued(t) /\ serving'[t] = serving[t] /\ queue'[t] = queue[t]
      /\ queue'[s] = Tail(queue[s]) /\ serving'[s] = first
  BY <1>1, <1>2 DEF Accepting, TypeOK, Queued
<1>4. /\ first \in Queued(s) /\ first = queue[s][1] /\ Queued(s) = {first} \cup Queued(s)'
      /\ \A i \in DOMAIN queue'[s] :
           i + 1 \in DOMAIN queue[s] /\ i + 1 # 1 /\ queue'[s][i] = queue[s][i+1] /\ i \in Int
  <2>1. Queued(s)' = { Tail(queue[s])[i] : i \in DOMAIN Tail(queue[s]) }
    BY <1>3 DEF Queued
  <2>2. Tail(queue[s]) \in Seq(Client)
    BY <1>1, <1>2, QueueHead
  <2>3. \A i \in DOMAIN Tail(queue[s]) : i \in Int
    BY <2>2
  <2>4. QED
    BY <2>1, <2>3, <1>1, <1>2, <1>3, QueueHead
<1>5. first \in Client /\ at[first] = s /\ cpc[first] \in {"connected", "killed"}
  <2>1. first \in Client
    BY <1>1, <1>2, QueueHead DEF TypeOK
  <2>2. QED
    BY <1>4, <2>1 DEF IInv, QueueInv
<1>6. QueueInv'
  <2> SUFFICES ASSUME NEW t \in Server
               PROVE  /\ \A i, j \in DOMAIN queue'[t] : queue'[t][i] = queue'[t][j] => i = j
                      /\ \A c \in Queued(t)' :
                           at'[c] = t /\ serving'[t] # c /\ cpc'[c] \in {"connected", "killed"}
                      /\ ~Accepting(t)' => queue'[t] = <<>>
    BY DEF QueueInv
  <2>1. CASE t # s
    <3>1. \A c \in Queued(t) :
            at'[c] = t /\ serving'[t] # c /\ cpc'[c] \in {"connected", "killed"}
      BY <2>1, <1>1, <1>3 DEF IInv, QueueInv
    <3>2. QED
      BY <2>1, <1>3, <3>1, QueueKept DEF IInv
  <2>2. CASE t = s
    <3>1. \A i, j \in DOMAIN queue[s] : queue[s][i] = queue[s][j] => i = j
      BY DEF IInv, QueueInv
    <3>2. \A i, j \in DOMAIN queue'[s] : queue'[s][i] = queue'[s][j] => i = j
      BY <1>4, <3>1
    <3>3. ASSUME NEW c \in Queued(s)'
          PROVE  at[c] = s /\ first # c /\ cpc[c] \in {"connected", "killed"}
      <4>1. c \in Queued(s)
        BY <1>4
      <4>2. PICK i \in DOMAIN queue'[s] : c = queue'[s][i]
        BY DEF Queued
      <4>3. 1 \in DOMAIN queue[s]
        BY <1>2, <1>1 DEF TypeOK
      <4>4. first # c
        BY <1>4, <3>1, <4>2, <4>3
      <4>5. QED
        BY <4>1, <4>4 DEF IInv, QueueInv
    <3>4. Accepting(s)'
      BY <1>1, <1>3 DEF Accepting
    <3>5. QED
      BY <2>2, <3>2, <3>3, <3>4, <1>1, <1>3
  <2>3. QED
    BY <2>1, <2>2
<1>7. ServingInv'
  BY <1>1, <1>2, <1>5 DEF IInv, ServingInv, TypeOK
<1>8. ClientInv'
  <2> SUFFICES ASSUME NEW c \in Client, cpc[c] = "connected"
               PROVE  c \in Queued(at[c])' \/ (spc'[at[c]] = "session" /\ serving'[at[c]] = c)
    BY <1>1 DEF IInv, ClientInv
  <2>1. at[c] \in Server /\ (c \in Queued(at[c]) \/ (spc[at[c]] = "session" /\ serving[at[c]] = c))
    BY DEF IInv, ClientInv
  <2>2. CASE at[c] = s
    BY <2>1, <2>2, <1>1, <1>2, <1>3, <1>4 DEF TypeOK
  <2>3. CASE at[c] # s
    BY <2>1, <2>3, <1>1, <1>2, <1>3 DEF TypeOK
  <2>4. QED
    BY <2>2, <2>3
<1>9. UnservedForACause'
  BY <1>1, <1>2, ReasonsKept DEF TypeOK
<1>10. QED
  BY <1>6, <1>7, <1>8, <1>9 DEF IInv

\* A session ends for its client and for no other.
LEMMA SessionEndsIInv ==
  ASSUME IInv, TypeOK', NEW s \in Server, SessionEnds(s)
  PROVE  IInv'
<1> DEFINE c0 == serving[s]
<1>1. /\ spc[s] = "session" /\ spc' = [spc EXCEPT ![s] = "closing"]
      /\ UNCHANGED <<sharing, argument, queue, serving, cport, at>>
  BY DEF SessionEnds
<1>2. TypeOK
  BY DEF IInv
<1>3. c0 \in Client /\ at[c0] = s /\ cpc[c0] \in {"connected", "killed"}
  BY <1>1 DEF IInv, ServingInv
<1>4. /\ \A c \in Client \ {c0} : cpc'[c] = cpc[c]
      /\ cpc'[c0] \in {"done", "failed", "killed"}
      /\ cpc'[c0] = "done" => result'[s] = "complete"
      /\ cpc'[c0] = "failed" => result'[s] = "sessionFailed"
      /\ \A t \in Server \ {s} : result'[t] = result[t]
  <2>1. CASE cpc[c0] = "connected" /\ result' = [result EXCEPT ![s] = "complete"]
               /\ cpc' = [cpc EXCEPT ![c0] = "done"]
    BY <2>1, <1>2, <1>3 DEF TypeOK
  <2>2. CASE result' = [result EXCEPT ![s] = "sessionFailed"]
               /\ cpc' = [cpc EXCEPT ![c0] = IF @ = "connected" THEN "failed" ELSE @]
    BY <2>2, <1>2, <1>3 DEF TypeOK
  <2>3. QED
    BY <2>1, <2>2 DEF SessionEnds
<1>5. /\ \A t \in Server : Accepting(t)' <=> Accepting(t)
      /\ \A t \in Server : Queued(t)' = Queued(t)
  BY <1>1, <1>2 DEF Accepting, TypeOK, Queued
<1>6. QueueInv'
  <2> SUFFICES ASSUME NEW t \in Server
               PROVE  /\ \A i, j \in DOMAIN queue'[t] : queue'[t][i] = queue'[t][j] => i = j
                      /\ \A c \in Queued(t)' :
                           at'[c] = t /\ serving'[t] # c /\ cpc'[c] \in {"connected", "killed"}
                      /\ ~Accepting(t)' => queue'[t] = <<>>
    BY DEF QueueInv
  <2>1. ASSUME NEW c \in Queued(t)
        PROVE  at'[c] = t /\ serving'[t] # c /\ cpc'[c] \in {"connected", "killed"}
    <3>1. at[c] = t /\ serving[t] # c /\ cpc[c] \in {"connected", "killed"}
      BY DEF IInv, QueueInv
    <3>2. c # c0
      BY <3>1, <1>3
    <3>3. c \in Client
      BY <1>2 DEF Queued, TypeOK
    <3>4. QED
      BY <3>1, <3>2, <3>3, <1>1, <1>4
  <2>2. QED
    BY <1>1, <1>5, <2>1, QueueKept DEF IInv
<1>7. ServingInv'
  <2> SUFFICES ASSUME NEW t \in Server
               PROVE  /\ spc'[t] \in {"off", "bind", "listen", "accept"} => serving'[t] = NoClient
                      /\ spc'[t] = "session" =>
                           serving'[t] \in Client /\ cpc'[serving'[t]] \in {"connected", "killed"}
                      /\ serving'[t] \in Client => at'[serving'[t]] = t
    BY DEF ServingInv
  <2>1. CASE t = s
    BY <2>1, <1>1, <1>2, <1>3 DEF TypeOK
  <2>2. CASE t # s
    <3>1. /\ spc[t] \in {"off", "bind", "listen", "accept"} => serving[t] = NoClient
          /\ spc[t] = "session" =>
               serving[t] \in Client /\ cpc[serving[t]] \in {"connected", "killed"}
          /\ serving[t] \in Client => at[serving[t]] = t
      BY DEF IInv, ServingInv
    <3>2. serving[t] \in Client => serving[t] # c0
      BY <2>2, <3>1, <1>3
    <3>3. spc'[t] = spc[t]
      BY <2>2, <1>1, <1>2 DEF TypeOK
    <3>4. QED
      BY <3>1, <3>2, <3>3, <1>1, <1>4
  <2>3. QED
    BY <2>1, <2>2
<1>8. ClientInv'
  <2> SUFFICES ASSUME NEW c \in Client
               PROVE  /\ cpc'[c] = "connecting" => cport'[c] \in PortNumber
                      /\ cpc'[c] \in {"off", "connecting"} => at'[c] = NoServer
                      /\ cpc'[c] \in {"connected", "done", "failed"} => at'[c] \in Server
                      /\ \A t \in Server :
                           cpc'[c] = "connected" /\ at'[c] = t =>
                             c \in Queued(t)' \/ (spc'[t] = "session" /\ serving'[t] = c)
    BY DEF ClientInv, Queued
  <2>1. CASE c = c0
    BY <2>1, <1>1, <1>3, <1>4
  <2>2. CASE c # c0
    <3>1. /\ cpc[c] = "connecting" => cport[c] \in PortNumber
          /\ cpc[c] \in {"off", "connecting"} => at[c] = NoServer
          /\ cpc[c] \in {"connected", "done", "failed"} => at[c] \in Server
          /\ cpc[c] = "connected" =>
               c \in Queued(at[c]) \/ (spc[at[c]] = "session" /\ serving[at[c]] = c)
      BY DEF IInv, ClientInv
    <3>2. cpc'[c] = cpc[c]
      BY <2>2, <1>4
    <3>3. \A t \in Server : t # s => spc'[t] = spc[t]
      BY <1>1, <1>2 DEF TypeOK
    <3>4. QED
      BY <2>2, <3>1, <3>2, <3>3, <1>1, <1>5
  <2>3. QED
    BY <2>1, <2>2
<1>9. UnservedForACause'
  <2>1. Justified(c0)'
    <3>1. spc'[s] = "closing" /\ at'[c0] = s /\ serving'[s] = c0
      BY <1>1, <1>2, <1>3 DEF TypeOK
    <3>2. Justified(c0)' <=>
            /\ cpc'[c0] = "done" => serving'[s] = c0 /\ result'[s] \in {"complete", "killed"}
            /\ cpc'[c0] = "failed" =>
                 /\ spc'[s] \in {"closing", "exited"}
                 /\ serving'[s] # c0 \/ result'[s] \in {"sessionFailed", "killed"}
      BY <1>1, <1>3 DEF Justified
    <3>3. QED
      BY <3>1, <3>2, <1>4
  <2>2. \A c \in Client : (cpc'[c] = cpc[c] /\ at'[c] = at[c]) \/ Justified(c)'
    BY <2>1, <1>1, <1>4
  <2>3. \A t \in Server :
          spc[t] \in {"closing", "exited"} =>
            /\ spc'[t] \in {"closing", "exited"} /\ serving'[t] = serving[t]
            /\ result'[t] = result[t]
    BY <1>1, <1>2, <1>4 DEF TypeOK
  <2>4. QED
    BY <2>2, <2>3, ReasonsKept
<1>10. QED
  BY <1>6, <1>7, <1>8, <1>9 DEF IInv

\* A process that ends, by itself or not: who waits or is served is reset.
LEMMA GoneIInv ==
  ASSUME IInv, TypeOK', NEW s \in Server, Exit(s) \/ ServerKilled(s)
  PROVE  IInv'
<1>1. /\ spc[s] \notin {"off", "exited"} /\ spc' = [spc EXCEPT ![s] = "exited"]
      /\ queue' = [queue EXCEPT ![s] = <<>>]
      /\ UNCHANGED <<sharing, argument, serving, cport, at>>
  BY DEF Exit, ServerKilled
<1>2. TypeOK
  BY DEF IInv
<1> DEFINE lost == { c \in Client : c \in Queued(s) \/ (spc[s] = "session" /\ c = serving[s]) }
<1>3. cpc' = [c \in Client |-> IF c \in lost /\ cpc[c] = "connected" THEN "failed" ELSE cpc[c]]
  <2>1. CASE Exit(s)
    BY <2>1 DEF Exit, Reset
  <2>2. CASE ServerKilled(s)
    BY <2>2 DEF ServerKilled, Reset
  <2>3. QED
    BY <2>1, <2>2
<1>4. /\ spc[s] = "closing" => result'[s] \in {result[s], "killed"}
      /\ spc[s] = "session" => result'[s] = "killed"
      /\ \A t \in Server \ {s} : result'[t] = result[t]
  BY <1>2 DEF Exit, ServerKilled, TypeOK
<1>5. /\ \A t \in Server : Accepting(t)' <=> Accepting(t) /\ t # s
      /\ \A t \in Server \ {s} : Queued(t)' = Queued(t) /\ queue'[t] = queue[t] /\ spc'[t] = spc[t]
      /\ queue'[s] = <<>> /\ Queued(s)' = {} /\ spc'[s] = "exited"
  <2>1. queue'[s] = <<>>
    BY <1>1, <1>2 DEF TypeOK
  <2>2. Queued(s)' = {}
    BY <2>1 DEF Queued
  <2>3. QED
    BY <2>1, <2>2, <1>1, <1>2 DEF Accepting, TypeOK, Queued
<1>6. \A c \in lost : at[c] = s
  BY DEF IInv, QueueInv, ServingInv
<1>7. \A c \in Client : cpc[c] \in {"connected", "killed"} /\ at[c] # s => cpc'[c] = cpc[c]
  BY <1>3, <1>6
<1>8. QueueInv'
  <2> SUFFICES ASSUME NEW t \in Server
               PROVE  /\ \A i, j \in DOMAIN queue'[t] : queue'[t][i] = queue'[t][j] => i = j
                      /\ \A c \in Queued(t)' :
                           at'[c] = t /\ serving'[t] # c /\ cpc'[c] \in {"connected", "killed"}
                      /\ ~Accepting(t)' => queue'[t] = <<>>
    BY DEF QueueInv
  <2>1. CASE t = s
    <3>1. DOMAIN <<>> = {}
      OBVIOUS
    <3>2. QED
      BY <2>1, <3>1, <1>5
  <2>2. CASE t # s
    <3>1. ASSUME NEW c \in Queued(t)
          PROVE  at'[c] = t /\ serving'[t] # c /\ cpc'[c] \in {"connected", "killed"}
      <4>1. c \in Client
        BY <1>2 DEF Queued, TypeOK
      <4>2. at[c] = t /\ serving[t] # c /\ cpc[c] \in {"connected", "killed"}
        BY DEF IInv, QueueInv
      <4>3. QED
        BY <2>2, <4>1, <4>2, <1>1, <1>7
    <3>2. QED
      BY <2>2, <3>1, <1>5, QueueKept DEF IInv
  <2>3. QED
    BY <2>1, <2>2
<1>9. ServingInv'
  <2> SUFFICES ASSUME NEW t \in Server
               PROVE  /\ spc'[t] \in {"off", "bind", "listen", "accept"} => serving'[t] = NoClient
                      /\ spc'[t] = "session" =>
                           serving'[t] \in Client /\ cpc'[serving'[t]] \in {"connected", "killed"}
                      /\ serving'[t] \in Client => at'[serving'[t]] = t
    BY DEF ServingInv
  <2>1. /\ spc[t] \in {"off", "bind", "listen", "accept"} => serving[t] = NoClient
        /\ spc[t] = "session" =>
             serving[t] \in Client /\ cpc[serving[t]] \in {"connected", "killed"}
        /\ serving[t] \in Client => at[serving[t]] = t
    BY DEF IInv, ServingInv
  <2>2. QED
    BY <2>1, <1>1, <1>5, <1>7
<1>10. ClientInv'
  <2> SUFFICES ASSUME NEW c \in Client
               PROVE  /\ cpc'[c] = "connecting" => cport'[c] \in PortNumber
                      /\ cpc'[c] \in {"off", "connecting"} => at'[c] = NoServer
                      /\ cpc'[c] \in {"connected", "done", "failed"} => at'[c] \in Server
                      /\ \A t \in Server :
                           cpc'[c] = "connected" /\ at'[c] = t =>
                             c \in Queued(t)' \/ (spc'[t] = "session" /\ serving'[t] = c)
    BY DEF ClientInv, Queued
  <2>1. /\ cpc[c] = "connecting" => cport[c] \in PortNumber
        /\ cpc[c] \in {"off", "connecting"} => at[c] = NoServer
        /\ cpc[c] \in {"connected", "done", "failed"} => at[c] \in Server
        /\ cpc[c] = "connected" =>
             c \in Queued(at[c]) \/ (spc[at[c]] = "session" /\ serving[at[c]] = c)
    BY DEF IInv, ClientInv
  <2>2. CASE cpc[c] = "connected" /\ at[c] = s
    <3>1. c \in lost
      BY <2>1, <2>2, <1>3
    <3>2. cpc'[c] = "failed"
      BY <2>2, <3>1, <1>3
    <3>3. QED
      BY <2>2, <3>2, <1>1
  <2>3. CASE ~(cpc[c] = "connected" /\ at[c] = s)
    <3>1. cpc'[c] = cpc[c]
      BY <2>3, <1>3, <1>6
    <3>2. QED
      BY <2>1, <2>3, <3>1, <1>1, <1>5
  <2>4. QED
    BY <2>2, <2>3
<1>11. UnservedForACause'
  <2>1. ASSUME NEW c \in lost, cpc[c] = "connected" PROVE Justified(c)'
    <3>1. at'[c] = s /\ cpc'[c] = "failed" /\ spc'[s] = "exited" /\ serving'[s] = serving[s]
      BY <2>1, <1>1, <1>3, <1>5, <1>6
    <3>2. serving[s] # c \/ result'[s] = "killed"
      <4>1. CASE c \in Queued(s)
        BY <4>1 DEF IInv, QueueInv
      <4>2. CASE c \notin Queued(s)
        BY <4>2, <1>3, <1>4
      <4>3. QED
        BY <4>1, <4>2
    <3>3. Justified(c)' <=>
            /\ cpc'[c] = "done" => serving'[s] = c /\ result'[s] \in {"complete", "killed"}
            /\ cpc'[c] = "failed" =>
                 /\ spc'[s] \in {"closing", "exited"}
                 /\ serving'[s] # c \/ result'[s] \in {"sessionFailed", "killed"}
      BY <3>1 DEF Justified
    <3>4. QED
      BY <3>1, <3>2, <3>3
  <2>2. \A c \in Client : (cpc'[c] = cpc[c] /\ at'[c] = at[c]) \/ Justified(c)'
    BY <2>1, <1>1, <1>3
  <2>3. \A t \in Server :
          spc[t] \in {"closing", "exited"} =>
            /\ spc'[t] \in {"closing", "exited"} /\ serving'[t] = serving[t]
            /\ result'[t] = result[t] \/ result'[t] = "killed"
    BY <1>1, <1>4, <1>5
  <2>4. QED
    BY <2>2, <2>3, ReasonsKept
<1>12. QED
  BY <1>8, <1>9, <1>10, <1>11 DEF IInv

\* A client is started, gives up or is killed: its place in a queue stays.
LEMMA AloneIInv ==
  ASSUME IInv, TypeOK', NEW c \in Client,
         Connect(c) \/ Refused(c) \/ TimesOut(c) \/ ClientKilled(c)
  PROVE  IInv'
<1>1. /\ UNCHANGED <<sharing, server, at>>
      /\ \A d \in Client \ {c} : cpc'[d] = cpc[d] /\ cport'[d] = cport[d]
  BY DEF Connect, Refused, TimesOut, ClientKilled, IInv, TypeOK
<1>2. /\ cpc[c] \in {"off", "connecting", "connected"}
      /\ cpc[c] = "connected" => cpc'[c] = "killed"
      /\ cpc'[c] \in {"connecting", "badPort", "refused", "timedOut", "killed"}
      /\ cpc'[c] = "connecting" => cpc[c] = "off" /\ cport'[c] \in PortNumber
  <2>1. CASE Connect(c)
    <3>1. PICK n \in PortArgument :
            /\ cport' = [cport EXCEPT ![c] = n]
            /\ cpc' = [cpc EXCEPT ![c] = IF n \in 1 .. (PortCount-1) THEN "connecting"
                                                                      ELSE "badPort"]
      BY <2>1 DEF Connect
    <3>2. PortCount \in Nat
      BY DEF PortCount
    <3>3. n \in 1 .. (PortCount-1) => n \in PortNumber
      BY <3>2 DEF PortNumber
    <3>4. QED
      BY <2>1, <3>1, <3>3 DEF Connect, IInv, TypeOK
  <2>2. CASE Refused(c) \/ TimesOut(c) \/ ClientKilled(c)
    BY <2>2 DEF Refused, TimesOut, ClientKilled, IInv, TypeOK
  <2>3. QED
    BY <2>1, <2>2
<1>3. \A t \in Server : (Accepting(t)' <=> Accepting(t)) /\ Queued(t)' = Queued(t)
  BY <1>1 DEF server, Accepting, Queued
<1>4. QueueInv'
  <2> SUFFICES ASSUME NEW t \in Server
               PROVE  /\ \A i, j \in DOMAIN queue'[t] : queue'[t][i] = queue'[t][j] => i = j
                      /\ \A d \in Queued(t)' :
                           at'[d] = t /\ serving'[t] # d /\ cpc'[d] \in {"connected", "killed"}
                      /\ ~Accepting(t)' => queue'[t] = <<>>
    BY DEF QueueInv
  <2>1. ASSUME NEW d \in Queued(t)
        PROVE  at'[d] = t /\ serving'[t] # d /\ cpc'[d] \in {"connected", "killed"}
    <3>1. d \in Client /\ at[d] = t /\ serving[t] # d /\ cpc[d] \in {"connected", "killed"}
      BY DEF Queued, IInv, TypeOK, QueueInv
    <3>2. QED
      BY <3>1, <1>1, <1>2 DEF server
  <2>2. QED
    BY <1>1, <1>3, <2>1, QueueKept DEF IInv, server
<1>5. ServingInv'
  <2> SUFFICES ASSUME NEW t \in Server
               PROVE  /\ spc'[t] \in {"off", "bind", "listen", "accept"} => serving'[t] = NoClient
                      /\ spc'[t] = "session" =>
                           serving'[t] \in Client /\ cpc'[serving'[t]] \in {"connected", "killed"}
                      /\ serving'[t] \in Client => at'[serving'[t]] = t
    BY DEF ServingInv
  <2>1. /\ spc[t] \in {"off", "bind", "listen", "accept"} => serving[t] = NoClient
        /\ spc[t] = "session" =>
             serving[t] \in Client /\ cpc[serving[t]] \in {"connected", "killed"}
        /\ serving[t] \in Client => at[serving[t]] = t
    BY DEF IInv, ServingInv
  <2>2. QED
    BY <2>1, <1>1, <1>2 DEF server
<1>6. ClientInv'
  <2> SUFFICES ASSUME NEW d \in Client
               PROVE  /\ cpc'[d] = "connecting" => cport'[d] \in PortNumber
                      /\ cpc'[d] \in {"off", "connecting"} => at'[d] = NoServer
                      /\ cpc'[d] \in {"connected", "done", "failed"} => at'[d] \in Server
                      /\ \A t \in Server :
                           cpc'[d] = "connected" /\ at'[d] = t =>
                             d \in Queued(t)' \/ (spc'[t] = "session" /\ serving'[t] = d)
    BY DEF ClientInv, Queued
  <2>1. /\ cpc[d] = "connecting" => cport[d] \in PortNumber
        /\ cpc[d] \in {"off", "connecting"} => at[d] = NoServer
        /\ cpc[d] \in {"connected", "done", "failed"} => at[d] \in Server
        /\ cpc[d] = "connected" =>
             d \in Queued(at[d]) \/ (spc[at[d]] = "session" /\ serving[at[d]] = d)
    BY DEF IInv, ClientInv
  <2>2. QED
    BY <2>1, <1>1, <1>2, <1>3 DEF server
<1>7. UnservedForACause'
  BY <1>1, <1>2, ReasonsKept DEF server
<1>8. QED
  BY <1>4, <1>5, <1>6, <1>7 DEF IInv

\* A connection is established: the client is in no other queue.
LEMMA EstablishedIInv ==
  ASSUME IInv, TypeOK', NEW c \in Client, Established(c)
  PROVE  IInv'
<1>1. TypeOK /\ cpc[c] = "connecting" /\ at[c] = NoServer
  BY DEF Established, IInv, ClientInv
<1>2. PICK s \in Server : /\ Accepting(s) /\ queue' = [queue EXCEPT ![s] = Append(@, c)]
                          /\ at' = [at EXCEPT ![c] = s]
  BY DEF Established
<1>3. /\ cpc' = [cpc EXCEPT ![c] = "connected"]
      /\ UNCHANGED <<sharing, spc, argument, serving, result, cport>>
  BY DEF Established
<1>4. /\ \A t \in Server : Accepting(t)' <=> Accepting(t)
      /\ \A t \in Server \ {s} : queue'[t] = queue[t] /\ Queued(t)' = Queued(t)
      /\ queue'[s] = Append(queue[s], c)
  BY <1>1, <1>2, <1>3 DEF Accepting, TypeOK, Queued
<1>5. Queued(s)' = Queued(s) \cup {c}
  BY <1>1, <1>4, QueueAppend DEF Queued
<1>6. \A t \in Server : c \notin Queued(t) /\ serving[t] # c
  <2> TAKE t \in Server
  <2>1. c \notin Queued(t)
    BY <1>1 DEF IInv, QueueInv
  <2>2. serving[t] # c
    BY <1>1, PortAssumption DEF IInv, ServingInv
  <2>3. QED
    BY <2>1, <2>2
<1>7. /\ \A d \in Client \ {c} : cpc'[d] = cpc[d] /\ at'[d] = at[d]
      /\ cpc'[c] = "connected" /\ at'[c] = s
  BY <1>1, <1>2, <1>3 DEF TypeOK
<1>8. QueueInv'
  <2> SUFFICES ASSUME NEW t \in Server
               PROVE  /\ \A i, j \in DOMAIN queue'[t] : queue'[t][i] = queue'[t][j] => i = j
                      /\ \A d \in Queued(t)' :
                           at'[d] = t /\ serving'[t] # d /\ cpc'[d] \in {"connected", "killed"}
                      /\ ~Accepting(t)' => queue'[t] = <<>>
    BY DEF QueueInv
  <2>1. ASSUME NEW d \in Queued(t)
        PROVE  at'[d] = t /\ serving'[t] # d /\ cpc'[d] \in {"connected", "killed"}
    <3>1. d \in Client /\ at[d] = t /\ serving[t] # d /\ cpc[d] \in {"connected", "killed"}
      BY <1>1 DEF Queued, IInv, TypeOK, QueueInv
    <3>2. d # c
      BY <1>6
    <3>3. QED
      BY <3>1, <3>2, <1>3, <1>7
  <2>2. CASE t # s
    BY <2>1, <2>2, <1>4, QueueKept DEF IInv
  <2>3. CASE t = s
    <3> DEFINE l == Len(queue[s])
    <3>1. /\ l \in Nat /\ DOMAIN queue[s] = 1 .. l /\ DOMAIN queue'[s] = 1 .. l + 1
          /\ \A i \in 1 .. l : queue'[s][i] = queue[s][i]
          /\ queue'[s][l+1] = c
      BY <1>1, <1>4, QueueAppend
    <3>2. \A i, j \in 1 .. l : queue[s][i] = queue[s][j] => i = j
      BY <3>1 DEF IInv, QueueInv
    <3>3. \A i \in 1 .. l : queue[s][i] # c
      BY <3>1, <1>6 DEF Queued
    <3> HIDE DEF l
    <3>4. ASSUME NEW i \in 1 .. l + 1, NEW j \in 1 .. l + 1, queue'[s][i] = queue'[s][j]
          PROVE  i = j
      <4>1. (i \in 1 .. l \/ i = l + 1) /\ (j \in 1 .. l \/ j = l + 1)
        BY <3>1
      <4>2. QED
        BY <4>1, <3>1, <3>2, <3>3, <3>4
    <3>5. \A d \in Queued(s)' :
            at'[d] = s /\ serving'[s] # d /\ cpc'[d] \in {"connected", "killed"}
      BY <2>1, <2>3, <1>3, <1>5, <1>6, <1>7
    <3>6. QED
      BY <2>3, <3>1, <3>4, <3>5, <1>2, <1>4
  <2>4. QED
    BY <2>2, <2>3
<1>9. ServingInv'
  <2> SUFFICES ASSUME NEW t \in Server
               PROVE  /\ spc'[t] \in {"off", "bind", "listen", "accept"} => serving'[t] = NoClient
                      /\ spc'[t] = "session" =>
                           serving'[t] \in Client /\ cpc'[serving'[t]] \in {"connected", "killed"}
                      /\ serving'[t] \in Client => at'[serving'[t]] = t
    BY DEF ServingInv
  <2>1. /\ spc[t] \in {"off", "bind", "listen", "accept"} => serving[t] = NoClient
        /\ spc[t] = "session" =>
             serving[t] \in Client /\ cpc[serving[t]] \in {"connected", "killed"}
        /\ serving[t] \in Client => at[serving[t]] = t
    BY DEF IInv, ServingInv
  <2>2. QED
    BY <2>1, <1>3, <1>6, <1>7
<1>10. ClientInv'
  <2> SUFFICES ASSUME NEW d \in Client
               PROVE  /\ cpc'[d] = "connecting" => cport'[d] \in PortNumber
                      /\ cpc'[d] \in {"off", "connecting"} => at'[d] = NoServer
                      /\ cpc'[d] \in {"connected", "done", "failed"} => at'[d] \in Server
                      /\ \A t \in Server :
                           cpc'[d] = "connected" /\ at'[d] = t =>
                             d \in Queued(t)' \/ (spc'[t] = "session" /\ serving'[t] = d)
    BY DEF ClientInv, Queued
  <2>1. CASE d = c
    BY <2>1, <1>5, <1>7
  <2>2. CASE d # c
    <3>1. /\ cpc[d] = "connecting" => cport[d] \in PortNumber
          /\ cpc[d] \in {"off", "connecting"} => at[d] = NoServer
          /\ cpc[d] \in {"connected", "done", "failed"} => at[d] \in Server
          /\ cpc[d] = "connected" =>
               d \in Queued(at[d]) \/ (spc[at[d]] = "session" /\ serving[at[d]] = d)
      BY DEF IInv, ClientInv
    <3>2. \A t \in Server : Queued(t) \subseteq Queued(t)'
      BY <1>4, <1>5
    <3>3. QED
      BY <2>2, <3>1, <3>2, <1>3, <1>7
  <2>3. QED
    BY <2>1, <2>2
<1>11. UnservedForACause'
  BY <1>3, <1>7, ReasonsKept
<1>12. QED
  BY <1>8, <1>9, <1>10, <1>11 DEF IInv

\* TCP forgets the past of a port, or nothing happens.
LEMMA StillIInv ==
  ASSUME IInv, TypeOK', UNCHANGED <<sharing, server, client>>
  PROVE  IInv'
<1>1. \A t \in Server : (Accepting(t)' <=> Accepting(t)) /\ Queued(t)' = Queued(t)
  BY DEF server, Accepting, Queued
<1>2. QueueInv'
  BY <1>1 DEF IInv, QueueInv, server, client
<1>3. ServingInv'
  BY DEF IInv, ServingInv, server, client
<1>4. ClientInv'
  <2> SUFFICES ASSUME NEW d \in Client
               PROVE  /\ cpc'[d] = "connecting" => cport'[d] \in PortNumber
                      /\ cpc'[d] \in {"off", "connecting"} => at'[d] = NoServer
                      /\ cpc'[d] \in {"connected", "done", "failed"} => at'[d] \in Server
                      /\ \A t \in Server :
                           cpc'[d] = "connected" /\ at'[d] = t =>
                             d \in Queued(t)' \/ (spc'[t] = "session" /\ serving'[t] = d)
    BY DEF ClientInv, Queued
  <2>1. /\ cpc[d] = "connecting" => cport[d] \in PortNumber
        /\ cpc[d] \in {"off", "connecting"} => at[d] = NoServer
        /\ cpc[d] \in {"connected", "done", "failed"} => at[d] \in Server
        /\ cpc[d] = "connected" =>
             d \in Queued(at[d]) \/ (spc[at[d]] = "session" /\ serving[at[d]] = d)
    BY DEF IInv, ClientInv
  <2>2. QED
    BY <2>1, <1>1 DEF server, client
<1>5. UnservedForACause'
  BY ReasonsKept DEF server, client
<1>6. QED
  BY <1>2, <1>3, <1>4, <1>5 DEF IInv
-----------------------------------------------------------------------------
(* The theorems.                                                           *)

LEMMA NextIInv == IInv /\ [Next]_vars => IInv'
<1> SUFFICES ASSUME IInv, [Next]_vars PROVE IInv'
  OBVIOUS
<1>1. TypeOK'
  BY NextType DEF IInv
<1>2. ASSUME NEW s \in Server, Start(s) \/ ServerStep(s) \/ ServerKilled(s) PROVE IInv'
  <2>1. CASE Start(s) \/ Bind(s) \/ (Listen(s) /\ ~ListenPossible(s))
    BY <1>1, <2>1, EarlyIInv
  <2>2. CASE Listen(s) /\ ListenPossible(s)
    BY <1>1, <2>2, ListenIInv
  <2>3. CASE Accept(s)
    BY <1>1, <2>3, AcceptIInv
  <2>4. CASE SessionEnds(s)
    BY <1>1, <2>4, SessionEndsIInv
  <2>5. CASE Exit(s) \/ ServerKilled(s)
    BY <1>1, <2>5, GoneIInv
  <2>6. QED
    BY <1>2, <2>1, <2>2, <2>3, <2>4, <2>5 DEF ServerStep
<1>3. ASSUME NEW c \in Client, Connect(c) \/ ClientStep(c) \/ TimesOut(c) \/ ClientKilled(c)
      PROVE  IInv'
  BY <1>1, <1>3, AloneIInv, EstablishedIInv DEF ClientStep
<1>4. CASE Forget \/ UNCHANGED vars
  BY <1>1, <1>4, StillIInv DEF Forget, vars
<1>5. QED
  BY <1>2, <1>3, <1>4 DEF Next

\* The inductive invariant: every client is in one queue, in one session, or nowhere.
THEOREM LifecycleInvariant == Spec => []IInv
<1>1. QED
  BY InitIInv, NextIInv, PTL DEF Spec

\* A client completes only with the server that served it, and fails only for a cause.
THEOREM LifecycleUnservedForACause == Spec => []UnservedForACause
<1>1. IInv => UnservedForACause
  BY DEF IInv
<1>2. QED
  BY <1>1, LifecycleInvariant, PTL

\* bind fails only while another server accepts on the port.
THEOREM LifecycleRestartGetsPort == Spec => RestartGetsPort
<1> DEFINE A == \A s \in Server :
                  result[s] = "none" /\ result'[s] = "bindFailed"
                    => \E t \in Server : Accepting(t) /\ Port(t) = Port(s)
<1>1. ASSUME IInv, Next, NEW s \in Server, result[s] = "none", result'[s] = "bindFailed"
      PROVE  \E t \in Server : Accepting(t) /\ Port(t) = Port(s)
  <2>1. TypeOK
    BY <1>1 DEF IInv
  <2>2. Bind(s) /\ ~BindPossible(s)
    BY <1>1, <2>1
       DEF Next, ServerStep, ClientStep, Start, Bind, Listen, Throws, Accept, SessionEnds, Exit,
           ServerKilled, Connect, Established, Refused, TimesOut, ClientKilled, Forget, server,
           TypeOK
  <2>3. QED
    BY <2>2 DEF BindPossible, ReuseAddress
<1>2. IInv /\ [Next]_vars => [A]_vars
  BY <1>1
<1>3. QED
  BY <1>2, LifecycleInvariant, PTL DEF Spec, RestartGetsPort
=============================================================================
