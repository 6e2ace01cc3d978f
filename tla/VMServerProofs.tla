--------------------------- MODULE VMServerProofs ---------------------------
(***************************************************************************)
(* Proofs about the connections of VMServer, for any clients, requests,    *)
(* texts and failures, with clients that die and a stop at any point.      *)
(***************************************************************************)
EXTENDS VMServer, SequenceTheorems, TLAPS

Place ==
  {"start", "accept", "protocol", "log", "print", "text", "reset", "kill", "ip", "host",
   "guest", "PREROUTING", "OUTPUT", "dead", "idle", "provision"}

Shapes ==
  /\ pc \in [Thread -> Place]
  /\ cpc \in [Client -> {"idle", "write", "read", "done", "dead"}]
  /\ fd \in [Client -> {none, "backlog", "open", "closed", "forgotten"}]
  /\ reply = [c \in Client |-> reply[c]]
  /\ request = [c \in Client |-> request[c]]

\* The acceptor has a client from accept on, unless accept failed, and the protocol is
\* the one of this client or what the end of a stream is taken for.
AcceptorOK ==
  /\ pc[acceptor] \in {"start", "accept"} => serving = none
  /\ pc[acceptor] \notin {"start", "accept", "dead"} =>
       serving \in Client \/ (serving = none /\ pc[acceptor] \in {"log", "print"})
  /\ pc[acceptor] \in {"log", "print"} =>
       prot = "PROVISION" \/ (serving \in Client /\ prot = request[serving].op)

BacklogOK ==
  /\ backlog \in Seq(Client)
  /\ \A i \in 1..Len(backlog) : fd[backlog[i]] = "backlog"
  /\ \A i \in 1..Len(backlog), j \in 1..Len(backlog) : backlog[i] = backlog[j] => i = j

\* A client that is served has an open connection and no answer yet, so that it is
\* not done while the daemon is up.
ClientOK(c) ==
  /\ cpc[c] = "idle" <=> fd[c] = none
  /\ fd[c] # none => request[c] \in Requests(c)
  /\ fd[c] \in {none, "backlog"} => reply[c] = <<>> /\ pc[c] = "idle" /\ serving # c
  /\ Up /\ reply[c] = <<>> /\ fd[c] # "closed" => cpc[c] # "done"
  /\ served(c) => fd[c] = "open" /\ reply[c] = <<>>
  /\ serving = c => pc[c] = "idle"
  /\ fd[c] = "forgotten" => cpc[c] = "dead"
  /\ fd[c] = "open" /\ ~ served(c) /\ pc[acceptor] # "dead" => request[c].op = "UNKNOWN"

ConnectionInv ==
  Shapes /\ AcceptorOK /\ BacklogOK /\ \A c \in Client : ClientOK(c)

-----------------------------------------------------------------------------
LEMMA Threads ==
  /\ Client \subseteq Thread /\ acceptor \in Thread
  /\ \A c \in Client : c # acceptor /\ c # none
BY ThreadAssumption DEF Thread

LEMMA HeadOfConcat ==
  ASSUME NEW S, NEW a \in Seq(S), NEW b \in Seq(S), Len(a) > 0
  PROVE  a \o b \in Seq(S) /\ Len(a \o b) > 0 /\ (a \o b)[1] = a[1]
<1>1. Len(a) \in Nat /\ Len(b) \in Nat /\ Len(a) >= 1
  OBVIOUS
<1>2. a \o b \in Seq(S) /\ Len(a \o b) = Len(a) + Len(b)
  BY ConcatProperties
<1>3. 1 \in 1..Len(a) + Len(b)
  BY <1>1
<1>4. (a \o b)[1] = IF 1 <= Len(a) THEN a[1] ELSE b[1 - Len(a)]
  BY <1>3, ConcatProperties
<1> QED
  BY <1>1, <1>2, <1>4

\* The first unit is the operation.
LEMMA FirstUnit ==
  ASSUME NEW c \in Client, NEW r \in Requests(c)
  PROVE  Program(r)[1] = r.op
<1>1. /\ r.op \in Operation /\ r.text \in Seq(STRING)
      /\ r.op = "NAT" => r.ports \in Seq(Nat)
  BY RequestAssumption
<1> DEFINE X == STRING \union Nat \union Operation
           head == <<r.op, Len(r.text)>>
<1>2. head \in Seq(X) /\ Len(head) > 0 /\ head[1] = r.op
  BY <1>1
<1>3. r.text \in Seq(X) /\ (r.op = "NAT" => r.ports \in Seq(X))
  BY <1>1
<1> HIDE DEF X, head
<1>4. head \o r.text \in Seq(X) /\ Len(head \o r.text) > 0 /\ (head \o r.text)[1] = r.op
  <2>1. r.text \in Seq(X)
    BY <1>3
  <2>2. /\ head \o r.text \in Seq(X) /\ Len(head \o r.text) > 0
        /\ (head \o r.text)[1] = head[1]
    BY <1>2, <2>1, HeadOfConcat, Zenon
  <2> QED
    BY <1>2, <2>2, Zenon
<1>5. ASSUME r.op = "NAT" PROVE ((head \o r.text) \o r.ports)[1] = r.op
  BY <1>3, <1>4, <1>5, HeadOfConcat
<1>6. CASE r.op \in {"PROVISION", "KILL", "IP"}
  <2>1. Program(r) = head \o r.text
    BY <1>6 DEF Program, head
  <2> QED
    BY <2>1, <1>4
<1>7. CASE r.op = "NAT"
  <2>1. Program(r) = head \o r.text \o r.ports
    BY <1>7 DEF Program, head
  <2> QED
    BY <2>1, <1>5, <1>7
<1>8. CASE r.op \in {"RESET_COUNTERS", "UNKNOWN"}
  <2>1. Program(r) = <<r.op>>
    BY <1>8 DEF Program
  <2> QED
    BY <2>1
<1> QED
  BY <1>1, <1>6, <1>7, <1>8 DEF Operation

-----------------------------------------------------------------------------
(* The steps of the threads that serve. *)

Working(t) ==
  /\ pc[t] \notin {"start", "accept", "dead", "idle"}
  /\ t = acceptor => serving # none

LEMMA AtWork ==
  ASSUME ConnectionInv,
         pc[acceptor] \in {"protocol", "text", "reset", "kill", "ip", "host", "guest",
                           "PREROUTING", "OUTPUT"}
  PROVE  Working(acceptor)
BY Threads DEF ConnectionInv, AcceptorOK, Working

\* Whoever is at work has a client, and this client is not done.
LEMMA ServedClient ==
  ASSUME NEW t \in Thread, ConnectionInv, Working(t)
  PROVE  /\ clientOf(t) \in Client /\ fd[clientOf(t)] = "open"
         /\ request[clientOf(t)] \in Requests(clientOf(t))
         /\ reply[clientOf(t)] = <<>> /\ (Up => cpc[clientOf(t)] # "done")
         /\ served(clientOf(t))
<1>1. CASE t = acceptor
  <2>1. serving \in Client /\ served(serving)
    BY <1>1 DEF ConnectionInv, AcceptorOK, Working, served
  <2> QED
    BY <1>1, <2>1, NoneAssumption DEF ConnectionInv, ClientOK, clientOf
<1>2. CASE t # acceptor
  <2>1. t \in Client /\ served(t)
    BY <1>2 DEF Thread, Working, served
  <2> QED
    BY <1>2, <2>1, NoneAssumption DEF ConnectionInv, ClientOK, clientOf
<1> QED
  BY <1>1, <1>2

\* A thread goes on with its request.
LEMMA WalkOn ==
  ASSUME NEW t \in Thread, ConnectionInv, Working(t),
         NEW place \in Place \ {"start", "accept", "dead", "idle", "log", "print"},
         Goto(t, place), Up, UNCHANGED <<request, cpc, fd, reply, backlog, serving, prot>>
  PROVE  ConnectionInv'
<1>1. Shapes' /\ \A u \in Thread : pc'[u] = IF u = t THEN place ELSE pc[u]
  BY DEF ConnectionInv, Shapes, Goto
<1>2. AcceptorOK'
  BY <1>1, Threads DEF ConnectionInv, AcceptorOK, Working
<1>3. BacklogOK'
  BY DEF ConnectionInv, BacklogOK
<1>4. ASSUME NEW c \in Client PROVE ClientOK(c)'
  <2>1. /\ pc'[c] = "idle" <=> pc[c] = "idle"
        /\ pc'[acceptor] \in {"accept", "dead"} <=> pc[acceptor] \in {"accept", "dead"}
        /\ pc'[acceptor] = "dead" <=> pc[acceptor] = "dead"
    BY <1>1, Threads DEF Working
  <2>2. served(c)' <=> served(c)
    BY <2>1 DEF served
  <2> QED
    BY <2>1, <2>2 DEF ConnectionInv, ClientOK
<1> QED
  BY <1>1, <1>2, <1>3, <1>4 DEF ConnectionInv

\* A thread answers and closes.
LEMMA FinishKeeps ==
  ASSUME NEW t \in Thread, ConnectionInv, Working(t), Up,
         NEW units, units # <<>>, finish(t, units), UNCHANGED <<request, cpc, backlog>>
  PROVE  ConnectionInv'
<1> DEFINE b == clientOf(t)
<1>1. /\ b \in Client /\ fd[b] = "open" /\ cpc[b] # "done"
      /\ request[b] \in Requests(b)
  BY ServedClient
<1>2. PICK d : /\ d = "closed" \/ (d = "forgotten" /\ cpc[b] = "dead")
               /\ fd' = [fd EXCEPT ![b] = d]
  BY <1>1 DEF finish, gone
<1>3. /\ \A c \in Client : fd'[c] = IF c = b THEN d ELSE fd[c]
      /\ \A c \in Client : reply'[c] = IF c = b THEN units ELSE reply[c]
      /\ \A u \in Thread : pc'[u] = IF u # t THEN pc[u]
                                    ELSE IF t = acceptor THEN "accept" ELSE "idle"
      /\ serving' = IF t = acceptor THEN none ELSE serving
      /\ t # acceptor => prot' = prot
  BY <1>1, <1>2 DEF finish, leave, ConnectionInv, Shapes
<1>4. Shapes'
  BY <1>1, <1>2 DEF finish, leave, ConnectionInv, Shapes, Place
<1>5. AcceptorOK'
  BY <1>3, Threads DEF ConnectionInv, AcceptorOK
<1>6. BacklogOK'
  BY <1>1, <1>3 DEF ConnectionInv, BacklogOK
<1>7. ASSUME NEW c \in Client PROVE ClientOK(c)'
  <2>1. ClientOK(c)
    BY DEF ConnectionInv
  <2>2. CASE c = b
    <3>1. fd'[c] = d /\ reply'[c] # <<>> /\ c \in Thread
      BY <1>3, <2>2, Threads
    <3>2. pc'[c] = "idle" /\ serving' # c
      <4>1. CASE t = acceptor
        BY <4>1, <2>2, <1>3, <2>1, Threads DEF ClientOK, clientOf
      <4>2. CASE t # acceptor
        BY <4>2, <2>2, <1>3, <2>1, Threads DEF ClientOK, clientOf, Working
      <4> QED
        BY <4>1, <4>2
    <3>3. ~ served(c)'
      BY <3>2 DEF served
    <3> QED
      BY <1>1, <1>2, <2>1, <2>2, <3>1, <3>2, <3>3, NoneAssumption DEF ClientOK
  <2>3. CASE c # b
    <3>1. fd'[c] = fd[c] /\ reply'[c] = reply[c] /\ c \in Thread
      BY <1>3, <2>3, Threads
    <3>2. pc'[c] = pc[c] /\ (serving' = c <=> t # acceptor /\ serving = c)
      BY <1>3, <2>3, Threads DEF clientOf
    <3>3. t = acceptor => serving # c /\ pc[acceptor] # "dead" /\ pc'[acceptor] # "dead"
      BY <1>3, <2>3, Threads DEF clientOf, Working
    <3>4. t # acceptor => pc'[acceptor] = pc[acceptor]
      BY <1>3, Threads
    <3>5. served(c)' <=> served(c)
      BY <3>2, <3>3, <3>4 DEF served
    <3> QED
      BY <2>1, <3>1, <3>2, <3>3, <3>4, <3>5 DEF ClientOK
  <2> QED
    BY <2>2, <2>3
<1> QED
  BY <1>4, <1>5, <1>6, <1>7 DEF ConnectionInv

LEMMA Arrives ==
  ASSUME NEW v, ConnectionInv, pc[acceptor] = "protocol",
         v \in receiveInt(acceptor, "PROVISION")
  PROVE  v = request[serving].op \/ v = "PROVISION"
<1>1. serving \in Client /\ request[serving] \in Requests(serving)
  BY ServedClient, AtWork, Threads DEF clientOf
<1>2. v = Unit(acceptor, 1) \/ v = "PROVISION"
  BY DEF receiveInt, Integer, cut
<1>3. Unit(acceptor, 1) = Program(request[serving])[1]
  BY DEF Unit, consumed, clientOf
<1> QED
  BY <1>1, <1>2, <1>3, FirstUnit

\* The acceptor takes a connection, reads and logs its protocol.
LEMMA AcceptKeeps ==
  ASSUME ConnectionInv, Up, accept
  PROVE  ConnectionInv'
<1> DEFINE b == Head(backlog)
<1>1. /\ backlog \in Seq(Client) /\ backlog # <<>> /\ b = backlog[1] /\ b \in Client
      /\ Len(backlog) \in Nat /\ 1 \in 1..Len(backlog)
  BY DEF accept, ConnectionInv, BacklogOK
<1>2. /\ Tail(backlog) \in Seq(Client) /\ Len(Tail(backlog)) = Len(backlog) - 1
      /\ \A i \in 1..Len(Tail(backlog)) :
           Tail(backlog)[i] = backlog[i + 1] /\ i + 1 \in 1..Len(backlog) /\ i + 1 # 1
  BY <1>1
<1>3. fd[b] = "backlog" /\ reply[b] = <<>> /\ pc[b] = "idle"
  BY <1>1, NoneAssumption DEF ConnectionInv, BacklogOK, ClientOK
<1>4. /\ serving' = b /\ backlog' = Tail(backlog)
      /\ \A c \in Client : fd'[c] = IF c = b THEN "open" ELSE fd[c]
      /\ \A u \in Thread : pc'[u] = IF u = acceptor THEN "protocol" ELSE pc[u]
      /\ request' = request /\ cpc' = cpc /\ reply' = reply /\ pc[acceptor] = "accept"
  BY <1>1 DEF accept, client, Goto, ConnectionInv, Shapes
<1>5. Shapes'
  BY <1>1 DEF accept, client, Goto, ConnectionInv, Shapes, Place
<1>6. AcceptorOK'
  BY <1>1, <1>4, Threads DEF AcceptorOK
<1>7. BacklogOK'
  <2>1. ASSUME NEW i \in 1..Len(Tail(backlog))
        PROVE  fd'[Tail(backlog)[i]] = "backlog"
    <3>1. backlog[i + 1] \in Client /\ backlog[i + 1] # b /\ fd[backlog[i + 1]] = "backlog"
      BY <1>1, <1>2 DEF ConnectionInv, BacklogOK
    <3> QED
      BY <1>2, <1>4, <3>1
  <2>2. ASSUME NEW i \in 1..Len(Tail(backlog)), NEW j \in 1..Len(Tail(backlog)),
               Tail(backlog)[i] = Tail(backlog)[j]
        PROVE  i = j
    <3>1. backlog[i + 1] = backlog[j + 1]
      BY <1>2, <2>2
    <3>2. i + 1 = j + 1
      BY <1>2, <3>1 DEF ConnectionInv, BacklogOK
    <3> QED
      BY <3>2, <1>1, <1>2
  <2> QED
    BY <1>2, <1>4, <2>1, <2>2 DEF BacklogOK
<1>8. ASSUME NEW c \in Client PROVE ClientOK(c)'
  <2>1. ClientOK(c) /\ serving = none /\ pc'[c] = pc[c] /\ pc'[acceptor] = "protocol"
    BY <1>4, Threads DEF ConnectionInv, AcceptorOK
  <2>2. CASE c = b
    BY <1>3, <1>4, <2>1, <2>2, NoneAssumption DEF ClientOK, served
  <2>3. CASE c # b
    <3>1. fd'[c] = fd[c] /\ (served(c)' <=> served(c))
      BY <1>4, <2>1, <2>3, Threads DEF served
    <3> QED
      BY <1>4, <2>1, <2>3, <3>1 DEF ClientOK
  <2> QED
    BY <2>2, <2>3
<1> QED
  BY <1>5, <1>6, <1>7, <1>8 DEF ConnectionInv

LEMMA LogKeeps ==
  ASSUME ConnectionInv, Up, acceptFails \/ receiveProtocol \/ info
  PROVE  ConnectionInv'
<1>1. PICK place \in {"log", "print"} :
        /\ Goto(acceptor, place) /\ pc[acceptor] \in {"accept", "protocol", "log"}
        /\ UNCHANGED <<request, cpc, fd, reply, backlog, serving>>
        /\ prot' = "PROVISION" \/ (serving \in Client /\ prot' = request[serving].op)
  <2>1. CASE receiveProtocol
    <3>1. PICK v \in receiveInt(acceptor, "PROVISION") : prot' = v
      BY <2>1 DEF receiveProtocol
    <3>2. v = request[serving].op \/ v = "PROVISION"
      BY <2>1, Arrives DEF receiveProtocol
    <3>3. serving \in Client
      BY <2>1, AtWork, ServedClient, Threads DEF receiveProtocol, clientOf
    <3> QED
      BY <2>1, <3>1, <3>2, <3>3 DEF receiveProtocol, client
  <2>2. CASE info
    BY <2>2 DEF info, client, local, ConnectionInv, AcceptorOK
  <2>3. CASE acceptFails
    BY <2>3 DEF acceptFails, client
  <2> QED
    BY <2>1, <2>2, <2>3
<1>2. Shapes' /\ \A u \in Thread : pc'[u] = IF u = acceptor THEN place ELSE pc[u]
  BY <1>1, Threads DEF ConnectionInv, Shapes, Goto, Place
<1>3. AcceptorOK'
  BY <1>1, <1>2, Threads DEF ConnectionInv, AcceptorOK
<1>4. BacklogOK'
  BY <1>1 DEF ConnectionInv, BacklogOK
<1>5. ASSUME NEW c \in Client PROVE ClientOK(c)'
  <2>1. pc'[c] = pc[c] /\ (served(c)' <=> served(c))
    BY <1>1, <1>2, Threads DEF served, ConnectionInv, AcceptorOK
  <2> QED
    BY <1>1, <1>2, <2>1, Threads DEF ConnectionInv, ClientOK
<1> QED
  BY <1>2, <1>3, <1>4, <1>5 DEF ConnectionInv

LEMMA StartKeeps ==
  ASSUME ConnectionInv, Up, start
  PROVE  ConnectionInv'
<1>1. /\ \A u \in Thread : pc'[u] = IF u = acceptor THEN "accept" ELSE pc[u]
      /\ pc[acceptor] = "start" /\ serving = none
      /\ UNCHANGED <<request, cpc, fd, reply, backlog, serving, prot>>
  BY Threads DEF start, client, local, Goto, ConnectionInv, Shapes, AcceptorOK
<1>2. Shapes'
  BY <1>1 DEF start, Goto, ConnectionInv, Shapes, Place
<1>3. AcceptorOK' /\ BacklogOK'
  BY <1>1, Threads DEF ConnectionInv, AcceptorOK, BacklogOK
<1>4. ASSUME NEW c \in Client PROVE ClientOK(c)'
  <2>1. pc'[c] = pc[c] /\ (served(c)' <=> served(c)) /\ pc[acceptor] # "dead"
    BY <1>1, Threads DEF served
  <2> QED
    BY <1>1, <2>1 DEF ConnectionInv, ClientOK
<1> QED
  BY <1>2, <1>3, <1>4 DEF ConnectionInv

\* The acceptor hands the connection over, keeps it, or refuses its protocol.
LEMMA SwitchKeeps ==
  ASSUME ConnectionInv, Up, switch, serving # none
  PROVE  ConnectionInv'
<1> DEFINE b == serving
<1>1. /\ b \in Client /\ pc[b] = "idle" /\ fd[b] = "open" /\ reply[b] = <<>>
      /\ cpc[b] # "done" /\ pc[acceptor] = "print" /\ request[b] \in Requests(b)
  <2>1. Working(acceptor)
    BY DEF switch, Working
  <2>2. clientOf(acceptor) = serving
    BY DEF clientOf
  <2> QED
    BY <2>1, <2>2, ServedClient, Threads DEF switch, ConnectionInv, ClientOK
<1>2. UNCHANGED <<request, cpc, fd, backlog>>
  BY DEF switch, client
<1>3. BacklogOK'
  BY <1>2 DEF ConnectionInv, BacklogOK
<1>4. CASE /\ prot = "PROVISION"
           /\ pc' = [pc EXCEPT ![acceptor] = "accept", ![serving] = "text"]
           /\ serving' = none /\ reply' = reply
  <2>1. \A u \in Thread : pc'[u] = IF u = b THEN "text"
                                   ELSE IF u = acceptor THEN "accept" ELSE pc[u]
    BY <1>1, <1>4, Threads DEF ConnectionInv, Shapes
  <2>2. Shapes'
    BY <1>2, <1>4 DEF ConnectionInv, Shapes, Place
  <2>3. AcceptorOK'
    <3>1. pc'[acceptor] = "accept" /\ serving' = none
      BY <1>1, <1>4, <2>1, Threads
    <3> QED
      BY <3>1 DEF AcceptorOK
  <2>4. ASSUME NEW c \in Client PROVE ClientOK(c)'
    <3>1. CASE c = b
      <4>1. pc'[c] = "text"
        BY <2>1, <3>1, Threads
      <4> QED
        BY <1>1, <1>2, <1>4, <3>1, <4>1, Threads, NoneAssumption DEF ConnectionInv, ClientOK, served
    <3>2. CASE c # b
      <4>1. pc'[c] = pc[c] /\ (served(c)' <=> served(c)) /\ serving' # c
        BY <1>4, <2>1, <3>2, Threads DEF served
      <4> QED
        BY <1>1, <1>2, <1>4, <4>1 DEF ConnectionInv, ClientOK
    <3> QED
      BY <3>1, <3>2
  <2> QED
    BY <1>3, <2>2, <2>3, <2>4 DEF ConnectionInv
<1>5. CASE \E place \in {"text", "reset"} : Stay(acceptor, place) /\ reply' = reply
  BY <1>1, <1>2, <1>5, WalkOn, Threads DEF Stay, local, Working, Place
<1>6. CASE /\ prot = "UNKNOWN" /\ leave(acceptor)
           /\ reply' = [reply EXCEPT ![serving] = <<"ERR", "PROTOCOL">>]
  <2>1. /\ \A u \in Thread : pc'[u] = IF u = acceptor THEN "accept" ELSE pc[u]
        /\ serving' = none
        /\ \A c \in Client : reply'[c] = IF c = b THEN <<"ERR", "PROTOCOL">> ELSE reply[c]
    BY <1>1, <1>6 DEF leave, ConnectionInv, Shapes
  <2>2. Shapes'
    BY <1>1, <1>2, <1>6 DEF leave, ConnectionInv, Shapes, Place
  <2>3. AcceptorOK'
    BY <2>1, Threads DEF AcceptorOK
  <2>4. request[b].op = "UNKNOWN"
    BY <1>1, <1>6 DEF ConnectionInv, AcceptorOK
  <2>5. ASSUME NEW c \in Client PROVE ClientOK(c)'
    <3>1. /\ pc'[c] = pc[c] /\ serving' # c /\ c # b => (served(c)' <=> served(c))
          /\ c = b => ~ served(c)'
      BY <1>1, <2>1, Threads DEF served
    <3>2. CASE c = b
      <4>1. pc'[c] = "idle" /\ serving' # c /\ fd'[c] = "open" /\ ~ served(c)'
        BY <1>1, <1>2, <2>1, <3>1, <3>2, Threads
      <4>2. request'[c].op = "UNKNOWN" /\ request'[c] \in Requests(c)
        BY <1>1, <1>2, <2>4, <3>2
      <4>3. cpc'[c] # "idle" /\ reply'[c] # <<>>
        BY <1>1, <1>2, <2>1, <3>2, NoneAssumption DEF ConnectionInv, ClientOK
      <4> QED
        BY <4>1, <4>2, <4>3, NoneAssumption DEF ClientOK
    <3>3. CASE c # b
      <4>1. pc'[c] = pc[c] /\ reply'[c] = reply[c] /\ serving' # c
        BY <2>1, <3>1, <3>3, Threads
      <4>2. served(c)' <=> served(c)
        BY <2>1, <3>3, <4>1 DEF served
      <4> QED
        BY <1>1, <1>2, <3>3, <4>1, <4>2 DEF ConnectionInv, ClientOK
    <3> QED
      BY <3>2, <3>3
  <2> QED
    BY <1>3, <2>2, <2>3, <2>5 DEF ConnectionInv
<1> QED
  BY <1>4, <1>5, <1>6 DEF switch, takeUp

\* After an accept that failed nobody is served.
LEMMA SwitchNobodyKeeps ==
  ASSUME ConnectionInv, Up, switch, serving = none
  PROVE  ConnectionInv'
<1>1. prot \notin {"KILL", "IP", "NAT", "RESET_COUNTERS", "UNKNOWN"}
  BY Threads DEF switch, ConnectionInv, AcceptorOK
<1>2. leave(acceptor) /\ UNCHANGED <<request, cpc, fd, reply, backlog>>
  BY <1>1 DEF switch, takeUp, client
<1>3. /\ \A u \in Thread : pc'[u] = IF u = acceptor THEN "accept" ELSE pc[u]
      /\ serving' = none /\ pc[acceptor] = "print"
  BY <1>2 DEF switch, leave, ConnectionInv, Shapes
<1>4. Shapes'
  BY <1>2 DEF leave, ConnectionInv, Shapes, Place
<1>5. AcceptorOK' /\ BacklogOK'
  BY <1>2, <1>3, Threads DEF ConnectionInv, AcceptorOK, BacklogOK
<1>6. ASSUME NEW c \in Client PROVE ClientOK(c)'
  <2>1. pc'[c] = pc[c] /\ (served(c)' <=> served(c)) /\ pc'[acceptor] = "accept"
    BY <1>3, Threads DEF served
  <2> QED
    BY <1>2, <1>3, <2>1, Threads DEF ConnectionInv, ClientOK
<1> QED
  BY <1>4, <1>5, <1>6 DEF ConnectionInv

-----------------------------------------------------------------------------
(* The requests. *)

LEMMA TreatNamedKeeps ==
  ASSUME ConnectionInv, Up, NEW op, NEW step \in {"kill", "ip", "host"},
         treatNamed(op, step)
  PROVE  ConnectionInv'
<1>1. Working(acceptor) /\ acceptor \in Thread /\ UNCHANGED <<request, cpc, backlog>>
  BY AtWork, Threads DEF treatNamed, client
<1>2. CASE \E s \in receive(acceptor) : Take(acceptor, s, step)
  BY <1>1, <1>2, WalkOn DEF Take, Place
<1>3. CASE refuse(acceptor)
  BY <1>1, <1>3, FinishKeeps DEF refuse
<1> QED
  BY <1>2, <1>3 DEF treatNamed

LEMMA AcceptorKeeps ==
  ASSUME ConnectionInv, Up, treatKill \/ treatIp \/ treatNat \/ treatResetCounters
  PROVE  ConnectionInv'
<1>1. CASE treatKill
  <2>1. CASE treatNamed("KILL", "kill")
    BY <2>1, TreatNamedKeeps
  <2>2. CASE ~ treatNamed("KILL", "kill")
    <3>1. /\ Working(acceptor) /\ finish(acceptor, <<"OK">>)
          /\ UNCHANGED <<request, cpc, backlog>>
      BY <1>1, <2>2, AtWork DEF treatKill, client
    <3> QED
      BY <3>1, FinishKeeps, Threads
  <2> QED
    BY <2>1, <2>2
<1>2. CASE treatIp
  <2>1. CASE treatNamed("IP", "ip")
    BY <2>1, TreatNamedKeeps
  <2>2. CASE ~ treatNamed("IP", "ip")
    <3>1. /\ Working(acceptor) /\ finish(acceptor, <<"IP", 1, VM(acceptor)>>)
          /\ UNCHANGED <<request, cpc, backlog>>
      BY <1>2, <2>2, AtWork DEF treatIp, client
    <3> QED
      BY <3>1, FinishKeeps, Threads
  <2> QED
    BY <2>1, <2>2
<1>3. CASE treatNat
  <2>1. CASE treatNamed("NAT", "host")
    BY <2>1, TreatNamedKeeps
  <2>2. CASE receivePort
    <3>1. PICK place \in {"guest", "PREROUTING"} : Goto(acceptor, place)
      BY <2>2 DEF receivePort
    <3>2. /\ Working(acceptor)
          /\ UNCHANGED <<request, cpc, fd, reply, backlog, serving, prot>>
      BY <2>2, AtWork DEF receivePort, client
    <3> QED
      BY <3>1, <3>2, WalkOn, Threads DEF Place
  <2>3. CASE insert("PREROUTING", Stay(acceptor, "OUTPUT")) /\ UNCHANGED <<effect, fd, reply>>
    <3>1. /\ Working(acceptor) /\ Goto(acceptor, "OUTPUT")
          /\ UNCHANGED <<request, cpc, fd, reply, backlog, serving, prot>>
      BY <2>3, AtWork DEF insert, Stay, local, client
    <3> QED
      BY <3>1, WalkOn, Threads DEF Place
  <2>4. CASE insert("OUTPUT", finish(acceptor, <<"OK">>))
    <3>1. /\ Working(acceptor) /\ finish(acceptor, <<"OK">>)
          /\ UNCHANGED <<request, cpc, backlog>>
      BY <2>4, AtWork DEF insert, client
    <3> QED
      BY <3>1, FinishKeeps, Threads
  <2> QED
    BY <1>3, <2>1, <2>2, <2>3, <2>4 DEF treatNat, openNat
<1>4. CASE treatResetCounters
  <2>1. /\ Working(acceptor) /\ finish(acceptor, <<"OK">>)
        /\ UNCHANGED <<request, cpc, backlog>>
    BY <1>4, AtWork DEF treatResetCounters, client
  <2> QED
    BY <2>1, FinishKeeps, Threads
<1> QED
  BY <1>1, <1>2, <1>3, <1>4

LEMMA ProvisioningKeeps ==
  ASSUME ConnectionInv, Up, NEW c \in Client, Provisioning(c)
  PROVE  ConnectionInv'
<1>1. /\ Working(c) /\ c \in Thread /\ c # acceptor /\ UNCHANGED <<request, cpc, backlog>>
  BY Threads DEF Provisioning, treatProvision, provision, client, Working
<1>2. CASE treatProvision(c)
  <2>1. \/ \E s \in receive(c), step \in {"text", "provision"} : Take(c, s, step)
        \/ refuse(c)
    BY <1>2 DEF treatProvision
  <2>2. CASE \E s \in receive(c), step \in {"text", "provision"} : Take(c, s, step)
    BY <1>1, <2>2, WalkOn DEF Take, Place
  <2>3. CASE refuse(c)
    BY <1>1, <2>3, FinishKeeps DEF refuse
  <2> QED
    BY <2>1, <2>2, <2>3
<1>3. CASE provision(c)
  <2>1. CASE breakDown /\ UNCHANGED <<pc, serving, prot, fd, reply>>
    <3>1. UNCHANGED <<request, cpc, backlog>> /\ ~ Up'
      BY <1>3, <2>1 DEF provision, breakDown, client, Up
    <3> QED
      BY <2>1, <3>1 DEF ConnectionInv, Shapes, AcceptorOK, BacklogOK, ClientOK, served
  <2>2. CASE \E units : units # <<>> /\ finish(c, units)
    BY <1>1, <2>2, FinishKeeps
  <2> QED
    BY <1>3, <2>1, <2>2 DEF provision, refuse
<1> QED
  BY <1>2, <1>3 DEF Provisioning

-----------------------------------------------------------------------------
(* The end of the daemon. *)

LEMMA CancelKeeps ==
  ASSUME ConnectionInv, Up, cancel
  PROVE  ConnectionInv'
<1>1. UNCHANGED <<request, cpc, fd, reply, backlog, serving, prot>>
  BY DEF cancel, client, local
<1>2. CASE Goto(acceptor, "dead") /\ pc[acceptor] # "start"
  <2>1. Shapes' /\ \A u \in Thread : pc'[u] = IF u = acceptor THEN "dead" ELSE pc[u]
    BY <1>1, <1>2 DEF Goto, ConnectionInv, Shapes, Place
  <2>2. AcceptorOK' /\ BacklogOK' /\ pc'[acceptor] = "dead"
    BY <1>1, <2>1, Threads DEF ConnectionInv, AcceptorOK, BacklogOK
  <2>3. ASSUME NEW c \in Client PROVE ClientOK(c)'
    <3>1. pc'[c] = pc[c] /\ (served(c)' => served(c))
      BY <2>1, <2>2, Threads DEF served
    <3> QED
      BY <1>1, <2>2, <3>1 DEF ConnectionInv, ClientOK
  <2> QED
    BY <2>1, <2>2, <2>3 DEF ConnectionInv
<1>3. CASE UNCHANGED pc
  BY <1>1, <1>3 DEF ConnectionInv, Shapes, AcceptorOK, BacklogOK, ClientOK, served
<1> QED
  BY <1>2, <1>3 DEF cancel

LEMMA StoppingKeeps ==
  ASSUME ConnectionInv, Up, Stopping
  PROVE  ConnectionInv'
BY DEF Stopping, killAllRunningDomains, disconnect, client, local, ConnectionInv, Shapes,
       AcceptorOK, BacklogOK, ClientOK, served

\* The connections that wait are closed.
LEMMA InterruptKeeps ==
  ASSUME ConnectionInv, Up, interrupt
  PROVE  ConnectionInv'
<1>1. /\ UNCHANGED <<request, cpc, pc, reply, serving, prot>> /\ backlog' = <<>>
      /\ \A c \in Client : fd'[c] = IF fd[c] = "backlog" THEN "closed" ELSE fd[c]
  BY DEF interrupt, client, local
<1>2. Shapes'
  BY <1>1 DEF interrupt, ConnectionInv, Shapes
<1>3. AcceptorOK' /\ BacklogOK'
  BY <1>1 DEF ConnectionInv, AcceptorOK, BacklogOK
<1>4. ASSUME NEW c \in Client PROVE ClientOK(c)'
  BY <1>1, NoneAssumption DEF ConnectionInv, ClientOK, served
<1> QED
  BY <1>2, <1>3, <1>4 DEF ConnectionInv

-----------------------------------------------------------------------------
(* The clients. *)

LEMMA ConnectKeeps ==
  ASSUME ConnectionInv, NEW c \in Client, NEW r \in Requests(c), connect(c, r)
  PROVE  ConnectionInv'
<1>1. /\ cpc[c] = "idle" /\ fd[c] = none /\ reply[c] = <<>> /\ pc[c] = "idle"
      /\ serving # c
  BY DEF connect, ConnectionInv, ClientOK
<1>2. /\ backlog' = Append(backlog, c)
      /\ \A b \in Client : /\ fd'[b] = IF b = c THEN "backlog" ELSE fd[b]
                           /\ cpc'[b] = IF b = c THEN "write" ELSE cpc[b]
                           /\ request'[b] = IF b = c THEN r ELSE request[b]
      /\ UNCHANGED <<pc, reply, serving, prot, daemon>>
  BY DEF connect, local, process, ConnectionInv, Shapes
<1>3. Shapes'
  BY DEF connect, ConnectionInv, Shapes
<1>4. AcceptorOK'
  <2>1. serving \in Client => request'[serving] = request[serving]
    BY <1>1, <1>2
  <2> QED
    BY <1>2, <2>1 DEF ConnectionInv, AcceptorOK
<1>5. BacklogOK'
  <2>1. /\ backlog \in Seq(Client) /\ Len(backlog) \in Nat
        /\ \A i \in 1..Len(backlog) : backlog[i] \in Client /\ backlog[i] # c
    BY <1>1, NoneAssumption DEF ConnectionInv, BacklogOK
  <2>2. /\ backlog' \in Seq(Client) /\ Len(backlog') = Len(backlog) + 1
        /\ \A i \in 1..Len(backlog') :
             backlog'[i] = IF i = Len(backlog) + 1 THEN c ELSE backlog[i]
    BY <1>2, <2>1, AppendProperties
  <2>3. \A i \in 1..Len(backlog') : i # Len(backlog) + 1 => i \in 1..Len(backlog)
    BY <2>1, <2>2
  <2>4. \A i \in 1..Len(backlog') : fd'[backlog'[i]] = "backlog"
    BY <1>2, <2>1, <2>2, <2>3 DEF ConnectionInv, BacklogOK
  <2>5. \A i \in 1..Len(backlog'), j \in 1..Len(backlog') :
          backlog'[i] = backlog'[j] => i = j
    BY <2>1, <2>2, <2>3 DEF ConnectionInv, BacklogOK
  <2> QED
    BY <2>2, <2>4, <2>5 DEF BacklogOK
<1>6. ASSUME NEW b \in Client PROVE ClientOK(b)'
  <2>1. served(b)' <=> served(b)
    BY <1>2 DEF served
  <2>2. CASE b = c
    BY <1>1, <1>2, <2>1, <2>2, NoneAssumption DEF ConnectionInv, ClientOK, served
  <2>3. CASE b # c
    BY <1>2, <2>1, <2>3 DEF ConnectionInv, ClientOK, Up
  <2> QED
    BY <2>2, <2>3
<1> QED
  BY <1>3, <1>4, <1>5, <1>6 DEF ConnectionInv

\* A client is done when it has its answer or has lost its connection.
LEMMA ClientKeeps ==
  ASSUME ConnectionInv, NEW c \in Client, write(c) \/ read(c) \/ die(c)
  PROVE  ConnectionInv'
<1>1. PICK place \in {"write", "read", "done", "dead"} :
        /\ cpc' = [cpc EXCEPT ![c] = place] /\ cpc[c] \in {"write", "read"}
        /\ place = "done" => broken(c) \/ reply[c] # <<>>
        /\ UNCHANGED <<request, fd, reply, backlog, pc, serving, prot, daemon>>
  <2>1. CASE write(c)
    <3>1. CASE \E place \in {"read", "write"} : cpc' = [cpc EXCEPT ![c] = place]
      BY <2>1, <3>1 DEF write, local, process
    <3>2. CASE broken(c) /\ cpc' = [cpc EXCEPT ![c] = "done"]
      BY <2>1, <3>2 DEF write, local, process
    <3> QED
      BY <2>1, <3>1, <3>2 DEF write
  <2>2. CASE read(c)
    BY <2>2 DEF read, local, process
  <2>3. CASE die(c)
    BY <2>3 DEF die, local, process
  <2> QED
    BY <2>1, <2>2, <2>3
<1>2. Shapes' /\ AcceptorOK' /\ BacklogOK'
  BY <1>1 DEF ConnectionInv, Shapes, AcceptorOK, BacklogOK
<1>3. ASSUME NEW b \in Client PROVE ClientOK(b)'
  <2>1. cpc'[b] = IF b = c THEN place ELSE cpc[b]
    BY <1>1 DEF ConnectionInv, Shapes
  <2>2. served(b)' <=> served(b)
    BY <1>1 DEF served
  <2> QED
    BY <1>1, <2>1, <2>2 DEF ConnectionInv, ClientOK, broken, Up
<1> QED
  BY <1>2, <1>3 DEF ConnectionInv

-----------------------------------------------------------------------------
LEMMA ConnectionInvariant == Spec => []ConnectionInv
<1>1. Init => ConnectionInv
  <2> SUFFICES ASSUME Init PROVE ConnectionInv
    OBVIOUS
  <2>1. Shapes
    BY Threads DEF Init, Shapes, Place
  <2>2. AcceptorOK /\ BacklogOK
    BY Threads DEF Init, AcceptorOK, BacklogOK
  <2>3. ASSUME NEW c \in Client PROVE ClientOK(c)
    BY Threads, NoneAssumption DEF Init, ClientOK, served
  <2> QED
    BY <2>1, <2>2, <2>3 DEF ConnectionInv
<1>2. ConnectionInv /\ [Next]_vars => ConnectionInv'
  <2> SUFFICES ASSUME ConnectionInv, [Next]_vars PROVE ConnectionInv'
    OBVIOUS
  <2>1. ASSUME NEW c \in Client, NEW r \in Requests(c), connect(c, r) PROVE ConnectionInv'
    BY <2>1, ConnectKeeps
  <2>2. ASSUME NEW c \in Client, write(c) \/ read(c) \/ die(c) PROVE ConnectionInv'
    BY <2>2, ClientKeeps
  <2>3. CASE Up /\ Accepting
    <3>1. CASE start
      BY <2>3, <3>1, StartKeeps
    <3>2. CASE accept
      BY <2>3, <3>2, AcceptKeeps
    <3>3. CASE acceptFails \/ receiveProtocol \/ info
      BY <2>3, <3>3, LogKeeps
    <3>4. CASE switch
      BY <2>3, <3>4, SwitchKeeps, SwitchNobodyKeeps
    <3>5. CASE treatKill \/ treatIp \/ treatNat \/ treatResetCounters
      BY <2>3, <3>5, AcceptorKeeps
    <3>6. CASE cancel
      BY <2>3, <3>6, CancelKeeps
    <3> QED
      BY <2>3, <3>1, <3>2, <3>3, <3>4, <3>5, <3>6 DEF Accepting
  <2>4. ASSUME Up, NEW c \in Client, Provisioning(c) PROVE ConnectionInv'
    BY <2>4, ProvisioningKeeps
  <2>5. CASE Up /\ interrupt
    BY <2>5, InterruptKeeps
  <2>6. CASE Up /\ Stopping
    BY <2>6, StoppingKeeps
  <2>7. CASE UNCHANGED vars
    BY <2>7 DEF vars, client, local, process, ConnectionInv, Shapes, AcceptorOK, BacklogOK,
                ClientOK, served, Up
  <2> QED
    BY <2>1, <2>2, <2>3, <2>4, <2>5, <2>6, <2>7 DEF Next
<1> QED
  BY <1>1, <1>2, PTL DEF Spec

\* However clients, the threads that serve them and a stop interleave: when nobody
\* serves a connection any more it is closed (treatProvision, treatKill, treatIp,
\* treatNat and treatResetCounters, on each way out), except one that spoke an
\* unknown protocol; the stream forgets a descriptor only if the client has died.
THEOREM ConnectionsClosed == Spec => []HandlersClose
<1>1. ConnectionInv => HandlersClose
  BY DEF ConnectionInv, ClientOK, HandlersClose
<1> QED
  BY <1>1, ConnectionInvariant, PTL
=============================================================================
