-------------------------- MODULE VMForwardingProofs --------------------------
(***************************************************************************)
(* Proofs about the rules that openNat inserts, on top of the invariant    *)
(* about connections of VMServerProofs.                                    *)
(***************************************************************************)
EXTENDS VMServerProofs

Chain == {"PREROUTING", "OUTPUT"}
Named == {"kill", "ip", "host", "guest", "PREROUTING", "OUTPUT"}

ASeq(s) == s \in Seq({s[i] : i \in DOMAIN s})

HostShapes ==
  /\ forward = [p \in Port |-> forward[p]] /\ vms = [n \in Name |-> vms[n]]
  /\ text = [t \in Thread |-> text[t]] /\ sent \in [Client -> Nat]
  /\ rules = [chain \in Chain |-> rules[chain]] /\ \A chain \in Chain : ASeq(rules[chain])

\* What is provisioned is a part of the text that the client has sent, and a VM.
ProvisionOK(c) ==
  pc[c] = "provision" =>
    /\ Configuration(text[c]).status = "vm"
    /\ \E k \in 0..Len(request[c].text) : text[c] = Part(request[c].text, k)

\* The VM of a request is there until its handler ends.
NamedOK == ~ cancelled /\ pc[acceptor] \in Named => Found(text[acceptor])

\* Between the two commands of openNat.
CommandOK ==
  pc[acceptor] = "OUTPUT" /\ ports[1] \in Port =>
    /\ forward[ports[1]].name = VM(acceptor) /\ forward[ports[1]].guest = ports[2]
    /\ forward[ports[1]].chain = "PREROUTING"

Leads(s, p, f) ==
  \E i \in DOMAIN s : /\ s[i] = [dport |-> p, to |-> <<f.name, f.guest>>]
                      /\ \A j \in 1..i - 1 : s[j].dport # p

PortOK(p) ==
  LET f == forward[p] IN
  ~ cancelled /\ f # none =>
    /\ f.name \in Name /\ vms[f.name] # none
    /\ f.done => Leads(rules["PREROUTING"], p, f)
    /\ f.done /\ f.chain = "OUTPUT" => Leads(rules["OUTPUT"], p, f)

ForwardInv ==
  /\ HostShapes /\ NamedOK /\ CommandOK
  /\ \A c \in Client : ProvisionOK(c)
  /\ \A p \in Port : PortOK(p)

-----------------------------------------------------------------------------
(* Sequences and programs. *)

LEMMA PutInFront ==
  ASSUME NEW s, ASeq(s), NEW x
  PROVE  /\ ASeq(<<x>> \o s) /\ DOMAIN (<<x>> \o s) = 1..Len(s) + 1
         /\ DOMAIN s = 1..Len(s) /\ Len(s) \in Nat
         /\ (<<x>> \o s)[1] = x
         /\ \A i \in 1..Len(s) : (<<x>> \o s)[i + 1] = s[i]
<1> DEFINE S == {s[i] : i \in DOMAIN s} \union {x}
           l == <<x>> \o s
<1>1. s \in Seq(S) /\ <<x>> \in Seq(S) /\ Len(<<x>>) = 1 /\ <<x>>[1] = x
  BY DEF ASeq
<1>2. Len(s) \in Nat /\ DOMAIN s = 1..Len(s)
  BY DEF ASeq
<1> HIDE DEF S
<1>3. /\ l \in Seq(S) /\ Len(l) = Len(s) + 1
      /\ \A i \in 1..Len(s) + 1 : l[i] = IF i <= 1 THEN <<x>>[i] ELSE s[i - 1]
  BY <1>1, <1>2, ConcatProperties
<1>4. l[1] = x
  BY <1>1, <1>2, <1>3
<1>5. ASSUME NEW i \in 1..Len(s) PROVE l[i + 1] = s[i]
  <2>1. i + 1 \in 1..Len(s) + 1 /\ ~ (i + 1 <= 1) /\ i + 1 - 1 = i
    BY <1>2
  <2> QED
    BY <1>3, <2>1
<1>6. DOMAIN l = 1..Len(s) + 1
  BY <1>3
<1> DEFINE T == {l[i] : i \in DOMAIN l}
<1>7. l \in Seq(T)
  <2>1. \A i \in 1..Len(l) : l[i] \in T
    BY <1>3, <1>6
  <2>2. Len(l) \in Nat /\ l = [i \in 1..Len(l) |-> l[i]]
    BY <1>3
  <2> HIDE DEF T, l
  <2> QED
    BY <2>1, <2>2
<1> QED
  BY <1>2, <1>4, <1>5, <1>6, <1>7 DEF ASeq

LEMMA Front ==
  ASSUME NEW S, NEW a \in Seq(S), NEW b \in Seq(S)
  PROVE  Len(a \o b) \in Nat /\ \A i \in 1..Len(a) : (a \o b)[i] = a[i]
<1>1. Len(a) \in Nat /\ Len(b) \in Nat
  OBVIOUS
<1>2. Len(a \o b) = Len(a) + Len(b)
  BY ConcatProperties
<1>3. \A i \in 1..Len(a) : i \in 1..Len(a) + Len(b) /\ i <= Len(a)
  BY <1>1
<1>4. \A i \in 1..Len(a) : (a \o b)[i] = a[i]
  BY <1>3, ConcatProperties
<1> QED
  BY <1>1, <1>2, <1>4

\* After two units comes the text.
LEMMA Units ==
  ASSUME NEW c \in Client, NEW r \in Requests(c)
  PROVE  /\ Len(Program(r)) \in Nat /\ Len(r.text) \in Nat
         /\ \A i \in 1..Len(r.text) : Program(r)[2 + i] = r.text[i]
<1>1. /\ r.op \in Operation /\ r.text \in Seq(STRING) /\ Len(r.text) \in Nat
      /\ r.op = "NAT" => r.ports \in Seq(Nat)
      /\ r.op \in {"RESET_COUNTERS", "UNKNOWN"} => r.text = <<>>
  BY RequestAssumption
<1> DEFINE X == STRING \union Nat \union Operation
           head == <<r.op, Len(r.text)>>
           l == head \o r.text
<1>2. head \in Seq(X) /\ Len(head) = 2 /\ r.text \in Seq(X)
  BY <1>1
<1>3. r.op = "NAT" => r.ports \in Seq(X)
  BY <1>1
<1> HIDE DEF X, head
<1>4. /\ l \in Seq(X) /\ Len(l) = 2 + Len(r.text)
      /\ \A i \in 1..2 + Len(r.text) : l[i] = IF i <= 2 THEN head[i] ELSE r.text[i - 2]
  <2>1. /\ l \in Seq(X) /\ Len(l) = Len(head) + Len(r.text)
        /\ \A i \in 1..Len(head) + Len(r.text) :
             l[i] = IF i <= Len(head) THEN head[i] ELSE r.text[i - Len(head)]
    BY <1>2, ConcatProperties
  <2> HIDE DEF l
  <2> QED
    BY <1>2, <2>1
<1>5. ASSUME NEW i \in 1..Len(r.text)
      PROVE  l[2 + i] = r.text[i] /\ 2 + i \in 1..2 + Len(r.text)
  <2>1. 2 + i \in 1..2 + Len(r.text) /\ ~ (2 + i <= 2) /\ 2 + i - 2 = i
    BY <1>1
  <2> QED
    BY <1>4, <2>1
<1> HIDE DEF l
<1>6. Len(l) \in Nat /\ Len(l) = 2 + Len(r.text)
  BY <1>1, <1>4
<1>7. CASE r.op \in {"PROVISION", "KILL", "IP"}
  <2>1. Program(r) = l
    BY <1>7 DEF Program, head, l
  <2> QED
    BY <1>1, <1>5, <1>6, <2>1
<1>8. CASE r.op = "NAT"
  <2>1. Program(r) = l \o r.ports
    BY <1>8 DEF Program, head, l
  <2>2. /\ Len(l \o r.ports) \in Nat
        /\ \A i \in 1..Len(l) : (l \o r.ports)[i] = l[i]
    BY <1>3, <1>4, <1>8, Front
  <2>3. \A i \in 1..Len(r.text) : 2 + i \in 1..Len(l)
    BY <1>1, <1>6
  <2>4. \A i \in 1..Len(r.text) : Program(r)[2 + i] = r.text[i]
    BY <1>5, <2>1, <2>2, <2>3
  <2> QED
    BY <1>1, <2>1, <2>2, <2>4
<1>9. CASE r.op \in {"RESET_COUNTERS", "UNKNOWN"}
  <2>1. Program(r) = <<r.op>> /\ r.text = <<>>
    BY <1>1, <1>9 DEF Program
  <2> QED
    BY <2>1
<1> QED
  BY <1>1, <1>7, <1>8, <1>9 DEF Operation

\* A thread that provisions receives a part of the text.
LEMMA Received ==
  ASSUME ConnectionInv, ForwardInv, NEW c \in Client, pc[c] = "text", NEW s \in receive(c)
  PROVE  \E k \in 0..Len(request[c].text) : s = Part(request[c].text, k)
<1> DEFINE r == request[c]
<1>1. r \in Requests(c) /\ clientOf(c) = c
  BY ServedClient, Threads DEF Working, clientOf
<1>2. Len(r.text) \in Nat /\ consumed(c) = 2 /\ arrived(c) \in Int
  BY <1>1, Units DEF consumed, arrived, ForwardInv, HostShapes
<1> QED
  BY <1>1, <1>2 DEF receive

-----------------------------------------------------------------------------
(* What most steps leave alone. *)

Invariants == ConnectionInv /\ ForwardInv

LEMMA PortsStay ==
  ASSUME ForwardInv, UNCHANGED <<forward, vms, rules>>, cancelled => cancelled'
  PROVE  \A p \in Port : PortOK(p)'
BY DEF ForwardInv, PortOK

\* The acceptor goes to a place without a VM, and the host stays as it is.
LEMMA Aside ==
  ASSUME ForwardInv, UNCHANGED <<forward, vms, rules, sent, request, handler>>,
         pc'[acceptor] \notin Named, text' = [t \in Thread |-> text'[t]],
         \A c \in Client : text'[c] = text[c] /\ (pc'[c] = "provision" => pc[c] = "provision")
  PROVE  ForwardInv'
<1>1. HostShapes'
  BY DEF ForwardInv, HostShapes
<1>2. NamedOK' /\ CommandOK'
  BY DEF NamedOK, CommandOK, Named
<1>3. \A c \in Client : ProvisionOK(c)'
  BY DEF ForwardInv, ProvisionOK
<1>4. \A p \in Port : PortOK(p)'
  BY PortsStay DEF cancelled
<1> QED
  BY <1>1, <1>2, <1>3, <1>4 DEF ForwardInv

\* The acceptor answers and closes, and the host stays as it is.
LEMMA FinishAside ==
  ASSUME Invariants, NEW units, finish(acceptor, units),
         UNCHANGED <<forward, vms, rules, sent, request, handler>>
  PROVE  ForwardInv'
<1>1. /\ \A t \in Thread : pc'[t] = IF t = acceptor THEN "accept" ELSE pc[t]
      /\ \A t \in Thread : text'[t] = IF t = acceptor THEN <<>> ELSE text[t]
      /\ text' = [t \in Thread |-> text'[t]]
  BY DEF finish, leave, Invariants, ConnectionInv, Shapes, ForwardInv, HostShapes
<1> QED
  BY <1>1, Aside, Threads DEF Invariants, Named

LEMMA AcceptingAside ==
  ASSUME Invariants, start \/ accept \/ acceptFails \/ receiveProtocol \/ info \/ switch
  PROVE  ForwardInv'
<1>1. UNCHANGED <<forward, vms, rules, sent, request, handler>>
  BY DEF start, accept, acceptFails, receiveProtocol, info, switch, client, host, process
<1>2. /\ pc'[acceptor] \notin Named /\ text' = [t \in Thread |-> text'[t]]
      /\ \A c \in Client : text'[c] = text[c] /\ (pc'[c] = "provision" => pc[c] = "provision")
  <2>1. CASE start \/ accept \/ acceptFails \/ receiveProtocol \/ info
    BY <2>1, Threads DEF start, accept, acceptFails, receiveProtocol, info, Goto, local, Named,
          Invariants, ConnectionInv, Shapes, ForwardInv, HostShapes
  <2>2. CASE switch
    <3>1. CASE Stay(acceptor, "text") \/ Stay(acceptor, "reset")
      BY <3>1, Threads DEF Stay, Goto, local, Named, Invariants,
            ConnectionInv, Shapes, ForwardInv, HostShapes
    <3>2. CASE leave(acceptor)
      BY <3>2, Threads DEF leave, Named, Invariants,
            ConnectionInv, Shapes, ForwardInv, HostShapes
    <3>3. CASE /\ pc' = [pc EXCEPT ![acceptor] = "accept", ![serving] = "text"]
               /\ text' = text
      <4>1. serving # acceptor
        BY <2>2, Threads, ThreadAssumption DEF switch, Invariants, ConnectionInv, AcceptorOK
      <4>2. \A t \in Thread : pc'[t] = IF t = serving THEN "text"
                                       ELSE IF t = acceptor THEN "accept" ELSE pc[t]
        BY <3>3, <4>1 DEF Invariants, ConnectionInv, Shapes
      <4>3. pc'[acceptor] = "accept"
        BY <4>1, <4>2, Threads
      <4>4. \A c \in Client : pc'[c] = "provision" => pc[c] = "provision"
        BY <4>2, Threads
      <4>5. text' = [t \in Thread |-> text'[t]]
        BY <3>3 DEF Invariants, ForwardInv, HostShapes
      <4> QED
        BY <3>3, <4>3, <4>4, <4>5 DEF Named
    <3> QED
      BY <2>2, <3>1, <3>2, <3>3 DEF switch, takeUp
  <2> QED
    BY <2>1, <2>2
<1> QED
  BY <1>1, <1>2, Aside DEF Invariants

-----------------------------------------------------------------------------
(* The requests. *)

\* A handler finds the VM that is named, and goes on with it.
LEMMA TreatNamedForwards ==
  ASSUME Invariants, NEW op, NEW step \in {"kill", "ip", "host"}, treatNamed(op, step)
  PROVE  ForwardInv'
<1>1. UNCHANGED <<forward, vms, rules, sent, request, handler>>
  BY DEF treatNamed, client, host, process
<1>2. CASE refuse(acceptor)
  BY <1>1, <1>2, FinishAside DEF refuse
<1>3. ASSUME NEW s, Found(s), Take(acceptor, s, step) PROVE ForwardInv'
  <2>1. /\ \A t \in Thread : pc'[t] = IF t = acceptor THEN step ELSE pc[t]
        /\ \A t \in Thread : text'[t] = IF t = acceptor THEN s ELSE text[t]
        /\ text' = [t \in Thread |-> text'[t]]
    BY <1>3 DEF Take, Goto, Invariants, ConnectionInv, Shapes, ForwardInv, HostShapes
  <2>2. HostShapes'
    BY <1>1, <2>1 DEF Invariants, ForwardInv, HostShapes
  <2>3. NamedOK' /\ CommandOK'
    BY <1>1, <1>3, <2>1, Threads DEF NamedOK, CommandOK, Found
  <2>4. \A c \in Client : ProvisionOK(c)'
    BY <1>1, <2>1, Threads DEF Invariants, ForwardInv, ProvisionOK
  <2>5. \A p \in Port : PortOK(p)'
    BY <1>1, PortsStay DEF Invariants, cancelled
  <2> QED
    BY <2>2, <2>3, <2>4, <2>5 DEF ForwardInv
<1> QED
  BY <1>2, <1>3 DEF treatNamed

\* The forwarding to a VM that is killed is forgotten with the VM.
LEMMA KillForwards ==
  ASSUME Invariants, treatKill
  PROVE  ForwardInv'
<1>1. CASE treatNamed("KILL", "kill")
  BY <1>1, TreatNamedForwards
<1>2. CASE ~ treatNamed("KILL", "kill")
  <2> DEFINE n == VM(acceptor)
  <2>1. /\ vms' = [vms EXCEPT ![n] = none]
        /\ forward' = [p \in Port |->
             IF forward[p] # none /\ forward[p].name = n THEN none ELSE forward[p]]
        /\ finish(acceptor, <<"OK">>)
        /\ UNCHANGED <<rules, sent, request, handler>>
    BY <1>2 DEF treatKill, client, process
  <2>2. /\ \A t \in Thread : pc'[t] = IF t = acceptor THEN "accept" ELSE pc[t]
        /\ \A t \in Thread : text'[t] = IF t = acceptor THEN <<>> ELSE text[t]
        /\ text' = [t \in Thread |-> text'[t]]
    BY <2>1 DEF finish, leave, Invariants, ConnectionInv, Shapes, ForwardInv, HostShapes
  <2> HIDE DEF n
  <2>3. /\ \A m \in Name : vms'[m] = IF m = n THEN none ELSE vms[m]
        /\ vms' = [m \in Name |-> vms'[m]] /\ forward' = [p \in Port |-> forward'[p]]
    BY <2>1 DEF Invariants, ForwardInv, HostShapes
  <2>4. HostShapes'
    BY <2>1, <2>2, <2>3 DEF Invariants, ForwardInv, HostShapes
  <2>5. NamedOK' /\ CommandOK'
    BY <2>2, Threads DEF NamedOK, CommandOK, Named
  <2>6. \A c \in Client : ProvisionOK(c)'
    BY <2>1, <2>2, Threads DEF Invariants, ForwardInv, ProvisionOK
  <2>7. ASSUME NEW p \in Port PROVE PortOK(p)'
    <3> SUFFICES ASSUME ~ cancelled, forward'[p] # none PROVE PortOK(p)'
      BY <2>1 DEF PortOK, cancelled
    <3>1. forward'[p] = forward[p] /\ forward[p] # none /\ forward[p].name # n
      BY <2>1
    <3>2. PortOK(p)
      BY DEF Invariants, ForwardInv
    <3> QED
      BY <2>1, <2>3, <3>1, <3>2 DEF PortOK
  <2> QED
    BY <2>4, <2>5, <2>6, <2>7 DEF ForwardInv
<1> QED
  BY <1>1, <1>2

LEMMA IpForwards ==
  ASSUME Invariants, treatIp \/ treatResetCounters
  PROVE  ForwardInv'
<1>1. CASE treatNamed("IP", "ip")
  BY <1>1, TreatNamedForwards
<1>2. CASE ~ treatNamed("IP", "ip")
  <2>1. /\ \E units : finish(acceptor, units)
        /\ UNCHANGED <<forward, vms, rules, sent, request, handler>>
    BY <1>2 DEF treatIp, treatResetCounters, client, process
  <2> QED
    BY <2>1, FinishAside
<1> QED
  BY <1>1, <1>2

LEMMA PortForwards ==
  ASSUME Invariants, receivePort
  PROVE  ForwardInv'
<1>1. PICK place \in {"guest", "PREROUTING"} : Goto(acceptor, place)
  BY DEF receivePort
<1>2. /\ UNCHANGED <<forward, vms, rules, sent, request, handler, text>>
      /\ pc[acceptor] \in {"host", "guest"}
      /\ \A t \in Thread : pc'[t] = IF t = acceptor THEN place ELSE pc[t]
  BY <1>1 DEF receivePort, client, host, process, Goto, Invariants, ConnectionInv, Shapes
<1>3. HostShapes'
  BY <1>2 DEF Invariants, ForwardInv, HostShapes
<1>4. NamedOK' /\ CommandOK'
  BY <1>2, Threads DEF Invariants, ForwardInv, NamedOK, CommandOK, Named, Found, cancelled
<1>5. \A c \in Client : ProvisionOK(c)'
  BY <1>2, Threads DEF Invariants, ForwardInv, ProvisionOK
<1>6. \A p \in Port : PortOK(p)'
  BY <1>2, PortsStay DEF Invariants, cancelled
<1> QED
  BY <1>3, <1>4, <1>5, <1>6 DEF ForwardInv

-----------------------------------------------------------------------------
(* The two commands of openNat. *)

\* A rule in front leads where it says, and does not stand before another port.
LEMMA LeadsInFront ==
  ASSUME NEW s, ASeq(s), NEW p, NEW f
  PROVE  Leads(<<[dport |-> p, to |-> <<f.name, f.guest>>]>> \o s, p, f)
<1> DEFINE x == [dport |-> p, to |-> <<f.name, f.guest>>]
           l == <<x>> \o s
<1>1. 1 \in DOMAIN l /\ l[1] = x
  BY PutInFront
<1>2. \A j \in 1..1 - 1 : l[j].dport # p
  OBVIOUS
<1> HIDE DEF l
<1>3. Leads(l, p, f)
  BY <1>1, <1>2 DEF Leads
<1> QED
  BY <1>3 DEF l

LEMMA LeadsBehind ==
  ASSUME NEW s, ASeq(s), NEW p, NEW f, Leads(s, p, f), NEW x, x.dport # p
  PROVE  Leads(<<x>> \o s, p, f)
<1> DEFINE l == <<x>> \o s
<1>1. /\ DOMAIN l = 1..Len(s) + 1 /\ DOMAIN s = 1..Len(s) /\ Len(s) \in Nat
      /\ l[1] = x /\ \A i \in 1..Len(s) : l[i + 1] = s[i]
  BY PutInFront
<1> HIDE DEF l
<1>2. PICK i \in 1..Len(s) : /\ s[i] = [dport |-> p, to |-> <<f.name, f.guest>>]
                             /\ \A j \in 1..i - 1 : s[j].dport # p
  BY <1>1 DEF Leads
<1>3. i + 1 \in DOMAIN l /\ l[i + 1] = [dport |-> p, to |-> <<f.name, f.guest>>]
  BY <1>1, <1>2
<1>4. ASSUME NEW j \in 1..(i + 1) - 1 PROVE l[j].dport # p
  <2>1. CASE j = 1
    BY <1>1, <2>1
  <2>2. CASE j # 1
    <3>1. j - 1 \in 1..i - 1 /\ j - 1 \in 1..Len(s) /\ (j - 1) + 1 = j
      BY <1>1, <2>2
    <3>2. l[(j - 1) + 1] = s[j - 1]
      BY <1>1, <3>1
    <3> QED
      BY <1>2, <3>1, <3>2
  <2> QED
    BY <2>1, <2>2
<1>5. Leads(l, p, f)
  BY <1>3, <1>4 DEF Leads
<1> QED
  BY <1>5 DEF l

\* What a command of openNat does to a chain and to the promise for its port.
Inserts(chain, ok) ==
  /\ rules' = IF ok THEN [rules EXCEPT ![chain] = <<Rule(ports)>> \o @] ELSE rules
  /\ forward' = Forwarding(chain, ok)
  /\ UNCHANGED <<vms, handler>>

LEMMA InsertKeepsPorts ==
  ASSUME Invariants, NEW chain \in Chain, pc[acceptor] = chain, NEW ok \in BOOLEAN,
         Inserts(chain, ok)
  PROVE  /\ \A p \in Port : PortOK(p)'
         /\ rules' = [d \in Chain |-> rules'[d]] /\ \A d \in Chain : ASeq(rules'[d])
         /\ forward' = [p \in Port |-> forward'[p]]
<1>1. /\ rules = [d \in Chain |-> rules[d]] /\ \A d \in Chain : ASeq(rules[d])
  BY DEF Invariants, ForwardInv, HostShapes
<1>2. /\ rules' = [d \in Chain |-> rules'[d]]
      /\ \A d \in Chain :
           rules'[d] = IF ok /\ d = chain THEN <<Rule(ports)>> \o rules[d] ELSE rules[d]
  BY <1>1 DEF Inserts
<1>3. \A d \in Chain : ASeq(<<Rule(ports)>> \o rules[d])
  BY <1>1, PutInFront
<1>4. /\ forward' = [p \in Port |-> forward'[p]]
      /\ \A p \in Port : forward'[p] = Forwarding(chain, ok)[p]
  BY DEF Inserts, Forwarding
<1>5. ASSUME NEW p \in Port PROVE PortOK(p)'
  <2> SUFFICES ASSUME ~ cancelled, forward'[p] # none PROVE PortOK(p)'
    BY DEF PortOK, cancelled, Inserts
  <2> DEFINE f == forward'[p]
             g == forward[p]
  <2>1. PortOK(p)
    BY DEF Invariants, ForwardInv
  <2>2. CASE p # ports[1]
    <3>1. f = g
      BY <1>4, <2>2 DEF Forwarding
    <3>2. Rule(ports).dport # p
      BY <2>2 DEF Rule
    <3>3. ASSUME NEW d \in Chain, Leads(rules[d], p, g) PROVE Leads(rules'[d], p, g)
      <4> DEFINE s == rules[d]
                 x == Rule(ports)
      <4>1. ASeq(s)
        BY <1>1
      <4>2. rules'[d] = <<x>> \o s \/ rules'[d] = s
        BY <1>2
      <4> HIDE DEF s, x
      <4>3. Leads(s, p, g) /\ x.dport # p
        BY <3>2, <3>3 DEF s, x
      <4>4. Leads(<<x>> \o s, p, g)
        BY <4>1, <4>3, LeadsBehind
      <4> QED
        BY <4>2, <4>3, <4>4
    <3> QED
      BY <2>1, <3>1, <3>3 DEF PortOK, Inserts, Chain
  <2>3. CASE p = ports[1]
    <3>1. /\ f.name = VM(acceptor) /\ f.guest = ports[2] /\ f.chain = chain
          /\ f.done = (ok /\ (chain = "OUTPUT" => g # none /\ g.done))
      BY <1>4, <2>3 DEF Forwarding
    <3>2. f.name \in Name /\ vms'[f.name] # none
      BY <3>1 DEF Invariants, ForwardInv, NamedOK, Named, Chain, Found, VM, Inserts
    <3>3. Rule(ports) = [dport |-> p, to |-> <<f.name, f.guest>>]
      BY <2>3, <3>1 DEF Rule
    <3>4. ok => Leads(rules'[chain], p, f)
      <4>1. Leads(<<Rule(ports)>> \o rules[chain], p, f)
        BY <1>1, <3>3, LeadsInFront
      <4> QED
        BY <1>2, <4>1
    <3>5. f.done => ok
      BY <3>1
    <3>6. CASE chain = "PREROUTING"
      BY <3>1, <3>2, <3>4, <3>5, <3>6 DEF PortOK
    <3>7. CASE chain = "OUTPUT"
      <4>1. g.name = f.name /\ g.guest = f.guest
        BY <2>3, <3>1, <3>7 DEF Invariants, ForwardInv, CommandOK
      <4>2. f.done => g # none /\ g.done
        BY <3>1, <3>7
      <4>3. f.done => Leads(rules["PREROUTING"], p, g)
        BY <2>1, <4>2 DEF PortOK
      <4>4. f.done => Leads(rules'["PREROUTING"], p, f)
        BY <1>2, <3>7, <4>1, <4>3 DEF Leads, Chain
      <4> QED
        BY <3>2, <3>4, <3>5, <3>7, <4>4 DEF PortOK
    <3> QED
      BY <3>6, <3>7 DEF Chain
  <2> QED
    BY <2>2, <2>3
<1> QED
  BY <1>1, <1>2, <1>3, <1>4, <1>5

LEMMA OpenNatForwards ==
  ASSUME Invariants, openNat
  PROVE  ForwardInv'
<1>1. ASSUME NEW chain \in Chain, NEW next, insert(chain, next)
      PROVE  /\ next /\ pc[acceptor] = chain
             /\ \E ok \in BOOLEAN : Inserts(chain, ok)
             /\ UNCHANGED <<sent, request, vms, handler>>
  BY <1>1 DEF insert, Inserts, client, process
<1>2. ASSUME NEW chain \in Chain, pc[acceptor] = chain,
             \E ok \in BOOLEAN : Inserts(chain, ok),
             UNCHANGED <<sent, request, vms, handler>>,
             text' = [t \in Thread |-> text'[t]],
             NamedOK', CommandOK',
             \A c \in Client : pc'[c] = pc[c] /\ text'[c] = text[c]
      PROVE  ForwardInv'
  <2>1. /\ \A p \in Port : PortOK(p)'
        /\ rules' = [d \in Chain |-> rules'[d]] /\ \A d \in Chain : ASeq(rules'[d])
        /\ forward' = [p \in Port |-> forward'[p]]
    BY <1>2, InsertKeepsPorts
  <2>2. HostShapes'
    BY <1>2, <2>1 DEF Invariants, ForwardInv, HostShapes
  <2>3. \A c \in Client : ProvisionOK(c)'
    BY <1>2 DEF Invariants, ForwardInv, ProvisionOK
  <2> QED
    BY <1>2, <2>1, <2>2, <2>3 DEF ForwardInv
<1>3. CASE insert("PREROUTING", Stay(acceptor, "OUTPUT"))
  <2>1. /\ Stay(acceptor, "OUTPUT") /\ pc[acceptor] = "PREROUTING"
        /\ \E ok \in BOOLEAN : Inserts("PREROUTING", ok)
        /\ UNCHANGED <<sent, request, vms, handler>>
    BY <1>1, <1>3 DEF Chain
  <2>2. /\ \A t \in Thread : pc'[t] = IF t = acceptor THEN "OUTPUT" ELSE pc[t]
        /\ UNCHANGED <<text, ports>>
    BY <2>1 DEF Stay, Goto, local, Invariants, ConnectionInv, Shapes
  <2>3. NamedOK'
    BY <2>1, <2>2, Threads DEF Invariants, ForwardInv, NamedOK, Named, Found, cancelled
  <2>4. CommandOK'
    BY <2>1, <2>2 DEF CommandOK, Inserts, Forwarding, VM
  <2> QED
    BY <1>2, <2>1, <2>2, <2>3, <2>4, Threads DEF Chain, Invariants, ForwardInv, HostShapes
<1>4. CASE insert("OUTPUT", finish(acceptor, <<"OK">>))
  <2>1. /\ finish(acceptor, <<"OK">>) /\ pc[acceptor] = "OUTPUT"
        /\ \E ok \in BOOLEAN : Inserts("OUTPUT", ok)
        /\ UNCHANGED <<sent, request, vms, handler>>
    BY <1>1, <1>4 DEF Chain
  <2>2. /\ \A t \in Thread : pc'[t] = IF t = acceptor THEN "accept" ELSE pc[t]
        /\ \A t \in Thread : text'[t] = IF t = acceptor THEN <<>> ELSE text[t]
        /\ text' = [t \in Thread |-> text'[t]]
    BY <2>1 DEF finish, leave, Invariants, ConnectionInv, Shapes, ForwardInv, HostShapes
  <2>3. NamedOK' /\ CommandOK'
    BY <2>2, Threads DEF NamedOK, CommandOK, Named
  <2> QED
    BY <1>2, <2>1, <2>2, <2>3, Threads DEF Chain
<1> QED
  BY <1>3, <1>4 DEF openNat

-----------------------------------------------------------------------------
(* The threads that provision. *)

LEMMA ProvisioningForwards ==
  ASSUME Invariants, NEW c \in Client, Provisioning(c)
  PROVE  ForwardInv'
<1>1. /\ UNCHANGED <<forward, rules, sent, request, handler>>
      /\ c \in Thread /\ c # acceptor
  BY Threads DEF Provisioning, treatProvision, provision, client, host, process
\* Whatever becomes of c: the acceptor and the other threads stay as they are.
<1>2. ASSUME \E place \in Place : \A t \in Thread : pc'[t] = IF t = c THEN place ELSE pc[t],
             \E s : /\ \A t \in Thread : text'[t] = IF t = c THEN s ELSE text[t]
                    /\ text' = [t \in Thread |-> text'[t]],
             ProvisionOK(c)', UNCHANGED ports,
             vms' = [n \in Name |-> vms'[n]],
             \A n \in Name : vms[n] # none => vms'[n] # none
      PROVE  ForwardInv'
  <2>1. HostShapes'
    BY <1>1, <1>2 DEF Invariants, ForwardInv, HostShapes
  <2>2. pc'[acceptor] = pc[acceptor] /\ text'[acceptor] = text[acceptor]
    BY <1>1, <1>2, Threads
  <2>3. NamedOK' /\ CommandOK'
    BY <1>1, <1>2, <2>2 DEF Invariants, ForwardInv, NamedOK, CommandOK, Found, VM, cancelled
  <2>4. ASSUME NEW d \in Client PROVE ProvisionOK(d)'
    <3>1. CASE d = c
      BY <1>2, <3>1
    <3>2. CASE d # c
      BY <1>1, <1>2, <3>2, Threads DEF Invariants, ForwardInv, ProvisionOK
    <3> QED
      BY <3>1, <3>2
  <2>5. ASSUME NEW p \in Port PROVE PortOK(p)'
    BY <1>1, <1>2 DEF Invariants, ForwardInv, PortOK, cancelled
  <2> QED
    BY <2>1, <2>3, <2>4, <2>5 DEF ForwardInv
<1>3. ASSUME leave(c)
      PROVE  /\ \A t \in Thread : pc'[t] = IF t = c THEN "idle" ELSE pc[t]
             /\ \A t \in Thread : text'[t] = IF t = c THEN <<>> ELSE text[t]
             /\ text' = [t \in Thread |-> text'[t]] /\ UNCHANGED ports /\ ProvisionOK(c)'
  BY <1>1, <1>3 DEF leave, Invariants, ConnectionInv, Shapes, ForwardInv, HostShapes,
                    ProvisionOK
<1>4. CASE treatProvision(c)
  <2>1. UNCHANGED vms
    BY <1>4 DEF treatProvision, host
  <2>2. CASE refuse(c)
    <3>1. leave(c)
      BY <2>2 DEF refuse, finish
    <3> QED
      BY <1>2, <1>3, <2>1, <3>1 DEF Place, Invariants, ForwardInv, HostShapes
  <2>3. ASSUME NEW s \in receive(c), NEW place \in {"text", "provision"}, Take(c, s, place),
               place = "provision" => Configuration(s).status = "vm"
        PROVE  ForwardInv'
    <3>1. /\ \A t \in Thread : pc'[t] = IF t = c THEN place ELSE pc[t]
          /\ \A t \in Thread : text'[t] = IF t = c THEN s ELSE text[t]
          /\ text' = [t \in Thread |-> text'[t]] /\ UNCHANGED ports
      BY <2>3 DEF Take, Goto, Invariants, ConnectionInv, Shapes, ForwardInv, HostShapes
    <3>2. pc[c] = "text"
      BY <1>4 DEF treatProvision
    <3>3. ProvisionOK(c)'
      BY <1>1, <2>3, <3>1, <3>2, Received DEF Invariants, ProvisionOK
    <3> QED
      BY <1>2, <2>1, <3>1, <3>3 DEF Place, Invariants, ForwardInv, HostShapes
  <2> QED
    BY <1>4, <2>2, <2>3 DEF treatProvision
<1>5. CASE provision(c)
  <2> DEFINE cfg == Configuration(text[c])
  <2>1. CASE breakDown /\ UNCHANGED <<vms, pc, text, ports>>
    <3>1. ProvisionOK(c)'
      BY <1>1, <2>1 DEF Invariants, ForwardInv, ProvisionOK
    <3>2. pc[c] \in Place /\ \A t \in Thread : pc'[t] = pc[t]
      BY <1>1, <2>1 DEF Invariants, ConnectionInv, Shapes
    <3> QED
      BY <1>2, <2>1, <3>1, <3>2 DEF Invariants, ForwardInv, HostShapes
  <2>2. cfg.settings # none
    <3>1. request[c] \in Requests(c)
      BY <1>1, <1>5, ServedClient DEF provision, Working, Invariants, clientOf
    <3>2. ProvisionOK(c) /\ pc[c] = "provision"
      BY <1>5 DEF provision, Invariants, ForwardInv
    <3> QED
      BY <3>1, <3>2, ConfigurationAssumption DEF ProvisionOK
  <2>3. CASE leave(c) /\ (UNCHANGED vms \/ vms' = [vms EXCEPT ![cfg.name] = cfg.settings])
    <3> HIDE DEF cfg
    <3>1. /\ vms' = [n \in Name |-> vms'[n]]
          /\ \A n \in Name : vms[n] # none => vms'[n] # none
      BY <2>2, <2>3 DEF Invariants, ForwardInv, HostShapes
    <3> QED
      BY <1>2, <1>3, <2>3, <3>1 DEF Place
  <2> QED
    BY <1>5, <2>1, <2>3 DEF provision, refuse, finish
<1> QED
  BY <1>4, <1>5 DEF Provisioning

-----------------------------------------------------------------------------
(* The end of the daemon, and the clients. *)

\* Once the daemon is stopped nothing is promised for VMs and ports.
LEMMA StopForwards ==
  ASSUME Invariants, interrupt \/ Stopping \/ cancel
  PROVE  ForwardInv'
<1>1. CASE Goto(acceptor, "dead") /\ cancel
  <2>1. \A t \in Thread : pc'[t] = IF t = acceptor THEN "dead" ELSE pc[t]
    BY <1>1 DEF Goto, Invariants, ConnectionInv, Shapes
  <2>2. /\ UNCHANGED <<forward, vms, rules, sent, request, handler, text>>
    BY <1>1 DEF cancel, client, local, host
  <2> QED
    BY <2>1, <2>2, Aside, Threads DEF Invariants, Named, ForwardInv, HostShapes
<1>2. CASE UNCHANGED pc
  <2>1. /\ cancelled' /\ UNCHANGED <<pc, text, ports, forward, rules, sent, request>>
        /\ vms' = [n \in Name |-> vms'[n]]
    BY <1>2 DEF interrupt, Stopping, killAllRunningDomains, disconnect, cancel, cancelled,
                client, local, host, Invariants, ForwardInv, HostShapes
  <2> QED
    BY <2>1 DEF Invariants, ForwardInv, HostShapes, NamedOK, CommandOK, ProvisionOK, PortOK,
                VM
<1> QED
  BY <1>1, <1>2 DEF interrupt, Stopping, killAllRunningDomains, disconnect, cancel

LEMMA ClientForwards ==
  ASSUME Invariants, NEW c \in Client,
         (\E r \in Requests(c) : connect(c, r)) \/ write(c) \/ read(c) \/ die(c)
  PROVE  ForwardInv'
<1>1. UNCHANGED <<pc, text, ports, vms, rules, forward, handler>>
  BY DEF connect, write, read, die, local, host, process
<1>2. sent' \in [Client -> Nat]
  <2>1. CASE sent' = sent
    BY <2>1 DEF Invariants, ForwardInv, HostShapes
  <2>2. CASE write(c) /\ sent' # sent
    <3>1. /\ cpc[c] = "write"
          /\ \/ sent' = [sent EXCEPT ![c] = written(request[c], sent[c])]
             \/ sent' = [sent EXCEPT ![c] = Len(Program(request[c]))]
      BY <2>2 DEF write
    <3>2. request[c] \in Requests(c) /\ sent[c] \in Nat
      BY <3>1 DEF Invariants, ConnectionInv, ClientOK, ForwardInv, HostShapes
    <3>3. written(request[c], sent[c]) \in Nat /\ Len(Program(request[c])) \in Nat
      BY <3>2, Units DEF written
    <3> QED
      BY <3>1, <3>3 DEF Invariants, ForwardInv, HostShapes
  <2> QED
    BY <2>1, <2>2 DEF connect, read, die
<1>3. HostShapes' /\ NamedOK' /\ CommandOK' /\ \A p \in Port : PortOK(p)'
  BY <1>1, <1>2 DEF Invariants, ForwardInv, HostShapes, NamedOK, CommandOK, PortOK, Found,
                    VM, cancelled
<1>4. ASSUME NEW b \in Client PROVE ProvisionOK(b)'
  <2> SUFFICES ASSUME pc[b] = "provision" PROVE request'[b] = request[b]
    BY <1>1 DEF Invariants, ForwardInv, ProvisionOK
  <2>1. cpc[b] # "idle"
    BY NoneAssumption DEF Invariants, ConnectionInv, ClientOK
  <2> QED
    BY <2>1 DEF connect, write, read, die, Invariants, ConnectionInv, Shapes
<1> QED
  BY <1>3, <1>4 DEF ForwardInv

-----------------------------------------------------------------------------
LEMMA ForwardInvariant == Spec => []ForwardInv
<1>1. Init => ForwardInv
  <2> SUFFICES ASSUME Init PROVE ForwardInv
    OBVIOUS
  <2>1. HostShapes
    BY DEF Init, HostShapes, Chain, ASeq
  <2>2. NamedOK /\ CommandOK
    BY Threads DEF Init, NamedOK, CommandOK, Named
  <2>3. \A c \in Client : ProvisionOK(c)
    BY Threads DEF Init, ProvisionOK
  <2>4. \A p \in Port : PortOK(p)
    BY DEF Init, PortOK
  <2> QED
    BY <2>1, <2>2, <2>3, <2>4 DEF ForwardInv
<1>2. Invariants /\ [Next]_vars => ForwardInv'
  <2> SUFFICES ASSUME Invariants, [Next]_vars PROVE ForwardInv'
    OBVIOUS
  <2>1. ASSUME NEW c \in Client,
               (\E r \in Requests(c) : connect(c, r)) \/ write(c) \/ read(c) \/ die(c)
        PROVE  ForwardInv'
    BY <2>1, ClientForwards
  <2>2. CASE Accepting
    <3>1. CASE start \/ accept \/ acceptFails \/ receiveProtocol \/ info \/ switch
      BY <3>1, AcceptingAside
    <3>2. CASE treatKill
      BY <3>2, KillForwards
    <3>3. CASE treatIp \/ treatResetCounters
      BY <3>3, IpForwards
    <3>4. CASE treatNat
      BY <3>4, TreatNamedForwards, PortForwards, OpenNatForwards DEF treatNat
    <3>5. CASE cancel
      BY <3>5, StopForwards
    <3> QED
      BY <2>2, <3>1, <3>2, <3>3, <3>4, <3>5 DEF Accepting
  <2>3. ASSUME NEW c \in Client, Provisioning(c) PROVE ForwardInv'
    BY <2>3, ProvisioningForwards
  <2>4. CASE interrupt \/ Stopping
    BY <2>4, StopForwards
  <2>5. CASE UNCHANGED vars
    BY <2>5 DEF vars, client, local, host, process, Invariants, ForwardInv, HostShapes,
                NamedOK, CommandOK, ProvisionOK, PortOK, Found, VM, cancelled
  <2> QED
    BY <2>1, <2>2, <2>3, <2>4, <2>5 DEF Next
<1> QED
  BY <1>1, <1>2, ConnectionInvariant, PTL DEF Spec, Invariants

\* Whoever opens the same port, for whichever VM, and whichever commands failed
\* before: after an openNat whose commands succeeded the first rule for its port,
\* in both chains, leads to the VM and the guest port that it was asked for, and
\* this VM is there, until it is killed or the daemon is stopped.
THEOREM PortsLeadToVMs == Spec => []PortLeadsToVM
<1>1. ForwardInv => PortLeadsToVM
  <2> SUFFICES ASSUME ForwardInv, NEW p \in Port,
                      forward[p] # none, forward[p].chain = "OUTPUT", forward[p].done,
                      ~ cancelled
               PROVE  /\ vms[forward[p].name] # none
                      /\ \A chain \in DOMAIN rules :
                           \E i \in DOMAIN rules[chain] :
                             /\ rules[chain][i] =
                                  [dport |-> p, to |-> <<forward[p].name, forward[p].guest>>]
                             /\ \A j \in 1..i - 1 : rules[chain][j].dport # p
    BY DEF PortLeadsToVM
  <2>1. /\ vms[forward[p].name] # none
        /\ Leads(rules["PREROUTING"], p, forward[p]) /\ Leads(rules["OUTPUT"], p, forward[p])
    BY DEF ForwardInv, PortOK
  <2>2. DOMAIN rules = {"PREROUTING", "OUTPUT"}
    BY DEF ForwardInv, HostShapes, Chain
  <2> QED
    BY <2>1, <2>2 DEF Leads
<1> QED
  BY <1>1, ForwardInvariant, PTL
=============================================================================
