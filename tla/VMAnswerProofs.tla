--------------------------- MODULE VMAnswerProofs ---------------------------
(***************************************************************************)
(* Proofs that the answers of the server are true, that what it provisions *)
(* is what the file states, and that only a provisioning ends it, on top   *)
(* of the invariants about connections and forwarding.                     *)
(***************************************************************************)
EXTENDS VMForwardingProofs

\* What an answer that means success starts with, and what is done, to another VM,
\* for a name that came in part.
Success(r) == IF r.op \in {"PROVISION", "IP"} THEN "IP" ELSE "OK"
Astray(r, e) ==
  /\ r.op \in {"KILL", "IP", "NAT"} /\ e # <<>> /\ e[1] = r.op
  /\ \E k \in 1..Len(r.name) - 1 : e[2] = Part(r.name, k)

\* A client writes its whole program, unless it dies or gives up before.
Whole(c) == sent[c] = Len(Program(request[c]))
SentOK(c) ==
  LET r == request[c] IN
  IF cpc[c] = "idle" THEN sent[c] = 0 ELSE
    /\ \/ sent[c] \in IF r.text = <<>> THEN {0, 1} ELSE {0, 2, 2 + Len(r.text)}
       \/ r.op = "NAT" /\ sent[c] = 3 + Len(r.text)
       \/ Whole(c)
    /\ cpc[c] = "write" => ~ Whole(c)

\* A client that has died before it wrote anything is taken for one that provisions.
Silent(c) == cpc[c] = "dead" /\ sent[c] = 0

\* What is done for a client of the acceptor is what it asked for, with the part of
\* the name that was received and, if that is all of it and the client has not died
\* meanwhile, with the ports that it wrote.
PlaceOf(op) ==
  CASE op = "KILL" -> {"text", "kill"}
    [] op = "IP" -> {"text", "ip"}
    [] op = "NAT" -> {"text", "host", "guest", "PREROUTING", "OUTPUT"}
    [] op = "RESET_COUNTERS" -> {"reset"}
    [] OTHER -> {}
AskedOK ==
  LET b == serving
      r == request[b]
      place == pc[acceptor]
  IN /\ place \in {"log", "print"} /\ b # none =>
          \/ prot = r.op /\ sent[b] > 0
          \/ prot = "PROVISION" /\ Silent(b)
     /\ place \in {"text", "reset"} \union Named =>
          prot = r.op /\ sent[b] > 0 /\ place \in PlaceOf(prot)
     /\ place \in Named =>
          sent[b] > 2 /\ \E k \in 1..Len(r.text) : text[acceptor] = Part(r.text, k)
     /\ place \in {"start", "accept", "protocol", "log", "print", "text", "host"} =>
          ports = <<>>
     /\ cpc[b] # "dead" /\ text[acceptor] = r.text =>
          /\ place = "guest" => sent[b] > 2 + Len(r.text) /\ ports = <<r.ports[1]>>
          /\ place \in Chain => sent[b] > 3 + Len(r.text) /\ ports = r.ports

\* A thread provisions for a client that asked for it, or for one that was silent.
ProvisionerOK(c) ==
  /\ pc[c] = "text" => request[c].op = "PROVISION" \/ Silent(c)
  /\ pc[c] = "provision" => sent[c] > 2

\* Answer and effect come together, and only to a client that is heard to the end,
\* but for the ports that follow a part of a name.
AnswerOK(c) ==
  LET r == request[c] IN
  /\ reply[c] = <<>> => effect[c] = <<>>
  /\ reply[c] # <<>> /\ cpc[c] # "dead" =>
       IF Head(reply[c]) = Success(r)
       THEN effect[c] = Asked(r) \/ Astray(r, effect[c]) ELSE effect[c] = <<>>
  /\ effect[c] # <<>> /\ cpc[c] = "write" => r.op = "NAT" /\ Astray(r, effect[c])
  /\ told[c] # none => cpc[c] = "done"
  /\ told[c] = "success" => effect[c] = Asked(r) \/ Astray(r, effect[c])
  /\ told[c] = "error" /\ Up /\ ~ cancelled =>
       effect[c] = <<>> \/ (r.op = "NAT" /\ Astray(r, effect[c]))

AnswerShapes ==
  /\ effect = [c \in Client |-> effect[c]] /\ told = [c \in Client |-> told[c]]

\* A sound file that came whole makes a VM of what it states.
WholeFilesRead ==
  \A c \in Client : \A r \in Requests(c) :
    LET cfg == Configuration(Part(r.text, Len(r.text))) IN
    r.op = "PROVISION" /\ r.settings # none =>
      cfg.status = "vm" /\ cfg.settings = r.settings

\* Then no other text ends the daemon but a file that is malformed or was cut.
AbortOK == WholeFilesRead => OnlyProvisioningEnds

AnswerInv ==
  /\ AnswerShapes /\ AskedOK /\ AbortOK
  /\ \A c \in Client : SentOK(c) /\ ProvisionerOK(c) /\ AnswerOK(c)

-----------------------------------------------------------------------------
(* Programs, and how much of them was heard. *)

LEMMA TwoPorts ==
  ASSUME NEW S, NEW a \in Seq(S), NEW b \in Seq(S), Len(b) = 2
  PROVE  /\ Len(a \o b) = 2 + Len(a)
         /\ (a \o b)[1 + Len(a)] = b[1] /\ (a \o b)[2 + Len(a)] = b[2]
<1> DEFINE l == a \o b
           n == Len(a)
<1>1. n \in Nat
  OBVIOUS
<1>2. /\ Len(l) = n + Len(b)
      /\ \A i \in 1..n + Len(b) : l[i] = IF i <= n THEN a[i] ELSE b[i - n]
  BY ConcatProperties
<1> HIDE DEF l, n
<1>3. ASSUME NEW x \in {1, 2} PROVE l[x + n] = b[x]
  <2>1. PICK y \in 1..n + Len(b) : y = x + n /\ ~ (y <= n) /\ y - n = x
    BY <1>1
  <2>2. l[y] = b[y - n]
    BY <1>2, <2>1
  <2> QED
    BY <2>1, <2>2
<1>4. l[1 + n] = b[1]
  BY <1>3
<1>5. l[2 + n] = b[2]
  BY <1>3
<1>6. Len(l) = 2 + n
  BY <1>1, <1>2
<1> QED
  BY <1>4, <1>5, <1>6 DEF l, n

LEMMA Lengths ==
  ASSUME NEW c \in Client, NEW r \in Requests(c)
  PROVE  /\ Len(r.text) \in Nat
         /\ r.op \in {"KILL", "IP", "NAT"} => Len(r.text) # 0
         /\ r.op \in {"PROVISION", "KILL", "IP"} => Len(Program(r)) = 2 + Len(r.text)
         /\ r.op \in {"RESET_COUNTERS", "UNKNOWN"} => Len(Program(r)) = 1
         /\ r.op = "NAT" => /\ Len(Program(r)) = 4 + Len(r.text)
                            /\ Program(r)[3 + Len(r.text)] = r.ports[1]
                            /\ Program(r)[4 + Len(r.text)] = r.ports[2]
<1>1. /\ r.op \in Operation /\ r.text \in Seq(STRING) /\ Len(r.text) \in Nat
      /\ r.op \in {"KILL", "IP", "NAT"} => r.text # <<>>
      /\ r.op = "NAT" => r.ports \in Seq(Nat) /\ Len(r.ports) = 2
  BY RequestAssumption
<1>2. r.op \in {"KILL", "IP", "NAT"} => Len(r.text) # 0
  BY <1>1
<1> DEFINE X == STRING \union Nat \union Operation
           head == <<r.op, Len(r.text)>>
           l == head \o r.text
           k == Len(r.text)
<1>3. head \in Seq(X) /\ Len(head) = 2 /\ r.text \in Seq(X)
  BY <1>1
<1>4. r.op = "NAT" => r.ports \in Seq(X) /\ Len(r.ports) = 2
  BY <1>1
<1> HIDE DEF X, head
<1>5. l \in Seq(X) /\ Len(l) = Len(head) + Len(r.text)
  BY <1>3, ConcatProperties
<1>6. l \in Seq(X) /\ Len(l) = 2 + Len(r.text)
  BY <1>3, <1>5
<1>7. CASE r.op \in {"PROVISION", "KILL", "IP"}
  <2>1. Program(r) = l
    BY <1>7 DEF Program, head
  <2> QED
    BY <1>1, <1>2, <1>6, <1>7, <2>1
<1>8. CASE r.op = "NAT"
  <2> DEFINE p == Program(r)
  <2>1. p = l \o r.ports
    BY <1>8 DEF Program, head
  <2> HIDE DEF l, p
  <2>2. /\ Len(p) = 2 + Len(l)
        /\ p[1 + Len(l)] = r.ports[1] /\ p[2 + Len(l)] = r.ports[2]
    BY <1>4, <1>6, <1>8, <2>1, TwoPorts
  <2>3. k \in Nat /\ Len(l) = 2 + k
    BY <1>1, <1>6
  <2> HIDE DEF k
  <2>4. 1 + Len(l) = 3 + k /\ 2 + Len(l) = 4 + k
    BY <2>3
  <2>5. Len(p) = 4 + k /\ p[3 + k] = r.ports[1] /\ p[4 + k] = r.ports[2]
    BY <2>2, <2>4
  <2> QED
    BY <1>1, <1>2, <1>8, <2>5 DEF p, k
<1>9. CASE r.op \in {"RESET_COUNTERS", "UNKNOWN"}
  <2>1. Program(r) = <<r.op>>
    BY <1>9 DEF Program
  <2> QED
    BY <1>1, <1>9, <2>1
<1> QED
  BY <1>1, <1>7, <1>8, <1>9 DEF Operation

\* Where a client may be in its program, as numbers.
LEMMA Positions ==
  ASSUME NEW c \in Client, request[c] \in Requests(c), sent[c] \in Nat, SentOK(c),
         cpc[c] # "idle"
  PROVE  LET r == request[c]
             k == Len(r.text)
             l == Len(Program(r))
         IN /\ k \in Nat /\ (r.text = <<>> <=> k = 0)
            /\ \/ r.op = "NAT" /\ k # 0 /\ l = 4 + k
               \/ r.op \notin {"NAT", "RESET_COUNTERS", "UNKNOWN"} /\ l = 2 + k
               \/ r.op \in {"RESET_COUNTERS", "UNKNOWN"} /\ k = 0 /\ l = 1
            /\ \/ sent[c] = 0 \/ (k = 0 /\ sent[c] = 1)
               \/ (k # 0 /\ (sent[c] = 2 \/ sent[c] = 2 + k))
               \/ (r.op = "NAT" /\ sent[c] = 3 + k)
               \/ sent[c] = l
            /\ Whole(c) <=> sent[c] = l
<1> DEFINE r == request[c]
<1>1. /\ r.op \in Operation /\ r.text \in Seq(STRING)
      /\ r.op \in {"RESET_COUNTERS", "UNKNOWN"} => r.text = <<>>
  BY RequestAssumption
<1>2. Len(r.text) \in Nat /\ (r.text = <<>> <=> Len(r.text) = 0)
  BY <1>1
<1>3. \/ r.op = "NAT" /\ Len(r.text) # 0 /\ Len(Program(r)) = 4 + Len(r.text)
      \/ r.op \notin {"NAT", "RESET_COUNTERS", "UNKNOWN"} /\ Len(Program(r)) = 2 + Len(r.text)
      \/ r.op \in {"RESET_COUNTERS", "UNKNOWN"} /\ Len(r.text) = 0 /\ Len(Program(r)) = 1
  <2>1. CASE r.op = "NAT"
    BY <2>1, Lengths
  <2>2. CASE r.op \in {"RESET_COUNTERS", "UNKNOWN"}
    BY <1>1, <1>2, <2>2, Lengths
  <2>3. CASE r.op \in {"PROVISION", "KILL", "IP"}
    BY <2>3, Lengths
  <2> QED
    BY <1>1, <2>1, <2>2, <2>3 DEF Operation
<1>4. \/ sent[c] = 0 \/ (Len(r.text) = 0 /\ sent[c] = 1)
      \/ (Len(r.text) # 0 /\ (sent[c] = 2 \/ sent[c] = 2 + Len(r.text)))
      \/ (r.op = "NAT" /\ sent[c] = 3 + Len(r.text))
      \/ sent[c] = Len(Program(r))
  BY <1>2 DEF SentOK, Whole
<1> QED
  BY <1>2, <1>3, <1>4 DEF Whole

\* More than the operation, the length, the text or the first port means everything.
LEMMA Heard ==
  ASSUME NEW c \in Client, request[c] \in Requests(c), sent[c] \in Nat, SentOK(c),
         cpc[c] # "idle"
  PROVE  /\ sent[c] > 0 /\ request[c].op \in {"RESET_COUNTERS", "UNKNOWN"} => Whole(c)
         /\ sent[c] > 2 /\ request[c].op # "NAT" => Whole(c)
         /\ sent[c] > 3 + Len(request[c].text) /\ request[c].op = "NAT" => Whole(c)
<1> DEFINE op == request[c].op
           k == Len(request[c].text)
           l == Len(Program(request[c]))
           n == sent[c]
<1>1. /\ k \in Nat /\ n \in Nat
      /\ \/ op = "NAT" /\ k # 0 /\ l = 4 + k
         \/ op \notin {"NAT", "RESET_COUNTERS", "UNKNOWN"} /\ l = 2 + k
         \/ op \in {"RESET_COUNTERS", "UNKNOWN"} /\ k = 0 /\ l = 1
      /\ \/ n = 0 \/ (k = 0 /\ n = 1)
         \/ (k # 0 /\ (n = 2 \/ n = 2 + k))
         \/ (op = "NAT" /\ n = 3 + k)
         \/ n = l
      /\ Whole(c) <=> n = l
  BY Positions
<1> HIDE DEF op, k, l, n
<1>2. CASE op = "NAT"
  <2>1. n > 3 + k => Whole(c)
    BY <1>1, <1>2
  <2> QED
    BY <1>2, <2>1 DEF op, n, k
<1>3. CASE op \in {"RESET_COUNTERS", "UNKNOWN"}
  BY <1>1, <1>3 DEF op, n
<1>4. CASE op \notin {"NAT", "RESET_COUNTERS", "UNKNOWN"}
  BY <1>1, <1>4 DEF op, n
<1> QED
  BY <1>2, <1>3, <1>4

\* A client goes on writing: never less than before, and part by part.
LEMMA WrittenOn ==
  ASSUME NEW c \in Client, request[c] \in Requests(c), sent[c] \in Nat, SentOK(c),
         cpc[c] = "write"
  PROVE  LET n == written(request[c], sent[c])
             r == request[c]
         IN /\ n \in Nat /\ n >= sent[c]
            /\ Len(Program(r)) \in Nat /\ Len(Program(r)) >= sent[c]
            /\ \/ n \in IF r.text = <<>> THEN {0, 1} ELSE {0, 2, 2 + Len(r.text)}
               \/ r.op = "NAT" /\ n = 3 + Len(r.text)
               \/ n = Len(Program(r))
<1> DEFINE r == request[c]
           k == Len(r.text)
           l == Len(Program(r))
           n == sent[c]
           m == written(r, n)
           forwards == r.op = "NAT"
<1>1. /\ k \in Nat /\ n \in Nat
      /\ \/ forwards /\ k # 0 /\ l = 4 + k
         \/ l = 2 + k /\ ~ forwards
         \/ k = 0 /\ l = 1 /\ ~ forwards
      /\ \/ n = 0 \/ (k = 0 /\ n = 1)
         \/ (k # 0 /\ (n = 2 \/ n = 2 + k))
         \/ (forwards /\ n = 3 + k)
         \/ n = l
      /\ n # l
  BY Positions DEF SentOK
<1>2. r.text = <<>> <=> k = 0
  BY Positions
<1>3. m = IF n = 0 THEN (IF k = 0 THEN 1 ELSE 2) ELSE IF n = 2 THEN 2 + k ELSE n + 1
  BY <1>1, <1>2 DEF written
<1> HIDE DEF k, l, n, m, forwards
<1>4. /\ m \in Nat /\ m >= n /\ l \in Nat /\ l >= n
      /\ \/ m = 0 \/ (k = 0 /\ m = 1) \/ (k # 0 /\ (m = 2 \/ m = 2 + k))
         \/ (forwards /\ m = 3 + k) \/ m = l
  <2>1. CASE n = 0
    BY <1>1, <1>3, <2>1
  <2>2. CASE k = 0 /\ n = 1
    BY <1>1, <1>3, <2>2
  <2>3. CASE k # 0 /\ n = 2
    BY <1>1, <1>3, <2>3
  <2>4. CASE k # 0 /\ n = 2 + k
    <3>1. n # 0 /\ n # 2 /\ forwards /\ l = 4 + k
      BY <1>1, <2>4
    <3>2. m = 3 + k
      BY <1>1, <1>3, <2>4, <3>1
    <3> QED
      BY <1>1, <2>4, <3>1, <3>2
  <2>5. CASE forwards /\ n = 3 + k
    <3>1. n # 0 /\ n # 2 /\ l = 4 + k
      BY <1>1, <2>5
    <3>2. m = l
      BY <1>1, <1>3, <2>5, <3>1
    <3> QED
      BY <1>1, <2>5, <3>1, <3>2
  <2> QED
    BY <1>1, <2>1, <2>2, <2>3, <2>4, <2>5
<1> QED
  BY <1>2, <1>4 DEF k, l, n, m, forwards

\* Whoever is at work has a client that was told nothing and got nothing so far.
LEMMA Caller ==
  ASSUME Invariants, AnswerInv, NEW t \in Thread, Working(t)
  PROVE  LET c == clientOf(t) IN
         /\ c \in Client /\ request[c] \in Requests(c) /\ sent[c] \in Nat /\ SentOK(c)
         /\ reply[c] = <<>> /\ effect[c] = <<>> /\ cpc[c] # "idle"
         /\ Up => cpc[c] # "done" /\ told[c] = none
<1> DEFINE c == clientOf(t)
<1>1. /\ c \in Client /\ request[c] \in Requests(c) /\ fd[c] = "open"
      /\ reply[c] = <<>> /\ (Up => cpc[c] # "done")
  BY ServedClient DEF Invariants
<1>2. cpc[c] # "idle"
  BY <1>1, NoneAssumption DEF Invariants, ConnectionInv, ClientOK
<1>3. sent[c] \in Nat /\ SentOK(c) /\ AnswerOK(c)
  BY <1>1 DEF Invariants, ForwardInv, HostShapes, AnswerInv
<1> QED
  BY <1>1, <1>2, <1>3 DEF AnswerOK

\* Of a text arrives a part: none of it only if the client has died.
LEMMA HeardPart ==
  ASSUME Invariants, AnswerInv, Up, NEW t \in Thread, pc[t] = "text", NEW s \in receive(t)
  PROVE  LET c == clientOf(t) IN
         \E k \in 0..Len(request[c].text) :
           /\ s = Part(request[c].text, k)
           /\ IF k = 0 THEN cpc[c] = "dead" ELSE sent[c] > 2
<1> DEFINE c == clientOf(t)
           r == request[c]
<1>1. Working(t)
  <2>1. CASE t = acceptor
    BY <2>1, AtWork DEF Invariants
  <2>2. CASE t # acceptor
    BY <2>2 DEF Working
  <2> QED
    BY <2>1, <2>2
<1>2. r \in Requests(c) /\ c \in Client /\ sent[c] \in Nat /\ cpc[c] # "done"
  BY <1>1, Caller
<1>3. Len(r.text) \in Nat
  BY <1>2, Units
<1>4. consumed(t) = 2 /\ arrived(t) = sent[c] - 2
  BY DEF consumed, arrived
<1>5. PICK k : /\ s = Part(r.text, k)
               /\ \/ k \in 1..arrived(t) /\ k <= Len(r.text)
                  \/ ended(t) /\ k = 0
  BY DEF receive
<1>6. k \in 0..Len(r.text) /\ IF k = 0 THEN cpc[c] = "dead" ELSE sent[c] > 2
  BY <1>2, <1>3, <1>4, <1>5 DEF ended, gone
<1> QED
  BY <1>5, <1>6

\* A text of which nothing arrived names no VM and makes none.
LEMMA Empty ==
  ASSUME NEW c \in Client, NEW r \in Requests(c)
  PROVE  /\ Len(Part(r.text, 0)) = 0 /\ Part(r.text, 0) = <<>>
         /\ Configuration(Part(r.text, 0)).status = "refused"
         /\ Part(r.text, Len(r.text)) = r.text
<1>1. r.text \in Seq(STRING) /\ Len(r.text) \in Nat
  BY RequestAssumption
<1>2. Part(r.text, 0) = <<>> /\ Len(<<>>) = 0
  BY DEF Part
<1>3. Part(r.text, Len(r.text)) = r.text
  BY <1>1 DEF Part
<1> QED
  BY <1>1, <1>2, <1>3, ConfigurationAssumption

\* A request about a VM is carried out on it, or on another with a part of its name.
LEMMA Meant ==
  ASSUME NEW c \in Client, NEW r \in Requests(c), r.op \in {"KILL", "IP", "NAT"},
         NEW k \in 1..Len(r.text), NEW n, n = Part(r.text, k),
         NEW e, e # <<>>, e[1] = r.op, e[2] = n
  PROVE  (n = r.text /\ n = r.name) \/ Astray(r, e)
<1>1. r.text = r.name /\ Len(r.text) \in Nat
  BY RequestAssumption, Units
<1>2. CASE k = Len(r.text)
  BY <1>1, <1>2, Empty
<1>3. CASE k # Len(r.text)
  <2>1. k \in 1..Len(r.name) - 1
    BY <1>1, <1>3
  <2> QED
    BY <1>1, <2>1 DEF Astray
<1> QED
  BY <1>2, <1>3

-----------------------------------------------------------------------------
(* What most steps leave alone. *)

LEMMA AnswersStay ==
  ASSUME AnswerInv, UNCHANGED <<effect, reply, told, cpc, request>>,
         Up' => Up, cancelled => cancelled'
  PROVE  AnswerShapes' /\ \A c \in Client : AnswerOK(c)'
<1>1. AnswerShapes'
  BY DEF AnswerInv, AnswerShapes
<1>2. ASSUME NEW c \in Client PROVE AnswerOK(c)'
  BY DEF AnswerInv, AnswerOK
<1> QED
  BY <1>1, <1>2

LEMMA AskedStays ==
  ASSUME AnswerInv, pc'[acceptor] = pc[acceptor], text'[acceptor] = text[acceptor],
         UNCHANGED <<serving, prot, ports, sent, cpc, request>>
  PROVE  AskedOK'
BY DEF AnswerInv, AskedOK, Silent

LEMMA Idles ==
  ASSUME pc'[acceptor] = "accept", ports' = <<>>
  PROVE  AskedOK'
BY DEF AskedOK, Named, Chain

LEMMA SentStays ==
  ASSUME AnswerInv, UNCHANGED <<sent, cpc, request>>
  PROVE  \A c \in Client : SentOK(c)'
BY DEF AnswerInv, SentOK, Whole

LEMMA ProvisionersStay ==
  ASSUME AnswerInv, UNCHANGED <<sent, cpc, request>>, NEW t,
         \A c \in Client : c # t => pc'[c] = pc[c]
  PROVE  \A c \in Client : c # t => ProvisionerOK(c)'
BY DEF AnswerInv, ProvisionerOK, Silent

\* While the daemon is up, or once it was stopped, no request has ended it.
LEMMA NotAborted ==
  ASSUME Up' \/ cancelled'
  PROVE  AbortOK'
BY DEF AbortOK, OnlyProvisioningEnds

\* A thread answers its client, with the effect that belongs to the answer.
LEMMA Answers ==
  ASSUME Invariants, AnswerInv, Up, NEW t \in Thread, Working(t), cancelled => cancelled',
         NEW units, units # <<>>, NEW e,
         reply' = [reply EXCEPT ![clientOf(t)] = units],
         effect' = [effect EXCEPT ![clientOf(t)] = e], UNCHANGED <<told, cpc, request>>,
         cpc[clientOf(t)] # "dead" =>
           IF Head(units) = Success(request[clientOf(t)])
           THEN e = Asked(request[clientOf(t)]) \/ Astray(request[clientOf(t)], e)
           ELSE e = <<>>,
         e # <<>> /\ cpc[clientOf(t)] = "write" =>
           request[clientOf(t)].op = "NAT" /\ Astray(request[clientOf(t)], e)
  PROVE  AnswerShapes' /\ \A c \in Client : AnswerOK(c)'
<1> DEFINE b == clientOf(t)
<1>1. b \in Client /\ told[b] = none
  BY Caller
<1>2. /\ \A c \in Client : reply'[c] = IF c = b THEN units ELSE reply[c]
      /\ \A c \in Client : effect'[c] = IF c = b THEN e ELSE effect[c]
  BY DEF Invariants, ConnectionInv, Shapes, AnswerInv, AnswerShapes
<1>3. AnswerShapes'
  BY DEF AnswerInv, AnswerShapes
<1>4. ASSUME NEW c \in Client PROVE AnswerOK(c)'
  <2>1. AnswerOK(c)
    BY DEF AnswerInv
  <2>2. CASE c # b
    <3>1. reply'[c] = reply[c] /\ effect'[c] = effect[c] /\ told'[c] = told[c]
      BY <1>2, <2>2
    <3> QED
      BY <2>1, <3>1 DEF AnswerOK
  <2>3. CASE c = b
    <3>1. reply'[c] = units /\ effect'[c] = e /\ told'[c] = none
      BY <1>1, <1>2, <2>3
    <3> QED
      BY <2>3, <3>1, NoneAssumption DEF AnswerOK
  <2> QED
    BY <2>2, <2>3
<1> QED
  BY <1>3, <1>4

\* A refusal has no effect.
LEMMA Refuses ==
  ASSUME Invariants, AnswerInv, Up, NEW t \in Thread, Working(t), cancelled => cancelled',
         NEW units, units # <<>>, Head(units) = "ERR",
         reply' = [reply EXCEPT ![clientOf(t)] = units], UNCHANGED <<effect, told, cpc, request>>
  PROVE  AnswerShapes' /\ \A c \in Client : AnswerOK(c)'
<1>1. clientOf(t) \in Client /\ effect[clientOf(t)] = <<>>
  BY Caller
<1>2. effect' = [effect EXCEPT ![clientOf(t)] = <<>>]
  BY <1>1 DEF AnswerInv, AnswerShapes
<1>3. Head(units) # Success(request[clientOf(t)])
  BY DEF Success
<1> QED
  BY <1>2, <1>3, Answers

-----------------------------------------------------------------------------
(* The clients. *)

LEMMA ConnectAnswers ==
  ASSUME Invariants, AnswerInv, NEW c \in Client, NEW r \in Requests(c), connect(c, r)
  PROVE  AnswerInv'
<1>1. /\ cpc[c] = "idle" /\ fd[c] = none /\ reply[c] = <<>> /\ pc[c] = "idle"
      /\ serving # c
  BY DEF connect, Invariants, ConnectionInv, ClientOK
<1>2. sent[c] = 0 /\ effect[c] = <<>> /\ told[c] = none
  BY <1>1 DEF AnswerInv, SentOK, AnswerOK
<1>3. /\ \A b \in Client : /\ cpc'[b] = IF b = c THEN "write" ELSE cpc[b]
                           /\ request'[b] = IF b = c THEN r ELSE request[b]
      /\ UNCHANGED <<sent, told, reply, pc, serving, prot, text, ports, effect, handler, daemon>>
  BY DEF connect, local, host, process, Invariants, ConnectionInv, Shapes
<1>4. AnswerShapes'
  BY <1>3 DEF AnswerInv, AnswerShapes
<1>5. AskedOK'
  <2>1. pc[acceptor] \notin {"start", "accept", "dead"} =>
          \/ /\ serving \in Client
             /\ request'[serving] = request[serving] /\ cpc'[serving] = cpc[serving]
          \/ serving = none /\ pc[acceptor] \in {"log", "print"}
    BY <1>1, <1>3 DEF Invariants, ConnectionInv, AcceptorOK
  <2> QED
    BY <1>3, <2>1 DEF AnswerInv, AskedOK, Silent, Named, Chain
<1>6. AbortOK'
  BY NotAborted, <1>3 DEF connect, Up
<1>7. ASSUME NEW b \in Client PROVE SentOK(b)' /\ ProvisionerOK(b)' /\ AnswerOK(b)'
  <2>1. CASE b # c
    BY <1>3, <2>1 DEF AnswerInv, SentOK, ProvisionerOK, AnswerOK, Whole, Silent, Up, cancelled
  <2>2. CASE b = c
    <3>1. Len(Program(r)) # 0
      <4> DEFINE long == Len(Program(r))
                 short == Len(r.text)
      <4>1. /\ short \in Nat
            /\ long = 1 \/ long = 2 + short \/ long = 4 + short
        BY Lengths, RequestAssumption DEF Operation
      <4> HIDE DEF long, short
      <4>2. long # 0
        BY <4>1
      <4> QED
        BY <4>2 DEF long
    <3>2. SentOK(b)'
      BY <1>2, <1>3, <2>2, <3>1 DEF SentOK, Whole
    <3>3. ProvisionerOK(b)' /\ AnswerOK(b)'
      BY <1>1, <1>2, <1>3, <2>2, NoneAssumption DEF ProvisionerOK, AnswerOK
    <3> QED
      BY <3>2, <3>3
  <2> QED
    BY <2>1, <2>2
<1> QED
  BY <1>4, <1>5, <1>6, <1>7 DEF AnswerInv

\* What a client does that has connected: it writes on, it is done, or it dies.
LEMMA ClientAside ==
  ASSUME Invariants, AnswerInv, NEW c \in Client, cpc[c] \in {"write", "read"},
         NEW place \in {"write", "read", "done", "dead"}, cpc' = [cpc EXCEPT ![c] = place],
         NEW n \in Nat, n >= sent[c], sent' = [sent EXCEPT ![c] = n],
         UNCHANGED <<request, pc, serving, prot, text, ports, handler, daemon>>
  PROVE  /\ AskedOK' /\ AbortOK' /\ \A b \in Client : ProvisionerOK(b)'
         /\ \A b \in Client : b # c => SentOK(b)'
<1>1. /\ \A b \in Client : cpc'[b] = IF b = c THEN place ELSE cpc[b]
      /\ \A b \in Client : sent'[b] = IF b = c THEN n ELSE sent[b]
      /\ \A b \in Client : sent[b] \in Nat
  BY DEF Invariants, ConnectionInv, Shapes, ForwardInv, HostShapes
<1>2. /\ \A b \in Client : Silent(b) => Silent(b)'
      /\ \A b \in Client : cpc[b] = "dead" => cpc'[b] = "dead"
      /\ \A b \in Client, m \in Nat : sent[b] > m => sent'[b] > m
  BY <1>1 DEF Silent
<1>3. AskedOK'
  <2>1. /\ pc[acceptor] \in {"log", "print"} => serving \in Client \/ serving = none
        /\ pc[acceptor] \in {"text", "reset"} \union Named => serving \in Client
    BY DEF Invariants, ConnectionInv, AcceptorOK, Named
  <2>2. /\ pc[acceptor] \in {"text", "reset"} \union Named =>
             Len(request[serving].text) \in Nat
        /\ 2 \in Nat /\ 0 \in Nat
    <3>1. serving \in Client /\ pc[acceptor] \in {"text", "reset"} \union Named =>
            request[serving] \in Requests(serving)
      BY Caller, AtWork, Threads DEF Named, clientOf, Invariants
    <3> QED
      BY <2>1, <3>1, Units
  <2>3. pc[acceptor] \in {"text", "reset"} \union Named =>
          2 + Len(request[serving].text) \in Nat /\ 3 + Len(request[serving].text) \in Nat
    BY <2>2
  <2> QED
    BY <1>2, <2>1, <2>2, <2>3 DEF AnswerInv, AskedOK, Named, Chain
<1>4. AbortOK'
  BY DEF AnswerInv, AbortOK, OnlyProvisioningEnds, WholeFilesRead, Up, cancelled
<1>5. ASSUME NEW b \in Client PROVE ProvisionerOK(b)'
  BY <1>2 DEF AnswerInv, ProvisionerOK
<1>6. ASSUME NEW b \in Client, b # c PROVE SentOK(b)'
  BY <1>1, <1>6 DEF AnswerInv, SentOK, Whole
<1> QED
  BY <1>3, <1>4, <1>5, <1>6

LEMMA WriteAnswers ==
  ASSUME Invariants, AnswerInv, NEW c \in Client, write(c)
  PROVE  AnswerInv'
<1>1. /\ cpc[c] = "write" /\ request[c] \in Requests(c) /\ sent[c] \in Nat
      /\ UNCHANGED <<request, pc, serving, prot, text, ports, handler, daemon, reply, effect>>
  BY DEF write, local, host, process, Invariants, ConnectionInv, ClientOK, ForwardInv, HostShapes
<1>2. told[c] = none /\ AnswerOK(c)
  BY <1>1 DEF AnswerInv, AnswerOK
<1> DEFINE m == written(request[c], sent[c])
           l == Len(Program(request[c]))
<1>3. ASSUME NEW x \in {m, l}
      PROVE  /\ x \in Nat /\ x >= sent[c]
             /\ \/ x \in IF request[c].text = <<>> THEN {0, 1}
                         ELSE {0, 2, 2 + Len(request[c].text)}
                \/ request[c].op = "NAT" /\ x = 3 + Len(request[c].text)
                \/ x = l
  BY <1>1, WrittenOn DEF AnswerInv
<1> HIDE DEF m
<1>4. ASSUME NEW x \in {m, l}, NEW place \in {"write", "read", "done"},
             sent' = [sent EXCEPT ![c] = x], cpc' = [cpc EXCEPT ![c] = place],
             place = "write" => x # l,
             told' = [told EXCEPT ![c] = IF place = "done" THEN "error" ELSE told[c]]
      PROVE  AnswerInv'
  <2>1. /\ \A b \in Client : cpc'[b] = IF b = c THEN place ELSE cpc[b]
        /\ \A b \in Client : b # c => told'[b] = told[b]
        /\ told'[c] = IF place = "done" THEN "error" ELSE none
        /\ sent'[c] = x
    BY <1>2, <1>4 DEF Invariants, ConnectionInv, Shapes, ForwardInv, HostShapes,
                      AnswerInv, AnswerShapes
  <2>2. /\ AskedOK' /\ AbortOK' /\ \A b \in Client : ProvisionerOK(b)'
        /\ \A b \in Client : b # c => SentOK(b)'
    BY <1>1, <1>3, <1>4, ClientAside
  <2>3. SentOK(c)'
    <3>1. request'[c] = request[c] /\ cpc'[c] # "idle" /\ sent'[c] = x /\ cpc'[c] = place
      BY <1>1, <2>1
    <3>2. Whole(c)' <=> x = l
      BY <3>1 DEF Whole
    <3>3. \/ sent'[c] \in IF request'[c].text = <<>> THEN {0, 1}
                           ELSE {0, 2, 2 + Len(request'[c].text)}
          \/ request'[c].op = "NAT" /\ sent'[c] = 3 + Len(request'[c].text)
          \/ Whole(c)'
      BY <1>3, <3>1, <3>2
    <3> QED
      BY <1>4, <3>1, <3>2, <3>3, Zenon DEF SentOK
  <2>4. AnswerShapes'
    BY <1>1, <1>4 DEF AnswerInv, AnswerShapes
  <2>5. ASSUME NEW b \in Client PROVE AnswerOK(b)'
    <3>1. CASE b # c
      BY <1>1, <2>1, <3>1 DEF AnswerInv, AnswerOK, Up, cancelled
    <3>2. CASE b = c
      BY <1>1, <1>2, <2>1, <3>2, NoneAssumption DEF AnswerOK
    <3> QED
      BY <3>1, <3>2
  <2> QED
    BY <2>2, <2>3, <2>4, <2>5 DEF AnswerInv
<1>5. told = [told EXCEPT ![c] = told[c]] /\ sent = [sent EXCEPT ![c] = sent[c]]
  BY DEF Invariants, ForwardInv, HostShapes, AnswerInv, AnswerShapes
<1>6. CASE ~ broken(c)
  <2> DEFINE place == IF m = l THEN "read" ELSE "write"
  <2>1. sent' = [sent EXCEPT ![c] = m] /\ UNCHANGED told
    BY <1>6 DEF write, m
  <2>2. sent'[c] = m
    BY <2>1 DEF Invariants, ForwardInv, HostShapes
  <2>3. cpc' = [cpc EXCEPT ![c] = place]
    BY <1>6, <2>2 DEF write
  <2>4. place \in {"write", "read"} /\ (place = "write" => m # l)
    OBVIOUS
  <2> HIDE DEF place
  <2> QED
    BY <1>4, <1>5, <2>1, <2>3, <2>4
<1>7. CASE broken(c)
  <2>1. PICK place \in {"read", "done"} :
          /\ sent' = [sent EXCEPT ![c] = l] /\ cpc' = [cpc EXCEPT ![c] = place]
          /\ told' = [told EXCEPT ![c] = IF place = "done" THEN "error" ELSE told[c]]
    BY <1>5, <1>7 DEF write
  <2> QED
    BY <1>4, <2>1
<1> QED
  BY <1>6, <1>7

LEMMA ReadAnswers ==
  ASSUME Invariants, AnswerInv, NEW c \in Client, read(c) \/ die(c)
  PROVE  AnswerInv'
<1>1. /\ cpc[c] \in {"write", "read"} /\ sent[c] \in Nat /\ sent[c] >= sent[c]
      /\ sent' = [sent EXCEPT ![c] = sent[c]]
      /\ UNCHANGED <<request, pc, serving, prot, text, ports, handler, daemon, reply, effect, sent>>
  BY DEF read, die, local, host, process, Invariants, ForwardInv, HostShapes
<1>2. told[c] = none /\ AnswerOK(c)
  BY <1>1 DEF AnswerInv, AnswerOK
<1>3. PICK place \in {"done", "dead"} :
        /\ cpc' = [cpc EXCEPT ![c] = place]
        /\ IF place = "dead" THEN UNCHANGED told ELSE
             /\ cpc[c] = "read"
             /\ told' = [told EXCEPT ![c] =
                  IF reply[c] # <<>> /\ Head(reply[c]) = Success(request[c])
                  THEN "success" ELSE "error"]
  <2>1. CASE read(c)
    BY <2>1 DEF read, Success
  <2>2. CASE die(c)
    BY <2>2 DEF die
  <2> QED
    BY <2>1, <2>2
<1>4. /\ \A b \in Client : cpc'[b] = IF b = c THEN place ELSE cpc[b]
      /\ \A b \in Client : b # c => told'[b] = told[b]
      /\ place = "dead" => told'[c] = none
      /\ place = "done" =>
           told'[c] = IF reply[c] # <<>> /\ Head(reply[c]) = Success(request[c])
                      THEN "success" ELSE "error"
  BY <1>2, <1>3 DEF Invariants, ConnectionInv, Shapes, AnswerInv, AnswerShapes
<1>5. /\ AskedOK' /\ AbortOK' /\ \A b \in Client : ProvisionerOK(b)'
      /\ \A b \in Client : b # c => SentOK(b)'
  BY <1>1, <1>3, ClientAside
<1>6. SentOK(c)'
  BY <1>1, <1>4 DEF AnswerInv, SentOK, Whole
<1>7. AnswerShapes'
  BY <1>1, <1>3 DEF AnswerInv, AnswerShapes
<1>8. ASSUME NEW b \in Client PROVE AnswerOK(b)'
  <2>1. CASE b # c
    BY <1>1, <1>4, <2>1 DEF AnswerInv, AnswerOK, Up, cancelled
  <2>2. CASE b = c /\ place = "dead"
    BY <1>1, <1>2, <1>4, <2>2, NoneAssumption DEF AnswerOK
  <2>3. CASE b = c /\ place = "done"
    BY <1>1, <1>2, <1>3, <1>4, <2>3 DEF AnswerOK
  <2> QED
    BY <2>1, <2>2, <2>3
<1> QED
  BY <1>5, <1>6, <1>7, <1>8 DEF AnswerInv

-----------------------------------------------------------------------------
(* The accepting loop. *)

\* The acceptor goes on, and nobody is answered.
LEMMA AcceptorAside ==
  ASSUME AnswerInv, Up, UNCHANGED <<effect, reply, told, sent, cpc, request, daemon, handler>>,
         AskedOK', \A c \in Client : pc'[c] = pc[c]
  PROVE  AnswerInv'
<1>1. AnswerShapes' /\ \A c \in Client : AnswerOK(c)'
  BY AnswersStay DEF Up, cancelled
<1>2. \A c \in Client : SentOK(c)' /\ ProvisionerOK(c)'
  BY SentStays DEF AnswerInv, ProvisionerOK, Silent
<1>3. AbortOK'
  BY NotAborted DEF Up
<1> QED
  BY <1>1, <1>2, <1>3 DEF AnswerInv

LEMMA StartAnswers ==
  ASSUME Invariants, AnswerInv, Up, start \/ accept \/ acceptFails \/ info
  PROVE  AnswerInv'
<1>1. /\ UNCHANGED <<effect, reply, told, sent, cpc, request, daemon, handler, ports>>
      /\ \A c \in Client : pc'[c] = pc[c]
  BY Threads DEF start, accept, acceptFails, info, client, local, host, process, Goto,
                 Invariants, ConnectionInv, Shapes
<1>2. AskedOK'
  <2>1. CASE start
    <3>1. pc[acceptor] = "start" /\ pc'[acceptor] = "accept"
      BY <2>1, Threads DEF start, Goto, Invariants, ConnectionInv, Shapes
    <3> QED
      BY <1>1, <3>1, Idles DEF AnswerInv, AskedOK
  <2>2. CASE accept
    <3>1. pc[acceptor] = "accept" /\ pc'[acceptor] = "protocol"
      BY <2>2, Threads DEF accept, Goto, Invariants, ConnectionInv, Shapes
    <3> QED
      BY <1>1, <3>1 DEF AnswerInv, AskedOK, Named, Chain
  <2>3. CASE info
    <3>1. /\ pc[acceptor] = "log" /\ pc'[acceptor] = "print"
          /\ UNCHANGED <<serving, prot>>
      BY <2>3, Threads DEF info, local, Goto, Invariants, ConnectionInv, Shapes
    <3> QED
      BY <1>1, <3>1 DEF AnswerInv, AskedOK, Named, Chain, Silent
  <2>4. CASE acceptFails
    <3>1. pc[acceptor] = "accept" /\ pc'[acceptor] = "log" /\ serving' = serving
      BY <2>4, Threads DEF acceptFails, Goto, Invariants, ConnectionInv, Shapes
    <3>2. serving = none
      BY <3>1 DEF Invariants, ConnectionInv, AcceptorOK
    <3> QED
      BY <1>1, <3>1, <3>2 DEF AnswerInv, AskedOK, Named, Chain
  <2> QED
    BY <2>1, <2>2, <2>3, <2>4
<1> QED
  BY <1>1, <1>2, AcceptorAside

LEMMA ProtocolAnswers ==
  ASSUME Invariants, AnswerInv, Up, receiveProtocol
  PROVE  AnswerInv'
<1>1. /\ UNCHANGED <<effect, reply, told, sent, cpc, request, daemon, handler, ports, serving>>
      /\ pc[acceptor] = "protocol" /\ pc'[acceptor] = "log"
      /\ \A c \in Client : pc'[c] = pc[c]
  BY Threads DEF receiveProtocol, client, host, process, Goto, Invariants, ConnectionInv, Shapes
<1>2. PICK v \in receiveInt(acceptor, "PROVISION") : prot' = v
  BY DEF receiveProtocol
<1>3. /\ serving \in Client /\ request[serving] \in Requests(serving)
      /\ sent[serving] \in Nat /\ cpc[serving] # "done"
  BY <1>1, AtWork, Caller, Threads DEF Invariants, clientOf
<1>4. consumed(acceptor) = 0 /\ arrived(acceptor) = sent[serving]
  BY <1>1, <1>3 DEF consumed, arrived, clientOf
<1>5. \/ arrived(acceptor) > 0 /\ v = Unit(acceptor, 1)
      \/ ended(acceptor) /\ v = "PROVISION"
  BY <1>1, <1>2 DEF receiveInt, Integer, cut
<1>6. CASE arrived(acceptor) > 0 /\ v = Unit(acceptor, 1)
  <2>1. Unit(acceptor, 1) = request[serving].op
    BY <1>3, <1>4, FirstUnit DEF Unit, clientOf
  <2>2. AskedOK'
    BY <1>1, <1>2, <1>4, <1>6, <2>1 DEF AnswerInv, AskedOK, Named, Chain
  <2> QED
    BY <1>1, <2>2, AcceptorAside
<1>7. CASE ended(acceptor) /\ v = "PROVISION"
  <2>1. Silent(serving)
    BY <1>3, <1>4, <1>7 DEF ended, gone, clientOf, Silent
  <2>2. AskedOK'
    BY <1>1, <1>2, <1>7, <2>1 DEF AnswerInv, AskedOK, Named, Chain, Silent
  <2> QED
    BY <1>1, <2>2, AcceptorAside
<1> QED
  BY <1>5, <1>6, <1>7

LEMMA SwitchAnswers ==
  ASSUME Invariants, AnswerInv, Up, switch, serving # none
  PROVE  AnswerInv'
<1>1. /\ UNCHANGED <<effect, told, sent, cpc, request, daemon, handler>>
      /\ pc[acceptor] = "print"
  BY DEF switch, client, host
<1>2. PICK b \in Client :
        b = serving /\ b # acceptor /\ Working(acceptor) /\ clientOf(acceptor) = b
  <2>1. Working(acceptor)
    BY <1>1 DEF Working
  <2> QED
    BY <2>1, Caller, Threads DEF clientOf
<1>3. /\ \/ prot = request[b].op /\ sent[b] > 0
         \/ prot = "PROVISION" /\ Silent(b)
      /\ ports = <<>>
  BY <1>1, <1>2 DEF AnswerInv, AskedOK
<1>4. AbortOK'
  BY <1>1, NotAborted DEF Up
<1>5. CASE /\ prot = "PROVISION" /\ UNCHANGED <<ports, reply>>
           /\ pc' = [pc EXCEPT ![acceptor] = "accept", ![serving] = "text"]
  <2>1. \A u \in Thread : pc'[u] = IF u = b THEN "text"
                                   ELSE IF u = acceptor THEN "accept" ELSE pc[u]
    BY <1>2, <1>5, Threads DEF Invariants, ConnectionInv, Shapes
  <2>2. /\ pc'[acceptor] = "accept" /\ pc'[b] = "text"
        /\ \A c \in Client : c # b => pc'[c] = pc[c]
    BY <1>2, <2>1, Threads
  <2>3. AskedOK'
    BY <1>3, <1>5, <2>2, Idles
  <2>4. ProvisionerOK(b)'
    BY <1>1, <1>3, <1>5, <2>2 DEF ProvisionerOK, Silent
  <2>5. \A c \in Client : ProvisionerOK(c)' /\ SentOK(c)'
    BY <1>1, <2>2, <2>4, ProvisionersStay, SentStays
  <2>6. AnswerShapes' /\ \A c \in Client : AnswerOK(c)'
    BY <1>1, <1>5, AnswersStay DEF Up, cancelled
  <2> QED
    BY <1>4, <2>3, <2>5, <2>6 DEF AnswerInv
<1>6. CASE \E place \in {"text", "reset"} :
             /\ prot \in {"KILL", "IP", "NAT", "RESET_COUNTERS"} /\ place \in PlaceOf(prot)
             /\ Stay(acceptor, place) /\ UNCHANGED reply
  <2>1. PICK place \in {"text", "reset"} :
          /\ prot \in {"KILL", "IP", "NAT", "RESET_COUNTERS"} /\ place \in PlaceOf(prot)
          /\ Stay(acceptor, place) /\ UNCHANGED reply
    BY <1>6
  <2>2. /\ pc'[acceptor] = place /\ UNCHANGED <<serving, prot, ports>>
        /\ \A c \in Client : pc'[c] = pc[c]
    BY <2>1, Threads DEF Stay, Goto, local, Invariants, ConnectionInv, Shapes
  <2>3. prot = request[b].op /\ sent[b] > 0
    BY <1>3, <2>1
  <2>4. AskedOK'
    BY <1>1, <1>2, <1>3, <2>1, <2>2, <2>3 DEF AskedOK, Named, Chain
  <2> QED
    BY <1>1, <2>1, <2>2, <2>4, AcceptorAside
<1>7. CASE /\ prot = "UNKNOWN" /\ leave(acceptor)
           /\ reply' = [reply EXCEPT ![serving] = <<"ERR", "PROTOCOL">>]
  <2>1. /\ pc'[acceptor] = "accept" /\ ports' = <<>>
        /\ \A c \in Client : pc'[c] = pc[c]
    BY <1>7, Threads DEF leave, Invariants, ConnectionInv, Shapes
  <2>2. AskedOK'
    BY <2>1, Idles
  <2>3. \A c \in Client : ProvisionerOK(c)' /\ SentOK(c)'
    BY <1>1, <2>1, SentStays DEF AnswerInv, ProvisionerOK, Silent
  <2>4. AnswerShapes' /\ \A c \in Client : AnswerOK(c)'
    <3>1. <<"ERR", "PROTOCOL">> # <<>> /\ Head(<<"ERR", "PROTOCOL">>) = "ERR"
      OBVIOUS
    <3>2. reply' = [reply EXCEPT ![clientOf(acceptor)] = <<"ERR", "PROTOCOL">>]
      BY <1>2, <1>7
    <3>3. (cancelled => cancelled') /\ UNCHANGED <<effect, told, cpc, request>>
      BY <1>1 DEF cancelled
    <3> QED
      BY <1>2, <3>1, <3>2, <3>3, Refuses, Threads
  <2> QED
    BY <1>4, <2>2, <2>3, <2>4 DEF AnswerInv
<1> QED
  <2>1. takeUp
    BY DEF switch
  <2>2. CASE prot = "RESET_COUNTERS" /\ Stay(acceptor, "reset") /\ UNCHANGED reply
    BY <1>6, <2>2 DEF PlaceOf
  <2>3. CASE prot \in {"KILL", "IP", "NAT"} /\ Stay(acceptor, "text") /\ UNCHANGED reply
    BY <1>6, <2>3 DEF PlaceOf
  <2> QED
    BY <1>5, <1>7, <2>1, <2>2, <2>3 DEF takeUp

\* After an accept that failed nobody is answered.
LEMMA SwitchNobodyAnswers ==
  ASSUME Invariants, AnswerInv, Up, switch, serving = none
  PROVE  AnswerInv'
<1>1. prot \notin {"KILL", "IP", "NAT", "RESET_COUNTERS", "UNKNOWN"}
  BY Threads DEF switch, Invariants, ConnectionInv, AcceptorOK
<1>2. /\ leave(acceptor)
      /\ UNCHANGED <<effect, reply, told, sent, cpc, request, daemon, handler>>
  BY <1>1 DEF switch, takeUp, client, host
<1>3. /\ pc'[acceptor] = "accept" /\ ports' = <<>>
      /\ \A c \in Client : pc'[c] = pc[c]
  BY <1>2, Threads DEF leave, Invariants, ConnectionInv, Shapes
<1> QED
  BY <1>2, <1>3, Idles, AcceptorAside

-----------------------------------------------------------------------------
(* The requests. *)

\* What the acceptor has come to know of its request.
LEMMA Knows ==
  ASSUME Invariants, AnswerInv, pc[acceptor] \in {"text", "reset"} \union Named
  PROVE  /\ Working(acceptor) /\ clientOf(acceptor) = serving
         /\ serving \in Client /\ request[serving] \in Requests(serving)
         /\ sent[serving] \in Nat /\ SentOK(serving) /\ cpc[serving] # "idle"
         /\ prot = request[serving].op /\ sent[serving] > 0
         /\ pc[acceptor] \in PlaceOf(prot)
         /\ pc[acceptor] \in Named =>
              /\ sent[serving] > 2
              /\ \E k \in 1..Len(request[serving].text) :
                   text[acceptor] = Part(request[serving].text, k)
<1>1. Working(acceptor) /\ clientOf(acceptor) = serving
  BY AtWork DEF Invariants, Named, clientOf
<1> QED
  BY <1>1, Caller, Threads DEF AnswerInv, AskedOK

\* The acceptor has answered and closed.
LEMMA AcceptorDone ==
  ASSUME Invariants, AnswerInv, Up, NEW units, finish(acceptor, units),
         UNCHANGED <<sent, cpc, request, daemon, handler>>,
         AnswerShapes', \A c \in Client : AnswerOK(c)'
  PROVE  AnswerInv'
<1>1. /\ pc'[acceptor] = "accept" /\ ports' = <<>>
      /\ \A c \in Client : pc'[c] = pc[c]
  BY Threads DEF finish, leave, Invariants, ConnectionInv, Shapes
<1>2. AskedOK'
  BY <1>1, Idles
<1>3. \A c \in Client : ProvisionerOK(c)' /\ SentOK(c)'
  BY <1>1, SentStays DEF AnswerInv, ProvisionerOK, Silent
<1>4. AbortOK'
  BY NotAborted DEF Up
<1> QED
  BY <1>2, <1>3, <1>4 DEF AnswerInv

LEMMA AcceptorRefuses ==
  ASSUME Invariants, AnswerInv, Up, Working(acceptor), refuse(acceptor),
         UNCHANGED <<effect, told, sent, cpc, request, daemon, handler>>
  PROVE  AnswerInv'
<1> DEFINE units == <<"ERR", "NOT_FOUND">>
<1>1. units # <<>> /\ Head(units) = "ERR" /\ (cancelled => cancelled')
  BY DEF cancelled
<1>2. finish(acceptor, units) /\ reply' = [reply EXCEPT ![clientOf(acceptor)] = units]
  BY DEF refuse, finish
<1> HIDE DEF units
<1>3. AnswerShapes' /\ \A c \in Client : AnswerOK(c)'
  BY <1>1, <1>2, Refuses, Threads
<1> QED
  BY <1>2, <1>3, AcceptorDone

\* The last step of a handler carries out what was asked for, as far as its client
\* lives, or the same for another VM; by then all of the request was heard, or a part
\* of the name.
LEMMA Grants ==
  ASSUME Invariants, AnswerInv, Up, pc[acceptor] \in {"kill", "ip", "reset", "OUTPUT"},
         NEW units, units # <<>>, finish(acceptor, units),
         NEW e, effect' = [effect EXCEPT ![serving] = e],
         Head(units) = Success(request[serving]),
         cpc[serving] # "dead" => e = Asked(request[serving]) \/ Astray(request[serving], e),
         pc[acceptor] = "OUTPUT" /\ text[acceptor] # request[serving].text =>
           Astray(request[serving], e),
         UNCHANGED <<told, sent, cpc, request, daemon, handler>>
  PROVE  AnswerInv'
<1>1. pc[acceptor] \in {"text", "reset"} \union Named
  BY DEF Named
<1>2. /\ Working(acceptor) /\ clientOf(acceptor) = serving
      /\ serving \in Client /\ request[serving] \in Requests(serving)
      /\ sent[serving] \in Nat /\ SentOK(serving) /\ cpc[serving] # "idle"
      /\ prot = request[serving].op /\ sent[serving] > 0
      /\ pc[acceptor] \in PlaceOf(prot)
      /\ pc[acceptor] \in Named => sent[serving] > 2
  BY <1>1, Knows
<1>3. /\ sent[serving] > 0 /\ request[serving].op \in {"RESET_COUNTERS", "UNKNOWN"} => Whole(serving)
      /\ sent[serving] > 2 /\ request[serving].op # "NAT" => Whole(serving)
      /\ sent[serving] > 3 + Len(request[serving].text) /\ request[serving].op = "NAT" =>
           Whole(serving)
  BY <1>2, Heard
<1>4. cpc[serving] = "write" => request[serving].op = "NAT" /\ Astray(request[serving], e)
  <2>1. CASE pc[acceptor] = "reset"
    <3>1. prot = "RESET_COUNTERS"
      BY <1>2, <2>1 DEF PlaceOf
    <3> QED
      BY <1>2, <1>3, <3>1 DEF SentOK
  <2>2. CASE pc[acceptor] \in {"kill", "ip"}
    <3>1. prot # "NAT" /\ sent[serving] > 2
      BY <1>2, <2>2 DEF PlaceOf, Named
    <3> QED
      BY <1>2, <1>3, <3>1 DEF SentOK
  <2>3. CASE pc[acceptor] = "OUTPUT"
    <3>1. prot = "NAT"
      BY <1>2, <2>3 DEF PlaceOf
    <3>2. CASE text[acceptor] # request[serving].text
      BY <1>2, <2>3, <3>1, <3>2
    <3>3. CASE text[acceptor] = request[serving].text
      <4>1. cpc[serving] # "dead" => Whole(serving)
        BY <1>2, <1>3, <2>3, <3>1, <3>3 DEF AnswerInv, AskedOK, Chain
      <4> QED
        BY <1>2, <4>1 DEF SentOK
    <3> QED
      BY <3>2, <3>3
  <2> QED
    BY <2>1, <2>2, <2>3
<1>5. AnswerShapes' /\ \A c \in Client : AnswerOK(c)'
  <2>1. reply' = [reply EXCEPT ![clientOf(acceptor)] = units]
    BY DEF finish
  <2>2. effect' = [effect EXCEPT ![clientOf(acceptor)] = e]
    BY <1>2
  <2>3. /\ cpc[clientOf(acceptor)] # "dead" =>
             IF Head(units) = Success(request[clientOf(acceptor)])
             THEN \/ e = Asked(request[clientOf(acceptor)])
                  \/ Astray(request[clientOf(acceptor)], e)
             ELSE e = <<>>
        /\ e # <<>> /\ cpc[clientOf(acceptor)] = "write" =>
             /\ request[clientOf(acceptor)].op = "NAT"
             /\ Astray(request[clientOf(acceptor)], e)
    BY <1>2, <1>4
  <2>4. (cancelled => cancelled') /\ UNCHANGED <<told, cpc, request>>
    BY DEF cancelled
  <2> QED
    BY <1>2, <2>1, <2>2, <2>3, <2>4, Answers, Threads
<1> QED
  BY <1>5, AcceptorDone

\* The handler of a named VM goes on if the VM is there, with a part of the name.
LEMMA NamedAnswers ==
  ASSUME Invariants, AnswerInv, Up, NEW op, NEW step,
         <<op, step>> \in {<<"KILL", "kill">>, <<"IP", "ip">>, <<"NAT", "host">>},
         treatNamed(op, step)
  PROVE  AnswerInv'
<1>1. /\ UNCHANGED <<effect, told, sent, cpc, request, daemon, handler>>
      /\ pc[acceptor] = "text" /\ prot = op
      /\ \E s \in receive(acceptor) :
           \/ Found(s) /\ Take(acceptor, s, step)
           \/ refuse(acceptor)
  BY DEF treatNamed, client, host, process
<1>2. CASE refuse(acceptor)
  BY <1>1, <1>2, AcceptorRefuses, AtWork DEF Invariants
<1>3. ASSUME NEW s \in receive(acceptor), Found(s), Take(acceptor, s, step) PROVE AnswerInv'
  <2> DEFINE r == request[serving]
  <2>1. /\ clientOf(acceptor) = serving /\ serving \in Client /\ r \in Requests(serving)
        /\ prot = r.op /\ sent[serving] > 0 /\ ports = <<>>
    BY <1>1, Knows DEF AnswerInv, AskedOK
  <2>2. PICK k \in 0..Len(r.text) :
          s = Part(r.text, k) /\ IF k = 0 THEN cpc[serving] = "dead" ELSE sent[serving] > 2
    BY <1>1, <1>3, <2>1, HeardPart, Threads
  <2>3. s # <<>>
    BY <1>3, NameAssumption DEF Found
  <2>4. k # 0
    BY <2>1, <2>2, <2>3, Empty
  <2>5. k \in 1..Len(r.text) /\ sent[serving] > 2
    BY <2>1, <2>2, <2>4, Units
  <2>6. /\ pc'[acceptor] = step /\ text'[acceptor] = s
        /\ \A c \in Client : pc'[c] = pc[c]
        /\ UNCHANGED <<serving, prot, ports, reply>>
    BY <1>3, Threads DEF Take, Goto, Invariants, ConnectionInv, Shapes, ForwardInv, HostShapes
  <2>7. step \in PlaceOf(op) /\ step \in {"kill", "ip", "host"}
    BY DEF PlaceOf
  <2>8. AskedOK'
    BY <1>1, <2>1, <2>2, <2>5, <2>6, <2>7 DEF AskedOK, Named, Chain
  <2> QED
    BY <1>1, <2>6, <2>8, AcceptorAside
<1> QED
  BY <1>1, <1>2, <1>3

LEMMA KillAnswers ==
  ASSUME Invariants, AnswerInv, Up, treatKill
  PROVE  AnswerInv'
<1>1. CASE treatNamed("KILL", "kill")
  BY <1>1, NamedAnswers
<1>2. CASE ~ treatNamed("KILL", "kill")
  <2>1. /\ pc[acceptor] = "kill" /\ finish(acceptor, <<"OK">>)
        /\ Effect(acceptor, <<"KILL", VM(acceptor)>>)
        /\ UNCHANGED <<told, sent, cpc, request, daemon, handler>>
    BY <1>2 DEF treatKill, client, process
  <2>2. /\ prot = "KILL" /\ prot = request[serving].op
        /\ serving \in Client /\ request[serving] \in Requests(serving)
        /\ \E k \in 1..Len(request[serving].text) :
             VM(acceptor) = Part(request[serving].text, k)
    BY <2>1, Knows DEF Named, PlaceOf, VM
  <2>3. effect' = [effect EXCEPT ![serving] = <<"KILL", VM(acceptor)>>]
    BY <2>1 DEF Effect, clientOf
  <2>4. <<"OK">> # <<>> /\ Head(<<"OK">>) = Success(request[serving])
    BY <2>2 DEF Success
  <2>5. \/ <<"KILL", VM(acceptor)>> = Asked(request[serving])
        \/ Astray(request[serving], <<"KILL", VM(acceptor)>>)
    <3> DEFINE e == <<"KILL", VM(acceptor)>>
    <3>1. e # <<>> /\ e[1] = request[serving].op /\ e[2] = VM(acceptor)
      BY <2>2
    <3>2. VM(acceptor) = request[serving].name \/ Astray(request[serving], e)
      <4> HIDE DEF e
      <4> QED
        BY <2>2, <3>1, Meant
    <3> QED
      BY <2>2, <3>2 DEF Asked
  <2> QED
    BY <2>1, <2>3, <2>4, <2>5, Grants
<1> QED
  BY <1>1, <1>2

LEMMA IpAnswers ==
  ASSUME Invariants, AnswerInv, Up, treatIp
  PROVE  AnswerInv'
<1>1. CASE treatNamed("IP", "ip")
  BY <1>1, NamedAnswers
<1>2. CASE ~ treatNamed("IP", "ip")
  <2> DEFINE units == <<"IP", 1, VM(acceptor)>>
  <2>1. /\ pc[acceptor] = "ip" /\ finish(acceptor, units)
        /\ Effect(acceptor, <<"IP", VM(acceptor)>>)
        /\ UNCHANGED <<told, sent, cpc, request, daemon, handler>>
    BY <1>2 DEF treatIp, client, process
  <2>2. /\ prot = "IP" /\ prot = request[serving].op
        /\ serving \in Client /\ request[serving] \in Requests(serving)
        /\ \E k \in 1..Len(request[serving].text) :
             VM(acceptor) = Part(request[serving].text, k)
    BY <2>1, Knows DEF Named, PlaceOf, VM
  <2>3. effect' = [effect EXCEPT ![serving] = <<"IP", VM(acceptor)>>]
    BY <2>1 DEF Effect, clientOf
  <2>4. units # <<>> /\ Head(units) = Success(request[serving])
    BY <2>2 DEF Success
  <2>5. \/ <<"IP", VM(acceptor)>> = Asked(request[serving])
        \/ Astray(request[serving], <<"IP", VM(acceptor)>>)
    <3> DEFINE e == <<"IP", VM(acceptor)>>
    <3>1. e # <<>> /\ e[1] = request[serving].op /\ e[2] = VM(acceptor)
      BY <2>2
    <3>2. VM(acceptor) = request[serving].name \/ Astray(request[serving], e)
      <4> HIDE DEF e
      <4> QED
        BY <2>2, <3>1, Meant
    <3> QED
      BY <2>2, <3>2 DEF Asked
  <2> HIDE DEF units
  <2> QED
    BY <2>1, <2>3, <2>4, <2>5, Grants
<1> QED
  BY <1>1, <1>2

LEMMA ResetAnswers ==
  ASSUME Invariants, AnswerInv, Up, treatResetCounters
  PROVE  AnswerInv'
<1>1. /\ pc[acceptor] = "reset" /\ finish(acceptor, <<"OK">>)
      /\ Effect(acceptor, <<"RESET_COUNTERS">>)
      /\ UNCHANGED <<told, sent, cpc, request, daemon, handler>>
  BY DEF treatResetCounters, client, process
<1>2. prot = "RESET_COUNTERS" /\ prot = request[serving].op
  BY <1>1, Knows DEF PlaceOf
<1>3. effect' = [effect EXCEPT ![serving] = <<"RESET_COUNTERS">>]
  BY <1>1 DEF Effect, clientOf
<1>4. /\ <<"OK">> # <<>> /\ Head(<<"OK">>) = Success(request[serving])
      /\ <<"RESET_COUNTERS">> = Asked(request[serving])
  BY <1>2 DEF Success, Asked
<1> QED
  BY <1>1, <1>3, <1>4, Grants

LEMMA Both ==
  ASSUME NEW a \in Nat, NEW b \in Nat
  PROVE  Append(<<a>>, b) = <<a, b>>
<1> DEFINE one == <<a>>
           l == Append(one, b)
<1>1. one \in Seq(Nat) /\ Len(one) = 1 /\ one[1] = a
  OBVIOUS
<1> HIDE DEF one
<1>2. l \in Seq(Nat)
  BY <1>1, AppendProperties
<1>3. Len(l) = Len(one) + 1
  BY <1>1, AppendProperties
<1>4. \A i \in 1..Len(one) : l[i] = one[i]
  BY <1>1, AppendProperties
<1>5. l[Len(one) + 1] = b
  BY <1>1, AppendProperties
<1> HIDE DEF l
<1>6. Len(one) + 1 = 2
  BY <1>1
<1>7. l[1] = a
  BY <1>1, <1>4
<1>8. Len(l) = 2 /\ l[2] = b
  BY <1>3, <1>5, <1>6, Zenon
<1>9. l = <<a, b>>
  BY <1>2, <1>7, <1>8
<1> QED
  BY <1>9 DEF l, one

LEMMA PortAnswers ==
  ASSUME Invariants, AnswerInv, Up, receivePort
  PROVE  AnswerInv'
<1> DEFINE r == request[serving]
<1>1. /\ UNCHANGED <<effect, reply, told, sent, cpc, request, daemon, handler, serving, prot, text>>
      /\ pc[acceptor] \in {"host", "guest"}
      /\ pc'[acceptor] = IF pc[acceptor] = "host" THEN "guest" ELSE "PREROUTING"
      /\ \A c \in Client : pc'[c] = pc[c]
  BY Threads DEF receivePort, client, host, process, Goto, Invariants, ConnectionInv, Shapes
<1>2. /\ Working(acceptor) /\ clientOf(acceptor) = serving /\ serving \in Client
      /\ r \in Requests(serving) /\ sent[serving] \in Nat
      /\ SentOK(serving) /\ cpc[serving] # "idle"
      /\ prot = r.op /\ sent[serving] > 0 /\ sent[serving] > 2
      /\ pc[acceptor] \in PlaceOf(prot)
      /\ \E k \in 1..Len(r.text) : text[acceptor] = Part(r.text, k)
  BY <1>1, Knows DEF Named
<1>3. prot = "NAT"
  BY <1>1, <1>2 DEF PlaceOf
<1>4. cpc[serving] # "done"
  BY <1>2, Caller, Threads
<1>5. PICK v \in receiveInt(acceptor, 0) : ports' = Append(ports, v)
  BY DEF receivePort
<1> DEFINE k == Len(r.text)
<1>6. /\ Program(r)[3 + k] = r.ports[1] /\ Program(r)[4 + k] = r.ports[2] /\ k \in Nat
      /\ r.ports \in Seq(Nat) /\ Len(r.ports) = 2
  BY <1>2, <1>3, Lengths, RequestAssumption
<1>7. ASSUME cpc[serving] # "dead", text[acceptor] = r.text
      PROVE  arrived(acceptor) > 0 /\ v = Unit(acceptor, 1)
  BY <1>2, <1>4, <1>5, <1>7 DEF receiveInt, Integer, cut, ended, gone
<1>8. ASSUME cpc[serving] # "dead", text[acceptor] = r.text, pc[acceptor] = "host"
      PROVE  sent[serving] > 2 + k /\ ports' = <<r.ports[1]>>
  <2>1. consumed(acceptor) = 2 + k /\ arrived(acceptor) = sent[serving] - (2 + k)
    BY <1>2, <1>8 DEF consumed, arrived
  <2> HIDE DEF k
  <2>2. 2 + k + 1 = 3 + k /\ 2 + k \in Nat
    BY <1>6
  <2>3. v = r.ports[1]
    BY <1>2, <1>6, <1>7, <1>8, <2>1, <2>2 DEF Unit
  <2>4. ports = <<>> /\ sent[serving] > 2 + k
    BY <1>2, <1>7, <1>8, <2>1, <2>2 DEF AnswerInv, AskedOK
  <2> QED
    BY <1>5, <2>3, <2>4
<1>9. ASSUME cpc[serving] # "dead", text[acceptor] = r.text, pc[acceptor] = "guest"
      PROVE  sent[serving] > 3 + k /\ ports' = r.ports
  <2>1. consumed(acceptor) = 3 + k /\ arrived(acceptor) = sent[serving] - (3 + k)
    BY <1>2, <1>9 DEF consumed, arrived
  <2>2. ports = <<r.ports[1]>>
    BY <1>9 DEF AnswerInv, AskedOK
  <2> HIDE DEF k
  <2>3. 3 + k + 1 = 4 + k /\ 3 + k \in Nat
    BY <1>6
  <2>4. v = r.ports[2] /\ sent[serving] > 3 + k
    BY <1>2, <1>6, <1>7, <1>9, <2>1, <2>3 DEF Unit
  <2>5. Append(<<r.ports[1]>>, r.ports[2]) = <<r.ports[1], r.ports[2]>>
    <3>1. r.ports[1] \in Nat /\ r.ports[2] \in Nat
      BY <1>6
    <3> QED
      BY <3>1, Both
  <2>6. r.ports = <<r.ports[1], r.ports[2]>>
    BY <1>6
  <2> QED
    BY <1>5, <2>2, <2>4, <2>5, <2>6
<1>10. AskedOK'
  <2>1. CASE pc[acceptor] = "host"
    BY <1>1, <1>2, <1>3, <1>8, <2>1 DEF AskedOK, PlaceOf, Named, Chain
  <2>2. CASE pc[acceptor] = "guest"
    BY <1>1, <1>2, <1>3, <1>9, <2>2 DEF AskedOK, PlaceOf, Named, Chain
  <2> QED
    BY <1>1, <2>1, <2>2
<1> QED
  BY <1>1, <1>10, AcceptorAside

\* How its commands end makes no difference to the answer.
LEMMA OpenNatAnswers ==
  ASSUME Invariants, AnswerInv, Up, openNat
  PROVE  AnswerInv'
<1>1. CASE insert("PREROUTING", Stay(acceptor, "OUTPUT")) /\ UNCHANGED <<effect, fd, reply>>
  <2>1. /\ UNCHANGED <<effect, reply, told, sent, cpc, request, daemon, handler>>
        /\ UNCHANGED <<serving, prot, text, ports>> /\ pc[acceptor] = "PREROUTING"
        /\ pc'[acceptor] = "OUTPUT" /\ \A c \in Client : pc'[c] = pc[c]
    BY <1>1, Threads DEF insert, Stay, Goto, local, client, process,
                         Invariants, ConnectionInv, Shapes
  <2>2. /\ prot = request[serving].op /\ sent[serving] > 0 /\ sent[serving] > 2
        /\ pc[acceptor] \in PlaceOf(prot)
        /\ \E k \in 1..Len(request[serving].text) :
             text[acceptor] = Part(request[serving].text, k)
    BY <2>1, Knows DEF Named
  <2>3. prot = "NAT"
    BY <2>1, <2>2 DEF PlaceOf
  <2>4. cpc[serving] # "dead" /\ text[acceptor] = request[serving].text =>
          /\ sent[serving] > 3 + Len(request[serving].text)
          /\ ports = request[serving].ports
    BY <2>1 DEF AnswerInv, AskedOK, Chain
  <2>5. AskedOK'
    BY <2>1, <2>2, <2>3, <2>4 DEF AskedOK, PlaceOf, Named, Chain
  <2> QED
    BY <2>1, <2>5, AcceptorAside
<1>2. CASE /\ insert("OUTPUT", finish(acceptor, <<"OK">>))
           /\ Effect(acceptor, <<"NAT", VM(acceptor), ports>>)
  <2>1. /\ pc[acceptor] = "OUTPUT" /\ finish(acceptor, <<"OK">>)
        /\ UNCHANGED <<told, sent, cpc, request, daemon, handler>>
    BY <1>2 DEF insert, client, process
  <2> DEFINE r == request[serving]
             e == <<"NAT", VM(acceptor), ports>>
  <2>2. /\ prot = "NAT" /\ prot = r.op /\ serving \in Client /\ r \in Requests(serving)
        /\ \E k \in 1..Len(r.text) : VM(acceptor) = Part(r.text, k)
    BY <2>1, Knows DEF Named, PlaceOf, VM
  <2>3. effect' = [effect EXCEPT ![serving] = e]
    BY <1>2 DEF Effect, clientOf
  <2>4. cpc[serving] # "dead" /\ VM(acceptor) = r.text => ports = r.ports
    BY <2>1 DEF AnswerInv, AskedOK, Chain, VM
  <2>5. (VM(acceptor) = r.text /\ VM(acceptor) = r.name) \/ Astray(r, e)
    <3>1. e # <<>> /\ e[1] = r.op /\ e[2] = VM(acceptor)
      BY <2>2
    <3> HIDE DEF e, r
    <3>2. r.op \in {"KILL", "IP", "NAT"} /\ serving \in Client /\ r \in Requests(serving)
      BY <2>2
    <3> QED
      BY <2>2, <3>1, <3>2, Meant
  <2>6. /\ <<"OK">> # <<>> /\ Head(<<"OK">>) = Success(r)
        /\ cpc[serving] # "dead" => e = Asked(r) \/ Astray(r, e)
        /\ text[acceptor] # r.text => Astray(r, e)
    BY <2>2, <2>4, <2>5 DEF Success, Asked, VM
  <2> HIDE DEF e
  <2> QED
    BY <2>1, <2>3, <2>6, Grants
<1> QED
  BY <1>1, <1>2 DEF openNat

-----------------------------------------------------------------------------
(* The threads that provision. *)

\* What a thread provisions is the VM of its request.
LEMMA Makes ==
  ASSUME Invariants, AnswerInv, NEW c \in Client, pc[c] = "provision"
  PROVE  LET cfg == Configuration(text[c])
             r == request[c]
         IN /\ r \in Requests(c) /\ r.op = "PROVISION" /\ cfg.name = r.name
            /\ \E k \in 0..Len(r.text) : text[c] = Part(r.text, k) /\ cfg.status = "vm"
            /\ cpc[c] # "write"
<1> DEFINE r == request[c]
           cfg == Configuration(text[c])
<1>1. /\ r \in Requests(c) /\ sent[c] \in Nat /\ SentOK(c) /\ cpc[c] # "idle"
  BY Caller, Threads DEF Working, clientOf
<1>2. cfg.status = "vm" /\ \E k \in 0..Len(r.text) : text[c] = Part(r.text, k)
  BY DEF Invariants, ForwardInv, ProvisionOK
<1>3. r.op = "PROVISION" /\ cfg.name = r.name
  BY <1>1, <1>2, ConfigurationAssumption
<1>4. Whole(c)
  <2>1. sent[c] > 2
    BY DEF AnswerInv, ProvisionerOK
  <2> QED
    BY <1>1, <1>3, <2>1, Heard
<1> QED
  BY <1>1, <1>2, <1>3, <1>4 DEF SentOK

LEMMA ProvisioningAnswers ==
  ASSUME Invariants, AnswerInv, Up, NEW c \in Client, Provisioning(c)
  PROVE  AnswerInv'
<1>1. /\ UNCHANGED <<told, sent, cpc, request, handler>>
      /\ Working(c) /\ clientOf(c) = c /\ c \in Thread /\ c # acceptor
  BY Threads DEF Provisioning, treatProvision, provision, client, host, process, Working, clientOf
<1>2. /\ (cancelled => cancelled')
      /\ \A b \in Client : SentOK(b)'
  BY <1>1, SentStays DEF cancelled
\* The thread answers.
<1>3. ASSUME NEW units, finish(c, units), UNCHANGED daemon,
             AnswerShapes', \A b \in Client : AnswerOK(b)'
      PROVE  AnswerInv'
  <2>1. /\ \A t \in Thread : pc'[t] = IF t = c THEN "idle" ELSE pc[t]
        /\ text'[acceptor] = text[acceptor] /\ UNCHANGED <<serving, prot, ports>>
    BY <1>1, <1>3, Threads DEF finish, leave, Invariants, ConnectionInv, Shapes,
                               ForwardInv, HostShapes
  <2>2. AskedOK'
    BY <1>1, <2>1, AskedStays, Threads
  <2>3. \A b \in Client : ProvisionerOK(b)'
    <3>1. ProvisionerOK(c)'
      BY <1>1, <2>1 DEF ProvisionerOK
    <3>2. \A b \in Client : b # c => pc'[b] = pc[b]
      BY <2>1, Threads
    <3> QED
      BY <1>1, <3>1, <3>2, ProvisionersStay
  <2>4. AbortOK'
    BY <1>3, NotAborted DEF Up
  <2> QED
    BY <1>2, <1>3, <2>2, <2>3, <2>4 DEF AnswerInv
<1>4. ASSUME refuse(c), UNCHANGED <<effect, daemon>> PROVE AnswerInv'
  <2> DEFINE units == <<"ERR", "NOT_FOUND">>
  <2>1. units # <<>> /\ Head(units) = "ERR"
    OBVIOUS
  <2>2. finish(c, units) /\ reply' = [reply EXCEPT ![clientOf(c)] = units]
    BY <1>4 DEF refuse, finish
  <2> HIDE DEF units
  <2>3. AnswerShapes' /\ \A b \in Client : AnswerOK(b)'
    BY <1>1, <1>2, <1>4, <2>1, <2>2, Refuses
  <2> QED
    BY <1>3, <1>4, <2>2, <2>3
\* The thread has received its file: it goes on, or its exception ends the daemon.
<1>5. ASSUME NEW s \in receive(c), pc[c] = "text", NEW step \in {"text", "provision"},
             Take(c, s, step), UNCHANGED effect,
             step = "provision" => Configuration(s).status = "vm" /\ UNCHANGED daemon,
             step = "text" =>
               /\ Configuration(s).status \in {"config_error", "invalid_argument"}
               /\ daemon' = "aborted"
      PROVE  AnswerInv'
  <2> DEFINE r == request[c]
  <2>1. /\ \A t \in Thread : pc'[t] = IF t = c THEN step ELSE pc[t]
        /\ text'[c] = s /\ text'[acceptor] = text[acceptor]
        /\ UNCHANGED <<serving, prot, ports, reply>>
    BY <1>1, <1>5, Threads DEF Take, Goto, Invariants, ConnectionInv, Shapes,
                               ForwardInv, HostShapes
  <2>2. r \in Requests(c) /\ c \in Client
    BY <1>1, Caller
  <2>3. PICK k \in 0..Len(r.text) :
          s = Part(r.text, k) /\ IF k = 0 THEN cpc[c] = "dead" ELSE sent[c] > 2
    BY <1>1, <1>5, HeardPart
  <2>4. k # 0 /\ sent[c] > 2
    BY <1>5, <2>2, <2>3, Empty
  <2>5. sent[c] \in Nat /\ ~ Silent(c)
    BY <2>2, <2>4 DEF Silent, Invariants, ForwardInv, HostShapes
  <2>6. r.op = "PROVISION"
    BY <1>5, <2>5 DEF AnswerInv, ProvisionerOK
  <2>7. AskedOK'
    BY <1>1, <2>1, AskedStays, Threads
  <2>8. \A b \in Client : ProvisionerOK(b)'
    <3>1. ProvisionerOK(c)'
      BY <1>1, <2>4, <2>6 DEF ProvisionerOK
    <3>2. \A b \in Client : b # c => pc'[b] = pc[b]
      BY <2>1, Threads
    <3> QED
      BY <1>1, <3>1, <3>2, ProvisionersStay
  <2>9. AnswerShapes' /\ \A b \in Client : AnswerOK(b)'
    BY <1>1, <1>2, <1>5, <2>1, AnswersStay DEF Up
  <2>10. AbortOK'
    <3>1. CASE step = "provision"
      BY <1>5, <3>1, NotAborted DEF Up
    <3>2. CASE step = "text"
      <4>1. pc'[c] = "text" /\ text'[c] = s /\ request'[c] = r
        BY <1>1, <2>1, <3>2
      <4>2. s # <<>>
        <5>1. Configuration(<<>>).status = "refused"
          BY <2>2, Empty
        <5> QED
          BY <1>5, <3>2, <5>1
      <4>3. WholeFilesRead => r.settings = none \/ s # r.text
        <5>1. SUFFICES ASSUME WholeFilesRead, r.settings # none, s = r.text PROVE FALSE
          OBVIOUS
        <5>2. /\ r.text = Part(r.text, Len(r.text)) /\ Len(r.text) \in 0..Len(r.text)
          BY <2>2, Empty, Units
        <5>3. Configuration(Part(r.text, Len(r.text))).status = "vm"
          BY <2>2, <2>6, <5>1 DEF WholeFilesRead
        <5> QED
          BY <1>5, <3>2, <5>1, <5>2, <5>3
      <4> QED
        BY <1>5, <2>6, <3>2, <4>1, <4>2, <4>3 DEF AbortOK, OnlyProvisioningEnds, WholeFilesRead
    <3> QED
      BY <3>1, <3>2
  <2> QED
    BY <1>2, <2>7, <2>8, <2>9, <2>10 DEF AnswerInv
<1>6. CASE treatProvision(c)
  <2>1. UNCHANGED effect /\ pc[c] = "text"
    BY <1>6 DEF treatProvision, host
  <2>2. PICK s \in receive(c) :
          \/ /\ Configuration(s).status \in {"config_error", "invalid_argument"}
             /\ daemon' = "aborted" /\ Take(c, s, "text")
          \/ refuse(c) /\ UNCHANGED daemon
          \/ Configuration(s).status = "vm" /\ Take(c, s, "provision") /\ UNCHANGED daemon
    BY <1>6 DEF treatProvision
  <2> QED
    BY <1>4, <1>5, <2>1, <2>2
<1>7. CASE provision(c)
  <2> DEFINE name == Configuration(text[c]).name
             units == <<"IP", 1, name>>
             e == <<"PROVISION", name>>
  <2>1. pc[c] = "provision"
    BY <1>7 DEF provision
  <2>2. /\ request[c].op = "PROVISION" /\ name = request[c].name /\ cpc[c] # "write"
    BY <2>1, Makes
  <2>3. CASE refuse(c) /\ UNCHANGED <<effect, daemon>>
    BY <1>4, <2>1, <2>3
  <2>4. CASE finish(c, units) /\ Effect(c, e) /\ UNCHANGED daemon
    <3>1. /\ units # <<>> /\ Head(units) = Success(request[c])
          /\ e = Asked(request[c])
      BY <2>2 DEF Success, Asked
    <3> HIDE DEF units, e
    <3>2. /\ reply' = [reply EXCEPT ![clientOf(c)] = units]
          /\ effect' = [effect EXCEPT ![clientOf(c)] = e]
      BY <2>4 DEF finish, Effect
    <3>3. AnswerShapes' /\ \A b \in Client : AnswerOK(b)'
      BY <1>1, <1>2, <2>2, <3>1, <3>2, Answers
    <3> QED
      BY <1>3, <2>4, <3>3
\* provision does not come back.
  <2>5. CASE UNCHANGED <<effect, pc, text, serving, prot, ports, reply>>
    <3>1. AskedOK' /\ \A b \in Client : ProvisionerOK(b)'
      BY <1>1, <2>5 DEF AnswerInv, AskedOK, ProvisionerOK, Silent
    <3>2. AnswerShapes' /\ \A b \in Client : AnswerOK(b)'
      BY <1>1, <1>2, <2>5, AnswersStay DEF Up
    <3>3. text[c] # <<>>
      <4>1. \E k \in 0..Len(request[c].text) : Configuration(text[c]).status = "vm"
        BY <2>1, Makes
      <4>2. Configuration(<<>>).status = "refused"
        BY <2>1, Makes, Empty
      <4> QED
        BY <4>1, <4>2
    <3>4. AbortOK'
      BY <1>1, <2>1, <2>2, <2>5, <3>3 DEF AbortOK, OnlyProvisioningEnds
    <3> QED
      BY <1>2, <3>1, <3>2, <3>4 DEF AnswerInv
  <2> QED
    BY <1>7, <2>3, <2>4, <2>5 DEF provision
<1> QED
  BY <1>6, <1>7 DEF Provisioning

-----------------------------------------------------------------------------
(* The end of the daemon. *)

LEMMA StopAnswers ==
  ASSUME Invariants, AnswerInv, Up, interrupt \/ Stopping \/ cancel
  PROVE  AnswerInv'
<1>1. /\ UNCHANGED <<effect, reply, told, sent, cpc, request, text, serving, prot, ports>>
      /\ cancelled'
  BY DEF interrupt, Stopping, killAllRunningDomains, disconnect, cancel, cancelled,
         client, local, host
<1>2. \/ UNCHANGED pc
      \/ pc'[acceptor] = "dead" /\ \A c \in Client : pc'[c] = pc[c]
  <2>1. CASE interrupt \/ Stopping
    BY <2>1 DEF interrupt, Stopping, killAllRunningDomains, disconnect
  <2>2. CASE cancel
    BY <2>2, Threads DEF cancel, Goto, Invariants, ConnectionInv, Shapes
  <2> QED
    BY <2>1, <2>2
<1>3. AskedOK'
  <2>1. CASE UNCHANGED pc
    BY <1>1, <2>1, AskedStays
  <2>2. CASE pc'[acceptor] = "dead"
    BY <2>2 DEF AskedOK, Named, Chain
  <2> QED
    BY <1>2, <2>1, <2>2
<1>4. AnswerShapes' /\ \A c \in Client : AnswerOK(c)'
  BY <1>1, AnswersStay
<1>5. \A c \in Client : SentOK(c)' /\ ProvisionerOK(c)'
  BY <1>1, <1>2, SentStays DEF AnswerInv, ProvisionerOK, Silent
<1>6. AbortOK'
  BY <1>1, NotAborted
<1> QED
  BY <1>3, <1>4, <1>5, <1>6 DEF AnswerInv

-----------------------------------------------------------------------------
LEMMA AnswerInvariant == Spec => []AnswerInv
<1>1. Init => AnswerInv
  <2> SUFFICES ASSUME Init PROVE AnswerInv
    OBVIOUS
  <2>1. AnswerShapes /\ AbortOK
    BY DEF Init, AnswerShapes, AbortOK, OnlyProvisioningEnds, Up
  <2>2. AskedOK
    BY Threads DEF Init, AskedOK, Named, Chain
  <2>3. ASSUME NEW c \in Client PROVE SentOK(c) /\ ProvisionerOK(c) /\ AnswerOK(c)
    BY Threads, NoneAssumption DEF Init, SentOK, ProvisionerOK, AnswerOK
  <2> QED
    BY <2>1, <2>2, <2>3 DEF AnswerInv
<1>2. Invariants /\ AnswerInv /\ [Next]_vars => AnswerInv'
  <2> SUFFICES ASSUME Invariants, AnswerInv, [Next]_vars PROVE AnswerInv'
    OBVIOUS
  <2>1. ASSUME NEW c \in Client, \E r \in Requests(c) : connect(c, r) PROVE AnswerInv'
    BY <2>1, ConnectAnswers
  <2>2. ASSUME NEW c \in Client, write(c) \/ read(c) \/ die(c) PROVE AnswerInv'
    BY <2>2, WriteAnswers, ReadAnswers
  <2>3. CASE Up /\ Accepting
    <3>1. CASE start \/ accept \/ acceptFails \/ info
      BY <2>3, <3>1, StartAnswers
    <3>2. CASE receiveProtocol \/ switch
      BY <2>3, <3>2, ProtocolAnswers, SwitchAnswers, SwitchNobodyAnswers
    <3>3. CASE treatKill \/ treatIp \/ treatResetCounters
      BY <2>3, <3>3, KillAnswers, IpAnswers, ResetAnswers
    <3>4. CASE treatNat
      <4>1. CASE treatNamed("NAT", "host")
        BY <2>3, <4>1, NamedAnswers
      <4>2. CASE receivePort \/ openNat
        BY <2>3, <4>2, PortAnswers, OpenNatAnswers
      <4> QED
        BY <3>4, <4>1, <4>2 DEF treatNat
    <3>5. CASE cancel
      BY <2>3, <3>5, StopAnswers
    <3> QED
      BY <2>3, <3>1, <3>2, <3>3, <3>4, <3>5 DEF Accepting
  <2>4. ASSUME Up, NEW c \in Client, Provisioning(c) PROVE AnswerInv'
    BY <2>4, ProvisioningAnswers
  <2>5. CASE Up /\ (interrupt \/ Stopping)
    BY <2>5, StopAnswers
  <2>6. CASE UNCHANGED vars
    BY <2>6 DEF vars, client, local, host, process, AnswerInv, AnswerShapes, AskedOK,
                AbortOK, OnlyProvisioningEnds, WholeFilesRead, SentOK, ProvisionerOK, AnswerOK,
                Whole, Silent, Up, cancelled
  <2> QED
    BY <2>1, <2>2, <2>3, <2>4, <2>5, <2>6 DEF Next
<1> QED
  BY <1>1, <1>2, ConnectionInvariant, ForwardInvariant, PTL DEF Spec, Invariants

\* A client that prints a success was served what it asked for, on the VM and the
\* ports that it named, or the same on a VM whose name is the first part of that name,
\* if this part was received; one that prints an error has changed nothing, as long as
\* the daemon is not stopped, except the ports of that VM: whatever other clients do,
\* of whatever parts a file or a name is received, whoever dies and whichever
\* provisioning, command or accept fails.
THEOREM AnswersAreTrue == Spec => []AnswerIsTrue
<1>1. AnswerInv => AnswerIsTrue
  BY DEF AnswerInv, AnswerOK, AnswerIsTrue, Astray, Mistaken
<1> QED
  BY <1>1, AnswerInvariant, PTL

\* The daemon that nobody stops is ended by nothing but a provisioning: by an exception
\* of the parser, for a file that is malformed or of which a part was received, or by
\* the chmod or the directories of one that is under way.  What another request, a name
\* that is unknown or cut, an accept that fails or a client that has died leaves of its
\* text never ends it.
THEOREM OnlyProvisioningsEnd ==
  ASSUME WholeFilesRead PROVE Spec => []OnlyProvisioningEnds
<1>1. AnswerInv => OnlyProvisioningEnds
  BY DEF AnswerInv, AbortOK
<1> QED
  BY <1>1, AnswerInvariant, PTL

\* Whatever of a file was received (treatProvision reads once): a VM that is made of
\* it has the name and the image of the whole file, and all of its settings if the
\* file came whole.  Of a malformed file, here, no part makes a VM: it states none.
THEOREM FilesAreObeyed ==
  ASSUME WholeFilesRead,
         \A c \in Client : \A r \in Requests(c) : \A k \in 0..Len(r.text) :
           LET cfg == Configuration(Part(r.text, k)) IN
           cfg.status = "vm" => r.settings # none /\ cfg.settings.image = r.settings.image
  PROVE  Spec => ProvisionedAsWritten
<1> DEFINE Obeyed(c) ==
             effect'[c] # effect[c] /\ effect'[c][1] = "PROVISION" =>
               /\ effect'[c][2] = request[c].name
               /\ vms'[request[c].name].image = request[c].settings.image
               /\ text[c] = request[c].text => vms'[request[c].name] = request[c].settings
<1>1. ASSUME Invariants, AnswerInv, Next, NEW c \in Client PROVE Obeyed(c)
  <2>1. ASSUME UNCHANGED effect PROVE Obeyed(c)
    BY <2>1
  <2>2. ASSUME NEW b, NEW e, effect' = [effect EXCEPT ![b] = e], e[1] # "PROVISION"
        PROVE  Obeyed(c)
    <3>1. effect'[c] = IF c = b THEN e ELSE effect[c]
      BY <1>1, <2>2 DEF AnswerInv, AnswerShapes
    <3> QED
      BY <2>2, <3>1
  <2>3. ASSUME NEW b \in Client, provision(b) PROVE Obeyed(c)
    <3> DEFINE cfg == Configuration(text[b])
               name == cfg.name
               r == request[b]
    <3>1. /\ r \in Requests(b) /\ r.op = "PROVISION" /\ name = r.name
          /\ \E k \in 0..Len(r.text) : text[b] = Part(r.text, k) /\ cfg.status = "vm"
      BY <1>1, <2>3, Makes DEF provision
    <3>2. PICK k \in 0..Len(r.text) : text[b] = Part(r.text, k) /\ cfg.status = "vm"
      BY <3>1
    <3>3. r.settings # none /\ name \in Name
      BY <3>1, <3>2, RequestAssumption
    <3>4. cfg.settings.image = r.settings.image
      BY <3>1, <3>2
    <3>5. text[b] = r.text => cfg.settings = r.settings
      <4>1. Part(r.text, Len(r.text)) = r.text /\ Len(r.text) \in 0..Len(r.text)
        BY <3>1, Empty, Units
      <4> QED
        BY <3>1, <3>3, <4>1 DEF WholeFilesRead
    <3> HIDE DEF cfg
    <3>6. \/ UNCHANGED effect
          \/ /\ effect' = [effect EXCEPT ![b] = <<"PROVISION", name>>]
             /\ vms' = [vms EXCEPT ![name] = cfg.settings]
      BY <2>3, Threads DEF provision, Effect, clientOf, cfg
    <3>7. CASE /\ effect' = [effect EXCEPT ![b] = <<"PROVISION", name>>]
               /\ vms' = [vms EXCEPT ![name] = cfg.settings]
      <4>1. effect'[c] = IF c = b THEN <<"PROVISION", name>> ELSE effect[c]
        BY <1>1, <3>7 DEF AnswerInv, AnswerShapes
      <4>2. vms'[name] = cfg.settings
        BY <1>1, <3>3, <3>7 DEF Invariants, ForwardInv, HostShapes
      <4> QED
        BY <3>1, <3>4, <3>5, <4>1, <4>2
    <3> QED
      BY <2>1, <3>6, <3>7
  <2>4. CASE \E b \in Client :
               (\E r \in Requests(b) : connect(b, r)) \/ write(b) \/ read(b) \/ die(b)
    <3>1. UNCHANGED effect
      BY <2>4 DEF connect, write, read, die, host
    <3> QED
      BY <2>1, <3>1
  <2>5. CASE Accepting
    <3>1. CASE start \/ accept \/ acceptFails \/ receiveProtocol \/ info \/ switch \/ cancel
      <4>1. UNCHANGED effect
        BY <3>1 DEF start, accept, acceptFails, receiveProtocol, info, switch, cancel, host
      <4> QED
        BY <2>1, <4>1
    <3>2. ASSUME NEW op, NEW step, treatNamed(op, step) PROVE Obeyed(c)
      BY <2>1, <3>2 DEF treatNamed, host
    <3>3. CASE treatKill
      <4>1. CASE treatNamed("KILL", "kill")
        BY <3>2, <4>1
      <4>2. CASE Effect(acceptor, <<"KILL", VM(acceptor)>>)
        BY <2>2, <4>2 DEF Effect
      <4> QED
        BY <3>3, <4>1, <4>2 DEF treatKill
    <3>4. CASE treatIp
      <4>1. CASE treatNamed("IP", "ip")
        BY <3>2, <4>1
      <4>2. CASE Effect(acceptor, <<"IP", VM(acceptor)>>)
        BY <2>2, <4>2 DEF Effect
      <4> QED
        BY <3>4, <4>1, <4>2 DEF treatIp
    <3>5. CASE treatResetCounters
      BY <2>2, <3>5 DEF treatResetCounters, Effect
    <3>6. CASE receivePort \/ openNat
      <4>1. CASE UNCHANGED effect
        BY <2>1, <4>1
      <4>2. CASE Effect(acceptor, <<"NAT", VM(acceptor), ports>>)
        BY <2>2, <4>2 DEF Effect
      <4> QED
        BY <3>6, <4>1, <4>2 DEF receivePort, openNat, host
    <3> QED
      BY <2>5, <3>1, <3>2, <3>3, <3>4, <3>5, <3>6 DEF Accepting, treatNat
  <2>6. CASE \E b \in Client : treatProvision(b)
    BY <2>1, <2>6 DEF treatProvision, host
  <2>7. CASE interrupt \/ Stopping
    <3>1. UNCHANGED effect
      BY <2>7 DEF interrupt, Stopping, killAllRunningDomains, disconnect, host
    <3> QED
      BY <2>1, <3>1
  <2> HIDE DEF Obeyed
  <2> QED
    BY <1>1, <2>3, <2>4, <2>5, <2>6, <2>7 DEF Next, Provisioning
<1>2. Invariants /\ AnswerInv /\ [Next]_vars => [\A c \in Client : Obeyed(c)]_vars
  BY <1>1
<1> QED
  BY <1>2, ConnectionInvariant, ForwardInvariant, AnswerInvariant, PTL
     DEF Spec, Invariants, ProvisionedAsWritten
=============================================================================
