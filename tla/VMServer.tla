------------------------------ MODULE VMServer ------------------------------
(***************************************************************************)
(* Clients, their connections and the server (src/client/main.cc,          *)
(* src/monitor/net, src/server/vm.cc), with the end of the daemon          *)
(* (src/server/daemon.cc, main.cc) and the mutex of the log.               *)
(*                                                                         *)
(* A client writes a program of units: an integer is one unit, a text one  *)
(* unit per symbol.  An integer arrives whole; of a text a read takes any  *)
(* part that has arrived, and what is left of it is read as the integers   *)
(* that should follow.  The units of one answer are written to a socket    *)
(* that nobody else uses, so an answer is one step.                        *)
(*                                                                         *)
(* The vector of VMs and the hypervisor are the subject of VMRegistry;     *)
(* here a VM is its settings, and its address is its name.                 *)
(***************************************************************************)
EXTENDS Naturals, Sequences

CONSTANTS
  Client,           \* one connection each, provisioned by a thread of that name
  acceptor,         \* the thread of the accepting loop
  Name, Port,       \* names are texts
  none,
  Requests(_),      \* what a client may ask for
  Configuration(_), \* what a text makes of a VM: see Toml
  Mortal,           \* the clients whose process may be killed
  Misread,          \* what the rest of a name may be read as
  Faults            \* see FaultAssumption

Thread == Client \union {acceptor}
ASSUME ThreadAssumption == acceptor \notin Client /\ none \notin Thread

\* What may happen: a provisioning that is refused; that meets a chmod which fails, or
\* a directory that vanishes; a command of openNat, or an accept, which fails; SIGINT.
ASSUME FaultAssumption ==
  Faults \subseteq {"provision", "chmod", "filesystem", "iptables", "accept", "stop"}
ASSUME NameAssumption == Name \subseteq Seq(STRING) \ {<<>>}
ASSUME MisreadAssumption == Misread \subseteq Nat /\ 0 \in Misread
ASSUME MortalAssumption == Mortal \subseteq Client

\* VMProtocol, as far as it is asked for; "UNKNOWN" stands for any other number.
Operation == {"PROVISION", "KILL", "IP", "NAT", "RESET_COUNTERS", "UNKNOWN"}
ASSUME RequestAssumption ==
  \A c \in Client : \A r \in Requests(c) :
    /\ r.op \in Operation /\ r.text \in Seq(STRING)
    /\ r.op = "PROVISION" => r.name \in Name
    /\ r.op \in {"KILL", "IP", "NAT"} => r.text = r.name /\ r.text # <<>>
    /\ r.op = "NAT" => r.ports \in Seq(Nat) /\ Len(r.ports) = 2
    /\ r.op \in {"RESET_COUNTERS", "UNKNOWN"} => r.text = <<>>

\* What a read that comes short leaves of a text.
Part(s, k) == [i \in 1..k |-> s[i]]

\* Nothing makes no VM, and what makes one is a file, or a part of it, whose name was
\* read: names come first.  A request whose file is sound has settings, others none.
ASSUME ConfigurationAssumption ==
  \A c \in Client : \A r \in Requests(c) : \A k \in 0..Len(r.text) :
    LET cfg == Configuration(Part(r.text, k)) IN
    /\ k = 0 => cfg.status = "refused"
    /\ cfg.status = "vm" =>
         r.op = "PROVISION" /\ cfg.name = r.name /\ cfg.settings # none

ASSUME NoneAssumption ==
  none \notin {"backlog", "open", "closed", "forgotten", "success", "error"}

VARIABLES
  request,     \* per client: what it asks for
  cpc,         \* per client: "idle", "write", "read", "done", "dead"
  sent,        \* per client: units it has written
  told,        \* per client: "success" or "error", as it prints in the end
  fd,          \* per client: its descriptor in the server, "backlog", "open",
               \* "closed", or "forgotten" with the socket still there
  reply,       \* per client: the units of the answer
  backlog,     \* connections that wait for accept
  pc,          \* per thread: its place
  serving,     \* the client of the acceptor
  prot,        \* the protocol number that the acceptor has read
  text,        \* per thread: what the handler has received
  ports,       \* and the host and guest port
  vms,         \* per name: the settings of the VM, or none
  rules,       \* the chains of iptables, the rule that matches first in front
  effect,      \* per client: what was done for it, or nothing
  forward,     \* per host port: what the last openNat was asked for
  logMutex,    \* __mutex__ of the log: the thread that holds it
  daemon,      \* "up"; or "exited", "aborted"
  handler      \* of SIGINT: "none", "kill", "disconnect"

client == <<request, cpc, sent, told>>
local == <<serving, prot, text, ports>>
host == <<vms, rules, effect, forward>>
process == <<logMutex, daemon, handler>>
vars == <<client, fd, reply, backlog, pc, local, host, process>>

Init ==
  /\ request = [c \in Client |-> none] /\ cpc = [c \in Client |-> "idle"]
  /\ sent = [c \in Client |-> 0] /\ told = [c \in Client |-> none]
  /\ fd = [c \in Client |-> none]
  /\ reply = [c \in Client |-> <<>>] /\ backlog = <<>>
  /\ pc = [t \in Thread |-> IF t = acceptor THEN "start" ELSE "idle"]
  /\ serving = none /\ prot = none /\ ports = <<>>
  /\ text = [t \in Thread |-> <<>>]
  /\ vms = [n \in Name |-> none]
  /\ rules = [chain \in {"PREROUTING", "OUTPUT"} |-> <<>>]
  /\ effect = [c \in Client |-> <<>>] /\ forward = [p \in Port |-> none]
  /\ logMutex = none /\ daemon = "up" /\ handler = "none"

Up == daemon = "up"
cancelled == handler # "none"

-----------------------------------------------------------------------------
(* Clients *)

\* killVM, provisionVM, natVM and resetCounters: an operation; the length of a
\* text and the text; two ports.  No client of the repository asks for an ip or
\* for an operation that is unknown.
Program(r) ==
  CASE r.op \in {"PROVISION", "KILL", "IP"} -> <<r.op, Len(r.text)>> \o r.text
    [] r.op = "NAT" -> <<r.op, Len(r.text)>> \o r.text \o r.ports
    [] OTHER -> <<r.op>>

\* The operation with the length (a server that gets one of them waits for the
\* other, and at the end of the stream takes it for 0), the text, then each port.
written(r, n) ==
  CASE n = 0 -> IF r.text = <<>> THEN 1 ELSE 2
    [] n = 2 -> 2 + Len(r.text)
    [] OTHER -> n + 1

gone(c) == cpc[c] \in {"done", "dead"}
broken(c) == ~ Up \/ fd[c] = "closed"
served(c) == (serving = c /\ pc[acceptor] \notin {"accept", "dead"}) \/ pc[c] # "idle"

\* The VMs that a request may come to be about; such requests come one after the other.
Touched(r) ==
  IF r.op = "PROVISION" THEN {r.name}
  ELSE {Part(r.text, k) : k \in 1..Len(r.text)} \cap Name
Settled(r) ==
  \A c \in Client : request[c] # none /\ Touched(request[c]) \cap Touched(r) # {} =>
    gone(c) /\ ~ served(c) /\ fd[c] # "backlog"

connect(c, r) ==
  /\ Up /\ ~ cancelled /\ pc[acceptor] # "start"
  /\ cpc[c] = "idle" /\ r \in Requests(c) /\ Settled(r)
  /\ request' = [request EXCEPT ![c] = r]
  /\ cpc' = [cpc EXCEPT ![c] = "write"]
  /\ fd' = [fd EXCEPT ![c] = "backlog"]
  /\ backlog' = Append(backlog, c)
  /\ UNCHANGED <<sent, told, reply, pc, local, host, process>>

\* What is written to a connection that the other side has closed reaches nobody:
\* the rest of the program is one step.  Either nothing is noticed, or a write fails;
\* then nothing is read any more, and the client prints an error.
write(c) ==
  LET whole == Len(Program(request[c])) IN
  /\ cpc[c] = "write"
  /\ \/ /\ ~ broken(c)
        /\ sent' = [sent EXCEPT ![c] = written(request[c], @)]
        /\ cpc' = [cpc EXCEPT ![c] = IF sent'[c] = whole THEN "read" ELSE "write"]
        /\ UNCHANGED told
     \/ /\ broken(c) /\ sent' = [sent EXCEPT ![c] = whole]
        /\ \/ cpc' = [cpc EXCEPT ![c] = "read"] /\ UNCHANGED told
           \/ /\ cpc' = [cpc EXCEPT ![c] = "done"]
              /\ told' = [told EXCEPT ![c] = "error"]
  /\ UNCHANGED <<request, fd, reply, backlog, pc, local, host, process>>

\* At the end of the stream receiveInt returns 0, PROVISION, which no client takes
\* for a success.
read(c) ==
  /\ cpc[c] = "read" /\ (reply[c] # <<>> \/ broken(c))
  /\ told' = [told EXCEPT ![c] =
       IF reply[c] # <<>> /\ Head(reply[c]) =
            IF request[c].op \in {"PROVISION", "IP"} THEN "IP" ELSE "OK"
       THEN "success" ELSE "error"]
  /\ cpc' = [cpc EXCEPT ![c] = "done"]
  /\ UNCHANGED <<request, sent, fd, reply, backlog, pc, local, host, process>>

\* The process of the client is killed.
die(c) ==
  /\ c \in Mortal /\ cpc[c] \in {"write", "read"}
  /\ cpc' = [cpc EXCEPT ![c] = "dead"]
  /\ UNCHANGED <<request, sent, told, fd, reply, backlog, pc, local, host, process>>

-----------------------------------------------------------------------------
(* Streams, as the server uses them *)

clientOf(t) == IF t = acceptor THEN serving ELSE t

\* What a thread has read of the stream.
consumed(t) ==
  CASE pc[t] = "protocol" -> 0
    [] pc[t] = "text" -> 2
    [] pc[t] = "host" -> 2 + Len(text[t])
    [] pc[t] = "guest" -> 3 + Len(text[t])
arrived(t) == sent[clientOf(t)] - consumed(t)
Unit(t, n) == Program(request[clientOf(t)])[consumed(t) + n]
ended(t) == arrived(t) <= 0 /\ gone(clientOf(t))

\* The text came in part: what is read behind it is not what was written as a port.
cut(t) == pc[t] \in {"host", "guest"} /\ text[t] # request[clientOf(t)].text
Integer(t) == IF cut(t) THEN Misread ELSE {Unit(t, 1)}

\* A thread that is cancelled ends where it waits.
MayWait(t) == ~ (t = acceptor /\ cancelled)

\* Mutant: an integer that does not come is waited for, also at the end.
receiveIntWaits(t, zero) ==
  IF MayWait(t) /\ arrived(t) > 0 THEN Integer(t) ELSE {}

\* What receiveInt may return: nothing as long as it waits, 0, as the constant that
\* stands for it, at the end of the stream.
receiveInt(t, zero) ==
  IF ~ MayWait(t) THEN {}
  ELSE IF arrived(t) > 0 THEN Integer(t)
  ELSE IF ended(t) THEN {zero} ELSE {}

\* The length and a part of the text, at most as long, be it a file or a name; nothing
\* at the end.
receive(t) ==
  LET whole == request[clientOf(t)].text
      taken == {k \in 1..arrived(t) : k <= Len(whole)}
                 \union (IF ended(t) THEN {0} ELSE {})
  IN IF MayWait(t) THEN {Part(whole, k) : k \in taken} ELSE {}

Goto(t, step) == pc' = [pc EXCEPT ![t] = step]
Stay(t, step) == Goto(t, step) /\ UNCHANGED local

leave(t) ==
  /\ pc' = [pc EXCEPT ![t] = IF t = acceptor THEN "accept" ELSE "idle"]
  /\ text' = [text EXCEPT ![t] = <<>>]
  /\ IF t = acceptor THEN serving' = none /\ prot' = none /\ ports' = <<>>
                     ELSE UNCHANGED <<serving, prot, ports>>

\* The last call of a handler: its answer and the close.  If the client is gone a
\* write may fail; then the stream forgets its descriptor and close does nothing.
finish(t, units) ==
  LET c == clientOf(t) IN
  /\ reply' = [reply EXCEPT ![c] = units]
  /\ \E d \in {"closed"} \union (IF gone(c) THEN {"forgotten"} ELSE {}) :
       fd' = [fd EXCEPT ![c] = d]
  /\ leave(t)

\* Mutant: the way out without the VM does not close.
refuseOpen(t) ==
  /\ reply' = [reply EXCEPT ![clientOf(t)] = <<"ERR", "NOT_FOUND">>]
  /\ leave(t) /\ UNCHANGED fd

refuse(t) == finish(t, <<"ERR", "NOT_FOUND">>)

-----------------------------------------------------------------------------
(* The accepting loop *)

start ==
  /\ pc[acceptor] = "start" /\ Goto(acceptor, "accept")
  /\ UNCHANGED <<client, fd, reply, backlog, local, host, process>>

accept ==
  /\ pc[acceptor] = "accept" /\ MayWait(acceptor) /\ backlog # <<>>
  /\ serving' = Head(backlog) /\ backlog' = Tail(backlog)
  /\ fd' = [fd EXCEPT ![Head(backlog)] = "open"]
  /\ Goto(acceptor, "protocol")
  /\ UNCHANGED <<client, reply, prot, text, ports, host, process>>

\* No descriptor is left: accept returns at once, whether a connection waits or not,
\* and the loop goes on with a stream of descriptor 0, of which 0 is read, PROVISION.
acceptFails ==
  /\ "accept" \in Faults /\ pc[acceptor] = "accept" /\ MayWait(acceptor)
  /\ prot' = "PROVISION" /\ Goto(acceptor, "log")
  /\ UNCHANGED <<client, fd, reply, backlog, serving, text, ports, host, process>>

receiveProtocol ==
  /\ pc[acceptor] = "protocol"
  /\ \E v \in receiveInt(acceptor, "PROVISION") : prot' = v
  /\ Goto(acceptor, "log")
  /\ UNCHANGED <<client, fd, reply, backlog, serving, text, ports, host, process>>

info ==
  /\ pc[acceptor] = "log" /\ logMutex = none
  /\ logMutex' = acceptor /\ Goto(acceptor, "print")
  /\ UNCHANGED <<client, fd, reply, backlog, local, host, daemon, handler>>

\* An unknown protocol is answered, and its connection stays open.  The thread that
\* provisions for descriptor 0 reads nothing, and neither answers nor closes anything.
takeUp ==
  \/ serving = none /\ leave(acceptor) /\ UNCHANGED reply
  \/ /\ prot = "PROVISION" /\ serving # none
     /\ pc' = [pc EXCEPT ![acceptor] = "accept", ![serving] = "text"]
     /\ serving' = none /\ prot' = none /\ UNCHANGED <<text, ports, reply>>
  \/ prot \in {"KILL", "IP", "NAT"} /\ Stay(acceptor, "text") /\ UNCHANGED reply
  \/ prot = "RESET_COUNTERS" /\ Stay(acceptor, "reset") /\ UNCHANGED reply
  \/ /\ prot = "UNKNOWN" /\ leave(acceptor)
     /\ reply' = [reply EXCEPT ![serving] = <<"ERR", "PROTOCOL">>]

\* Mutant: info returns with the mutex locked.
switchLocked ==
  /\ pc[acceptor] = "print" /\ takeUp
  /\ UNCHANGED <<client, fd, backlog, host, process>>

\* The line is printed, the mutex unlocked, and the request taken up.
switch ==
  /\ pc[acceptor] = "print" /\ takeUp
  /\ logMutex' = none
  /\ UNCHANGED <<client, fd, backlog, host, daemon, handler>>

-----------------------------------------------------------------------------
(* The requests *)

Found(s) == s \in Name /\ vms[s] # none
VM(t) == text[t]
Effect(t, e) == effect' = [effect EXCEPT ![clientOf(t)] = e]
Take(t, s, step) ==
  /\ Goto(t, step) /\ text' = [text EXCEPT ![t] = s]
  /\ UNCHANGED <<serving, prot, ports, fd, reply>>

\* parse is called before the try block: what it throws ends the process.
treatProvision(c) ==
  /\ pc[c] = "text"
  /\ \E s \in receive(c) : LET cfg == Configuration(s) IN
       \/ /\ cfg.status \in {"config_error", "invalid_argument"}
          /\ daemon' = "aborted" /\ Take(c, s, "text")
       \/ /\ \/ cfg.status = "refused"
             \/ cfg.status = "vm" /\ Found(cfg.name)
          /\ refuse(c) /\ UNCHANGED daemon
       \/ /\ cfg.status = "vm" /\ ~ Found(cfg.name)
          /\ Take(c, s, "provision") /\ UNCHANGED daemon
  /\ UNCHANGED <<client, backlog, host, logMutex, handler>>

\* provision does not come back: mountSwap exits if chmod fails, and the destructor of
\* the daemon logs the end; what enable throws for a directory that vanished is caught
\* by nobody.
breakDown ==
  \/ "chmod" \in Faults /\ logMutex = none /\ daemon' = "exited"
  \/ "filesystem" \in Faults /\ daemon' = "aborted"

\* provision ends: the VM is logged and pushed; or LibvirtError is caught.
provision(c) ==
  LET cfg == Configuration(text[c]) IN
  /\ pc[c] = "provision"
  /\ \/ /\ logMutex = none
        /\ vms' = [vms EXCEPT ![cfg.name] = cfg.settings]
        /\ Effect(c, <<"PROVISION", cfg.name>>)
        /\ finish(c, <<"IP", 1, cfg.name>>) /\ UNCHANGED daemon
     \/ "provision" \in Faults /\ refuse(c) /\ UNCHANGED <<vms, effect, daemon>>
     \/ breakDown /\ UNCHANGED <<vms, effect, pc, text, serving, prot, ports, fd, reply>>
  /\ UNCHANGED <<client, backlog, rules, forward, logMutex, handler>>

\* Mutant: the VM that is not there is answered with OK.
treatNamedAlwaysOk(op, step) ==
  /\ pc[acceptor] = "text" /\ prot = op
  /\ \E s \in receive(acceptor) :
       \/ Found(s) /\ Take(acceptor, s, step)
       \/ ~ Found(s) /\ finish(acceptor, <<"OK">>)
  /\ UNCHANGED <<client, backlog, host, process>>

\* treatKill, treatIp and treatNat go on with a VM that is there; the ports for one
\* that is not are left unread.
treatNamed(op, step) ==
  /\ pc[acceptor] = "text" /\ prot = op
  /\ \E s \in receive(acceptor) :
       \/ Found(s) /\ Take(acceptor, s, step)
       \/ ~ Found(s) /\ refuse(acceptor)
  /\ UNCHANGED <<client, backlog, host, process>>

\* The kill is logged before the VM is removed.  The rules for it stay.
treatKill ==
  \/ treatNamed("KILL", "kill")
  \/ LET n == VM(acceptor) IN
     /\ pc[acceptor] = "kill" /\ logMutex = none
     /\ vms' = [vms EXCEPT ![n] = none]
     /\ forward' = [p \in Port |->
          IF forward[p] # none /\ forward[p].name = n THEN none ELSE forward[p]]
     /\ Effect(acceptor, <<"KILL", n>>)
     /\ finish(acceptor, <<"OK">>)
     /\ UNCHANGED <<client, backlog, rules, process>>

treatIp ==
  \/ treatNamed("IP", "ip")
  \/ /\ pc[acceptor] = "ip"
     /\ Effect(acceptor, <<"IP", VM(acceptor)>>)
     /\ finish(acceptor, <<"IP", 1, VM(acceptor)>>)
     /\ UNCHANGED <<client, backlog, vms, rules, forward, process>>

receivePort ==
  /\ pc[acceptor] \in {"host", "guest"}
  /\ \E v \in receiveInt(acceptor, 0) : ports' = Append(ports, v)
  /\ Goto(acceptor, IF pc[acceptor] = "host" THEN "guest" ELSE "PREROUTING")
  /\ UNCHANGED <<client, fd, reply, backlog, serving, prot, text, host, process>>

Rule(p) == [dport |-> p[1], to |-> <<VM(acceptor), p[2]>>]
Forwarding(chain, ok) ==
  [p \in Port |-> IF p # ports[1] THEN forward[p]
     ELSE [name |-> VM(acceptor), guest |-> ports[2], chain |-> chain,
           done |-> ok /\ (chain = "OUTPUT" => forward[p] # none /\ forward[p].done)]]

\* Mutant: the rule is appended (-A).
insertLast(chain, next) ==
  /\ pc[acceptor] = chain /\ next
  /\ rules' = [rules EXCEPT ![chain] = Append(@, Rule(ports))]
  /\ forward' = Forwarding(chain, TRUE)
  /\ UNCHANGED <<client, backlog, vms, process>>

\* One of the commands of openNat; how it ends is not looked at.
insert(chain, next) ==
  /\ pc[acceptor] = chain /\ next
  /\ \/ /\ rules' = [rules EXCEPT ![chain] = <<Rule(ports)>> \o @]
        /\ forward' = Forwarding(chain, TRUE)
     \/ /\ "iptables" \in Faults
        /\ UNCHANGED rules /\ forward' = Forwarding(chain, FALSE)
  /\ UNCHANGED <<client, backlog, vms, process>>

openNat ==
  \/ insert("PREROUTING", Stay(acceptor, "OUTPUT")) /\ UNCHANGED <<effect, fd, reply>>
  \/ insert("OUTPUT", finish(acceptor, <<"OK">>))
     /\ Effect(acceptor, <<"NAT", VM(acceptor), ports>>)

treatNat == treatNamed("NAT", "host") \/ receivePort \/ openNat

\* Composed with ControlLoop: the mutexes of a reset are free sooner or later.
treatResetCounters ==
  /\ pc[acceptor] = "reset"
  /\ Effect(acceptor, <<"RESET_COUNTERS">>)
  /\ finish(acceptor, <<"OK">>)
  /\ UNCHANGED <<client, backlog, vms, rules, forward, process>>

-----------------------------------------------------------------------------
(* The end of the daemon *)

\* SIGINT.  Daemon::kill runs in the main thread: the acceptor is cancelled and
\* the listener closed, which resets the connections that wait.
interrupt ==
  /\ "stop" \in Faults /\ Up /\ handler = "none" /\ pc[acceptor] # "start"
  /\ handler' = "kill"
  /\ fd' = [c \in Client |-> IF fd[c] = "backlog" THEN "closed" ELSE fd[c]]
  /\ backlog' = <<>>
  /\ UNCHANGED <<client, reply, pc, local, host, logMutex, daemon>>

\* The acceptor ends where it waits or prints, whatever it holds.  In a try block
\* catch (...) keeps the cancellation, and the process is aborted.
cancel ==
  /\ cancelled
  /\ \/ /\ pc[acceptor] \in {"accept", "protocol", "print", "text", "reset"}
        /\ Goto(acceptor, "dead") /\ UNCHANGED daemon
     \/ /\ pc[acceptor] \in {"kill", "ip", "host", "guest", "PREROUTING", "OUTPUT"}
        /\ daemon' = "aborted" /\ UNCHANGED pc
  /\ UNCHANGED <<client, fd, reply, backlog, local, host, logMutex, handler>>

\* Each VM is logged and killed; without VMs nothing is logged.
killAllRunningDomains ==
  /\ handler = "kill" /\ (logMutex = none \/ \A n \in Name : vms[n] = none)
  /\ vms' = [n \in Name |-> none]
  /\ handler' = "disconnect"
  /\ UNCHANGED <<client, fd, reply, backlog, pc, local, rules, effect, forward,
                 logMutex, daemon>>

\* The end is logged, and the process exits.
disconnect ==
  /\ handler = "disconnect" /\ logMutex = none
  /\ daemon' = "exited"
  /\ UNCHANGED <<client, fd, reply, backlog, pc, local, host, logMutex, handler>>

-----------------------------------------------------------------------------
Accepting ==
  \/ start \/ accept \/ acceptFails \/ receiveProtocol \/ info \/ switch
  \/ treatKill \/ treatIp \/ treatNat \/ treatResetCounters \/ cancel
Provisioning(c) == treatProvision(c) \/ provision(c)
Stopping == killAllRunningDomains \/ disconnect

Next ==
  \/ \E c \in Client : (\E r \in Requests(c) : connect(c, r)) \/ write(c) \/ read(c) \/ die(c)
  \/ Up /\ (Accepting \/ (\E c \in Client : Provisioning(c)) \/ interrupt \/ Stopping)

Spec == Init /\ [][Next]_vars

\* Threads and the processes of clients keep running; the commands and the boot
\* that a provisioning waits for come to an end; accept does not fail for ever.
FairSpec ==
  /\ Spec
  /\ WF_vars(Up /\ Accepting) /\ WF_vars(Up /\ Stopping) /\ SF_vars(Up /\ accept)
  /\ \A c \in Client : WF_vars(Up /\ Provisioning(c)) /\ WF_vars(write(c) \/ read(c))
-----------------------------------------------------------------------------
(* Properties. *)

\* What was asked for, and what is done instead of it if a name came in part: the
\* same, to the VM whose name that part is, with any ports.
Asked(r) ==
  CASE r.op = "RESET_COUNTERS" -> <<r.op>>
    [] r.op = "NAT" -> <<r.op, r.name, r.ports>>
    [] OTHER -> <<r.op, r.name>>
Mistaken(c) ==
  LET r == request[c] IN
  /\ r.op \in {"KILL", "IP", "NAT"} /\ effect[c] # <<>> /\ effect[c][1] = r.op
  /\ \E k \in 1..Len(r.name) - 1 : effect[c][2] = Part(r.name, k)

\* What a client prints is so.  After a success its operation was carried out, on the
\* VM and the ports that it named (how the commands of openNat end is lost), or, if
\* its name came in part, on the VM with that part for a name, and no other.  After
\* an error nothing was done, as long as the daemon is not stopped, except to that
\* VM: openNat may end before the client has written its ports.
AnswerIsTrue ==
  \A c \in Client :
    /\ told[c] = "success" => effect[c] = Asked(request[c]) \/ Mistaken(c)
    /\ told[c] = "error" /\ Up /\ ~ cancelled =>
         effect[c] = <<>> \/ (request[c].op = "NAT" /\ Mistaken(c))

\* A VM has the name and the image that its file states, however much of the file
\* was received, and all of its settings if the file came whole.
ProvisionedAsWritten ==
  [][\A c \in Client : LET r == request[c] IN
       effect'[c] # effect[c] /\ effect'[c][1] = "PROVISION" =>
         /\ effect'[c][2] = r.name
         /\ vms'[r.name].image = r.settings.image
         /\ text[c] = r.text => vms'[r.name] = r.settings]_vars

\* When nobody serves a connection any more it is closed: only one that spoke an
\* unknown protocol stays open, and only one whose client has died is forgotten.
HandlersClose ==
  \A c \in Client :
    /\ fd[c] = "open" /\ ~ served(c) /\ pc[acceptor] # "dead" =>
         request[c].op = "UNKNOWN"
    /\ fd[c] = "forgotten" => cpc[c] = "dead"

\* Unless it is stopped the daemon goes on, but for a provisioning: one whose file is
\* malformed or was cut, or one under way whose chmod or whose directories fail.  No
\* other request ends it, whatever is received of it.
OnlyProvisioningEnds ==
  ~ Up /\ ~ cancelled =>
    \E c \in Client :
      /\ text[c] # <<>> /\ request[c].op = "PROVISION"
      /\ \/ pc[c] = "provision"
         \/ /\ pc[c] = "text" /\ daemon = "aborted"
            /\ request[c].settings = none \/ text[c] # request[c].text

\* The first rule for a port leads to the VM and the guest port that openNat was
\* last asked for, in both chains, unless a command failed, the VM is killed or the
\* daemon is stopped.
PortLeadsToVM ==
  \A p \in Port : LET f == forward[p] IN
    f # none /\ f.chain = "OUTPUT" /\ f.done /\ ~ cancelled =>
      /\ vms[f.name] # none
      /\ \A chain \in DOMAIN rules :
           \E i \in DOMAIN rules[chain] :
             /\ rules[chain][i] = [dport |-> p, to |-> <<f.name, f.guest>>]
             /\ \A j \in 1..i - 1 : rules[chain][j].dport # p

\* Whoever has sent its request gets an answer, whatever the clients before it do:
\* ask for what is not there, speak another protocol, die halfway.
Answered ==
  \A c \in Client : cpc[c] \in {"write", "read"} ~> (gone(c) \/ cancelled)

\* daemon.hh:40: kill forces the end of the daemon.  It comes if the acceptor
\* waits for a connection or for a client; it may not if it prints.
StopEnds ==
  (cancelled /\ pc[acceptor] \in {"accept", "protocol", "text"}) ~> ~ Up
=============================================================================
