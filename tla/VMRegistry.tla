----------------------------- MODULE VMRegistry -----------------------------
(***************************************************************************)
(* The VMs of the host (src/monitor/libvirt/client.cc) and the requests of *)
(* the clients about them (src/server/vm.cc).  The acceptor thread serves  *)
(* kill, ip and nat requests itself, one after the other, and spawns a     *)
(* thread for each provisioning; all of them read and change the vector of *)
(* running VMs and the domains of the hypervisor.                          *)
(*                                                                         *)
(* One action is one step between two points where another thread may     *)
(* interfere: a critical section of the mutex, a call that waits for a     *)
(* process or for the hypervisor, an access to the vector.  LibvirtVM      *)
(* objects are the members of Obj; one that is freed may be allocated      *)
(* again.  A scan of the vector and a push_back are taken as atomic.       *)
(***************************************************************************)
EXTENDS Naturals, Sequences

CONSTANTS
  Name,          \* the names clients give to VMs
  Obj,           \* memory for LibvirtVM objects
  Provisioner,   \* threads that treatProvision may run on
  acceptor,      \* the thread of the accepting loop
  none,          \* no thread, no object
  Ops,           \* requests that clients send
  Discipline,    \* "one": a client sends a request once all are answered;
                 \* "distinct": never two at a time about the same VM; "any"
  Faults         \* what may fail: "create", "install", "stop", "crash"

Thread == Provisioner \union {acceptor}

ASSUME ThreadAssumption == acceptor \notin Provisioner
ASSUME NoneAssumption == none \notin Thread \union Obj \union Name
ASSUME DisciplineAssumption ==
  /\ Discipline \in {"one", "distinct", "any"}
  /\ Ops \subseteq {"provision", "kill", "ip", "nat"}

VARIABLES
  server,     \* "down", "up", or "stopping": the handler of SIGINT runs
  pc, op, name,  \* per thread: what it does, for which request
  answer,     \* per thread: the reply it has sent last
  vm,         \* per thread: the object it provisions
  victim,     \* per thread: the object it has looked up
  kept,       \* per thread: the vector that removeVM builds
  mutex,      \* _mutex: the thread that holds it
  running,    \* _running: the vector of running VMs
  idOf,       \* per object: id (), none if it is not allocated
  domOf,      \* per object: _dom, the domain as the object that was installed
  domain,     \* hypervisor: per name, the object whose domain is active
  files       \* disk: names with a directory of files for booting

frame == <<op, name, vm, victim>>
heap == <<idOf, domOf>>
host == <<domain, files>>
vars == <<server, pc, frame, kept, answer, mutex, running, heap, host>>

Init ==
  /\ server = "down"
  /\ pc = [t \in Thread |-> "idle"]
  /\ op = [t \in Thread |-> none] /\ name = [t \in Thread |-> none]
  /\ vm = [t \in Thread |-> none] /\ victim = [t \in Thread |-> none]
  /\ answer = [t \in Thread |-> none]
  /\ kept = [t \in Thread |-> <<>>]
  /\ mutex = none /\ running = <<>>
  /\ idOf = [o \in Obj |-> none] /\ domOf = [o \in Obj |-> none]
  /\ domain = [n \in Name |-> none] /\ files = {}

-----------------------------------------------------------------------------
Goto(t, step) ==
  /\ pc' = [pc EXCEPT ![t] = step]
  /\ UNCHANGED <<answer, frame>>

Answer(t, r) ==
  /\ pc' = [pc EXCEPT ![t] = "idle"]
  /\ answer' = [answer EXCEPT ![t] = r]
  /\ op' = [op EXCEPT ![t] = none] /\ name' = [name EXCEPT ![t] = none]
  /\ vm' = [vm EXCEPT ![t] = none] /\ victim' = [victim EXCEPT ![t] = none]

alive == {o \in Obj : idOf[o] # none}
Free(o) ==
  /\ idOf' = [idOf EXCEPT ![o] = none]
  /\ domOf' = [domOf EXCEPT ![o] = none]

Positions(n) == {i \in DOMAIN running : idOf[running[i]] = n}
Found(n) == Positions(n) # {}
First(positions) == CHOOSE i \in positions : \A j \in positions : i <= j
Lookup(n) == running[First(Positions(n))]

\* The vector of the first of the running VMs at these positions.
FirstOf(positions) == IF positions = {} THEN <<>> ELSE <<running[First(positions)]>>

Busy == {t \in Thread : pc[t] # "idle"}
Disciplined(n) ==
  \/ Discipline = "one" /\ Busy = {}
  \/ Discipline = "distinct" /\ \A t \in Busy : name[t] # n
  \/ Discipline = "any"

\* The accepting loop receives a request, when it is not serving another one.
acceptingLoop(t, o, n) ==
  /\ server = "up" /\ pc[acceptor] = "idle" /\ pc[t] = "idle"
  /\ o \in Ops /\ (t # acceptor <=> o = "provision")
  /\ Disciplined(n)
  /\ op' = [op EXCEPT ![t] = o]
  /\ name' = [name EXCEPT ![t] = n]
  /\ pc' = [pc EXCEPT ![t] = "hasVM"]
  /\ UNCHANGED <<server, vm, victim, kept, answer, mutex, running, heap, host>>

\* Mutant: treatProvision does not ask, so provision replaces the VM.
hasVMForgotten(t) ==
  /\ pc[t] = "hasVM" /\ mutex = none
  /\ \/ op[t] = "provision" /\ Goto(t, "new")
     \/ op[t] # "provision" /\ Found(name[t]) /\ Goto(t, "getVM")
     \/ op[t] # "provision" /\ ~ Found(name[t]) /\ Answer(t, "not_found")
  /\ UNCHANGED <<server, kept, mutex, running, heap, host>>

\* The treat functions first ask whether the VM is there.
hasVM(t) ==
  /\ pc[t] = "hasVM" /\ mutex = none
  /\ \/ op[t] = "provision" /\ ~ Found(name[t]) /\ Goto(t, "new")
     \/ op[t] # "provision" /\ Found(name[t]) /\ Goto(t, "getVM")
     \/ (op[t] = "provision" <=> Found(name[t])) /\ Answer(t, "not_found")
  /\ UNCHANGED <<server, kept, mutex, running, heap, host>>

-----------------------------------------------------------------------------
(* provision *)

New(t) ==
  /\ pc[t] = "new"
  /\ Obj # alive
  /\ LET o == CHOOSE x \in Obj \ alive : TRUE IN
       /\ idOf' = [idOf EXCEPT ![o] = name[t]]
       /\ vm' = [vm EXCEPT ![t] = o]
  /\ pc' = [pc EXCEPT ![t] = "getVM"]
  /\ UNCHANGED <<server, op, name, victim, kept, answer, mutex, running, domOf, host>>

createDirAndVMFile(t) ==
  /\ pc[t] = "create"
  /\ files' = files \union {name[t]}
  /\ Goto(t, "lock")
  /\ UNCHANGED <<server, kept, mutex, running, heap, domain>>

\* Mutant: leaks the object.
createLeaks(t) ==
  /\ pc[t] = "create" /\ "create" \in Faults
  /\ Answer(t, "not_found")
  /\ UNCHANGED <<server, kept, mutex, running, heap, host>>

\* Mutant: the error is not thrown again after the object is deleted.
createSwallowed(t) ==
  /\ pc[t] = "create" /\ "create" \in Faults
  /\ Free(vm[t])
  /\ Goto(t, "reply")
  /\ UNCHANGED <<server, kept, mutex, running, host>>

\* It throws LibvirtError, whatever files it has created already; provision
\* deletes the object and treatProvision catches the error.
createFails(t) ==
  /\ pc[t] = "create" /\ "create" \in Faults
  /\ files' \in {files, files \union {name[t]}}
  /\ Free(vm[t])
  /\ Answer(t, "not_found")
  /\ UNCHANGED <<server, kept, mutex, running, domain>>

\* Mutant: installs without the mutex.
lockForgotten(t) ==
  /\ pc[t] = "lock"
  /\ Goto(t, "install")
  /\ UNCHANGED <<server, kept, mutex, running, heap, host>>

lock(t) ==
  /\ pc[t] = "lock" /\ mutex = none
  /\ mutex' = t
  /\ Goto(t, "install")
  /\ UNCHANGED <<server, kept, running, heap, host>>

\* Mutant: returns without releasing the mutex.
unlockForgotten(t) ==
  /\ pc[t] = "install"
  /\ domain' = [domain EXCEPT ![name[t]] = vm[t]]
  /\ Goto(t, "waitIp")
  /\ UNCHANGED <<server, kept, mutex, running, heap, files>>

\* virt-install ends and the mutex is released.  It fails on a name in use or
\* without the disk; a failure is printed, and provision goes on.
installVM(t) ==
  /\ pc[t] = "install"
  /\ \/ /\ domain[name[t]] = none /\ name[t] \in files
        /\ domain' = [domain EXCEPT ![name[t]] = vm[t]]
     \/ /\ domain[name[t]] # none \/ name[t] \notin files \/ "install" \in Faults
        /\ UNCHANGED domain
  /\ mutex' = none
  /\ Goto(t, "waitIp")
  /\ UNCHANGED <<server, kept, running, heap, files>>

\* Endless loops: until the domain exists and has an address, ...
waitIpVM(t) ==
  /\ pc[t] = "waitIp" /\ domain[name[t]] # none
  /\ Goto(t, "mountSwap")
  /\ UNCHANGED <<server, kept, mutex, running, heap, host>>

\* ... until ssh could mount the swap disk, ...
mountSwap(t) ==
  /\ pc[t] = "mountSwap" /\ domain[name[t]] # none
  /\ Goto(t, "enable")
  /\ UNCHANGED <<server, kept, mutex, running, heap, host>>

\* ... until the cgroup of the domain is found.
enable(t) ==
  /\ pc[t] = "enable" /\ domain[name[t]] # none
  /\ domOf' = [domOf EXCEPT ![vm[t]] = domain[name[t]]]
  /\ Goto(t, "push")
  /\ UNCHANGED <<server, kept, mutex, running, idOf, host>>

\* _running.push_back, without the mutex.
push(t) ==
  /\ pc[t] = "push"
  /\ running' = Append(running, vm[t])
  /\ Goto(t, "reply")
  /\ UNCHANGED <<server, kept, mutex, heap, host>>

\* treatProvision reads the address of the VM that provision returned.
reply(t) ==
  /\ pc[t] = "reply"
  /\ Answer(t, "ip")
  /\ UNCHANGED <<server, kept, mutex, running, heap, host>>

-----------------------------------------------------------------------------
(* kill, ip, nat; provision first kills a VM that has its name *)

\* kill of a VM that is gone by now does nothing and is answered OK.
getVM(t) ==
  /\ pc[t] = "getVM" /\ mutex = none
  /\ \/ /\ Found(name[t])
        /\ victim' = [victim EXCEPT ![t] = Lookup(name[t])]
        /\ pc' = [pc EXCEPT ![t] =
             IF op[t] \in {"ip", "nat"} THEN "use" ELSE "killDomain"]
        /\ UNCHANGED <<op, name, vm, answer>>
     \/ /\ ~ Found(name[t])
        /\ \/ op[t] = "provision" /\ Goto(t, "create")
           \/ op[t] = "kill" /\ Answer(t, "ok")
           \/ op[t] \in {"ip", "nat"} /\ Answer(t, "not_found")
  /\ UNCHANGED <<server, kept, mutex, running, heap, host>>

\* The address of the VM is sent, or used to open a port.
use(t) ==
  /\ pc[t] = "use"
  /\ Answer(t, IF op[t] = "ip" THEN "ip" ELSE "ok")
  /\ UNCHANGED <<server, kept, mutex, running, heap, host>>

killDomain(t) ==
  /\ pc[t] = "killDomain"
  /\ domain' = [n \in Name |->
       IF domain[n] # none /\ domain[n] = domOf[victim[t]] THEN none ELSE domain[n]]
  /\ Goto(t, "deleteFiles")
  /\ UNCHANGED <<server, kept, mutex, running, heap, files>>

deleteDirAndVMFile(t) ==
  /\ pc[t] = "deleteFiles"
  /\ files' = files \ {idOf[victim[t]]}
  /\ Goto(t, "removeScan")
  /\ UNCHANGED <<server, kept, mutex, running, heap, domain>>

\* Mutant: keeps the first VM of the vector, whatever its name.
keepFirst(t) ==
  /\ pc[t] = "removeScan" /\ mutex = none
  /\ kept' = [kept EXCEPT ![t] = FirstOf(DOMAIN running)]
  /\ Goto(t, "removeAssign")
  /\ UNCHANGED <<server, mutex, running, heap, host>>

\* removeVM copies the VMs that stay, under the mutex; the loop breaks after it
\* has copied one.
removeScan(t) ==
  /\ pc[t] = "removeScan" /\ mutex = none
  /\ kept' = [kept EXCEPT ![t] = FirstOf(DOMAIN running \ Positions(name[t]))]
  /\ Goto(t, "removeAssign")
  /\ UNCHANGED <<server, mutex, running, heap, host>>

\* Mutant: the copy is dropped.
assignForgotten(t) ==
  /\ pc[t] = "removeAssign"
  /\ kept' = [kept EXCEPT ![t] = <<>>]
  /\ Goto(t, "delete")
  /\ UNCHANGED <<server, mutex, running, heap, host>>

\* The copy becomes the vector, without the mutex.
removeAssign(t) ==
  /\ pc[t] = "removeAssign"
  /\ running' = kept[t]
  /\ kept' = [kept EXCEPT ![t] = <<>>]
  /\ Goto(t, "delete")
  /\ UNCHANGED <<server, mutex, heap, host>>

delete(t) ==
  /\ pc[t] = "delete"
  /\ Free(victim[t])
  /\ \/ op[t] = "provision" /\ Goto(t, "create")
     \/ op[t] = "kill" /\ Answer(t, "ok")
  /\ UNCHANGED <<server, kept, mutex, running, host>>

-----------------------------------------------------------------------------
(* The daemon *)

killAllRunningDomains ==
  /\ domain' = [n \in Name |-> none]
  /\ running' = <<>>

\* Mutant: does not kill the domains that a former daemon has left.
startAnyway ==
  /\ server = "down" /\ server' = "up"
  /\ UNCHANGED <<pc, frame, kept, answer, mutex, running, heap, host>>

\* connect kills the domains that a former daemon has left.
start ==
  /\ server = "down" /\ server' = "up"
  /\ killAllRunningDomains
  /\ UNCHANGED <<pc, frame, kept, answer, mutex, heap, files>>

\* SIGINT: the handler cancels the acceptor and kills the domains; the threads
\* that provision go on until the process exits.
stop ==
  /\ server = "up" /\ "stop" \in Faults /\ server' = "stopping"
  /\ \/ pc[acceptor] = "idle" /\ UNCHANGED <<pc, answer, frame>>
     \/ pc[acceptor] # "idle" /\ Answer(acceptor, none)
  /\ killAllRunningDomains
  /\ UNCHANGED <<kept, mutex, heap, files>>

\* The process is gone; the domains and the files stay.
Gone ==
  /\ server' = "down"
  /\ pc' = [t \in Thread |-> "idle"]
  /\ answer' = [t \in Thread |-> IF pc[t] = "idle" THEN answer[t] ELSE none]
  /\ op' = [t \in Thread |-> none] /\ name' = [t \in Thread |-> none]
  /\ vm' = [t \in Thread |-> none] /\ victim' = [t \in Thread |-> none]
  /\ kept' = [t \in Thread |-> <<>>]
  /\ mutex' = none /\ running' = <<>>
  /\ idOf' = [o \in Obj |-> none] /\ domOf' = [o \in Obj |-> none]
  /\ UNCHANGED host

exit == server = "stopping" /\ Gone
crash == server = "up" /\ "crash" \in Faults /\ Gone

-----------------------------------------------------------------------------
Step(t) ==
  \/ hasVM(t) \/ getVM(t) \/ use(t)
  \/ New(t) \/ createDirAndVMFile(t) \/ createFails(t) \/ lock(t) \/ installVM(t)
  \/ waitIpVM(t) \/ mountSwap(t) \/ enable(t) \/ push(t) \/ reply(t)
  \/ killDomain(t) \/ deleteDirAndVMFile(t)
  \/ removeScan(t) \/ removeAssign(t) \/ delete(t)

Next ==
  \/ \E t \in Thread, o \in Ops, n \in Name : acceptingLoop(t, o, n)
  \/ \E t \in Thread : Step(t)
  \/ start \/ stop \/ exit \/ crash

Spec == Init /\ [][Next]_vars

\* The threads keep running, the processes they wait for and the hypervisor end
\* their work, and the handler of SIGINT comes to its exit.
FairSpec == Spec /\ WF_vars(exit) /\ \A t \in Thread : WF_vars(Step(t))

-----------------------------------------------------------------------------
(* Properties. *)

\* Every variable stays in its range; in particular the vector only ever holds
\* objects that are allocated.
TypeOK ==
  /\ server \in {"down", "up", "stopping"}
  /\ pc \in [Thread -> {"idle", "hasVM", "new", "create", "lock", "install",
                       "waitIp", "mountSwap", "enable", "push", "reply",
                       "getVM", "use", "killDomain", "deleteFiles",
                       "removeScan", "removeAssign", "delete"}]
  /\ op \in [Thread -> {"provision", "kill", "ip", "nat", none}]
  /\ name \in [Thread -> Name \union {none}]
  /\ answer \in [Thread -> {"ip", "ok", "not_found", none}]
  /\ vm \in [Thread -> Obj \union {none}]
  /\ victim \in [Thread -> Obj \union {none}]
  /\ mutex \in Thread \union {none}
  /\ running \in Seq(alive)
  /\ kept \in [Thread -> Seq(Obj)]
  /\ idOf \in [Obj -> Name \union {none}] /\ domOf \in [Obj -> Obj \union {none}]
  /\ domain \in [Name -> Obj \union {none}] /\ files \subseteq Name

\* No request about the VM n is being served.
Settled(n) == server = "up" /\ \A t \in Busy : name[t] # n

\* client.hh:127: hasVM returns true iff the VM is running, when no request about
\* it is under way.
HasVMTellsRunning ==
  \A n \in Name : Settled(n) => (Found(n) <=> domain[n] # none)

\* A VM that is served is there once, runs the domain that was installed for it,
\* and has its disk, whatever was left by failed requests and former daemons.
VMsAreWhole ==
  \A n \in Name : \A i \in Positions(n) : Settled(n) =>
    /\ Positions(n) = {i}
    /\ domain[n] = running[i] /\ domOf[running[i]] = running[i]
    /\ n \in files

\* The objects that thread t is about to use.
Uses(t) ==
  CASE pc[t] \in {"hasVM", "getVM", "removeScan"} -> {running[i] : i \in DOMAIN running}
    [] pc[t] \in {"create", "lock", "install", "waitIp", "mountSwap", "enable",
                  "push", "reply"} -> {vm[t]}
    [] pc[t] \in {"use", "killDomain", "deleteFiles", "removeAssign", "delete"} ->
         {victim[t]}
    [] OTHER -> {}

\* No thread uses a VM that another one, or itself, has deleted.
NoUseAfterFree == \A t \in Thread : Uses(t) \subseteq alive

\* Every object is in the vector or in the hands of a thread, until the daemon
\* stops: no way out of a request leaks its VM.
NoLeak ==
  server = "up" => \A o \in alive :
    \/ \E i \in DOMAIN running : running[i] = o
    \/ \E t \in Busy : o \in {vm[t], victim[t]}

\* client.hh:281 (@synchronized): two VMs are never installed at the same time.
InstallExclusive ==
  \A t, u \in Thread : pc[t] = "install" /\ pc[u] = "install" => t = u

\* Every request is answered, unless the daemon stops.
EveryRequestAnswered == \A t \in Thread : (pc[t] # "idle") ~> (pc[t] = "idle")

\* Each request takes effect at one instant between its arrival and its answer.
\* A provisioning does when the VM is pushed, a kill when the vector is replaced.
Done(t) ==
  pc[t] \in {"idle", "reply"} \/ (pc[t] = "delete" /\ op[t] = "kill")
Service == INSTANCE VMService WITH
  Client <- Thread, lost <- none, up <- (server = "up"),
  serving <- {idOf[running[i]] : i \in DOMAIN running},
  call <- [t \in Thread |-> IF Done(t) THEN <<>> ELSE <<op[t], name[t]>>],
  result <- [t \in Thread |-> CASE pc[t] = "reply" -> "ip"
                               [] pc[t] = "delete" /\ op[t] = "kill" -> "ok"
                               [] OTHER -> answer[t]]
ServiceSpec == Service!Spec
=============================================================================
