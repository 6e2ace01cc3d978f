------------------------- MODULE VMRegistryProofs ---------------------------
(***************************************************************************)
(* Proofs about VMRegistry, for any names, threads, objects and faults.    *)
(* Installing exclusively needs nothing of the clients.  The ranges and    *)
(* the life of the objects need clients that never have two requests about *)
(* the same VM under way (Discipline # "any").  That hasVM, the VMs and    *)
(* the service are right also needs that the copy of removeVM, which holds *)
(* one VM at most, loses none (CopyIsWhole).                               *)
(***************************************************************************)
EXTENDS VMRegistry, WellFoundedInduction, TLAPS

\* Whoever installs a VM holds the mutex.
InstallInv ==
  /\ pc = [t \in Thread |-> pc[t]]
  /\ \A t \in Thread : pc[t] = "install" => mutex = t

\* installVM (client.cc:396-403) never runs twice at the same time, whatever the
\* other threads do without the mutex.
THEOREM InstallsExclude == Spec => []InstallExclusive
<1> USE NoneAssumption DEF InstallInv
<1>1. Init => InstallInv
  BY DEF Init
<1>2. InstallInv /\ [Next]_vars => InstallInv'
  <2> SUFFICES ASSUME InstallInv, [Next]_vars
               PROVE  InstallInv'
    OBVIOUS
  <2> acceptor \in Thread
    BY DEF Thread
  <2>1. ASSUME NEW t \in Thread, NEW o \in Ops, NEW n \in Name,
               acceptingLoop(t, o, n)
        PROVE  InstallInv'
    BY <2>1 DEF acceptingLoop
  <2>2. ASSUME NEW t \in Thread, Step(t)
        PROVE  InstallInv'
    <3>1. CASE hasVM(t)
      BY <3>1 DEF hasVM, Goto, Answer
    <3>2. CASE getVM(t)
      <4> \/ pc' = [pc EXCEPT ![t] = "use"] \/ pc' = [pc EXCEPT ![t] = "killDomain"]
          \/ pc' = [pc EXCEPT ![t] = "create"] \/ pc' = [pc EXCEPT ![t] = "idle"]
        BY <3>2 DEF getVM, Goto, Answer
      <4> mutex' = mutex
        BY <3>2 DEF getVM
      <4> QED
        OBVIOUS
    <3>3. CASE use(t) \/ reply(t)
      BY <3>3 DEF use, reply, Answer
    <3>4. CASE New(t) \/ push(t)
      BY <3>4 DEF New, push, Goto
    <3>5. CASE createDirAndVMFile(t) \/ createFails(t)
      BY <3>5 DEF createDirAndVMFile, createFails, Goto, Answer
    <3>6. CASE lock(t)
      <4>1. \A u \in Thread : pc[u] # "install"
        BY <3>6 DEF lock
      <4> QED
        BY <3>6, <4>1 DEF lock, Goto
    <3>7. CASE installVM(t)
      <4>1. \A u \in Thread : pc[u] = "install" => u = t
        BY <3>7 DEF installVM
      <4> QED
        BY <3>7, <4>1 DEF installVM, Goto
    <3>8. CASE waitIpVM(t) \/ mountSwap(t) \/ enable(t)
      BY <3>8 DEF waitIpVM, mountSwap, enable, Goto
    <3>9. CASE killDomain(t) \/ deleteDirAndVMFile(t)
      BY <3>9 DEF killDomain, deleteDirAndVMFile, Goto
    <3>10. CASE removeScan(t) \/ removeAssign(t)
      BY <3>10 DEF removeScan, removeAssign, Goto
    <3>11. CASE delete(t)
      BY <3>11 DEF delete, Goto, Answer
    <3> QED
      BY <2>2, <3>1, <3>2, <3>3, <3>4, <3>5, <3>6, <3>7, <3>8, <3>9, <3>10, <3>11
      DEF Step
  <2>3. CASE start
    BY <2>3 DEF start
  <2>4. CASE stop
    BY <2>4 DEF stop, Answer
  <2>5. CASE exit \/ crash
    BY <2>5 DEF exit, crash, Gone
  <2>6. CASE UNCHANGED vars
    BY <2>6 DEF vars
  <2> QED
    BY <2>1, <2>2, <2>3, <2>4, <2>5, <2>6 DEF Next
<1>3. InstallInv => InstallExclusive
  BY DEF InstallExclusive
<1> QED
  BY <1>1, <1>2, <1>3, PTL DEF Spec

-----------------------------------------------------------------------------
(* The rest is about clients that send one request at a time, or several about
   different VMs: a thread is then alone with the VM it serves.  The state is seen
   through the set of the VMs that run. *)

Live == {running[i] : i \in DOMAIN running}
Vms(n) == {o \in Live : idOf[o] = n}

Making == {"create", "lock", "install", "waitIp", "mountSwap", "enable", "push"}
Killing == {"killDomain", "deleteFiles", "removeScan", "removeAssign"}

\* TypeOK, but for the life of the objects in the vector.
TypeInv ==
  /\ server \in {"down", "up", "stopping"}
  /\ pc \in [Thread -> {"idle", "hasVM", "new", "create", "lock", "install",
                       "waitIp", "mountSwap", "enable", "push", "reply",
                       "getVM", "use", "killDomain", "deleteFiles",
                       "removeScan", "removeAssign", "delete"}]
  /\ op \in [Thread -> {"provision", "kill", "ip", "nat", none}]
  /\ name \in [Thread -> Name \union {none}]
  /\ answer \in [Thread -> {"ip", "ok", "not_found", none}]
  /\ vm \in [Thread -> Obj \union {none}]
  /\ victim \in [Thread -> Obj \union {none}]
  /\ mutex \in Thread \union {none}
  /\ running \in Seq(Obj)
  /\ kept \in [Thread -> Seq(Obj)]
  /\ idOf \in [Obj -> Name \union {none}] /\ domOf \in [Obj -> Obj \union {none}]
  /\ domain \in [Name -> Obj \union {none}] /\ files \subseteq Name

\* Each thread is where its request may be, and alone with the VM it serves.
RequestInv ==
  /\ \A t \in Thread : pc[t] # "idle" =>
       /\ name[t] \in Name /\ op[t] \in Ops
       /\ t # acceptor <=> op[t] = "provision"
       /\ pc[t] \in Making \union {"new", "reply"} => op[t] = "provision"
       /\ pc[t] \in Killing \union {"delete"} => op[t] = "kill"
       /\ pc[t] = "use" => op[t] \in {"ip", "nat"}
  /\ pc[acceptor] # "idle" => server = "up"
  /\ server = "down" => /\ Busy = {} /\ running = <<>>
                        /\ idOf = [o \in Obj |-> none]
  /\ \A t, u \in Busy : name[t] = name[u] => t = u
  /\ Discipline = "one" => \A t, u \in Busy : t = u

\* What thread t knows of the VM it serves, at each of its steps.
Serves(t) ==
  /\ pc[t] = "new" => Vms(name[t]) = {}
  /\ pc[t] = "getVM" /\ op[t] # "provision" => Vms(name[t]) # {}
  /\ pc[t] \in Making \/ (pc[t] = "getVM" /\ op[t] = "provision") =>
       Vms(name[t]) = {} /\ vm[t] \in Obj /\ idOf[vm[t]] = name[t]
  /\ pc[t] = "reply" => vm[t] \in Obj /\ idOf[vm[t]] = name[t]
  /\ pc[t] \in Killing \union {"use"} => victim[t] \in Vms(name[t])
  /\ pc[t] = "delete" =>
       Vms(name[t]) = {} /\ victim[t] \in Obj /\ idOf[victim[t]] = name[t]

\* The copy that removeVM has built.
Keeps(t) ==
  pc[t] = "removeAssign" =>
    /\ Len(kept[t]) <= 1
    /\ \A i \in DOMAIN kept[t] : kept[t][i] \in Live /\ idOf[kept[t][i]] # name[t]

Holds(t) ==
  /\ pc[t] \in {"idle", "hasVM"} => vm[t] = none /\ victim[t] = none
  /\ pc[t] # "idle" /\ op[t] = "provision" => victim[t] = none
  /\ pc[t] # "idle" /\ op[t] # "provision" => vm[t] = none
  /\ pc[t] = "new" => vm[t] = none
  /\ pc[t] = "getVM" => victim[t] = none

\* Two running VMs never have the same name.
NoTwins ==
  \A i, j \in DOMAIN running : idOf[running[i]] = idOf[running[j]] => i = j

HeapInv ==
  /\ Live \subseteq alive
  /\ NoTwins
  /\ \A t \in Thread : Serves(t) /\ Keeps(t) /\ Holds(t)

Inv == TypeInv /\ RequestInv /\ HeapInv

-----------------------------------------------------------------------------
(* The vector, and the lookups in it. *)

LEMMA AcceptorIsThread == acceptor \in Thread /\ Provisioner \subseteq Thread
  BY DEF Thread

LEMMA LeastPosition ==
  ASSUME NEW P \in SUBSET Nat, P # {}
  PROVE  First(P) \in P /\ \A j \in P : First(P) <= j
  <1>1. IsWellFoundedOn(OpToRel(<, Nat), Nat)
    BY Zenon, NatLessThanWellFounded
  <1>2. PICK i \in P : \A j \in P : <<j, i>> \notin OpToRel(<, Nat)
    BY <1>1, WFMin
  <1>3. \A j \in P : ~ (j < i)
    BY <1>2 DEF OpToRel
  <1>4. \A j \in P : i <= j
    BY <1>3
  <1> QED BY <1>4 DEF First

LEMMA RunningType ==
  ASSUME TypeInv
  PROVE  /\ Live \subseteq Obj
         /\ \A i \in DOMAIN running : i \in Nat /\ running[i] \in Obj
  <1>1. running \in Seq(Obj)
    BY DEF TypeInv
  <1>2. DOMAIN running = 1..Len(running) /\ Len(running) \in Nat
    BY <1>1
  <1>3. \A i \in DOMAIN running : i \in Nat /\ running[i] \in Obj
    BY <1>1, <1>2
  <1> QED BY <1>3 DEF Live

LEMMA FoundIsVms ==
  ASSUME TypeInv, NEW n
  PROVE  /\ Found(n) <=> Vms(n) # {}
         /\ Found(n) => Lookup(n) \in Vms(n)
  <1>1. Positions(n) \in SUBSET Nat /\ Positions(n) \subseteq DOMAIN running
    BY RunningType DEF Positions
  <1>2. Found(n) <=> Vms(n) # {}
    BY DEF Found, Vms, Live, Positions
  <1>3. ASSUME Found(n) PROVE Lookup(n) \in Vms(n)
    <2>1. First(Positions(n)) \in Positions(n)
      BY <1>1, <1>3, LeastPosition DEF Found
    <2> QED BY <2>1 DEF Lookup, Vms, Live, Positions
  <1> QED BY <1>2, <1>3

LEMMA FirstOfType ==
  ASSUME TypeInv, NEW P, P \subseteq DOMAIN running
  PROVE  /\ FirstOf(P) \in Seq(Obj) /\ Len(FirstOf(P)) <= 1
         /\ \A i \in DOMAIN FirstOf(P) : \E p \in P : FirstOf(P)[i] = running[p]
         /\ P # {} => 1 \in DOMAIN FirstOf(P)
  <1>1. P \in SUBSET Nat
    BY RunningType
  <1>2. CASE P = {}
    BY <1>2 DEF FirstOf
  <1>3. CASE P # {}
    <2> DEFINE p == First(P)
    <2>1. p \in P /\ running[p] \in Obj
      BY <1>1, <1>3, LeastPosition, RunningType
    <2>2. FirstOf(P) = <<running[p]>>
      BY <1>3 DEF FirstOf
    <2> HIDE DEF p
    <2>3. DOMAIN FirstOf(P) = {1} /\ FirstOf(P)[1] = running[p]
      BY <2>2
    <2>4. FirstOf(P) \in Seq(Obj) /\ Len(FirstOf(P)) = 1
      BY <2>1, <2>2
    <2> QED BY <2>1, <2>3, <2>4
  <1> QED BY <1>2, <1>3

LEMMA LivePush ==
  ASSUME TypeInv, NEW o \in Obj, running' = Append(running, o)
  PROVE  /\ Live' = Live \union {o}
         /\ DOMAIN running' = DOMAIN running \union {Len(running) + 1}
         /\ Len(running) + 1 \notin DOMAIN running
         /\ running'[Len(running) + 1] = o
         /\ \A i \in DOMAIN running : running'[i] = running[i]
  <1>1. running \in Seq(Obj) /\ DOMAIN running = 1..Len(running) /\ Len(running) \in Nat
    BY DEF TypeInv
  <1>2. DOMAIN running' = 1..(Len(running) + 1)
    BY <1>1
  <1>3. DOMAIN running' = DOMAIN running \union {Len(running) + 1}
        /\ Len(running) + 1 \notin DOMAIN running
    BY <1>1, <1>2
  <1>4. running'[Len(running) + 1] = o
        /\ \A i \in DOMAIN running : running'[i] = running[i]
    BY <1>1
  <1> QED BY <1>3, <1>4 DEF Live

-----------------------------------------------------------------------------
(* What a step of thread t leaves alone. *)

\* The other threads stay where they are.
Still(u) ==
  /\ pc'[u] = pc[u] /\ op'[u] = op[u] /\ name'[u] = name[u]
  /\ vm'[u] = vm[u] /\ victim'[u] = victim[u] /\ kept'[u] = kept[u]

LEMMA OthersStill ==
  ASSUME TypeInv, NEW t \in Thread, Step(t)
  PROVE  \A u \in Thread \ {t} : Still(u)
  <1> USE DEF TypeInv, Still, Goto, Answer, frame
  <1>1. CASE hasVM(t) \/ use(t) \/ reply(t) \/ createFails(t) \/ delete(t)
    BY <1>1 DEF hasVM, use, reply, createFails, delete
  <1>2. CASE getVM(t)
    BY <1>2 DEF getVM
  <1>3. CASE New(t)
    BY <1>3 DEF New
  <1>4. CASE createDirAndVMFile(t) \/ lock(t) \/ installVM(t) \/ waitIpVM(t) \/ mountSwap(t)
             \/ enable(t) \/ push(t) \/ killDomain(t) \/ deleteDirAndVMFile(t)
    BY <1>4 DEF createDirAndVMFile, lock, installVM, waitIpVM, mountSwap, enable, push,
                killDomain, deleteDirAndVMFile
  <1>5. CASE removeScan(t) \/ removeAssign(t)
    BY <1>5 DEF removeScan, removeAssign
  <1> QED BY <1>1, <1>2, <1>3, <1>4, <1>5 DEF Step

-----------------------------------------------------------------------------
(* The ranges of the variables. *)

LEMMA TypeStep ==
  ASSUME Inv, NEW t \in Thread, Step(t)
  PROVE  TypeInv'
  <1>0. TypeInv /\ (pc[t] # "idle" => name[t] \in Name)
    BY DEF Inv, RequestInv
  <1> USE <1>0 DEF TypeInv, Goto, Answer, frame, heap, host
  <1>1. CASE hasVM(t) \/ use(t) \/ reply(t)
    BY <1>1 DEF hasVM, use, reply
  <1>2. CASE getVM(t)
    <2>1. Found(name[t]) => Lookup(name[t]) \in Obj
      BY FoundIsVms, RunningType DEF Vms
    <2>2. UNCHANGED <<server, kept, mutex, running, heap, host>>
      BY <1>2 DEF getVM
    <2>3. CASE /\ Found(name[t])
               /\ victim' = [victim EXCEPT ![t] = Lookup(name[t])]
               /\ pc' = [pc EXCEPT ![t] =
                    IF op[t] \in {"ip", "nat"} THEN "use" ELSE "killDomain"]
               /\ UNCHANGED <<op, name, vm, answer>>
      BY <2>1, <2>2, <2>3
    <2>4. CASE \/ Goto(t, "create") \/ Answer(t, "ok") \/ Answer(t, "not_found")
      BY <2>2, <2>4
    <2> QED BY <1>2, <2>3, <2>4 DEF getVM
  <1>3. CASE New(t)
    <2>1. (CHOOSE x \in Obj \ alive : TRUE) \in Obj /\ name[t] \in Name
      <3>1. Obj \ alive # {} /\ pc[t] = "new"
        BY <1>3 DEF New, alive
      <3> QED BY <3>1
    <2>2. UNCHANGED <<server, op, name, victim, kept, answer, mutex, running, domOf, host>>
          /\ pc' = [pc EXCEPT ![t] = "getVM"]
      BY <1>3 DEF New
    <2>3. idOf' \in [Obj -> Name \union {none}] /\ vm' \in [Thread -> Obj \union {none}]
      BY <1>3, <2>1 DEF New
    <2> QED BY <2>2, <2>3
  <1>4. CASE createDirAndVMFile(t) \/ deleteDirAndVMFile(t)
    BY <1>4 DEF createDirAndVMFile, deleteDirAndVMFile
  <1>5. CASE createFails(t) \/ delete(t)
    <2>1. idOf' \in [Obj -> Name \union {none}] /\ domOf' \in [Obj -> Obj \union {none}]
      BY <1>5 DEF createFails, delete, Free
    <2>2. files' \subseteq Name
      BY <1>5 DEF createFails, delete
    <2> QED BY <1>5, <2>1, <2>2 DEF createFails, delete
  <1>6. CASE lock(t) \/ waitIpVM(t) \/ mountSwap(t)
    BY <1>6 DEF lock, waitIpVM, mountSwap
  <1>7. CASE installVM(t)
    BY <1>7 DEF installVM
  <1>8. CASE enable(t)
    BY <1>8 DEF enable
  <1>9. CASE push(t)
    <2>1. vm[t] \in Obj
      BY <1>9 DEF push, Inv, HeapInv, Serves, Making
    <2>2. running' \in Seq(Obj)
      BY <1>9, <2>1 DEF push
    <2>3. UNCHANGED <<server, kept, mutex, heap, host, answer, frame>>
          /\ pc' = [pc EXCEPT ![t] = "reply"]
      BY <1>9 DEF push
    <2> QED BY <2>2, <2>3
  <1>10. CASE killDomain(t)
    BY <1>10 DEF killDomain
  <1>11. CASE removeScan(t)
    <2>1. FirstOf(DOMAIN running \ Positions(name[t])) \in Seq(Obj)
      BY FirstOfType
    <2> QED BY <1>11, <2>1 DEF removeScan
  <1>12. CASE removeAssign(t)
    <2>1. kept' \in [Thread -> Seq(Obj)] /\ running' \in Seq(Obj)
      BY <1>12 DEF removeAssign
    <2>2. UNCHANGED <<server, mutex, heap, host, answer, frame>>
          /\ pc' = [pc EXCEPT ![t] = "delete"]
      BY <1>12 DEF removeAssign
    <2> QED BY <2>1, <2>2
  <1> QED BY <1>1, <1>2, <1>3, <1>4, <1>5, <1>6, <1>7, <1>8, <1>9, <1>10, <1>11, <1>12
      DEF Step

-----------------------------------------------------------------------------
(* The requests. *)

\* Thread t has answered, or goes on with the same request.
GoesOn(t) ==
  pc'[t] # "idle" =>
    /\ op'[t] = op[t] /\ name'[t] = name[t]
    /\ pc'[t] \in Making \union {"new", "reply"} => op[t] = "provision"
    /\ pc'[t] \in Killing \union {"delete"} => op[t] = "kill"
    /\ pc'[t] = "use" => op[t] \in {"ip", "nat"}

LEMMA RequestMove ==
  ASSUME Inv, NEW t \in Thread, pc[t] # "idle", server' = server,
         \A u \in Thread \ {t} : Still(u), GoesOn(t)
  PROVE  RequestInv'
  <1> USE DEF Inv, RequestInv, Still, GoesOn, Busy
  <1>1. server' # "down"
    OBVIOUS
  <1>2. \A u \in Thread : pc'[u] # "idle" =>
          /\ name'[u] \in Name /\ op'[u] \in Ops
          /\ u # acceptor <=> op'[u] = "provision"
    OBVIOUS
  <1>3. \A u \in Thread : pc'[u] # "idle" =>
          /\ pc'[u] \in Making \union {"new", "reply"} => op'[u] = "provision"
          /\ pc'[u] \in Killing \union {"delete"} => op'[u] = "kill"
          /\ pc'[u] = "use" => op'[u] \in {"ip", "nat"}
    OBVIOUS
  <1>4. \A u \in Busy' : u \in Busy /\ name'[u] = name[u]
    OBVIOUS
  <1>5. pc'[acceptor] # "idle" => server' = "up"
    BY <1>4, AcceptorIsThread
  <1> QED BY <1>1, <1>2, <1>3, <1>4, <1>5

LEMMA StepGoesOn ==
  ASSUME Inv, NEW t \in Thread, Step(t)
  PROVE  pc[t] # "idle" /\ server' = server /\ GoesOn(t)
  <1>1. /\ pc \in [Thread -> {"idle", "hasVM", "new", "create", "lock", "install",
                       "waitIp", "mountSwap", "enable", "push", "reply",
                       "getVM", "use", "killDomain", "deleteFiles",
                       "removeScan", "removeAssign", "delete"}]
        /\ pc[t] # "idle" =>
             /\ pc[t] \in Making \union {"new", "reply"} => op[t] = "provision"
             /\ pc[t] \in Killing \union {"delete"} => op[t] = "kill"
             /\ op[t] \in {"provision", "kill", "ip", "nat"}
    BY DisciplineAssumption DEF Inv, TypeInv, RequestInv
  <1> USE DEF Making, Killing, Goto, Answer, frame, GoesOn
  <1>2. CASE hasVM(t)
    BY <1>1, <1>2 DEF hasVM
  <1>3. CASE getVM(t)
    <2>1. ~ (op[t] = "provision" /\ Found(name[t]))
      BY <1>3, FoundIsVms DEF getVM, Inv, HeapInv, Serves
    <2> QED BY <1>1, <1>3, <2>1 DEF getVM
  <1>4. CASE New(t)
    BY <1>1, <1>4 DEF New
  <1>5. CASE use(t) \/ reply(t) \/ createFails(t)
    BY <1>1, <1>5 DEF use, reply, createFails
  <1>6. CASE createDirAndVMFile(t) \/ lock(t) \/ installVM(t) \/ waitIpVM(t)
             \/ mountSwap(t) \/ enable(t) \/ push(t)
    BY <1>1, <1>6 DEF createDirAndVMFile, lock, installVM, waitIpVM, mountSwap, enable, push
  <1>7. CASE killDomain(t) \/ deleteDirAndVMFile(t) \/ removeScan(t) \/ removeAssign(t)
    BY <1>1, <1>7 DEF killDomain, deleteDirAndVMFile, removeScan, removeAssign
  <1>8. CASE delete(t)
    BY <1>1, <1>8 DEF delete
  <1> QED BY <1>2, <1>3, <1>4, <1>5, <1>6, <1>7, <1>8 DEF Step

-----------------------------------------------------------------------------
(* The objects. *)

\* What a thread that serves n sees does not change.
View(n) ==
  /\ {o \in Live' : idOf'[o] = n} = Vms(n)
  /\ \A o \in Obj : idOf[o] = n => idOf'[o] = n

\* Nor does it if only other VMs are dropped from the vector.
Shrinks(n) ==
  /\ {o \in Live' : idOf'[o] = n} \subseteq Vms(n)
  /\ \A o \in Obj : idOf[o] = n => idOf'[o] = n

\* The vector does not lose a VM, and its VMs keep their names.
Grows == Live \subseteq Live' /\ \A o \in Live : idOf'[o] = idOf[o]

LEMMA HeapMove ==
  ASSUME Inv, NEW t \in Thread, Step(t),
         \/ Grows /\ \A n \in Name \ {name[t]} : View(n)
         \/ op[t] = "kill" /\ \A n \in Name \ {name[t]} : Shrinks(n),
         (Live \subseteq alive)', NoTwins', Serves(t)', Keeps(t)', Holds(t)'
  PROVE  HeapInv'
  <1>1. \A u \in Thread \ {t} : Still(u)
    BY OthersStill DEF Inv
  <1>2. pc[t] # "idle" /\ server' = server /\ GoesOn(t)
    BY StepGoesOn
  <1>3. ASSUME NEW u \in Thread \ {t} PROVE Serves(u)' /\ Keeps(u)' /\ Holds(u)'
    <2>1. Still(u) /\ Serves(u) /\ Keeps(u) /\ Holds(u)
      BY <1>1 DEF Inv, HeapInv
    <2>2. Holds(u)'
      BY <2>1 DEF Still, Holds
    <2>3. pc[u] # "idle" => name[u] \in Name \ {name[t]}
      BY <1>2 DEF Inv, RequestInv, Busy
    <2>4. pc[u] = "idle" => Serves(u)' /\ Keeps(u)'
      BY <2>1 DEF Still, Serves, Keeps, Making, Killing
    <2>5. CASE pc[u] # "idle" /\ Grows /\ View(name[u])
      <3>1. name'[u] = name[u] /\ Vms(name[u])' = Vms(name[u])
        BY <2>1, <2>5 DEF View, Still, Vms
      <3>2. \A o \in Obj : idOf[o] = name[u] => idOf'[o] = name[u]
        BY <2>5 DEF View
      <3>3. Serves(u)'
        BY <2>1, <3>1, <3>2 DEF Still, Serves
      <3>4. Keeps(u)'
        BY <2>1, <2>5 DEF Grows, Still, Keeps
      <3> QED BY <2>2, <3>3, <3>4
    <2>6. CASE pc[u] # "idle" /\ op[t] = "kill" /\ Shrinks(name[u])
      <3>1. /\ op[u] = "provision"
            /\ pc[u] \notin Killing \union {"use", "delete"}
        BY <1>2, <2>6, AcceptorIsThread DEF Inv, RequestInv
      <3>2. name'[u] = name[u] /\ Vms(name[u])' \subseteq Vms(name[u])
        BY <2>1, <2>6 DEF Shrinks, Still, Vms
      <3>3. \A o \in Obj : idOf[o] = name[u] => idOf'[o] = name[u]
        BY <2>6 DEF Shrinks
      <3>4. Serves(u)'
        BY <2>1, <3>1, <3>2, <3>3 DEF Still, Serves
      <3>5. Keeps(u)'
        BY <2>1, <3>1 DEF Still, Keeps, Killing
      <3> QED BY <2>2, <3>4, <3>5
    <2> QED BY <2>2, <2>3, <2>4, <2>5, <2>6
  <1> QED BY <1>3 DEF HeapInv

LEMMA QuietView ==
  ASSUME running' = running, idOf' = idOf
  PROVE  Live' = Live /\ alive' = alive /\ Grows /\ \A n : View(n)
  <1>1. Live' = Live /\ alive' = alive
    BY DEF Live, alive
  <1> QED BY <1>1 DEF Vms, View, Grows

(* The steps that neither change the vector nor allocate or free an object. *)
LEMMA HeapQuiet ==
  ASSUME Inv, NEW t \in Thread, Step(t), running' = running, idOf' = idOf,
         Serves(t)', Keeps(t)', Holds(t)'
  PROVE  HeapInv'
  <1>1. Live' = Live /\ alive' = alive /\ Grows /\ \A n : View(n)
    BY QuietView
  <1>2. (Live \subseteq alive)' /\ NoTwins'
    BY <1>1 DEF Inv, HeapInv, NoTwins
  <1> QED BY <1>1, <1>2, HeapMove

LEMMA HeapQuietStep ==
  ASSUME Inv, NEW t \in Thread, running' = running, idOf' = idOf,
         \/ hasVM(t) \/ getVM(t) \/ use(t) \/ reply(t)
         \/ createDirAndVMFile(t) \/ lock(t) \/ installVM(t) \/ waitIpVM(t) \/ mountSwap(t)
         \/ enable(t) \/ killDomain(t) \/ deleteDirAndVMFile(t) \/ removeScan(t)
  PROVE  HeapInv'
  <1>1. Step(t)
    BY DEF Step
  <1>2. \A n : {o \in Live' : idOf'[o] = n} = Vms(n)
    BY QuietView DEF View
  <1>3. name'[t] = name[t] => Vms(name[t])' = Vms(name[t])
    BY <1>2 DEF Vms
  <1>4. /\ pc \in [Thread -> {"idle", "hasVM", "new", "create", "lock", "install",
                       "waitIp", "mountSwap", "enable", "push", "reply",
                       "getVM", "use", "killDomain", "deleteFiles",
                       "removeScan", "removeAssign", "delete"}]
        /\ victim \in [Thread -> Obj \union {none}] /\ kept \in [Thread -> Seq(Obj)]
        /\ vm \in [Thread -> Obj \union {none}] /\ op[t] \in {"provision", "kill", "ip", "nat", none}
    BY DEF Inv, TypeInv
  <1>5. Serves(t) /\ Keeps(t) /\ Holds(t)
    BY DEF Inv, HeapInv
  <1>6. Found(name[t]) <=> Vms(name[t]) # {}
    BY FoundIsVms DEF Inv
  <1>7. Serves(t)' /\ Keeps(t)' /\ Holds(t)'
    <2> USE <1>3, <1>4, <1>5 DEF Serves, Keeps, Holds, Goto, frame, Making, Killing
    <2>1. ASSUME \E r : Answer(t, r) PROVE Serves(t)' /\ Keeps(t)' /\ Holds(t)'
      BY <2>1 DEF Answer
    <2>2. CASE hasVM(t)
      <3>1. CASE op[t] = "provision" /\ ~ Found(name[t]) /\ Goto(t, "new")
        BY <1>6, <2>2, <3>1 DEF hasVM
      <3>2. CASE op[t] # "provision" /\ Found(name[t]) /\ Goto(t, "getVM")
        BY <1>6, <2>2, <3>2 DEF hasVM
      <3> QED BY <2>1, <2>2, <3>1, <3>2 DEF hasVM
    <2>3. CASE getVM(t)
      <3>1. CASE /\ Found(name[t])
                 /\ victim' = [victim EXCEPT ![t] = Lookup(name[t])]
                 /\ pc' = [pc EXCEPT ![t] =
                      IF op[t] \in {"ip", "nat"} THEN "use" ELSE "killDomain"]
                 /\ UNCHANGED <<op, name, vm, answer>>
        <4>1. Lookup(name[t]) \in Vms(name[t]) /\ op[t] # "provision" /\ pc[t] = "getVM"
          BY <2>3, <3>1, FoundIsVms DEF Inv, getVM
        <4>2. /\ pc'[t] \in {"use", "killDomain"} /\ victim'[t] \in Vms(name[t])
              /\ op'[t] = op[t] /\ name'[t] = name[t] /\ vm'[t] = vm[t]
          BY <3>1, <4>1
        <4>3. pc[t] # "idle"
          BY <4>1
        <4> QED BY <4>1, <4>2, <4>3
      <3>2. CASE op[t] = "provision" /\ Goto(t, "create")
        BY <2>3, <3>2 DEF getVM
      <3> QED BY <2>1, <2>3, <3>1, <3>2 DEF getVM
    <2>4. CASE use(t) \/ reply(t)
      BY <2>1, <2>4 DEF use, reply
    <2>5. CASE createDirAndVMFile(t) \/ lock(t) \/ installVM(t) \/ waitIpVM(t)
               \/ mountSwap(t) \/ enable(t)
      BY <2>5 DEF createDirAndVMFile, lock, installVM, waitIpVM, mountSwap, enable
    <2>6. CASE killDomain(t) \/ deleteDirAndVMFile(t)
      BY <2>6 DEF killDomain, deleteDirAndVMFile
    <2>7. CASE removeScan(t)
      <3> DEFINE P == DOMAIN running \ Positions(name[t])
      <3>1. /\ kept'[t] = FirstOf(P) /\ name'[t] = name[t] /\ victim'[t] = victim[t]
            /\ vm'[t] = vm[t] /\ op'[t] = op[t] /\ pc[t] = "removeScan" /\ pc'[t] = "removeAssign"
        BY <2>7 DEF removeScan
      <3>2. /\ Len(FirstOf(P)) <= 1
            /\ \A i \in DOMAIN FirstOf(P) : \E p \in P : FirstOf(P)[i] = running[p]
        <4>1. TypeInv /\ P \subseteq DOMAIN running
          BY DEF Inv
        <4> HIDE DEF P
        <4> QED BY <4>1, FirstOfType
      <3>3. \A p \in P : running[p] \in Live /\ idOf[running[p]] # name[t]
        BY DEF Positions, Live
      <3>4. Live' = Live
        BY QuietView
      <3> HIDE DEF P
      <3>5. Keeps(t)'
        BY <3>1, <3>2, <3>3, <3>4
      <3>6. Serves(t)' /\ Holds(t)'
        BY <3>1
      <3> QED BY <3>5, <3>6
    <2> QED BY <2>2, <2>3, <2>4, <2>5, <2>6, <2>7
  <1> QED BY <1>1, <1>7, HeapQuiet

LEMMA HeapNew ==
  ASSUME Inv, NEW t \in Thread, New(t)
  PROVE  HeapInv'
  <1>0. Step(t) /\ pc[t] = "new"
    BY DEF Step, New
  <1>1. PICK o \in Obj \ alive : /\ idOf' = [idOf EXCEPT ![o] = name[t]]
                                /\ vm' = [vm EXCEPT ![t] = o]
    <2>1. Obj \ alive # {}
      BY DEF New, alive
    <2>2. (CHOOSE x \in Obj \ alive : TRUE) \in Obj \ alive
      BY <2>1
    <2> QED BY <2>2 DEF New
  <1>2. /\ name[t] \in Name /\ name[t] # none /\ op[t] = "provision"
        /\ Live \subseteq alive /\ Live \subseteq Obj /\ Vms(name[t]) = {} /\ victim[t] = none
    BY <1>0, RunningType, NoneAssumption DEF Inv, RequestInv, HeapInv, Serves, Holds
  <1>3. /\ idOf \in [Obj -> Name \union {none}] /\ vm \in [Thread -> Obj \union {none}]
        /\ pc' = [pc EXCEPT ![t] = "getVM"] /\ UNCHANGED <<op, name, victim, kept, running>>
        /\ pc' [t] = "getVM"
    BY DEF New, Inv, TypeInv
  <1>4. Live' = Live /\ o \notin Live /\ idOf[o] = none
    BY <1>1, <1>2, <1>3 DEF Live, alive
  <1>5. idOf'[o] = name[t] /\ \A x \in Obj \ {o} : idOf'[x] = idOf[x]
    BY <1>1, <1>3
  <1>6. Grows /\ \A n \in Name : View(n)
    BY <1>2, <1>4, <1>5, NoneAssumption DEF Grows, View, Vms
  <1>7. (Live \subseteq alive)' /\ NoTwins'
    <2>1. \A i \in DOMAIN running : running[i] \in Obj \ {o}
      BY <1>2, <1>4 DEF Live
    <2> QED BY <1>2, <1>3, <1>4, <1>5, <2>1 DEF alive, NoTwins, Inv, HeapInv
  <1>8. Serves(t)' /\ Keeps(t)' /\ Holds(t)'
    <2>1. Vms(name[t])' = {}
      BY <1>2, <1>3, <1>4, <1>5 DEF Vms
    <2> QED BY <1>1, <1>2, <1>3, <1>5, <2>1 DEF Serves, Keeps, Holds, Making, Killing
  <1> QED BY <1>0, <1>6, <1>7, <1>8, HeapMove

(* An object that is neither in the vector nor named after the VM of another
   thread is freed. *)
LEMMA HeapFree ==
  ASSUME Inv, NEW t \in Thread, Step(t), pc[t] # "idle", pc'[t] = "idle",
         NEW o \in Obj, Free(o), idOf[o] = name[t], Vms(name[t]) = {},
         running' = running, vm'[t] = none, victim'[t] = none
  PROVE  HeapInv'
  <1>1. /\ idOf' = [idOf EXCEPT ![o] = none] /\ idOf \in [Obj -> Name \union {none}]
        /\ Live \subseteq alive /\ Live \subseteq Obj /\ name[t] \in Name
    BY RunningType DEF Free, Inv, TypeInv, HeapInv, RequestInv
  <1>2. idOf'[o] = none /\ \A x \in Obj \ {o} : idOf'[x] = idOf[x]
    BY <1>1
  <1>3. Live' = Live /\ o \notin Live
    BY DEF Live, Vms
  <1>4. Grows /\ \A n \in Name \ {name[t]} : View(n)
    BY <1>1, <1>2, <1>3, NoneAssumption DEF Grows, View, Vms
  <1>5. (Live \subseteq alive)' /\ NoTwins'
    <2>1. \A i \in DOMAIN running : running[i] \in Obj \ {o}
      BY <1>1, <1>3 DEF Live
    <2> QED BY <1>1, <1>2, <1>3, <2>1 DEF alive, NoTwins, Inv, HeapInv
  <1>6. Serves(t)' /\ Keeps(t)' /\ Holds(t)'
    BY DEF Serves, Keeps, Holds, Making, Killing
  <1> QED BY <1>4, <1>5, <1>6, HeapMove

LEMMA HeapPush ==
  ASSUME Inv, NEW t \in Thread, push(t)
  PROVE  HeapInv'
  <1>0. Step(t) /\ pc[t] = "push"
    BY DEF Step, push
  <1>1. /\ vm[t] \in Obj /\ idOf[vm[t]] = name[t] /\ name[t] \in Name /\ name[t] # none
        /\ op[t] = "provision" /\ Vms(name[t]) = {} /\ victim[t] = none
        /\ Live \subseteq alive /\ NoTwins
    BY <1>0, NoneAssumption DEF Inv, RequestInv, HeapInv, Serves, Holds, Making
  <1>2. /\ UNCHANGED <<op, name, vm, victim, kept, idOf>> /\ pc'[t] = "reply"
        /\ running' = Append(running, vm[t])
    BY DEF push, Goto, frame, heap, Inv, TypeInv
  <1>3. /\ Live' = Live \union {vm[t]}
        /\ DOMAIN running' = DOMAIN running \union {Len(running) + 1}
        /\ Len(running) + 1 \notin DOMAIN running
        /\ running'[Len(running) + 1] = vm[t]
        /\ \A i \in DOMAIN running : running'[i] = running[i]
    BY <1>1, <1>2, LivePush DEF Inv
  <1>4. Grows /\ \A n \in Name \ {name[t]} : View(n)
    BY <1>1, <1>2, <1>3 DEF Grows, View, Vms
  <1>5. (Live \subseteq alive)'
    BY <1>1, <1>2, <1>3 DEF alive
  <1>6. NoTwins'
    <2> DEFINE last == Len(running) + 1
    <2>1. \A i \in DOMAIN running : idOf[running[i]] # name[t]
      BY <1>1 DEF Vms, Live
    <2>2. /\ DOMAIN running' = DOMAIN running \union {last} /\ running'[last] = vm[t]
          /\ \A i \in DOMAIN running : running'[i] = running[i]
      BY <1>3
    <2> HIDE DEF last
    <2> QED BY <1>1, <1>2, <2>1, <2>2 DEF NoTwins
  <1>7. Serves(t)' /\ Keeps(t)' /\ Holds(t)'
    BY <1>1, <1>2 DEF Serves, Keeps, Holds, Making, Killing
  <1> QED BY <1>0, <1>4, <1>5, <1>6, <1>7, HeapMove

LEMMA HeapAssign ==
  ASSUME Inv, NEW t \in Thread, removeAssign(t)
  PROVE  HeapInv'
  <1>0. Step(t) /\ pc[t] = "removeAssign"
    BY DEF Step, removeAssign
  <1>1. /\ op[t] = "kill" /\ victim[t] \in Vms(name[t]) /\ vm[t] = none
        /\ Live \subseteq alive /\ Len(kept[t]) <= 1 /\ kept[t] \in Seq(Obj)
        /\ \A i \in DOMAIN kept[t] : kept[t][i] \in Live /\ idOf[kept[t][i]] # name[t]
    BY <1>0 DEF Inv, TypeInv, RequestInv, HeapInv, Serves, Keeps, Holds, Killing
  <1>2. /\ UNCHANGED <<op, name, vm, victim, idOf>> /\ pc'[t] = "delete"
        /\ running' = kept[t]
    BY DEF removeAssign, Goto, frame, heap, Inv, TypeInv
  <1>3. Live' \subseteq Live /\ \A o \in Live' : idOf[o] # name[t]
    BY <1>1, <1>2 DEF Live
  <1>4. \A n : Shrinks(n)
    BY <1>2, <1>3 DEF Shrinks, Vms
  <1>5. (Live \subseteq alive)'
    BY <1>1, <1>2, <1>3 DEF alive
  <1>6. NoTwins'
    <2>1. DOMAIN kept[t] = 1..Len(kept[t]) /\ Len(kept[t]) \in Nat
      BY <1>1
    <2>2. \A i, j \in DOMAIN kept[t] : i = j
      BY <1>1, <2>1
    <2> QED BY <1>2, <2>2 DEF NoTwins
  <1>7. Serves(t)' /\ Keeps(t)' /\ Holds(t)'
    <2>1. Vms(name[t])' = {}
      BY <1>2, <1>3 DEF Vms
    <2>2. victim[t] \in Obj /\ idOf[victim[t]] = name[t]
      BY <1>1, RunningType DEF Vms, Inv
    <2> QED BY <1>0, <1>1, <1>2, <2>1, <2>2 DEF Serves, Keeps, Holds, Making, Killing
  <1> QED BY <1>0, <1>1, <1>4, <1>5, <1>6, <1>7, HeapMove

LEMMA HeapStep ==
  ASSUME Inv, NEW t \in Thread, Step(t)
  PROVE  HeapInv'
  <1>1. CASE createFails(t)
    <2>1. vm[t] \in Obj /\ idOf[vm[t]] = name[t] /\ Vms(name[t]) = {}
      BY <1>1 DEF createFails, Inv, HeapInv, Serves, Making
    <2>2. /\ pc[t] = "create" /\ pc'[t] = "idle" /\ running' = running
          /\ vm'[t] = none /\ victim'[t] = none /\ Free(vm[t])
      BY <1>1 DEF createFails, Answer, Inv, TypeInv
    <2> QED BY <2>1, <2>2, HeapFree
  <1>2. CASE delete(t)
    <2>1. /\ victim[t] \in Obj /\ idOf[victim[t]] = name[t] /\ Vms(name[t]) = {}
          /\ op[t] # "provision"
      BY <1>2 DEF delete, Inv, HeapInv, Serves, RequestInv
    <2>2. /\ pc[t] = "delete" /\ pc'[t] = "idle" /\ running' = running
          /\ vm'[t] = none /\ victim'[t] = none /\ Free(victim[t])
      BY <1>2, <2>1 DEF delete, Answer, Inv, TypeInv
    <2> QED BY <2>1, <2>2, HeapFree
  <1>3. CASE hasVM(t) \/ getVM(t) \/ use(t) \/ reply(t)
    BY <1>3, HeapQuietStep DEF hasVM, getVM, use, reply, heap
  <1>4. CASE \/ createDirAndVMFile(t) \/ lock(t) \/ installVM(t) \/ waitIpVM(t)
             \/ mountSwap(t) \/ enable(t)
    BY <1>4, HeapQuietStep DEF createDirAndVMFile, lock, installVM, waitIpVM, mountSwap,
       enable, heap
  <1>5. CASE killDomain(t) \/ deleteDirAndVMFile(t) \/ removeScan(t)
    BY <1>5, HeapQuietStep DEF killDomain, deleteDirAndVMFile, removeScan, heap
  <1> QED BY <1>1, <1>2, <1>3, <1>4, <1>5, HeapNew, HeapPush, HeapAssign DEF Step

-----------------------------------------------------------------------------
(* The requests arrive, the daemon starts and stops. *)

LEMMA InvArrival ==
  ASSUME Discipline # "any", Inv,
         NEW t \in Thread, NEW o \in Ops, NEW n \in Name, acceptingLoop(t, o, n)
  PROVE  Inv'
  <1>1. /\ pc' = [pc EXCEPT ![t] = "hasVM"] /\ op' = [op EXCEPT ![t] = o]
        /\ name' = [name EXCEPT ![t] = n]
        /\ UNCHANGED <<server, vm, victim, kept, answer, mutex, running, idOf, domOf, domain, files>>
        /\ server = "up" /\ pc[t] = "idle" /\ pc[acceptor] = "idle"
        /\ t # acceptor <=> o = "provision"
    BY DEF acceptingLoop, heap, host
  <1>2. o \in {"provision", "kill", "ip", "nat"}
    BY DisciplineAssumption
  <1>3. /\ \A u \in Busy : name[u] # n
        /\ Discipline = "one" => Busy = {}
    BY DisciplineAssumption DEF acceptingLoop, Disciplined
  <1>4. TypeInv'
    BY <1>1, <1>2 DEF Inv, TypeInv
  <1>5. /\ pc'[t] = "hasVM" /\ op'[t] = o /\ name'[t] = n
        /\ \A u \in Thread \ {t} : Still(u)
    BY <1>1 DEF Inv, TypeInv, Still
  <1>6. RequestInv'
    <2>1. \A u \in Thread : pc'[u] # "idle" =>
            /\ name'[u] \in Name /\ op'[u] \in Ops
            /\ u # acceptor <=> op'[u] = "provision"
            /\ pc'[u] \in Making \union {"new", "reply"} => op'[u] = "provision"
            /\ pc'[u] \in Killing \union {"delete"} => op'[u] = "kill"
            /\ pc'[u] = "use" => op'[u] \in {"ip", "nat"}
      BY <1>1, <1>5 DEF Inv, RequestInv, Still, Making, Killing
    <2>2. \A u, w \in Busy' : name'[u] = name'[w] => u = w
      BY <1>3, <1>5 DEF Inv, RequestInv, Still, Busy
    <2>3. Discipline = "one" => \A u, w \in Busy' : u = w
      BY <1>3, <1>5 DEF Still, Busy
    <2> QED BY <1>1, <2>1, <2>2, <2>3 DEF RequestInv
  <1>7. HeapInv'
    <2>1. Live' = Live /\ alive' = alive /\ \A m : View(m)
      BY <1>1, QuietView
    <2>2. ASSUME NEW u \in Thread PROVE Serves(u)' /\ Keeps(u)' /\ Holds(u)'
      <3>1. CASE u = t
        <4>1. vm[t] = none /\ victim[t] = none
          BY <1>1 DEF Inv, HeapInv, Holds
        <4> QED BY <1>1, <1>5, <3>1, <4>1 DEF Serves, Keeps, Holds, Making, Killing
      <3>2. CASE u # t
        <4>1. Still(u) /\ Serves(u) /\ Keeps(u) /\ Holds(u)
          BY <1>5, <3>2 DEF Inv, HeapInv
        <4>2. Vms(name[u])' = Vms(name[u])
          BY <1>1, <2>1, <4>1 DEF Vms, Still
        <4> QED BY <1>1, <2>1, <4>1, <4>2 DEF Serves, Keeps, Holds, Still
      <3> QED BY <3>1, <3>2
    <2>3. NoTwins'
      BY <1>1 DEF Inv, HeapInv, NoTwins
    <2> QED BY <2>1, <2>2, <2>3 DEF Inv, HeapInv
  <1> QED BY <1>4, <1>6, <1>7 DEF Inv

(* The vector is emptied; the threads that provision are told nothing. *)
LEMMA InvEmptied ==
  ASSUME Inv, start \/ stop
  PROVE  Inv'
  <1>1. /\ running' = <<>> /\ UNCHANGED <<kept, mutex, idOf, domOf, files>>
        /\ server' \in {"up", "stopping"}
        /\ domain' = [n \in Name |-> none]
    BY DEF start, stop, killAllRunningDomains, heap
  <1>2. /\ \A u \in Thread \ {acceptor} : Still(u)
        /\ Still(acceptor) \/
             (pc'[acceptor] = "idle" /\ vm'[acceptor] = none /\ victim'[acceptor] = none)
        /\ server' = "stopping" => pc'[acceptor] = "idle"
        /\ pc' \in [Thread -> {"idle", "hasVM", "new", "create", "lock", "install",
                       "waitIp", "mountSwap", "enable", "push", "reply",
                       "getVM", "use", "killDomain", "deleteFiles",
                       "removeScan", "removeAssign", "delete"}]
        /\ op' \in [Thread -> {"provision", "kill", "ip", "nat", none}]
        /\ name' \in [Thread -> Name \union {none}]
        /\ answer' \in [Thread -> {"ip", "ok", "not_found", none}]
        /\ vm' \in [Thread -> Obj \union {none}]
        /\ victim' \in [Thread -> Obj \union {none}]
    <2>1. CASE start
      BY <2>1 DEF start, frame, Still, Inv, TypeInv
    <2>2. CASE stop
      BY <2>2, AcceptorIsThread DEF stop, Answer, frame, Still, Inv, TypeInv
    <2> QED BY <2>1, <2>2
  <1>3. TypeInv'
    BY <1>1, <1>2 DEF Inv, TypeInv
  <1>4. Live' = {} /\ DOMAIN running' = {}
    BY <1>1 DEF Live
  <1>5. \A u \in Thread : pc'[u] # "idle" => Still(u) /\ pc[u] # "idle"
    BY <1>2 DEF Still
  <1>6. RequestInv'
    <2>1. \A u \in Thread : pc'[u] # "idle" =>
            /\ name'[u] \in Name /\ op'[u] \in Ops
            /\ u # acceptor <=> op'[u] = "provision"
            /\ pc'[u] \in Making \union {"new", "reply"} => op'[u] = "provision"
            /\ pc'[u] \in Killing \union {"delete"} => op'[u] = "kill"
            /\ pc'[u] = "use" => op'[u] \in {"ip", "nat"}
      BY <1>5 DEF Inv, RequestInv, Still
    <2>2. \A u \in Busy' : u \in Busy /\ name'[u] = name[u]
      BY <1>5 DEF Still, Busy
    <2> QED BY <1>1, <1>2, <2>1, <2>2 DEF Inv, RequestInv
  <1>7. HeapInv'
    <2>1. ASSUME NEW u \in Thread PROVE Serves(u)' /\ Keeps(u)' /\ Holds(u)'
      <3>1. CASE pc'[u] = "idle"
        <4>1. vm'[u] = none /\ victim'[u] = none
          BY <1>2, <3>1 DEF Inv, HeapInv, Holds, Still
        <4> QED BY <3>1, <4>1 DEF Serves, Keeps, Holds, Making, Killing
      <3>2. CASE pc'[u] # "idle" /\ server' = "stopping"
        <4>1. /\ u # acceptor /\ Still(u) /\ pc[u] # "idle"
              /\ Serves(u) /\ Keeps(u) /\ Holds(u) /\ op[u] = "provision"
              /\ pc[u] \notin Killing \union {"use", "delete"}
          BY <1>2, <1>5, <3>2 DEF Inv, HeapInv, RequestInv
        <4>2. Vms(name[u])' = {}
          BY <1>4 DEF Vms
        <4> QED BY <1>1, <4>1, <4>2 DEF Serves, Keeps, Holds, Still, Killing
      <3>3. CASE pc'[u] # "idle" /\ server' # "stopping"
        BY <1>5, <3>3 DEF start, stop, Inv, RequestInv, Busy
      <3> QED BY <3>1, <3>2, <3>3
    <2> QED BY <1>4, <2>1 DEF HeapInv, NoTwins
  <1> QED BY <1>3, <1>6, <1>7 DEF Inv

LEMMA InvGone ==
  ASSUME Inv, exit \/ crash
  PROVE  Inv'
  <1>1. Gone
    BY DEF exit, crash
  <1>2. TypeInv'
    BY <1>1 DEF Gone, Inv, TypeInv, host
  <1>3. \A u \in Thread : pc'[u] = "idle" /\ vm'[u] = none /\ victim'[u] = none
    BY <1>1 DEF Gone
  <1>4. RequestInv'
    BY <1>1, <1>3, AcceptorIsThread DEF Gone, RequestInv, Busy
  <1>5. Live' = {} /\ NoTwins'
    BY <1>1 DEF Gone, Live, NoTwins
  <1>6. HeapInv'
    BY <1>3, <1>5 DEF HeapInv, Serves, Keeps, Holds, Making, Killing
  <1> QED BY <1>2, <1>4, <1>6 DEF Inv

LEMMA InvSame ==
  ASSUME Inv, UNCHANGED vars
  PROVE  Inv'
  <1>1. UNCHANGED <<server, pc, op, name, vm, victim, kept, answer, mutex, running,
                    idOf, domOf, domain, files>>
    BY DEF vars, frame, heap, host
  <1>2. Live' = Live /\ alive' = alive /\ Busy' = Busy
    BY <1>1 DEF Live, alive, Busy
  <1>3. \A n : {o \in Live' : idOf'[o] = n} = Vms(n)
    BY <1>1, <1>2 DEF Vms
  <1>4. TypeInv' /\ RequestInv'
    BY <1>1, <1>2 DEF Inv, TypeInv, RequestInv
  <1>5. ASSUME NEW t \in Thread PROVE Serves(t)' /\ Keeps(t)' /\ Holds(t)'
    <2>1. Vms(name[t])' = Vms(name[t])
      BY <1>1, <1>3 DEF Vms
    <2> QED BY <1>1, <1>2, <2>1 DEF Inv, HeapInv, Serves, Keeps, Holds
  <1>6. HeapInv'
    BY <1>1, <1>2, <1>5 DEF Inv, HeapInv, NoTwins
  <1> QED BY <1>4, <1>6 DEF Inv

LEMMA InvInit == Init => Inv
  <1> SUFFICES ASSUME Init PROVE Inv
    OBVIOUS
  <1> USE DEF Init
  <1>1. TypeInv
    BY DEF TypeInv
  <1>2. RequestInv
    BY AcceptorIsThread DEF RequestInv, Busy
  <1>3. Live = {} /\ NoTwins
    BY DEF Live, NoTwins
  <1>4. HeapInv
    BY <1>3 DEF HeapInv, Serves, Keeps, Holds, Making, Killing
  <1> QED BY <1>1, <1>2, <1>4 DEF Inv

LEMMA InvNext == Discipline # "any" /\ Inv /\ [Next]_vars => Inv'
  <1> SUFFICES ASSUME Discipline # "any", Inv, [Next]_vars PROVE Inv'
    OBVIOUS
  <1>1. ASSUME NEW t \in Thread, Step(t) PROVE Inv'
    <2>1. \A u \in Thread \ {t} : Still(u)
      BY <1>1, OthersStill DEF Inv
    <2>2. RequestInv'
      BY <1>1, <2>1, StepGoesOn, RequestMove
    <2> QED BY <1>1, <2>2, TypeStep, HeapStep DEF Inv
  <1> QED BY <1>1, InvArrival, InvEmptied, InvGone, InvSame DEF Next

\* The vector of LibvirtClient only ever holds VMs that are allocated, as long as
\* no two requests about the same VM are under way.
THEOREM RegistryTypeCorrect == ASSUME Discipline # "any" PROVE Spec => []TypeOK
  <1>1. Inv => TypeOK
    <2> SUFFICES ASSUME Inv PROVE TypeOK
      OBVIOUS
    <2>1. running \in Seq(Obj) /\ Live \subseteq alive
      BY DEF Inv, TypeInv, HeapInv
    <2>2. \A i \in 1..Len(running) : running[i] \in alive
      BY <2>1 DEF Live
    <2>3. running \in Seq(alive)
      BY <2>1, <2>2
    <2> QED BY <2>3 DEF Inv, TypeInv, TypeOK
  <1>2. Inv /\ [Next]_vars => Inv'
    BY InvNext
  <1> QED BY <1>1, <1>2, InvInit, PTL DEF Spec

\* kill and the error path of provision only delete VMs that no thread, and no
\* position of the vector, will use again, for any number of threads and VMs.
THEOREM NothingFreedIsUsed == ASSUME Discipline # "any" PROVE Spec => []NoUseAfterFree
  <1>1. Inv => NoUseAfterFree
    <2> SUFFICES ASSUME Inv, NEW t \in Thread PROVE Uses(t) \subseteq alive
      BY DEF NoUseAfterFree
    <2>1. /\ Live \subseteq alive /\ Serves(t)
          /\ pc[t] # "idle" => name[t] \in Name
      BY DEF Inv, HeapInv, RequestInv
    <2>2. pc[t] \in Making \union {"reply"} => vm[t] \in alive
      BY <2>1, NoneAssumption DEF Serves, alive, Making
    <2>3. pc[t] \in Killing \union {"use", "delete"} => victim[t] \in alive
      BY <2>1, NoneAssumption DEF Serves, alive, Killing, Vms
    <2> QED BY <2>1, <2>2, <2>3 DEF Uses, Live, Making, Killing
  <1>2. Inv /\ [Next]_vars => Inv'
    BY InvNext
  <1> QED BY <1>1, <1>2, InvInit, PTL DEF Spec

-----------------------------------------------------------------------------
(* The copy of removeVM holds one VM at most.  It is still the whole vector without
   the VM that is killed if nobody kills, or if clients wait for one answer before
   they send the next request and there are at most two VMs. *)
CopyIsWhole ==
  \/ "kill" \notin Ops
  \/ Discipline = "one" /\ \E a, b : Name \subseteq {a, b}

KeepsOthers ==
  \A t \in Thread : pc[t] = "removeAssign" =>
    \A o \in Live : idOf[o] # name[t] => \E i \in DOMAIN kept[t] : kept[t][i] = o

LEMMA ScanComes ==
  ASSUME TypeInv, NEW t \in Thread, Step(t), pc'[t] = "removeAssign"
  PROVE  removeScan(t)
  <1> USE DEF TypeInv, Goto, Answer
  <1>1. CASE hasVM(t) \/ use(t) \/ reply(t) \/ createFails(t) \/ delete(t)
    BY <1>1 DEF hasVM, use, reply, createFails, delete
  <1>2. CASE getVM(t)
    BY <1>2 DEF getVM
  <1>3. CASE New(t)
    BY <1>3 DEF New
  <1>4. CASE createDirAndVMFile(t) \/ lock(t) \/ installVM(t) \/ waitIpVM(t) \/ mountSwap(t)
             \/ enable(t) \/ push(t) \/ killDomain(t) \/ deleteDirAndVMFile(t)
    BY <1>4 DEF createDirAndVMFile, lock, installVM, waitIpVM, mountSwap, enable, push,
                killDomain, deleteDirAndVMFile
  <1>5. CASE removeAssign(t)
    BY <1>5 DEF removeAssign
  <1> QED BY <1>1, <1>2, <1>3, <1>4, <1>5 DEF Step

LEMMA ScanKeeps ==
  ASSUME Inv, NEW t \in Thread, removeScan(t),
         NEW a, NEW b, Name \subseteq {a, b},
         NEW o \in Live, idOf[o] # name[t]
  PROVE  \E i \in DOMAIN kept'[t] : kept'[t][i] = o
  <1> DEFINE P == DOMAIN running \ Positions(name[t])
  <1>1. kept'[t] = FirstOf(P) /\ name[t] \in Name
    BY DEF removeScan, Inv, TypeInv, RequestInv
  <1>2. PICK p \in DOMAIN running : o = running[p]
    BY DEF Live
  <1>3. p \in P
    BY <1>2 DEF Positions
  <1>4. /\ 1 \in DOMAIN FirstOf(P)
        /\ \A i \in DOMAIN FirstOf(P) : \E q \in P : FirstOf(P)[i] = running[q]
    <2>1. TypeInv /\ P \subseteq DOMAIN running /\ P # {}
      BY <1>3 DEF Inv
    <2> HIDE DEF P
    <2> QED BY <2>1, FirstOfType
  <1>5. PICK q \in P : FirstOf(P)[1] = running[q]
    BY <1>4
  <1>6. q \in DOMAIN running /\ idOf[running[q]] # name[t]
    BY <1>5 DEF Positions
  <1>7. \A i \in DOMAIN running : idOf[running[i]] \in Name
    BY RunningType DEF Inv, TypeInv, HeapInv, alive, Live
  <1>8. idOf[running[q]] = idOf[running[p]]
    BY <1>1, <1>2, <1>6, <1>7
  <1>9. q = p
    BY <1>6, <1>8 DEF Inv, HeapInv, NoTwins
  <1> QED BY <1>1, <1>2, <1>4, <1>5, <1>9

LEMMA KeepsNext ==
  ASSUME Discipline # "any", CopyIsWhole, Inv, KeepsOthers, [Next]_vars
  PROVE  KeepsOthers'
  <1>1. Inv'
    BY InvNext
  <1>2. CASE "kill" \notin Ops
    <2>1. \A u \in Thread : pc'[u] # "removeAssign"
      BY <1>1, <1>2 DEF Inv, RequestInv, Killing
    <2> QED BY <2>1 DEF KeepsOthers
  <1>3. CASE Discipline = "one" /\ \E a, b : Name \subseteq {a, b}
    <2>1. ASSUME NEW t \in Thread, Step(t) PROVE KeepsOthers'
      <3>1. pc[t] # "idle" /\ \A u \in Thread \ {t} : Still(u)
        BY <2>1, StepGoesOn, OthersStill DEF Inv
      <3>2. \A u \in Thread \ {t} : pc'[u] = "idle"
        BY <1>3, <3>1 DEF Still, Inv, RequestInv, Busy
      <3>3. ASSUME pc'[t] = "removeAssign", NEW o \in Live', idOf'[o] # name'[t]
            PROVE  \E i \in DOMAIN kept'[t] : kept'[t][i] = o
        <4>1. removeScan(t)
          BY <2>1, <3>3, ScanComes DEF Inv
        <4>2. o \in Live /\ idOf[o] # name[t]
          BY <3>3, <4>1, QuietView DEF removeScan, Goto, frame, heap
        <4> QED BY <1>3, <4>1, <4>2, ScanKeeps
      <3> QED BY <3>2, <3>3 DEF KeepsOthers
    <2>2. ASSUME NEW t \in Thread, NEW o \in Ops, NEW n \in Name, acceptingLoop(t, o, n)
          PROVE  KeepsOthers'
      <3>1. \A u \in Thread : pc'[u] # "removeAssign"
        BY <1>3, <2>2 DEF acceptingLoop, Disciplined, Busy, Inv, TypeInv
      <3> QED BY <3>1 DEF KeepsOthers
    <2>3. CASE start \/ stop
      <3>1. Live' = {}
        BY <2>3 DEF start, stop, killAllRunningDomains, Live
      <3> QED BY <3>1 DEF KeepsOthers
    <2>4. CASE exit \/ crash
      BY <2>4 DEF exit, crash, Gone, KeepsOthers
    <2>5. CASE UNCHANGED vars
      <3>1. UNCHANGED <<pc, name, kept, idOf, running>>
        BY <2>5 DEF vars, frame, heap
      <3>2. Live' = Live
        BY <3>1 DEF Live
      <3> QED BY <3>1, <3>2 DEF KeepsOthers
    <2> QED BY <2>1, <2>2, <2>3, <2>4, <2>5 DEF Next
  <1> QED BY <1>2, <1>3 DEF CopyIsWhole

-----------------------------------------------------------------------------
(* The domains of the hypervisor and the files of the VMs. *)

\* A VM that runs has its domain and its disk; one that does not has no domain.
Whole(n) ==
  /\ Vms(n) = {} => domain[n] = none
  /\ \A o \in Vms(n) : domain[n] = o /\ domOf[o] = o /\ n \in files

\* What thread t knows of the domain and the disk of the VM it serves.
Hosts(t) ==
  /\ pc[t] \in {"hasVM", "getVM", "use", "reply", "killDomain"} => Whole(name[t])
  /\ pc[t] \in {"new", "create", "lock", "install",
                "deleteFiles", "removeScan", "removeAssign", "delete"} =>
       domain[name[t]] = none
  /\ pc[t] \in {"lock", "install", "waitIp", "mountSwap", "enable", "push"} =>
       name[t] \in files
  /\ pc[t] = "waitIp" => domain[name[t]] \in {none, vm[t]}
  /\ pc[t] \in {"mountSwap", "enable", "push"} => domain[name[t]] = vm[t]
  /\ pc[t] = "push" => domOf[vm[t]] = vm[t]
  /\ pc[t] = "reply" => vm[t] \in Live

Held(o) == o \in Live \/ \E t \in Busy : o \in {vm[t], victim[t]}

WorldInv ==
  server = "up" =>
    /\ \A n \in Name : (\A t \in Busy : name[t] # n) => Whole(n)
    /\ \A t \in Thread : Hosts(t)
    /\ \A o \in alive : Held(o)

\* What a thread that serves n sees of the host does not change.
HostView(n) ==
  /\ domain'[n] = domain[n]
  /\ n \in files' <=> n \in files
  /\ \A o \in Obj : idOf[o] = n => domOf'[o] = domOf[o]

LEMMA WholeStill ==
  ASSUME Inv, NEW n \in Name, View(n), HostView(n), Whole(n)
  PROVE  Whole(n)'
  <1>1. Vms(n)' = Vms(n)
    BY DEF View, Vms
  <1>2. \A o \in Vms(n) : o \in Obj /\ idOf[o] = n
    BY RunningType DEF Inv, Vms
  <1> QED BY <1>1, <1>2 DEF Whole, HostView

LEMMA WorldMove ==
  ASSUME Inv, Inv', WorldInv, server = "up", NEW t \in Thread, Step(t),
         NEW n \in Name, n = name[t],
         \A m \in Name \ {n} : View(m) /\ HostView(m),
         pc'[t] = "idle" => Whole(n)',
         Hosts(t)',
         \A o \in alive' :
           \/ o \in Live'
           \/ pc'[t] # "idle" /\ o \in {vm'[t], victim'[t]}
           \/ o \in alive /\ o \notin Live /\ o \notin {vm[t], victim[t]}
  PROVE  WorldInv'
  <1>1. pc[t] # "idle" /\ GoesOn(t) /\ \A u \in Thread \ {t} : Still(u)
    BY StepGoesOn, OthersStill DEF Inv
  <1>2. /\ \A m \in Name : (\A u \in Busy : name[u] # m) => Whole(m)
        /\ \A u \in Thread : Hosts(u)
        /\ \A o \in alive : Held(o)
    BY DEF WorldInv
  <1>3. ASSUME NEW m \in Name, \A u \in Busy' : name'[u] # m PROVE Whole(m)'
    <2>1. CASE m = n
      BY <1>1, <1>3, <2>1 DEF Busy, GoesOn
    <2>2. CASE m # n
      <3>1. \A u \in Busy : name[u] # m
        BY <1>1, <1>3, <2>2 DEF Busy, Still
      <3> QED BY <1>2, <2>2, <3>1, WholeStill
    <2> QED BY <2>1, <2>2
  <1>4. ASSUME NEW u \in Thread \ {t} PROVE Hosts(u)'
    <2>1. Still(u) /\ Hosts(u) /\ Serves(u)
      BY <1>1, <1>2 DEF Inv, HeapInv
    <2>2. CASE pc[u] = "idle"
      BY <2>1, <2>2 DEF Still, Hosts
    <2>3. CASE pc[u] # "idle"
      <3>1. PICK m \in Name \ {n} : m = name[u]
        BY <1>1, <2>3 DEF Inv, RequestInv, Busy
      <3>2. View(m) /\ HostView(m) /\ name'[u] = m
        BY <2>1, <3>1 DEF Still
      <3>3. Whole(m) => Whole(m)'
        BY <3>1, <3>2, WholeStill
      <3>4. Whole(m)' => Whole(name[u])'
        BY <3>2 DEF Whole, Vms
      <3>5. pc[u] \in {"hasVM", "getVM", "use", "reply", "killDomain"} => Whole(name[u])'
        BY <2>1, <3>1, <3>3, <3>4 DEF Hosts
      <3>6. pc[u] = "push" => domOf'[vm[u]] = domOf[vm[u]]
        BY <2>1, <3>1, <3>2 DEF Serves, HostView, Making
      <3>7. pc[u] = "reply" => vm[u] \in Live'
        BY <2>1, <3>1, <3>2 DEF Serves, Hosts, View, Vms
      <3> QED BY <2>1, <3>1, <3>2, <3>5, <3>6, <3>7 DEF Still, Hosts, HostView
    <2> QED BY <2>2, <2>3
  <1>5. ASSUME NEW o \in alive' PROVE Held(o)'
    <2>1. CASE o \in Live' \/ (pc'[t] # "idle" /\ o \in {vm'[t], victim'[t]})
      BY <2>1 DEF Held, Busy
    <2>2. CASE o \in alive /\ o \notin Live /\ o \notin {vm[t], victim[t]}
      <3>1. PICK u \in Busy : o \in {vm[u], victim[u]}
        BY <1>2, <2>2 DEF Held
      <3>2. u \in Thread \ {t}
        BY <2>2, <3>1 DEF Busy
      <3> QED BY <1>1, <3>1, <3>2 DEF Held, Busy, Still
    <2> QED BY <1>5, <2>1, <2>2
  <1> QED BY <1>3, <1>4, <1>5 DEF WorldInv

(* The steps that change neither the vector and the objects nor the host. *)
LEMMA WorldAlone ==
  ASSUME Inv, Inv', WorldInv, server = "up", NEW t \in Thread,
         UNCHANGED <<running, idOf, domOf, domain, files>>,
         hasVM(t) \/ getVM(t) \/ use(t) \/ reply(t) \/ lock(t) \/ waitIpVM(t)
         \/ mountSwap(t) \/ removeScan(t)
  PROVE  WorldInv'
  <1>0. Step(t) /\ pc[t] # "idle"
    <2>1. Step(t)
      BY DEF Step
    <2> QED BY <2>1, StepGoesOn
  <1>1. PICK n \in Name : n = name[t]
    BY <1>0 DEF Inv, RequestInv
  <1>2. Live' = Live /\ alive' = alive /\ \A m : View(m) /\ HostView(m)
    BY QuietView DEF HostView
  <1>3. Vms(n)' = Vms(n) /\ (Whole(n) => Whole(n)')
    <2>1. Vms(n)' = Vms(n)
      BY <1>2 DEF View, Vms
    <2> QED BY <2>1 DEF Whole
  <1>4. name'[t] = n => (Whole(n)' <=> Whole(name[t])')
    BY DEF Whole, Vms
  <1>5. Hosts(t) /\ Serves(t) /\ Holds(t)
    BY DEF WorldInv, Inv, HeapInv
  <1>6. /\ pc \in [Thread -> {"idle", "hasVM", "new", "create", "lock", "install",
                       "waitIp", "mountSwap", "enable", "push", "reply",
                       "getVM", "use", "killDomain", "deleteFiles",
                       "removeScan", "removeAssign", "delete"}]
        /\ victim \in [Thread -> Obj \union {none}]
        /\ none \notin alive /\ none \notin Obj
    BY NoneAssumption DEF Inv, TypeInv, alive
  <1>7. Found(n) <=> Vms(n) # {}
    BY FoundIsVms DEF Inv
  <1> DEFINE Loses == \A o \in alive' :
               \/ o \in Live'
               \/ pc'[t] # "idle" /\ o \in {vm'[t], victim'[t]}
               \/ o \in alive /\ o \notin Live /\ o \notin {vm[t], victim[t]}
  <1>8. /\ pc'[t] = "idle" => Whole(n)'
        /\ Hosts(t)' /\ Loses
    <2> USE <1>1, <1>2, <1>3, <1>4, <1>5, <1>6 DEF Hosts, Goto, frame
    <2>1. ASSUME Whole(n), {vm[t], victim[t]} \subseteq Live \union {none}, \E r : Answer(t, r)
          PROVE  (pc'[t] = "idle" => Whole(n)') /\ Hosts(t)' /\ Loses
      BY <2>1 DEF Answer
    <2>2. CASE hasVM(t)
      <3>1. CASE op[t] = "provision" /\ ~ Found(name[t]) /\ Goto(t, "new")
        <4>1. domain[n] = none /\ pc'[t] = "new" /\ name'[t] = n
          BY <1>7, <2>2, <3>1 DEF hasVM, Whole
        <4>2. vm[t] = none /\ victim[t] = none
          BY <2>2 DEF hasVM, Holds
        <4> QED BY <4>1, <4>2
      <3>2. CASE op[t] # "provision" /\ Found(name[t]) /\ Goto(t, "getVM")
        <4>1. Whole(n)' /\ pc'[t] = "getVM" /\ name'[t] = n
          BY <2>2, <3>2 DEF hasVM
        <4>2. vm[t] = none /\ victim[t] = none
          BY <2>2 DEF hasVM, Holds
        <4> QED BY <4>1, <4>2
      <3>3. CASE \E r : Answer(t, r)
        <4>1. vm[t] = none /\ victim[t] = none /\ Whole(n)
          BY <2>2 DEF hasVM, Holds
        <4> QED BY <2>1, <3>3, <4>1
      <3> QED BY <2>2, <3>1, <3>2, <3>3 DEF hasVM
    <2>3. CASE getVM(t)
      <3>1. Whole(n) /\ Whole(n)' /\ pc[t] = "getVM" /\ victim[t] = none
        BY <2>3 DEF getVM, Holds
      <3>2. CASE /\ Found(name[t])
                 /\ victim' = [victim EXCEPT ![t] = Lookup(name[t])]
                 /\ pc' = [pc EXCEPT ![t] =
                      IF op[t] \in {"ip", "nat"} THEN "use" ELSE "killDomain"]
                 /\ UNCHANGED <<op, name, vm, answer>>
        <4>1. vm[t] = none
          BY <1>7, <3>1, <3>2 DEF Holds, Serves
        <4>2. pc'[t] \in {"use", "killDomain"} /\ name'[t] = n
          BY <3>2
        <4> QED BY <3>1, <4>1, <4>2
      <3>3. CASE ~ Found(name[t]) /\ op[t] = "provision" /\ Goto(t, "create")
        <4>1. domain[n] = none /\ pc'[t] = "create" /\ name'[t] = n
          BY <1>7, <3>1, <3>3 DEF Whole
        <4>2. vm'[t] = vm[t] /\ victim'[t] = victim[t]
          BY <3>3
        <4> QED BY <4>1, <4>2
      <3>4. CASE op[t] # "provision" /\ \E r : Answer(t, r)
        <4>1. vm[t] = none
          BY <3>1, <3>4 DEF Holds
        <4> QED BY <2>1, <3>1, <3>4, <4>1
      <3> QED BY <2>3, <3>2, <3>3, <3>4 DEF getVM
    <2>4. CASE use(t)
      <3>1. Whole(n) /\ vm[t] = none /\ victim[t] \in Live
        BY <2>4 DEF use, Holds, Serves, Killing, Vms, Inv, RequestInv
      <3> QED BY <2>1, <2>4, <3>1 DEF use
    <2>5. CASE reply(t)
      <3>1. Whole(n) /\ vm[t] \in Live /\ victim[t] = none
        BY <2>5 DEF reply, Holds, Inv, RequestInv
      <3> QED BY <2>1, <2>5, <3>1 DEF reply
    <2>6. CASE lock(t) \/ waitIpVM(t) \/ mountSwap(t)
      BY <2>6 DEF lock, waitIpVM, mountSwap
    <2>7. CASE removeScan(t)
      BY <2>7 DEF removeScan
    <2> QED BY <2>2, <2>3, <2>4, <2>5, <2>6, <2>7
  <1> HIDE DEF Loses
  <1>9. \A m \in Name \ {n} : View(m) /\ HostView(m)
    BY <1>2
  <1> QED BY <1>0, <1>1, <1>8, <1>9, WorldMove DEF Loses

\* A domain that is active runs an object named after it.
LEMMA DomainOwn ==
  ASSUME Inv, WorldInv, server = "up", NEW n \in Name, domain[n] # none
  PROVE  domain[n] \in Obj /\ idOf[domain[n]] = n
  <1>1. CASE Whole(n)
    BY <1>1, RunningType DEF Whole, Vms, Inv
  <1>2. CASE \E t \in Busy : name[t] = n
    <2>1. PICK t \in Busy : name[t] = n
      BY <1>2
    <2>2. t \in Thread /\ Hosts(t) /\ Serves(t)
      BY <2>1 DEF Busy, WorldInv, Inv, HeapInv
    <2>3. CASE domain[n] = vm[t] /\ pc[t] \in Making
      BY <2>1, <2>2, <2>3 DEF Serves
    <2>4. (domain[n] = vm[t] /\ pc[t] \in Making) \/ Whole(n)
      <3>1. pc[t] \in {"hasVM", "new", "create", "lock", "install",
                       "waitIp", "mountSwap", "enable", "push", "reply",
                       "getVM", "use", "killDomain", "deleteFiles",
                       "removeScan", "removeAssign", "delete"}
        BY <2>1 DEF Busy, Inv, TypeInv
      <3> QED BY <2>1, <2>2, <3>1 DEF Hosts, Making
    <2> QED BY <1>1, <2>3, <2>4
  <1> QED BY <1>1, <1>2 DEF WorldInv

(* The steps that change the domain or the files of the VM they serve. *)
LEMMA WorldHost ==
  ASSUME Inv, Inv', WorldInv, server = "up", NEW t \in Thread,
         createDirAndVMFile(t) \/ installVM(t) \/ enable(t) \/ killDomain(t)
         \/ deleteDirAndVMFile(t)
  PROVE  WorldInv'
  <1>0. Step(t) /\ pc[t] # "idle"
    <2>1. Step(t)
      BY DEF Step
    <2> QED BY <2>1, StepGoesOn
  <1>1. PICK n \in Name : n = name[t]
    BY <1>0 DEF Inv, RequestInv
  <1>2. UNCHANGED <<running, idOf, op, name, vm, victim>> /\ pc'[t] # "idle"
    BY DEF createDirAndVMFile, installVM, enable, killDomain, deleteDirAndVMFile, Goto,
       frame, heap, Inv, TypeInv
  <1>3. Live' = Live /\ alive' = alive /\ \A m : View(m)
    BY <1>2, QuietView
  <1>4. Hosts(t) /\ Serves(t)
    BY DEF WorldInv, Inv, HeapInv
  <1>5. /\ pc \in [Thread -> {"idle", "hasVM", "new", "create", "lock", "install",
                       "waitIp", "mountSwap", "enable", "push", "reply",
                       "getVM", "use", "killDomain", "deleteFiles",
                       "removeScan", "removeAssign", "delete"}]
        /\ domain \in [Name -> Obj \union {none}] /\ domOf \in [Obj -> Obj \union {none}]
    BY DEF Inv, TypeInv
  <1>6. (\A m \in Name \ {n} : HostView(m)) /\ Hosts(t)'
    <2> USE <1>1, <1>2, <1>4, <1>5 DEF HostView, Hosts, Goto, heap, host
    <2>1. CASE createDirAndVMFile(t)
      BY <2>1 DEF createDirAndVMFile
    <2>2. CASE installVM(t)
      BY <2>2 DEF installVM
    <2>3. CASE enable(t)
      <3>1. vm[t] \in Obj /\ idOf[vm[t]] = n
        BY <2>3 DEF enable, Serves, Making
      <3> QED BY <2>3, <3>1 DEF enable
    <2>4. CASE killDomain(t)
      <3>1. /\ victim[t] \in Vms(n) /\ Whole(n) /\ pc[t] = "killDomain"
            /\ pc'[t] = "deleteFiles" /\ UNCHANGED <<domOf, files>>
        BY <2>4 DEF killDomain, Serves, Killing
      <3>2. domOf[victim[t]] = victim[t] /\ domain[n] = victim[t] /\ idOf[victim[t]] = n
            /\ victim[t] # none
        BY <3>1, RunningType, NoneAssumption DEF Whole, Vms, Inv
      <3>3. domain'[n] = none
        BY <2>4, <3>2 DEF killDomain
      <3>4. \A m \in Name \ {n} : domain'[m] = domain[m]
        <4>1. \A m \in Name \ {n} : domain[m] # victim[t]
          BY <3>2, DomainOwn
        <4> QED BY <2>4, <3>2, <4>1 DEF killDomain
      <3> QED BY <3>1, <3>3, <3>4
    <2>5. CASE deleteDirAndVMFile(t)
      <3>1. idOf[victim[t]] = n
        BY <2>5 DEF deleteDirAndVMFile, Serves, Killing, Vms
      <3> QED BY <2>5, <3>1 DEF deleteDirAndVMFile
    <2> QED BY <2>1, <2>2, <2>3, <2>4, <2>5
  <1>7. \A o \in alive' :
           \/ o \in Live'
           \/ pc'[t] # "idle" /\ o \in {vm'[t], victim'[t]}
           \/ o \in alive /\ o \notin Live /\ o \notin {vm[t], victim[t]}
    BY <1>2, <1>3
  <1> QED BY <1>0, <1>1, <1>2, <1>3, <1>6, <1>7, WorldMove

LEMMA WorldNew ==
  ASSUME Inv, Inv', WorldInv, server = "up", NEW t \in Thread, New(t)
  PROVE  WorldInv'
  <1>0. Step(t) /\ pc[t] = "new"
    BY DEF Step, New
  <1>1. PICK n \in Name : n = name[t]
    BY <1>0 DEF Inv, RequestInv
  <1>2. PICK o \in Obj \ alive : /\ idOf' = [idOf EXCEPT ![o] = name[t]]
                                /\ vm' = [vm EXCEPT ![t] = o]
    <2>1. Obj \ alive # {}
      BY DEF New, alive
    <2>2. (CHOOSE x \in Obj \ alive : TRUE) \in Obj \ alive
      BY <2>1
    <2> QED BY <2>2 DEF New
  <1>3. /\ idOf \in [Obj -> Name \union {none}] /\ vm \in [Thread -> Obj \union {none}]
        /\ pc'[t] = "getVM" /\ UNCHANGED <<op, name, victim, running, domOf, domain, files>>
    BY DEF New, Inv, TypeInv, host
  <1>4. /\ Vms(n) = {} /\ domain[n] = none /\ vm[t] = none /\ victim[t] = none
        /\ Live \subseteq alive /\ none \notin Obj
    <2>1. op[t] = "provision"
      BY <1>0 DEF Inv, RequestInv
    <2>2. Serves(t) /\ Holds(t) /\ Hosts(t) /\ Live \subseteq alive
      BY DEF Inv, HeapInv, WorldInv
    <2> QED BY <1>0, <1>1, <2>1, <2>2, NoneAssumption DEF Serves, Holds, Hosts
  <1>5. idOf'[o] = n /\ (\A x \in Obj \ {o} : idOf'[x] = idOf[x]) /\ vm'[t] = o
        /\ Live' = Live /\ o \notin Live /\ idOf[o] = none
    BY <1>1, <1>2, <1>3, <1>4 DEF Live, alive
  <1>6. \A m \in Name \ {n} : View(m) /\ HostView(m)
    <2>1. Live \subseteq Obj
      BY RunningType DEF Inv
    <2> QED BY <1>3, <1>5, <2>1, NoneAssumption DEF View, Vms, HostView
  <1>7. Hosts(t)'
    <2>1. Vms(name[t])' = {}
      BY <1>1, <1>3, <1>4, <1>5, RunningType DEF Vms, Inv
    <2> QED BY <1>1, <1>3, <1>4, <2>1 DEF Hosts, Whole
  <1>8. \A x \in alive' :
           \/ x \in Live'
           \/ pc'[t] # "idle" /\ x \in {vm'[t], victim'[t]}
           \/ x \in alive /\ x \notin Live /\ x \notin {vm[t], victim[t]}
    BY <1>3, <1>4, <1>5 DEF alive
  <1> QED BY <1>0, <1>1, <1>3, <1>6, <1>7, <1>8, WorldMove

(* The object of a VM that does not run is freed, and its request ends. *)
LEMMA WorldFree ==
  ASSUME Inv, Inv', WorldInv, server = "up", NEW t \in Thread, Step(t), pc'[t] = "idle",
         NEW o \in {vm[t], victim[t]}, o \in Obj, Free(o), idOf[o] = name[t],
         Vms(name[t]) = {}, domain[name[t]] = none,
         {vm[t], victim[t]} \subseteq {o, none},
         running' = running, domain' = domain,
         \A m \in Name \ {name[t]} : m \in files' <=> m \in files
  PROVE  WorldInv'
  <1>1. PICK n \in Name : n = name[t]
    BY StepGoesOn DEF Inv, RequestInv
  <1>2. /\ idOf \in [Obj -> Name \union {none}] /\ domOf \in [Obj -> Obj \union {none}]
        /\ Live \subseteq alive /\ Live \subseteq Obj /\ none \notin Obj /\ none \notin Name
    BY RunningType, NoneAssumption DEF Inv, TypeInv, HeapInv
  <1>3. /\ idOf'[o] = none /\ \A x \in Obj \ {o} : idOf'[x] = idOf[x] /\ domOf'[x] = domOf[x]
    BY <1>2 DEF Free
  <1>4. Live' = Live /\ o \notin Live
    BY DEF Live, Vms
  <1>5. \A m \in Name \ {n} : View(m) /\ HostView(m)
    BY <1>1, <1>2, <1>3, <1>4 DEF View, Vms, HostView
  <1>6. Whole(n)'
    <2>1. Vms(n)' = {}
      BY <1>1, <1>2, <1>3, <1>4 DEF Vms
    <2> QED BY <1>1, <2>1 DEF Whole
  <1>7. Hosts(t)'
    BY DEF Hosts
  <1>8. \A x \in alive' :
           \/ x \in Live'
           \/ pc'[t] # "idle" /\ x \in {vm'[t], victim'[t]}
           \/ x \in alive /\ x \notin Live /\ x \notin {vm[t], victim[t]}
    BY <1>2, <1>3, <1>4 DEF alive
  <1> QED BY <1>1, <1>5, <1>6, <1>7, <1>8, WorldMove

LEMMA WorldPush ==
  ASSUME Inv, Inv', WorldInv, server = "up", NEW t \in Thread, push(t)
  PROVE  WorldInv'
  <1>0. Step(t) /\ pc[t] = "push"
    BY DEF Step, push
  <1>1. PICK n \in Name : n = name[t]
    BY <1>0 DEF Inv, RequestInv
  <1>2. /\ vm[t] \in Obj /\ idOf[vm[t]] = n /\ Vms(n) = {}
        /\ domain[n] = vm[t] /\ domOf[vm[t]] = vm[t] /\ n \in files
    BY <1>0, <1>1 DEF Inv, HeapInv, Serves, Making, WorldInv, Hosts
  <1>3. /\ UNCHANGED <<name, vm, victim, idOf, domOf, domain, files>> /\ pc'[t] = "reply"
        /\ running' = Append(running, vm[t])
    BY DEF push, Goto, frame, heap, host, Inv, TypeInv
  <1>4. Live' = Live \union {vm[t]} /\ alive' = alive
    BY <1>2, <1>3, LivePush DEF Inv, alive
  <1>5. \A m \in Name \ {n} : View(m) /\ HostView(m)
    BY <1>2, <1>3, <1>4 DEF View, Vms, HostView
  <1>6. Hosts(t)'
    <2>1. Vms(name[t])' = {vm[t]}
      BY <1>1, <1>2, <1>3, <1>4 DEF Vms
    <2> QED BY <1>1, <1>2, <1>3, <1>4, <2>1 DEF Hosts, Whole
  <1>7. \A x \in alive' :
           \/ x \in Live'
           \/ pc'[t] # "idle" /\ x \in {vm'[t], victim'[t]}
           \/ x \in alive /\ x \notin Live /\ x \notin {vm[t], victim[t]}
    BY <1>3, <1>4
  <1> QED BY <1>0, <1>1, <1>3, <1>5, <1>6, <1>7, WorldMove

\* Only the VM that is killed leaves the vector.
LEMMA AssignKeeps ==
  ASSUME Inv, KeepsOthers, NEW t \in Thread, removeAssign(t)
  PROVE  /\ Live' = {o \in Live : idOf[o] # name[t]}
         /\ Vms(name[t]) = {victim[t]}
  <1>1. pc[t] = "removeAssign" /\ running' = kept[t] /\ victim[t] \in Vms(name[t])
    BY DEF removeAssign, Inv, HeapInv, Serves, Killing
  <1>2. \A o \in Live : idOf[o] # name[t] => o \in Live'
    BY <1>1 DEF KeepsOthers, Live
  <1>3. \A o \in Live' : o \in Live /\ idOf[o] # name[t]
    BY <1>1 DEF Inv, HeapInv, Keeps, Live
  <1>4. \A o, x \in Vms(name[t]) : o = x
    BY DEF Vms, Live, Inv, HeapInv, NoTwins
  <1> QED BY <1>1, <1>2, <1>3, <1>4

LEMMA WorldAssign ==
  ASSUME Inv, Inv', KeepsOthers, WorldInv, server = "up", NEW t \in Thread, removeAssign(t)
  PROVE  WorldInv'
  <1>0. Step(t) /\ pc[t] = "removeAssign"
    BY DEF Step, removeAssign
  <1>1. PICK n \in Name : n = name[t]
    BY <1>0 DEF Inv, RequestInv
  <1>2. domain[n] = none /\ victim[t] \in Live /\ vm[t] = none /\ none \notin Obj
    BY <1>0, <1>1, NoneAssumption
       DEF Inv, HeapInv, Serves, Holds, Killing, RequestInv, WorldInv, Hosts, Vms
  <1>3. /\ UNCHANGED <<name, vm, victim, idOf, domOf, domain, files>> /\ pc'[t] = "delete"
    BY DEF removeAssign, Goto, frame, heap, host, Inv, TypeInv
  <1>4. Live' = {o \in Live : idOf[o] # n} /\ Vms(n) = {victim[t]} /\ alive' = alive
    BY <1>1, <1>3, AssignKeeps DEF alive
  <1>5. \A m \in Name \ {n} : View(m) /\ HostView(m)
    BY <1>3, <1>4 DEF View, Vms, HostView
  <1>6. Hosts(t)'
    BY <1>1, <1>2, <1>3 DEF Hosts
  <1>7. \A x \in alive' :
           \/ x \in Live'
           \/ pc'[t] # "idle" /\ x \in {vm'[t], victim'[t]}
           \/ x \in alive /\ x \notin Live /\ x \notin {vm[t], victim[t]}
    <2>1. ASSUME NEW x \in alive, x \in Live, x \notin Live' PROVE x = victim[t]
      BY <1>4, <2>1 DEF Vms
    <2>2. ASSUME NEW x \in alive, x \notin Live PROVE x \notin {vm[t], victim[t]}
      BY <1>2, <2>2 DEF alive
    <2> QED BY <1>3, <1>4, <2>1, <2>2
  <1> QED BY <1>0, <1>1, <1>3, <1>5, <1>6, <1>7, WorldMove

LEMMA WorldStep ==
  ASSUME Inv, Inv', KeepsOthers, WorldInv, NEW t \in Thread, Step(t)
  PROVE  WorldInv'
  <1>1. CASE server # "up"
    BY <1>1, StepGoesOn DEF WorldInv
  <1>2. CASE server = "up"
    <2>1. CASE createFails(t)
      <3>1. /\ pc[t] = "create" /\ vm[t] \in Obj /\ idOf[vm[t]] = name[t]
            /\ Vms(name[t]) = {} /\ victim[t] = none /\ domain[name[t]] = none
        BY <1>2, <2>1 DEF createFails, Inv, HeapInv, Serves, Holds, Making, RequestInv,
           WorldInv, Hosts
      <3>2. /\ pc'[t] = "idle" /\ running' = running /\ Free(vm[t]) /\ domain' = domain
            /\ \A m \in Name \ {name[t]} : m \in files' <=> m \in files
        BY <2>1 DEF createFails, Answer, Inv, TypeInv
      <3> QED BY <1>2, <3>1, <3>2, WorldFree
    <2>2. CASE delete(t)
      <3>1. /\ victim[t] \in Obj /\ idOf[victim[t]] = name[t] /\ Vms(name[t]) = {}
            /\ op[t] # "provision" /\ vm[t] = none /\ domain[name[t]] = none
        BY <1>2, <2>2 DEF delete, Inv, HeapInv, Serves, Holds, RequestInv, WorldInv, Hosts
      <3>2. /\ pc'[t] = "idle" /\ running' = running /\ Free(victim[t])
            /\ domain' = domain /\ files' = files
        BY <2>2, <3>1 DEF delete, Answer, host, Inv, TypeInv
      <3> QED BY <1>2, <3>1, <3>2, WorldFree
    <2>3. CASE \/ hasVM(t) \/ getVM(t) \/ use(t) \/ reply(t) \/ lock(t) \/ waitIpVM(t)
               \/ mountSwap(t) \/ removeScan(t)
      <3>1. UNCHANGED <<running, idOf, domOf, domain, files>>
        BY <2>3 DEF hasVM, getVM, use, reply, lock, waitIpVM, mountSwap, removeScan, heap, host
      <3> QED BY <1>2, <2>3, <3>1, WorldAlone
    <2>4. CASE \/ createDirAndVMFile(t) \/ installVM(t) \/ enable(t) \/ killDomain(t)
               \/ deleteDirAndVMFile(t)
      BY <1>2, <2>4, WorldHost
    <2> QED BY <1>2, <2>1, <2>2, <2>3, <2>4, WorldNew, WorldPush, WorldAssign DEF Step
  <1> QED BY <1>1, <1>2

LEMMA WorldArrival ==
  ASSUME Discipline # "any", Inv, WorldInv,
         NEW t \in Thread, NEW o \in Ops, NEW n \in Name, acceptingLoop(t, o, n)
  PROVE  WorldInv'
  <1>1. /\ pc' = [pc EXCEPT ![t] = "hasVM"] /\ name' = [name EXCEPT ![t] = n]
        /\ UNCHANGED <<server, vm, victim, running, idOf, domOf, domain, files>>
        /\ server = "up" /\ pc[t] = "idle"
    BY DEF acceptingLoop, heap, host
  <1>2. \A u \in Busy : name[u] # n
    BY DisciplineAssumption DEF acceptingLoop, Disciplined
  <1>3. /\ pc'[t] = "hasVM" /\ name'[t] = n
        /\ \A u \in Thread \ {t} : pc'[u] = pc[u] /\ name'[u] = name[u]
    BY <1>1 DEF Inv, TypeInv
  <1>4. Live' = Live /\ alive' = alive /\ Busy' = Busy \union {t}
    BY <1>1, <1>3 DEF Live, alive, Busy
  <1>5. /\ \A m \in Name : (\A u \in Busy : name[u] # m) => Whole(m)
        /\ \A u \in Thread : Hosts(u)
        /\ \A x \in alive : Held(x)
    BY <1>1 DEF WorldInv
  <1>6. \A m \in Name : {x \in Live' : idOf'[x] = m} = Vms(m)
    BY <1>1, <1>4 DEF Vms
  <1>7. ASSUME NEW m \in Name, Whole(m) PROVE Whole(m)'
    <2>1. Vms(m)' = Vms(m)
      BY <1>6 DEF Vms
    <2> QED BY <1>1, <1>7, <2>1 DEF Whole
  <1>8. ASSUME NEW m \in Name, \A u \in Busy' : name'[u] # m PROVE Whole(m)'
    <2>1. \A u \in Busy : name[u] # m
      BY <1>1, <1>3, <1>4, <1>8 DEF Busy
    <2> QED BY <1>5, <1>7, <2>1
  <1>9. ASSUME NEW u \in Thread PROVE Hosts(u)'
    <2>1. CASE u = t
      <3>1. Whole(n)'
        BY <1>2, <1>5, <1>7
      <3>2. Whole(name[t])'
        BY <1>3, <3>1 DEF Whole, Vms
      <3> QED BY <1>3, <2>1, <3>2 DEF Hosts
    <2>2. CASE u # t /\ pc[u] = "idle"
      BY <1>3, <2>2 DEF Hosts
    <2>3. CASE u # t /\ pc[u] # "idle"
      <3>1. PICK m \in Name : m = name[u] /\ name'[u] = m
        BY <1>3, <2>3 DEF Inv, RequestInv
      <3>2. Whole(m)' => Whole(name[u])'
        BY <3>1 DEF Whole, Vms
      <3> QED BY <1>1, <1>3, <1>4, <1>5, <1>7, <2>3, <3>1, <3>2 DEF Hosts
    <2> QED BY <2>1, <2>2, <2>3
  <1>10. ASSUME NEW x \in alive' PROVE Held(x)'
    BY <1>1, <1>4, <1>5 DEF Held
  <1> QED BY <1>8, <1>9, <1>10 DEF WorldInv

LEMMA WorldNext ==
  ASSUME Discipline # "any", Inv, KeepsOthers, WorldInv, [Next]_vars
  PROVE  WorldInv'
  <1>1. Inv'
    BY InvNext
  <1>2. ASSUME start PROVE WorldInv'
    <2>1. /\ UNCHANGED <<pc, idOf>> /\ Busy = {} /\ idOf = [o \in Obj |-> none]
          /\ running' = <<>> /\ domain' = [n \in Name |-> none]
      BY <1>2 DEF start, killAllRunningDomains, heap, Inv, RequestInv
    <2>2. alive' = {} /\ Live' = {} /\ \A u \in Thread : pc'[u] = "idle"
      BY <2>1 DEF alive, Live, Busy
    <2>3. \A n \in Name : Whole(n)'
      BY <2>1, <2>2 DEF Whole, Vms
    <2> QED BY <2>2, <2>3 DEF WorldInv, Hosts
  <1>3. ASSUME stop \/ exit \/ crash PROVE WorldInv'
    BY <1>3 DEF stop, exit, crash, Gone, WorldInv
  <1>4. ASSUME UNCHANGED vars PROVE WorldInv'
    <2>1. UNCHANGED <<server, pc, name, vm, victim, running, idOf, domOf, domain, files>>
      BY <1>4 DEF vars, frame, heap, host
    <2>2. Live' = Live /\ alive' = alive /\ Busy' = Busy
      BY <2>1 DEF Live, alive, Busy
    <2>3. \A n : {o \in Live' : idOf'[o] = n} = Vms(n)
      BY <2>1, <2>2 DEF Vms
    <2>4. ASSUME NEW n \in Name, Whole(n) PROVE Whole(n)'
      <3>1. Vms(n)' = Vms(n)
        BY <2>3 DEF Vms
      <3> QED BY <2>1, <2>4, <3>1 DEF Whole
    <2>5. ASSUME NEW t \in Thread, Hosts(t) PROVE Hosts(t)'
      <3>1. Vms(name[t])' = Vms(name[t])
        BY <2>1, <2>3 DEF Vms
      <3>2. Whole(name[t]) => Whole(name[t])'
        BY <2>1, <3>1 DEF Whole
      <3> QED BY <2>1, <2>2, <2>5, <3>2 DEF Hosts
    <2> QED BY <2>1, <2>2, <2>4, <2>5 DEF WorldInv, Held
  <1> QED BY <1>1, <1>2, <1>3, <1>4, WorldStep, WorldArrival DEF Next

LEMMA WorldAlways ==
  ASSUME Discipline # "any", CopyIsWhole
  PROVE  Spec => [](Inv /\ KeepsOthers /\ WorldInv)
  <1>1. Init => Inv /\ KeepsOthers /\ WorldInv
    BY InvInit DEF Init, KeepsOthers, WorldInv
  <1>2. Inv /\ KeepsOthers /\ WorldInv /\ [Next]_vars => (Inv /\ KeepsOthers /\ WorldInv)'
    BY InvNext, KeepsNext, WorldNext
  <1> QED BY <1>1, <1>2, PTL DEF Spec

\* hasVM (client.cc:170) tells whether a VM runs, for any faults, restarts and files
\* left behind, when no request about it is under way.
THEOREM HasVMIsRight ==
  ASSUME Discipline # "any", CopyIsWhole PROVE Spec => []HasVMTellsRunning
  <1>1. Inv /\ KeepsOthers /\ WorldInv => HasVMTellsRunning
    <2> SUFFICES ASSUME Inv, WorldInv, NEW n \in Name, Settled(n)
                 PROVE  Found(n) <=> domain[n] # none
      BY DEF HasVMTellsRunning
    <2>1. Whole(n)
      BY DEF Settled, WorldInv
    <2>2. \A o \in Vms(n) : o # none
      BY RunningType, NoneAssumption DEF Vms, Inv
    <2>3. Found(n) <=> Vms(n) # {}
      BY FoundIsVms DEF Inv
    <2> QED BY <2>1, <2>2, <2>3 DEF Whole
  <1> QED BY <1>1, WorldAlways, PTL

\* Between two requests about it, a VM that runs is in the vector once, its object
\* controls the domain that was installed for it, and its directory is there.
THEOREM RunningVMsAreWhole ==
  ASSUME Discipline # "any", CopyIsWhole PROVE Spec => []VMsAreWhole
  <1>1. Inv /\ KeepsOthers /\ WorldInv => VMsAreWhole
    <2> SUFFICES ASSUME Inv, WorldInv, NEW n \in Name, NEW i \in Positions(n), Settled(n)
                 PROVE  /\ Positions(n) = {i}
                        /\ domain[n] = running[i] /\ domOf[running[i]] = running[i]
                        /\ n \in files
      BY DEF VMsAreWhole
    <2>1. Whole(n)
      BY DEF Settled, WorldInv
    <2>2. running[i] \in Vms(n)
      BY DEF Positions, Vms, Live
    <2>3. Positions(n) = {i}
      BY DEF Positions, Inv, HeapInv, NoTwins
    <2> QED BY <2>1, <2>2, <2>3 DEF Whole
  <1> QED BY <1>1, WorldAlways, PTL

\* No way out of provision or kill, and no start of the daemon, leaks a VM.
THEOREM NothingLeaks ==
  ASSUME Discipline # "any", CopyIsWhole PROVE Spec => []NoLeak
  <1>1. Inv /\ KeepsOthers /\ WorldInv => NoLeak
    BY DEF NoLeak, WorldInv, Held, Live
  <1> QED BY <1>1, WorldAlways, PTL

-----------------------------------------------------------------------------
(* The registry implements VMService: the steps between which a request takes
   effect are steps of the service, the other ones are none. *)

Serving == {idOf[running[i]] : i \in DOMAIN running}
CallOf(t) == IF Done(t) THEN <<>> ELSE <<op[t], name[t]>>
ResultOf(t) == CASE pc[t] = "reply" -> "ip"
                 [] pc[t] = "delete" /\ op[t] = "kill" -> "ok"
                 [] OTHER -> answer[t]

LEMMA ServingIsVms == \A n : n \in Serving <=> Vms(n) # {}
  BY DEF Serving, Vms, Live

LEMMA ServingQuiet ==
  ASSUME running' = running, \A o \in Live : idOf'[o] = idOf[o]
  PROVE  Serving' = Serving
  BY DEF Serving, Live

LEMMA AnswersStill ==
  ASSUME TypeInv, NEW t \in Thread, Step(t)
  PROVE  \A u \in Thread \ {t} : answer'[u] = answer[u]
  <1> USE DEF TypeInv, Goto, Answer
  <1>1. CASE hasVM(t) \/ use(t) \/ reply(t) \/ createFails(t) \/ delete(t)
    BY <1>1 DEF hasVM, use, reply, createFails, delete
  <1>2. CASE getVM(t)
    BY <1>2 DEF getVM
  <1>3. CASE New(t)
    BY <1>3 DEF New
  <1>4. CASE createDirAndVMFile(t) \/ lock(t) \/ installVM(t) \/ waitIpVM(t) \/ mountSwap(t)
             \/ enable(t) \/ push(t) \/ killDomain(t) \/ deleteDirAndVMFile(t)
    BY <1>4 DEF createDirAndVMFile, lock, installVM, waitIpVM, mountSwap, enable, push,
                killDomain, deleteDirAndVMFile
  <1>5. CASE removeScan(t) \/ removeAssign(t)
    BY <1>5 DEF removeScan, removeAssign
  <1> QED BY <1>1, <1>2, <1>3, <1>4, <1>5 DEF Step

\* What a client sees of the steps of another thread: nothing.
LEMMA OthersCall ==
  ASSUME TypeInv, NEW t \in Thread, Step(t), NEW u \in Thread \ {t}
  PROVE  CallOf(u)' = CallOf(u) /\ ResultOf(u)' = ResultOf(u)
  <1>1. Still(u) /\ answer'[u] = answer[u]
    BY OthersStill, AnswersStill
  <1> QED BY <1>1 DEF Still, CallOf, ResultOf, Done

(* A step between the call and the effect, or between the effect and the answer. *)
LEMMA Silent ==
  ASSUME Inv, NEW t \in Thread, Step(t), Serving' = Serving,
         CallOf(t)' = CallOf(t), ResultOf(t)' = ResultOf(t)
  PROVE  UNCHANGED Service!vars
  <1>1. \A u \in Thread : CallOf(u)' = CallOf(u) /\ ResultOf(u)' = ResultOf(u)
    BY OthersCall DEF Inv
  <1>2. server' = server
    BY StepGoesOn
  <1> QED BY <1>1, <1>2 DEF Service!vars, Serving, CallOf, ResultOf

(* The step at which a request takes effect. *)
LEMMA Returns ==
  ASSUME Inv, NEW t \in Thread, Step(t), NEW r, CallOf(t)' = <<>>, ResultOf(t)' = r
  PROVE  Service!Return(t, r)
  <1>1. \A u \in Thread \ {t} : CallOf(u)' = CallOf(u) /\ ResultOf(u)' = ResultOf(u)
    BY OthersCall DEF Inv
  <1>2. server' = server
    BY StepGoesOn
  <1> QED BY <1>1, <1>2 DEF Service!Return, CallOf, ResultOf

\* The steps of a thread that has not answered yet, and does not with this step.
LEMMA GotoSilent ==
  ASSUME Inv, NEW t \in Thread, Step(t), Serving' = Serving,
         ~ Done(t), ~ Done(t)', UNCHANGED <<op, name, answer>>
  PROVE  UNCHANGED Service!vars
  <1>1. CallOf(t)' = CallOf(t)
    BY DEF CallOf
  <1>2. ResultOf(t)' = ResultOf(t)
    BY DEF ResultOf, Done
  <1> QED BY <1>1, <1>2, Silent

LEMMA AnswerReturns ==
  ASSUME Inv, NEW t \in Thread, Step(t), NEW r, Answer(t, r)
  PROVE  Service!Return(t, r)
  <1>1. pc'[t] = "idle" /\ answer'[t] = r
    BY DEF Answer, Inv, TypeInv
  <1>2. CallOf(t)' = <<>> /\ ResultOf(t)' = r
    BY <1>1 DEF CallOf, ResultOf, Done
  <1> QED BY <1>2, Returns

LEMMA HasVMServes ==
  ASSUME Inv, NEW t \in Thread, hasVM(t)
  PROVE  \/ UNCHANGED Service!vars
         \/ \E n \in Name : Service!Provision(t, n) \/ Service!Kill(t, n) \/ Service!Ask(t, n)
  <1>1. /\ Step(t) /\ pc[t] = "hasVM" /\ name[t] \in Name /\ ~ Done(t)
        /\ op[t] \in {"provision", "kill", "ip", "nat"}
    BY DisciplineAssumption DEF Step, hasVM, Inv, RequestInv, Done
  <1>2. Serving' = Serving
    BY ServingQuiet DEF hasVM, heap
  <1>3. Found(name[t]) <=> name[t] \in Serving
    BY DEF Found, Positions, Serving
  <1>4. CASE Goto(t, "new") \/ Goto(t, "getVM")
    <2>1. ~ Done(t)' /\ UNCHANGED <<op, name, answer>>
      BY <1>4 DEF Goto, frame, Done, Inv, TypeInv
    <2> QED BY <1>1, <1>2, <2>1, GotoSilent
  <1>5. CASE (op[t] = "provision" <=> Found(name[t])) /\ Answer(t, "not_found")
    <2>1. Service!Return(t, "not_found")
      BY <1>1, <1>5, AnswerReturns
    <2>2. CallOf(t) = <<op[t], name[t]>>
      BY <1>1 DEF CallOf
    <2>3. CASE op[t] = "provision"
      BY <1>1, <1>2, <2>1, <2>2, <2>3 DEF Service!Provision, Serving, CallOf
    <2>4. CASE op[t] = "kill"
      BY <1>1, <1>2, <1>3, <1>5, <2>1, <2>2, <2>4 DEF Service!Kill, Serving, CallOf
    <2>5. CASE op[t] \in {"ip", "nat"}
      BY <1>1, <1>2, <1>3, <1>5, <2>1, <2>2, <2>5 DEF Service!Ask, Serving, CallOf
    <2> QED BY <1>1, <2>3, <2>4, <2>5
  <1> QED BY <1>4, <1>5 DEF hasVM

LEMMA GetVMServes ==
  ASSUME Inv, NEW t \in Thread, getVM(t)
  PROVE  UNCHANGED Service!vars
  <1>1. Step(t) /\ pc[t] = "getVM" /\ ~ Done(t) /\ Serves(t)
    BY DEF Step, getVM, Done, Inv, HeapInv
  <1>2. Serving' = Serving
    BY ServingQuiet DEF getVM, heap
  <1>3. Found(name[t]) \/ op[t] = "provision"
    BY <1>1, FoundIsVms DEF Inv, Serves
  <1>4. pc'[t] \in {"use", "killDomain", "create"} /\ UNCHANGED <<op, name, answer>>
    <2>1. op[t] = "provision" => op[t] \notin {"kill", "ip", "nat"}
      OBVIOUS
    <2> QED BY <1>3, <2>1 DEF getVM, Goto, frame, Inv, TypeInv
  <1>5. ~ Done(t)'
    BY <1>4 DEF Done
  <1> QED BY <1>1, <1>2, <1>4, <1>5, GotoSilent

LEMMA UseServes ==
  ASSUME Inv, NEW t \in Thread, use(t)
  PROVE  \E n \in Name : Service!Ask(t, n)
  <1>1. /\ Step(t) /\ pc[t] = "use" /\ name[t] \in Name /\ op[t] \in {"ip", "nat"}
        /\ victim[t] \in Vms(name[t])
    BY DEF Step, use, Inv, RequestInv, HeapInv, Serves
  <1>2. Serving' = Serving /\ name[t] \in Serving
    BY <1>1, ServingQuiet, ServingIsVms DEF use, heap
  <1>3. CallOf(t) = <<op[t], name[t]>>
    BY <1>1 DEF CallOf, Done
  <1>4. CASE op[t] = "ip"
    <2>1. Service!Return(t, "ip")
      BY <1>1, <1>4, AnswerReturns DEF use
    <2>2. Service!Ask(t, name[t])
      BY <1>2, <1>3, <1>4, <2>1 DEF Service!Ask, Serving, CallOf
    <2> QED BY <1>1, <2>2
  <1>5. CASE op[t] = "nat"
    <2>1. Service!Return(t, "ok")
      BY <1>1, <1>5, AnswerReturns DEF use
    <2>2. Service!Ask(t, name[t])
      BY <1>2, <1>3, <1>5, <2>1 DEF Service!Ask, Serving, CallOf
    <2> QED BY <1>1, <2>2
  <1> QED BY <1>1, <1>4, <1>5

LEMMA PushServes ==
  ASSUME Inv, NEW t \in Thread, push(t)
  PROVE  \E n \in Name : Service!Provision(t, n)
  <1>1. /\ Step(t) /\ pc[t] = "push" /\ name[t] \in Name /\ op[t] = "provision"
        /\ vm[t] \in Obj /\ idOf[vm[t]] = name[t] /\ Vms(name[t]) = {}
    BY DEF Step, push, Inv, RequestInv, HeapInv, Serves, Making
  <1>2. /\ pc'[t] = "reply" /\ UNCHANGED <<op, name, answer, idOf>>
        /\ running' = Append(running, vm[t])
    BY DEF push, Goto, frame, heap, Inv, TypeInv
  <1>3. Live' = Live \union {vm[t]} /\ Live \subseteq Obj
    BY <1>1, <1>2, LivePush, RunningType DEF Inv
  <1>4. name[t] \notin Serving
    BY <1>1, ServingIsVms
  <1>5. Serving' = Serving \union {name[t]}
    <2>1. Serving = {idOf[o] : o \in Live} /\ Serving' = {idOf'[o] : o \in Live'}
      BY DEF Serving, Live
    <2> QED BY <1>1, <1>2, <1>3, <2>1
  <1>6. Service!Return(t, "ip")
    <2>1. CallOf(t)' = <<>> /\ ResultOf(t)' = "ip"
      BY <1>2 DEF CallOf, ResultOf, Done
    <2> QED BY <1>1, <2>1, Returns
  <1>7. CallOf(t) = <<"provision", name[t]>>
    BY <1>1 DEF CallOf, Done
  <1>8. PICK n \in Name : n = name[t]
    BY <1>1
  <1>9. Service!Provision(t, n)
    BY <1>4, <1>5, <1>6, <1>7, <1>8 DEF Service!Provision, Serving, CallOf
  <1> QED BY <1>9

LEMMA AssignServes ==
  ASSUME Inv, KeepsOthers, NEW t \in Thread, removeAssign(t)
  PROVE  \E n \in Name : Service!Kill(t, n)
  <1>1. /\ Step(t) /\ pc[t] = "removeAssign" /\ name[t] \in Name /\ op[t] = "kill"
        /\ victim[t] \in Vms(name[t])
    BY DEF Step, removeAssign, Inv, RequestInv, HeapInv, Serves, Killing
  <1>2. /\ pc'[t] = "delete" /\ UNCHANGED <<op, name, answer, idOf>>
    BY DEF removeAssign, Goto, frame, heap, Inv, TypeInv
  <1>3. Live' = {o \in Live : idOf[o] # name[t]}
    BY AssignKeeps
  <1>4. name[t] \in Serving
    BY <1>1, ServingIsVms
  <1>5. Serving' = Serving \ {name[t]}
    <2>1. Serving = {idOf[o] : o \in Live} /\ Serving' = {idOf'[o] : o \in Live'}
      BY DEF Serving, Live
    <2> QED BY <1>2, <1>3, <2>1
  <1>6. Service!Return(t, "ok")
    <2>1. CallOf(t)' = <<>> /\ ResultOf(t)' = "ok"
      BY <1>1, <1>2 DEF CallOf, ResultOf, Done
    <2> QED BY <1>1, <2>1, Returns
  <1>7. CallOf(t) = <<"kill", name[t]>>
    BY <1>1 DEF CallOf, Done
  <1>8. PICK n \in Name : n = name[t]
    BY <1>1
  <1>9. Service!Kill(t, n)
    BY <1>4, <1>5, <1>6, <1>7, <1>8 DEF Service!Kill, Serving, CallOf
  <1> QED BY <1>9

\* Allocating and freeing an object that is not in the vector is not seen.
LEMMA HandsServe ==
  ASSUME Inv, NEW t \in Thread, New(t) \/ createFails(t) \/ delete(t)
  PROVE  \/ UNCHANGED Service!vars
         \/ \E n \in Name : Service!Provision(t, n)
  <1>1. Step(t) /\ idOf \in [Obj -> Name \union {none}] /\ Live \subseteq Obj
    BY RunningType DEF Step, Inv, TypeInv
  <1>2. CASE New(t)
    <2>1. PICK o \in Obj \ alive : idOf' = [idOf EXCEPT ![o] = name[t]]
      <3>1. Obj \ alive # {}
        BY <1>2 DEF New, alive
      <3>2. (CHOOSE x \in Obj \ alive : TRUE) \in Obj \ alive
        BY <3>1
      <3> QED BY <1>2, <3>2 DEF New
    <2>2. o \notin Live
      BY <2>1 DEF Inv, HeapInv
    <2>3. \A x \in Live : idOf'[x] = idOf[x]
      BY <1>1, <2>1, <2>2
    <2>4. /\ UNCHANGED <<op, name, answer, running>> /\ pc[t] = "new" /\ pc'[t] = "getVM"
      BY <1>2 DEF New, Inv, TypeInv
    <2>5. Serving' = Serving
      BY <2>3, <2>4, ServingQuiet
    <2>6. ~ Done(t) /\ ~ Done(t)'
      BY <2>4 DEF Done
    <2> QED BY <1>1, <2>4, <2>5, <2>6, GotoSilent
  <1>3. CASE createFails(t)
    <2>1. /\ pc[t] = "create" /\ op[t] = "provision" /\ name[t] \in Name
          /\ vm[t] \in Obj /\ idOf[vm[t]] = name[t] /\ Vms(name[t]) = {}
      BY <1>3 DEF createFails, Inv, RequestInv, HeapInv, Serves, Making
    <2>2. vm[t] \notin Live
      BY <2>1 DEF Vms
    <2>3. Serving' = Serving
      BY <1>1, <1>3, <2>2, ServingQuiet DEF createFails, Free
    <2>4. CallOf(t) = <<"provision", name[t]>>
      BY <2>1 DEF CallOf, Done
    <2>5. Service!Return(t, "not_found")
      BY <1>1, <1>3, AnswerReturns DEF createFails
    <2>6. PICK n \in Name : n = name[t]
      BY <2>1
    <2>7. Service!Provision(t, n)
      BY <2>3, <2>4, <2>5, <2>6 DEF Service!Provision, Serving, CallOf
    <2> QED BY <2>7
  <1>4. CASE delete(t)
    <2>1. /\ pc[t] = "delete" /\ op[t] = "kill" /\ name[t] \in Name
          /\ victim[t] \in Obj /\ idOf[victim[t]] = name[t] /\ Vms(name[t]) = {}
      BY <1>4 DEF delete, Inv, RequestInv, HeapInv, Serves
    <2>2. victim[t] \notin Live
      BY <2>1 DEF Vms
    <2>3. Serving' = Serving
      BY <1>1, <1>4, <2>2, ServingQuiet DEF delete, Free
    <2>4. pc'[t] = "idle" /\ answer'[t] = "ok"
      BY <1>4, <2>1 DEF delete, Answer, Inv, TypeInv
    <2>5. CallOf(t)' = CallOf(t) /\ ResultOf(t)' = ResultOf(t)
      BY <2>1, <2>4 DEF CallOf, ResultOf, Done
    <2> QED BY <1>1, <2>3, <2>5, Silent
  <1> QED BY <1>2, <1>3, <1>4

LEMMA QuietServes ==
  ASSUME Inv, NEW t \in Thread,
         \/ createDirAndVMFile(t) \/ lock(t) \/ installVM(t) \/ waitIpVM(t) \/ mountSwap(t)
         \/ enable(t) \/ killDomain(t) \/ deleteDirAndVMFile(t) \/ removeScan(t) \/ reply(t)
  PROVE  UNCHANGED Service!vars
  <1>1. Step(t)
    BY DEF Step
  <1>2. Serving' = Serving
    BY ServingQuiet DEF createDirAndVMFile, lock, installVM, waitIpVM, mountSwap,
         enable, killDomain, deleteDirAndVMFile, removeScan, reply, heap
  <1>3. CASE reply(t)
    <2>1. /\ pc[t] = "reply" /\ pc'[t] = "idle" /\ answer'[t] = "ip"
      BY <1>3 DEF reply, Answer, Inv, TypeInv
    <2>2. CallOf(t)' = CallOf(t) /\ ResultOf(t)' = ResultOf(t)
      BY <2>1 DEF CallOf, ResultOf, Done
    <2> QED BY <1>1, <1>2, <2>2, Silent
  <1>4. CASE ~ reply(t)
    <2>1. ~ Done(t) /\ ~ Done(t)' /\ UNCHANGED <<op, name, answer>>
      BY <1>4 DEF createDirAndVMFile, lock, installVM, waitIpVM, mountSwap,
         enable, killDomain, deleteDirAndVMFile, removeScan, Done, Goto, frame, Inv, TypeInv
    <2> QED BY <1>1, <1>2, <2>1, GotoSilent
  <1> QED BY <1>3, <1>4

LEMMA StepServes ==
  ASSUME Inv, KeepsOthers, NEW t \in Thread, Step(t)
  PROVE  [Service!Next]_(Service!vars)
  <1>1. \/ UNCHANGED Service!vars
        \/ \E n \in Name : Service!Provision(t, n) \/ Service!Kill(t, n) \/ Service!Ask(t, n)
    BY HasVMServes, GetVMServes, UseServes, PushServes, AssignServes, HandsServe, QuietServes
       DEF Step
  <1> QED BY <1>1 DEF Service!Next

LEMMA ArrivalServes ==
  ASSUME Inv, NEW t \in Thread, NEW o \in Ops, NEW n \in Name, acceptingLoop(t, o, n)
  PROVE  Service!Next
  <1>1. /\ pc' = [pc EXCEPT ![t] = "hasVM"] /\ op' = [op EXCEPT ![t] = o]
        /\ name' = [name EXCEPT ![t] = n]
        /\ UNCHANGED <<server, answer, running, idOf>>
        /\ server = "up" /\ pc[t] = "idle" /\ o \in {"provision", "kill", "ip", "nat"}
    BY DisciplineAssumption DEF acceptingLoop, heap
  <1>2. /\ pc'[t] = "hasVM" /\ op'[t] = o /\ name'[t] = n
        /\ \A u \in Thread \ {t} : pc'[u] = pc[u] /\ op'[u] = op[u] /\ name'[u] = name[u]
    BY <1>1 DEF Inv, TypeInv
  <1>3. Serving' = Serving
    BY <1>1, ServingQuiet
  <1>4. /\ CallOf(t) = <<>> /\ CallOf(t)' = <<o, n>> /\ ResultOf(t)' = ResultOf(t)
    BY <1>1, <1>2 DEF CallOf, ResultOf, Done
  <1>5. \A u \in Thread \ {t} : CallOf(u)' = CallOf(u) /\ ResultOf(u)' = ResultOf(u)
    BY <1>1, <1>2 DEF CallOf, ResultOf, Done
  <1>6. Service!Call(t, o, n)
    BY <1>1, <1>3, <1>4, <1>5 DEF Service!Call, Serving, CallOf, ResultOf
  <1> QED BY <1>1, <1>6 DEF Service!Next

LEMMA DaemonServes ==
  ASSUME Inv, start \/ stop \/ exit \/ crash
  PROVE  Service!Next
  <1>1. CASE start
    <2>1. /\ server = "down" /\ server' = "up" /\ running = <<>> /\ running' = <<>>
          /\ UNCHANGED <<pc, op, name, answer>>
      BY <1>1 DEF start, killAllRunningDomains, frame, Inv, RequestInv
    <2>2. Serving = {} /\ Serving' = {}
      BY <2>1 DEF Serving
    <2>3. \A u \in Thread : CallOf(u)' = CallOf(u) /\ ResultOf(u)' = ResultOf(u)
      BY <2>1 DEF CallOf, ResultOf, Done
    <2>4. Service!Start
      BY <2>1, <2>2, <2>3 DEF Service!Start, Serving, CallOf, ResultOf
    <2> QED BY <2>4 DEF Service!Next
  <1>2. ASSUME NEW L \in SUBSET Thread, server' # "up", running' = <<>>,
               \A u \in L : CallOf(u)' = <<>> /\ ResultOf(u)' = none,
               \A u \in Thread \ L : CallOf(u)' = CallOf(u) /\ ResultOf(u)' = ResultOf(u)
        PROVE  Service!Next
    <2>1. Serving' = {}
      BY <1>2 DEF Serving
    <2>2. Service!Halt
      BY <1>2, <2>1 DEF Service!Halt, Serving, CallOf, ResultOf
    <2> QED BY <2>2 DEF Service!Next
  <1>3. CASE stop
    <2>1. server' # "up" /\ running' = <<>>
      BY <1>3 DEF stop, killAllRunningDomains
    <2>2. CASE UNCHANGED <<pc, answer, frame>>
      <3>1. \A u \in Thread : CallOf(u)' = CallOf(u) /\ ResultOf(u)' = ResultOf(u)
        BY <2>2 DEF frame, CallOf, ResultOf, Done
      <3> DEFINE L == {}
      <3>2. L \in SUBSET Thread /\ \A u \in L : FALSE
        OBVIOUS
      <3> QED BY <1>2, <2>1, <3>1, <3>2
    <2>3. CASE Answer(acceptor, none)
      <3> DEFINE L == {acceptor}
      <3>1. /\ pc'[acceptor] = "idle" /\ answer'[acceptor] = none
            /\ \A u \in Thread \ L : /\ pc'[u] = pc[u] /\ answer'[u] = answer[u]
                                    /\ op'[u] = op[u] /\ name'[u] = name[u]
        BY <2>3, AcceptorIsThread DEF Answer, Inv, TypeInv
      <3>2. \A u \in L : CallOf(u)' = <<>> /\ ResultOf(u)' = none
        BY <3>1 DEF CallOf, ResultOf, Done
      <3>3. \A u \in Thread \ L : CallOf(u)' = CallOf(u) /\ ResultOf(u)' = ResultOf(u)
        BY <3>1 DEF CallOf, ResultOf, Done
      <3>4. L \in SUBSET Thread
        BY AcceptorIsThread
      <3> HIDE DEF L
      <3> QED BY <1>2, <2>1, <3>2, <3>3, <3>4
    <2> QED BY <1>3, <2>2, <2>3 DEF stop
  <1>4. CASE exit \/ crash
    <2>1. Gone
      BY <1>4 DEF exit, crash
    <2>2. server' # "up" /\ running' = <<>> /\ Busy \in SUBSET Thread
      BY <2>1 DEF Gone, Busy
    <2>3. \A u \in Busy : CallOf(u)' = <<>> /\ ResultOf(u)' = none
      BY <2>1 DEF Gone, Busy, CallOf, ResultOf, Done
    <2>4. \A u \in Thread \ Busy : CallOf(u)' = CallOf(u) /\ ResultOf(u)' = ResultOf(u)
      BY <2>1 DEF Gone, Busy, CallOf, ResultOf, Done
    <2> QED BY <1>2, <2>2, <2>3, <2>4
  <1> QED BY <1>1, <1>3, <1>4

\* Clients see a set of VMs on which each request acts at one instant: the vector,
\* which threads read and replace without the mutex, behaves like that set.
THEOREM RegistryIsService ==
  ASSUME Discipline # "any", CopyIsWhole PROVE Spec => ServiceSpec
  <1>1. Init => Service!Init
    BY DEF Init, Service!Init, Done
  <1>2. Inv /\ KeepsOthers /\ [Next]_vars => [Service!Next]_(Service!vars)
    <2> SUFFICES ASSUME Inv, KeepsOthers, [Next]_vars PROVE [Service!Next]_(Service!vars)
      OBVIOUS
    <2>1. CASE UNCHANGED vars
      <3>1. UNCHANGED <<server, pc, op, name, answer, running, idOf>>
        BY <2>1 DEF vars, frame, heap
      <3>2. \A u \in Thread : CallOf(u)' = CallOf(u) /\ ResultOf(u)' = ResultOf(u)
        BY <3>1 DEF CallOf, ResultOf, Done
      <3>3. Serving' = Serving
        BY <3>1 DEF Serving
      <3> QED BY <3>1, <3>2, <3>3 DEF Service!vars, Serving, CallOf, ResultOf
    <2> QED BY <2>1, StepServes, ArrivalServes, DaemonServes DEF Next
  <1> QED BY <1>1, <1>2, WorldAlways, PTL DEF Spec, ServiceSpec, Service!Spec
=============================================================================
