----------------------------- MODULE SubProcess -----------------------------
(***************************************************************************)
(* The commands that the daemon runs (src/monitor/concurrency/proc.cc,     *)
(* iopipe.cc) and the jobs that run them (src/monitor/libvirt/client.cc):  *)
(* threads that share one table of descriptors and the mutex of the log,   *)
(* and the children that they fork.                                        *)
(*                                                                         *)
(* What a command writes is units; a pipe holds Capacity of them.  The     *)
(* calls of one function of SubProcess are one step.  The ends of the      *)
(* pipes of other commands, which a child inherits, are left out: nothing  *)
(* reads a pipe until its end.                                             *)
(***************************************************************************)
EXTENDS Naturals, Sequences

CONSTANTS
  Thread,
  Scripts(_),    \* the jobs of a thread: each what it runs and logs, in order
  Installed,     \* commands that can be executed
  Forkless,      \* commands for which fork may fail
  none,
  console,       \* what the daemon was started with as 0, 1 and 2
  Capacity,      \* units that fit into a pipe
  MaxDescriptor, \* the limit on open files
  Outputs        \* how many units a command may write to each output

ASSUME CapacityAssumption == Capacity \in Nat \ {0}
ASSUME DescriptorAssumption == MaxDescriptor \in Nat /\ MaxDescriptor > 2

Standard == 0..2
Descriptor == 0..MaxDescriptor
Stream == <<"stdin", "stdout", "stderr">>
\* The ends of the pipes of one object; a function has up to two objects.
Ends(object) == {"stdin", "stdout", "stderr"} \X {"ipipe", "opipe"} \X {object}
End == Ends(1) \union Ends(2)
ASSUME ConsoleAssumption == console # none /\ {console, none} \intersect (Thread \X End) = {}

VARIABLES
  todo,        \* per thread: the rest of its job
  pc,          \* per thread: its place in the step it is at
  handle,      \* per thread: of each end of its pipes the descriptor, or 0
  child,       \* per thread: "none", "forked", "running", "exiting", "dead"; "failed"
               \* if fork has failed, "reaped" if another thread has waited for it
  stdio,       \* per thread: the ends that its child has as 0, 1 and 2
  lockedAtFork,\* per thread: the copy of the mutex of the log in the child
  status,      \* per thread: with what the child has ended
  output,      \* per thread: what its command writes to stdout and stderr
  printed,     \* per thread: the report, as read from the pipes, or none
  descriptors, \* of the daemon: per number, the end of a pipe that is open
  content,     \* per thread: the units in the pipes of its command
  logMutex,    \* __mutex__ of the log
  mutex,       \* _mutex of LibvirtClient
  daemon       \* "up" or "exited"

process == <<child, stdio, lockedAtFork, status, output>>
pipes == <<handle, descriptors, content>>
vars == <<todo, pc, process, printed, pipes, logMutex, mutex, daemon>>

Out == {"stdout", "stderr"}
ASSUME OutputAssumption == Outputs \subseteq [Out -> Nat] /\ none \notin Thread \X Out
Nothing == [s \in Out |-> <<>>]
Closed == [e \in End |-> 0]

Init ==
  /\ todo \in [Thread -> UNION {Scripts(t) : t \in Thread}]
  /\ \A t \in Thread : todo[t] \in Scripts(t)
  /\ pc = [t \in Thread |-> "next"]
  /\ handle = [t \in Thread |-> Closed]
  /\ child = [t \in Thread |-> "none"]
  /\ stdio = [t \in Thread |-> [n \in Standard |-> console]]
  /\ lockedAtFork = [t \in Thread |-> FALSE]
  /\ status = [t \in Thread |-> 0]
  /\ output = [t \in Thread |-> Nothing] /\ printed = [t \in Thread |-> none]
  /\ descriptors = [d \in Descriptor |-> IF d \in Standard THEN console ELSE none]
  /\ content = [t \in Thread |-> Nothing]
  /\ logMutex = none /\ mutex = none /\ daemon = "up"

Up == daemon = "up"
Goto(t, step) == pc' = [pc EXCEPT ![t] = step]
Job(t) == Head(todo[t])
Object(t) == Job(t).object
At(t, kind) == todo[t] # <<>> /\ Job(t).kind = kind

-----------------------------------------------------------------------------
(* The jobs of client.cc.  "report": a failure is printed and the job goes on;  *)
(* "die": it is printed and the daemon exits; "retry": the command is run until *)
(* it succeeds; "ignore": the status is not looked at.  The second object of a  *)
(* function is built while the first one is still there.                        *)

Run(cmd, onFailure) ==
  [kind |-> "run", cmd |-> cmd, onFailure |-> onFailure, locked |-> FALSE, object |-> 1]
Second(cmd, onFailure) == [Run(cmd, onFailure) EXCEPT !.object = 2]
Log == [kind |-> "log", object |-> 1]

createDirAndVMFile ==
  <<Run("mkisofs", "report"), Run("qemu-img", "report"), Run("qemu-img", "report"),
    Run("virt-sysprep", "report")>>
installVM == <<[Run("virt-install", "report") EXCEPT !.locked = TRUE]>>
attachSwapDisk == <<Run("virsh", "report")>>
mountSwap == <<Run("chmod", "die"), Second("ssh", "retry")>>
provision == createDirAndVMFile \o installVM \o attachSwapDisk \o mountSwap \o <<Log>>
openNat == <<Run("iptables", "ignore"), Second("iptables", "ignore")>>
enableNatRouting == <<Run("iptables", "ignore"), Log>>

Calls ==
  {Log} \union [kind : {"run"}, cmd : STRING, locked : BOOLEAN, object : 1..2,
               onFailure : {"report", "die", "retry", "ignore"}]
ASSUME ScriptAssumption ==
  \A t \in Thread : \A s \in Scripts(t) :
    /\ s \in Seq(Calls)
    /\ \A i \in 2..Len(s) : s[i].object = 2 => s[i - 1].object = 1

-----------------------------------------------------------------------------
(* IOPipe *)

Lowest(S) == {d \in S : \A f \in S : d <= f}

\* pipe () takes the lowest numbers that are free; if there are not two of them
\* createPipes does not notice, and both ends are 0.
pipe(free) ==
  IF \E d \in free, f \in free : d # f
  THEN {[ipipe |-> d, opipe |-> f] : d \in Lowest(free), f \in Lowest(free \ Lowest(free))}
  ELSE {[ipipe |-> 0, opipe |-> 0]}
Numbers(p) == {p.ipipe, p.opipe}

\* The handles of an object are set, and the table says whose they are.
Open(t, given) ==
  LET mine == Ends(Object(t))
      at(d) == {e \in mine : given[e[1]][e[2]] = d}
  IN /\ handle' = [handle EXCEPT ![t] =
          [e \in End |-> IF e \in mine THEN given[e[1]][e[2]] ELSE @[e]]]
     /\ descriptors' = [d \in Descriptor |->
          IF d \notin Standard /\ at(d) # {}
          THEN <<t, CHOOSE e \in at(d) : TRUE>> ELSE descriptors[d]]

createPipes(t) ==
  LET free == {d \in Descriptor : descriptors[d] = none} IN
  \E stdin \in pipe(free) :
  \E stdout \in pipe(free \ Numbers(stdin)) :
  \E stderr \in pipe(free \ (Numbers(stdin) \union Numbers(stdout))) :
    Open(t, [stdin |-> stdin, stdout |-> stdout, stderr |-> stderr])

\* Mutant: the handle keeps the number that was closed.
closeKeeps(t, ends) ==
  /\ descriptors' = [d \in Descriptor |->
       IF d \notin Standard /\ \E e \in ends : handle[t][e] = d THEN none
       ELSE descriptors[d]]
  /\ UNCHANGED handle

close(t, ends) ==
  /\ descriptors' = [d \in Descriptor |->
       IF d \notin Standard /\ \E e \in ends : handle[t][e] = d THEN none
       ELSE descriptors[d]]
  /\ handle' = [handle EXCEPT ![t] = [e \in End |-> IF e \in ends THEN 0 ELSE @[e]]]

\* What is there to read of a pipe; nothing of the input of the daemon.
read(t, stream) ==
  LET file == descriptors[handle[t][<<stream, "ipipe", Object(t)>>]]
  IN IF file \in {console, none} THEN <<>> ELSE content[file[1]][file[2][1]]

-----------------------------------------------------------------------------
(* SubProcess *)

construct(t) ==
  /\ pc[t] = "next" /\ At(t, "run")
  /\ createPipes(t)
  /\ Goto(t, IF Job(t).locked THEN "lock" ELSE "start")
  /\ UNCHANGED <<todo, process, printed, content, logMutex, mutex, daemon>>

lock(t) ==
  /\ pc[t] = "lock" /\ mutex = none
  /\ mutex' = t /\ Goto(t, "start")
  /\ UNCHANGED <<todo, process, printed, pipes, logMutex, daemon>>

\* Mutant: the outputs of the child are exchanged.
dup2Swapped(t) ==
  LET ends == [n \in Standard |-> handle[t][<<Stream[n + 1],
                                              IF n = 0 THEN "ipipe" ELSE "opipe", Object(t)>>]]
  IN [n \in Standard |-> descriptors[ends[IF n = 0 THEN 0 ELSE 3 - n]]]

\* What the child has as 0, 1 and 2.
dup2(t) ==
  LET ends == [n \in Standard |-> handle[t][<<Stream[n + 1],
                                              IF n = 0 THEN "ipipe" ELSE "opipe", Object(t)>>]]
  IN [n \in Standard |-> descriptors[ends[n]]]

\* fork copies the descriptors, and the mutex of the log as it is, or it fails, which
\* is not looked at: _pid is -1.  Then the daemon closes the ends of the child.
start(t) ==
  /\ pc[t] = "start"
  /\ \/ /\ child' = [child EXCEPT ![t] = "forked"]
        /\ stdio' = [stdio EXCEPT ![t] = dup2(t)]
        /\ lockedAtFork' = [lockedAtFork EXCEPT ![t] = logMutex # none]
     \/ /\ Job(t).cmd \in Forkless
        /\ child' = [child EXCEPT ![t] = "failed"]
        /\ UNCHANGED <<stdio, lockedAtFork>>
  /\ close(t, {<<s, IF s = "stdin" THEN "ipipe" ELSE "opipe", Object(t)>> :
                 s \in {"stdin", "stdout", "stderr"}})
  /\ Goto(t, "started")
  /\ UNCHANGED <<todo, status, output, printed, content, logMutex, mutex, daemon>>

closeStdin(t) ==
  /\ pc[t] = "started"
  /\ close(t, {e \in Ends(Object(t)) : e[1] = "stdin"})
  /\ Goto(t, "wait")
  /\ UNCHANGED <<todo, process, printed, content, logMutex, mutex, daemon>>

failed(t) == status[t] # 0

\* The children that nobody has waited for.
Children == {u \in Thread : child[u] \in {"forked", "running", "exiting", "dead"}}

\* Where there is no child to wait for, the status stays 0.  Of a fork that has
\* failed, waitpid (-1) waits for the child of any thread, and takes it from it.
waitpid(t) ==
  \/ /\ child[t] \in {"dead", "reaped"} \/ (child[t] = "failed" /\ Children = {})
     /\ child' = [child EXCEPT ![t] = "none"] /\ UNCHANGED status
  \/ /\ child[t] = "failed"
     /\ \E u \in Children :
          /\ child[u] = "dead"
          /\ child' = [child EXCEPT ![t] = "none", ![u] = "reaped"]
          /\ status' = [status EXCEPT ![t] = status[u], ![u] = 0]

wait(t) ==
  /\ pc[t] = "wait" /\ waitpid(t)
  /\ Goto(t, IF failed(t)' /\ Job(t).onFailure \in {"report", "die"} THEN "report"
             ELSE "destroy")
  /\ UNCHANGED <<todo, stdio, lockedAtFork, output, printed, pipes, logMutex, mutex,
                 daemon>>

\* ERROR and OUT: what stderr and stdout hold.
report(t) ==
  /\ pc[t] = "report"
  /\ printed' = [printed EXCEPT ![t] = [s \in Out |-> read(t, s)]]
  /\ Goto(t, IF Job(t).onFailure = "die" THEN "exit" ELSE "destroy")
  /\ UNCHANGED <<todo, process, pipes, logMutex, mutex, daemon>>

\* Nothing of the command is kept.
Forget(t) ==
  /\ child' = [child EXCEPT ![t] = "none"]
  /\ stdio' = [stdio EXCEPT ![t] = [n \in Standard |-> console]]
  /\ lockedAtFork' = [lockedAtFork EXCEPT ![t] = FALSE]
  /\ status' = [status EXCEPT ![t] = 0]
  /\ output' = [output EXCEPT ![t] = Nothing]
  /\ printed' = [printed EXCEPT ![t] = none]
  /\ content' = [content EXCEPT ![t] = Nothing]

Again(t) == failed(t) /\ Job(t).onFailure = "retry"

\* The objects of a function are destroyed when it returns, the one of an
\* iteration of mountSwap at its end.
Destroyed(t) ==
  IF Again(t) THEN Ends(Object(t))
  ELSE IF Len(todo[t]) > 1 /\ todo[t][2].object = 2 THEN {} ELSE End

\* Mutant: installVM returns with the mutex locked.
destroyLocked(t) ==
  /\ pc[t] = "destroy"
  /\ close(t, Destroyed(t))
  /\ todo' = IF Again(t) THEN todo ELSE [todo EXCEPT ![t] = Tail(@)]
  /\ Goto(t, "next") /\ Forget(t)
  /\ UNCHANGED <<logMutex, mutex, daemon>>

\* The function that has run the command goes on or returns.
destroy(t) ==
  /\ pc[t] = "destroy"
  /\ close(t, Destroyed(t))
  /\ mutex' = IF Job(t).locked THEN none ELSE mutex
  /\ todo' = IF Again(t) THEN todo ELSE [todo EXCEPT ![t] = Tail(@)]
  /\ Goto(t, "next") /\ Forget(t)
  /\ UNCHANGED <<logMutex, daemon>>

\* exit (-1): the destructor of LibvirtClient logs that it is disconnected.
exit(t) ==
  /\ pc[t] = "exit" /\ logMutex = none
  /\ daemon' = "exited"
  /\ UNCHANGED <<todo, pc, process, printed, pipes, logMutex, mutex>>

info(t) ==
  \/ /\ pc[t] = "next" /\ At(t, "log") /\ logMutex = none
     /\ logMutex' = t /\ Goto(t, "print") /\ UNCHANGED todo
     /\ UNCHANGED <<process, printed, pipes, mutex, daemon>>
  \/ /\ pc[t] = "print"
     /\ logMutex' = none /\ Goto(t, "next") /\ todo' = [todo EXCEPT ![t] = Tail(@)]
     /\ UNCHANGED <<process, printed, pipes, mutex, daemon>>

-----------------------------------------------------------------------------
(* The child *)

Written(t, o) == [s \in Out |-> [i \in 1..o[s] |-> <<t, s, i>>]]

execvp(t) ==
  /\ child[t] = "forked"
  /\ \/ /\ Job(t).cmd \in Installed
        /\ child' = [child EXCEPT ![t] = "running"]
        /\ \E o \in Outputs : output' = [output EXCEPT ![t] = Written(t, o)]
     \/ /\ Job(t).cmd \notin Installed
        /\ child' = [child EXCEPT ![t] = "exiting"] /\ UNCHANGED output
  /\ UNCHANGED <<todo, pc, stdio, lockedAtFork, status, printed, pipes, logMutex,
                 mutex, daemon>>

pipeOf(t, stream) ==
  LET file == stdio[t][IF stream = "stdout" THEN 1 ELSE 2]
  IN IF file \in {console, none} THEN none ELSE <<file[1], file[2][1]>>
Fitting(units) ==
  SubSeq(units, 1, IF Len(units) < Capacity THEN Len(units) ELSE Capacity)

\* The pipes after a command has written its outputs; what does not fit is lost.
Poured(t) ==
  [u \in Thread |-> [s \in Out |->
     LET into == {w \in Out : pipeOf(t, w) = <<u, s>>}
     IN IF into = {} THEN content[u][s]
        ELSE Fitting(content[u][s] \o output[t][CHOOSE w \in into : TRUE])]]

end(t, code) ==
  /\ child' = [child EXCEPT ![t] = "dead"]
  /\ status' = [status EXCEPT ![t] = code]
  /\ UNCHANGED <<todo, pc, stdio, lockedAtFork, output, printed, handle, descriptors,
                 logMutex, mutex, daemon>>

\* Mutant: the pipes are left blocking.
completeBlocks(t, code) ==
  /\ child[t] = "running"
  /\ \A s \in Out : pipeOf(t, s) = none \/ output[t][s] = Fitting(output[t][s])
  /\ content' = Poured(t) /\ end(t, code)

\* The command writes and ends.  O_NONBLOCK is set by the constructors, and the
\* child shares it: it never waits for somebody to read.
complete(t, code) ==
  /\ child[t] = "running"
  /\ content' = Poured(t) /\ end(t, code)

\* exit (0) runs the destructors of the daemon in the child; the one of
\* LibvirtClient logs, for which it needs the copy of the mutex.
exitChild(t) ==
  /\ child[t] = "exiting" /\ ~ lockedAtFork[t]
  /\ end(t, 0) /\ UNCHANGED content

-----------------------------------------------------------------------------
step(t) ==
  \/ construct(t) \/ lock(t) \/ start(t) \/ closeStdin(t) \/ wait(t)
  \/ report(t) \/ destroy(t) \/ exit(t) \/ info(t)
command(t) ==
  \/ execvp(t) \/ exitChild(t)
  \/ \E code \in 0..1 : complete(t, code)

Next == Up /\ \E t \in Thread : step(t) \/ command(t)

Spec == Init /\ [][Next]_vars

\* Threads and children keep running; a command that writes ends; ssh succeeds
\* when it is tried again and again, as the VM boots.
FairSpec ==
  /\ Spec
  /\ \A t \in Thread :
       /\ WF_vars(Up /\ step(t)) /\ WF_vars(Up /\ command(t))
       /\ SF_vars(Up /\ At(t, "run") /\ Job(t).cmd = "ssh" /\ complete(t, 0))
-----------------------------------------------------------------------------
(* Properties. *)

\* A handle is 0 or the number of the end that it was created for, and every
\* other open descriptor has its handle: nobody closes or reads the pipes of
\* another thread, though the numbers are used again, and nothing stays open.
HandlesAreOwn ==
  /\ \A t \in Thread : \A e \in End :
       handle[t][e] # 0 => descriptors[handle[t][e]] = <<t, e>>
  /\ \A d \in Descriptor \ Standard :
       descriptors[d] # none => handle[descriptors[d][1]][descriptors[d][2]] = d

\* What is printed of a command that has failed is what this command writes, each
\* output on its own, up to what a pipe holds, unless there was no pipe for it; and
\* nothing, never the text of another one, where fork has failed and the status is
\* that of the child of another thread.
ReportIsWhole ==
  \A t \in Thread : printed[t] # none =>
    \A s \in Out : handle[t][<<s, "ipipe", Object(t)>>] # 0 =>
      printed[t][s] = Fitting(output[t][s])

Hung(t) == child[t] = "exiting" /\ lockedAtFork[t]

\* wait (proc.hh: the completion of the sub process) comes to an end, however much
\* the command writes before anybody reads, also where fork has failed or another
\* thread has taken the child, unless the child that cannot execute its command was
\* forked while another thread was logging: it hangs, and with it who waits for any.
WaitEnds ==
  \A t \in Thread : pc[t] = "wait" ~>
    \/ pc[t] # "wait" \/ ~ Up \/ Hung(t)
    \/ child[t] = "failed" /\ \E u \in Thread : Hung(u)

\* Every job is done in the end, also those that wait for the mutex of installVM,
\* unless the daemon exits or a child hangs.
JobsEnd ==
  \A t \in Thread : <>(todo[t] = <<>> \/ ~ Up \/ \E u \in Thread : Hung(u))
=============================================================================
