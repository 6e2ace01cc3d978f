---------------------------- MODULE ControlLoop -----------------------------
(***************************************************************************)
(* The control loop (src/server/control.cc) next to the requests that      *)
(* reset the market counters and to the VMs that come and go.  The loop    *)
(* walks the vector of running VMs to update them, to run the market and   *)
(* to collect the log entry of the frame; it takes _vcpuMutex around the   *)
(* market and _mutex around the write of the entry, never both.  A reset   *)
(* holds _mutex, inside of it _vcpuMutex, and removes the log file.        *)
(*                                                                         *)
(* The market itself is the subject of VCPUMarket: here it is a walk that  *)
(* leaves some account of each VM.                                         *)
(***************************************************************************)
EXTENDS Naturals

CONSTANTS
  VM,              \* the VMs that may be registered
  Arrivals,        \* when VMs are pushed or removed: "waiting" if only while
                   \* the loop waits for its next frame, else "any"
  none, loop, acceptor   \* the owners of the mutexes

ASSUME MutexAssumption == none # loop /\ none # acceptor /\ loop # acceptor
ASSUME ArrivalAssumption == Arrivals \in {"waiting", "any"}

VARIABLES
  _vcpuMarketEnabled,   \* read once from the configuration
  pc,          \* the loop: "update", "before", "market", "run", "collect",
               \* "write", "append", "wait"
  frame,       \* i: 1 once the loop has made its first pass
  todo,        \* VMs that the walk has still to visit
  running,     \* the vector of running VMs
  micros,      \* per VM: _nbMicros of its vcpus
  money,       \* per VM: 0, or 1 if the market has credited it
  request,     \* the acceptor in resetMarketCounters: "none", "lock",
               \* "lockMarket", "zero", "remove"
  zeroing,     \* VMs that the reset has still to visit
  _mutex, _vcpuMutex,
  entry,       \* the entry being collected holds accounts from before a reset
  stale        \* such entries in the log file

config == <<_vcpuMarketEnabled>>
walk == <<pc, frame, todo>>
vms == <<running, micros, money>>
resetting == <<request, zeroing>>
mutexes == <<_mutex, _vcpuMutex>>
log == <<entry, stale>>
vars == <<config, walk, vms, resetting, mutexes, log>>

\* Without a readable configuration the market is disabled.
readCpuMarketConfig == _vcpuMarketEnabled \in BOOLEAN

Init ==
  /\ readCpuMarketConfig
  /\ pc = "update" /\ frame = 0 /\ todo = {}
  /\ running = {} /\ micros = [v \in VM |-> 0] /\ money = [v \in VM |-> 0]
  /\ request = "none" /\ zeroing = {}
  /\ _mutex = none /\ _vcpuMutex = none
  /\ entry = FALSE /\ stale = 0

-----------------------------------------------------------------------------
(* The loop *)

Walk(step, next, then) ==
  /\ pc = step /\ todo = {}
  /\ pc' = next
  /\ todo' = IF then THEN running ELSE {}

Visit(v) == v \in todo /\ todo' = todo \ {v} /\ UNCHANGED <<pc, frame>>

updateVCPUControllers ==
  \/ /\ pc = "update"
     /\ \E v \in todo : Visit(v) /\ micros' = [micros EXCEPT ![v] = 1]
     /\ UNCHANGED <<config, running, money, resetting, mutexes, log>>
  \/ /\ \/ frame = 0 /\ Walk("update", "wait", FALSE)
        \/ frame = 1 /\ Walk("update", "before", TRUE)
     /\ UNCHANGED <<config, frame, vms, resetting, mutexes, log>>

\* The means of the frame are divided by the number of its micro ticks.
updateBeforeMarket ==
  \/ /\ pc = "before"
     /\ \E v \in todo : Visit(v) /\ micros' = [micros EXCEPT ![v] = 0]
     /\ UNCHANGED <<config, running, money, resetting, mutexes, log>>
  \/ /\ IF _vcpuMarketEnabled THEN Walk("before", "market", FALSE)
                         ELSE Walk("before", "collect", TRUE)
     /\ UNCHANGED <<config, frame, vms, resetting, mutexes, log>>

\* Mutant: the market does not take its mutex.
marketUnlocked ==
  /\ pc = "market"
  /\ pc' = "run" /\ todo' = running
  /\ UNCHANGED <<config, frame, vms, resetting, mutexes, log>>

lockMarket ==
  /\ pc = "market" /\ _vcpuMutex = none
  /\ _vcpuMutex' = loop
  /\ pc' = "run" /\ todo' = running
  /\ UNCHANGED <<config, frame, vms, resetting, _mutex, log>>

\* Mutant: the mutex of the market is kept until the entry is written.
runKeepsLock ==
  \/ /\ pc = "run"
     /\ \E v \in todo : Visit(v) /\ money' = [money EXCEPT ![v] = 1]
     /\ UNCHANGED <<config, running, micros, resetting, mutexes, log>>
  \/ /\ Walk("run", "collect", TRUE)
     /\ UNCHANGED <<config, frame, vms, resetting, mutexes, log>>

run ==
  \/ /\ pc = "run"
     /\ \E v \in todo, credit \in {0, 1} :
          Visit(v) /\ money' = [money EXCEPT ![v] = credit]
     /\ UNCHANGED <<config, running, micros, resetting, mutexes, log>>
  \/ /\ Walk("run", "collect", TRUE)
     /\ _vcpuMutex' = none
     /\ UNCHANGED <<config, frame, vms, resetting, _mutex, log>>

\* dumpCpuLogs reads the accounts without a mutex ...
collect ==
  \/ /\ pc = "collect"
     /\ \E v \in todo : Visit(v)
     /\ UNCHANGED <<config, vms, resetting, mutexes, log>>
  \/ /\ Walk("collect", "write", FALSE)
     /\ UNCHANGED <<config, frame, vms, resetting, mutexes, log>>

lockLog ==
  /\ pc = "write" /\ _mutex = none
  /\ _mutex' = loop
  /\ pc' = "append"
  /\ UNCHANGED <<config, frame, todo, vms, resetting, _vcpuMutex, log>>

\* ... and appends the entry under _mutex.
append ==
  /\ pc = "append"
  /\ stale' = IF entry THEN stale + 1 ELSE stale
  /\ entry' = FALSE
  /\ _mutex' = none
  /\ pc' = "wait" /\ frame' = 0
  /\ UNCHANGED <<config, todo, vms, resetting, _vcpuMutex>>

\* The counter of frames goes to 1 after each wait, whatever it was.
waitCpuFrame ==
  /\ pc = "wait"
  /\ pc' = "update" /\ frame' = 1 /\ todo' = running
  /\ UNCHANGED <<config, vms, resetting, mutexes, log>>

cpuControlLoop ==
  \/ updateVCPUControllers \/ updateBeforeMarket \/ lockMarket \/ run
  \/ collect \/ lockLog \/ append \/ waitCpuFrame

-----------------------------------------------------------------------------
(* The request *)

treatResetCounters ==
  /\ request = "none" /\ request' = "lock"
  /\ UNCHANGED <<config, walk, vms, zeroing, mutexes, log>>

lockReset ==
  /\ request = "lock" /\ _mutex = none
  /\ _mutex' = acceptor
  /\ request' = IF _vcpuMarketEnabled THEN "lockMarket" ELSE "remove"
  /\ UNCHANGED <<config, walk, vms, zeroing, _vcpuMutex, log>>

lockResetMarket ==
  /\ request = "lockMarket" /\ _vcpuMutex = none
  /\ _vcpuMutex' = acceptor
  /\ request' = "zero" /\ zeroing' = running
  /\ UNCHANGED <<config, walk, vms, _mutex, log>>

\* The accounts are reset; those that the entry has already are old ones.
reset ==
  /\ request = "zero"
  /\ \/ \E v \in zeroing :
          /\ zeroing' = zeroing \ {v}
          /\ money' = [money EXCEPT ![v] = 0]
          /\ entry' = (entry \/ (pc = "collect" /\ v \notin todo)
                             \/ pc \in {"write", "append"})
          /\ UNCHANGED <<request, _vcpuMutex>>
     \/ /\ zeroing = {}
        /\ request' = "remove" /\ _vcpuMutex' = none
        /\ UNCHANGED <<zeroing, money, entry>>
  /\ UNCHANGED <<config, walk, running, micros, _mutex, stale>>

\* Mutant: the log file is kept.
logKept ==
  /\ request = "remove" /\ request' = "none"
  /\ _mutex' = none
  /\ UNCHANGED <<config, walk, vms, zeroing, _vcpuMutex, log>>

\* Mutant: the mutex is kept.
removeKeepsLock ==
  /\ request = "remove" /\ request' = "none"
  /\ stale' = 0
  /\ UNCHANGED <<config, walk, vms, zeroing, mutexes, entry>>

\* The log file is removed, the mutex released, and the client answered.
removeLog ==
  /\ request = "remove" /\ request' = "none"
  /\ stale' = 0 /\ _mutex' = none
  /\ UNCHANGED <<config, walk, vms, zeroing, _vcpuMutex, entry>>

resetMarketCounters == lockReset \/ lockResetMarket \/ reset \/ removeLog

-----------------------------------------------------------------------------
(* The VMs *)

Arrivable == Arrivals = "waiting" => pc = "wait" /\ request # "zero"

push(v) ==
  /\ v \notin running /\ Arrivable
  /\ running' = running \union {v}
  /\ micros' = [micros EXCEPT ![v] = 0]
  /\ money' = [money EXCEPT ![v] = 0]
  /\ UNCHANGED <<config, walk, resetting, mutexes, log>>

remove(v) ==
  /\ v \in running /\ Arrivable
  /\ running' = running \ {v}
  /\ UNCHANGED <<config, walk, micros, money, resetting, mutexes, log>>

Next ==
  \/ cpuControlLoop
  \/ treatResetCounters \/ resetMarketCounters
  \/ \E v \in VM : push(v) \/ remove(v)

Spec == Init /\ [][Next]_vars

\* Both threads keep running.  Requests for a reset do not come so fast that the
\* loop always finds the mutexes taken.
FairSpec ==
  /\ Spec
  /\ WF_vars(resetMarketCounters)
  /\ WF_vars(cpuControlLoop) /\ SF_vars(lockMarket) /\ SF_vars(lockLog)
  /\ SF_vars(lockReset) /\ SF_vars(lockResetMarket)

-----------------------------------------------------------------------------
(* Properties. *)

\* The accounts are never reset in the middle of a run of the market.
ResetOutsideRun == ~ (pc = "run" /\ request = "zero")

\* After a reset at most one entry with older accounts gets into the new log, by
\* a frame that had collected it before and appends it afterwards.
AtMostOneStaleEntry == stale <= 1

\* A reset is answered, and the loop comes to its next frame: the two never wait
\* for each other.
ResetAnswered == (request # "none") ~> (request = "none")
LoopGoesOn == []<>(pc = "wait")

\* client.hh:93: the means are computed of the last ticks, so the vcpus of every
\* VM have had a tick in the frame (the sum of the frequencies is divided by it).
MeansHaveTicks == pc = "before" => \A v \in todo : micros[v] > 0
=============================================================================
