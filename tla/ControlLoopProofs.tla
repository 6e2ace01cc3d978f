------------------------- MODULE ControlLoopProofs --------------------------
(***************************************************************************)
(* Proofs about the locking of ControlLoop, for any set of VMs, with the   *)
(* market enabled or not, whenever VMs come and go.                        *)
(***************************************************************************)
EXTENDS ControlLoop, TLAPS

\* Who is where holds the mutex that the code takes on the way.
LockInv ==
  /\ pc = "run" => _vcpuMutex = loop
  /\ request = "zero" => _vcpuMutex = acceptor
  /\ pc = "append" => _mutex = loop
  /\ request \in {"lockMarket", "zero", "remove"} => _mutex = acceptor

LEMMA LockInvariant == Spec => []LockInv
<1> USE MutexAssumption DEF LockInv
<1>1. Init => LockInv
  BY DEF Init
<1>2. LockInv /\ [Next]_vars => LockInv'
  <2> SUFFICES ASSUME LockInv, [Next]_vars
               PROVE  LockInv'
    OBVIOUS
  <2>1. CASE updateVCPUControllers
    BY <2>1 DEF updateVCPUControllers, Walk, Visit, resetting, mutexes, vms
  <2>2. CASE updateBeforeMarket
    BY <2>2 DEF updateBeforeMarket, Walk, Visit, resetting, mutexes, vms
  <2>3. CASE lockMarket
    BY <2>3 DEF lockMarket, resetting
  <2>4. CASE run
    BY <2>4 DEF run, Walk, Visit, resetting, mutexes
  <2>5. CASE collect
    BY <2>5 DEF collect, Walk, Visit, resetting, mutexes
  <2>6. CASE lockLog
    BY <2>6 DEF lockLog, resetting
  <2>7. CASE append
    BY <2>7 DEF append, resetting
  <2>8. CASE waitCpuFrame
    BY <2>8 DEF waitCpuFrame, resetting, mutexes
  <2>9. CASE treatResetCounters
    BY <2>9 DEF treatResetCounters, walk, mutexes
  <2>10. CASE lockReset
    BY <2>10 DEF lockReset, walk
  <2>11. CASE lockResetMarket
    BY <2>11 DEF lockResetMarket, walk
  <2>12. CASE reset
    BY <2>12 DEF reset, walk
  <2>13. CASE removeLog
    BY <2>13 DEF removeLog, walk
  <2>14. CASE \E v \in VM : push(v) \/ remove(v)
    BY <2>14 DEF push, remove, walk, resetting, mutexes
  <2>15. CASE UNCHANGED vars
    BY <2>15 DEF vars, walk, resetting, mutexes
  <2> QED
    BY <2>1, <2>2, <2>3, <2>4, <2>5, <2>6, <2>7, <2>8, <2>9, <2>10, <2>11,
       <2>12, <2>13, <2>14, <2>15
    DEF Next, cpuControlLoop, resetMarketCounters
<1> QED
  BY <1>1, <1>2, PTL DEF Spec

\* The accounts are never reset in the middle of a run of the market
\* (control.cc:60-64 and 44-48).
THEOREM ResetBetweenRuns == Spec => []ResetOutsideRun
<1>1. LockInv => ResetOutsideRun
  BY MutexAssumption DEF LockInv, ResetOutsideRun
<1> QED
  BY <1>1, LockInvariant, PTL

\* An entry with old accounts is in the making only if no such entry is in the
\* log, unless a reset that will remove the log is under way.
StaleInv ==
  /\ stale \in {0, 1} /\ entry \in BOOLEAN
  /\ entry /\ request \notin {"zero", "remove"} => stale = 0

\* After a reset at most one entry with older accounts gets into the new log:
\* the entry is appended, and the log removed, under the mutex that the reset
\* holds from before it touches the accounts (control.cc:42-52 and 153-157).
THEOREM OneStaleEntry == Spec => []AtMostOneStaleEntry
<1> USE DEF StaleInv
<1>1. Init => StaleInv
  BY DEF Init
<1>2. StaleInv /\ LockInv /\ [Next]_vars => StaleInv'
  <2> SUFFICES ASSUME StaleInv, LockInv, [Next]_vars
               PROVE  StaleInv'
    OBVIOUS
  <2>1. CASE append
    <3>1. request \notin {"lockMarket", "zero", "remove"}
      BY <2>1, MutexAssumption DEF append, LockInv
    <3>2. request' = request /\ entry' = FALSE
      BY <2>1 DEF append, resetting
    <3>3. CASE entry
      <4>1. stale = 0
        BY <3>1, <3>3
      <4>2. stale' = stale + 1
        BY <2>1, <3>3 DEF append
      <4>3. stale' \in {0, 1}
        BY <4>1, <4>2
      <4> QED
        BY <3>2, <4>3, Zenon
    <3>4. CASE ~ entry
      BY <2>1, <3>2, <3>4 DEF append
    <3> QED
      BY <3>3, <3>4
  <2>2. CASE reset
    BY <2>2 DEF reset
  <2>3. CASE removeLog
    BY <2>3 DEF removeLog
  <2>4. CASE treatResetCounters \/ lockReset \/ lockResetMarket
    BY <2>4 DEF treatResetCounters, lockReset, lockResetMarket, log
  <2>5. CASE updateVCPUControllers \/ updateBeforeMarket \/ collect \/ run
    <3>1. UNCHANGED <<request, log>>
      BY <2>5 DEF updateVCPUControllers, updateBeforeMarket, collect, run,
                  resetting
    <3> QED
      BY <3>1 DEF log
  <2>6. CASE lockMarket \/ lockLog \/ waitCpuFrame
    BY <2>6 DEF lockMarket, lockLog, waitCpuFrame, log, resetting
  <2>7. CASE \E v \in VM : push(v) \/ remove(v)
    BY <2>7 DEF push, remove, log, resetting
  <2>8. CASE UNCHANGED vars
    BY <2>8 DEF vars, log, resetting
  <2> QED
    BY <2>1, <2>2, <2>3, <2>4, <2>5, <2>6, <2>7, <2>8
    DEF Next, cpuControlLoop, resetMarketCounters
<1>3. StaleInv => AtMostOneStaleEntry
  BY DEF AtMostOneStaleEntry
<1> QED
  BY <1>1, <1>2, <1>3, LockInvariant, PTL DEF Spec

-----------------------------------------------------------------------------
(* A reset takes two mutexes, the loop one after the other. *)

\* A mutex is free when nobody is between its lock and its unlock.
FreeInv ==
  /\ _mutex = loop => pc = "append"
  /\ _mutex = acceptor => request \in {"lockMarket", "zero", "remove"}
  /\ _vcpuMutex = loop => pc = "run"
  /\ _vcpuMutex = acceptor => request = "zero"
  /\ {_mutex, _vcpuMutex} \subseteq {loop, acceptor, none}

LoopWaits ==
  \/ pc = "market" /\ _vcpuMutex # none
  \/ pc = "write" /\ _mutex # none
ResetWaits ==
  \/ request = "lock" /\ _mutex # none
  \/ request = "lockMarket" /\ _vcpuMutex # none

\* The control loop and a reset of the counters never wait for each other, though a
\* reset takes the mutex of the market while it holds the one of the log
\* (control.cc:42-51), whatever VMs come and go.
THEOREM NoEmbrace == Spec => []~ (LoopWaits /\ ResetWaits)
<1> USE MutexAssumption DEF FreeInv
<1>1. Init => FreeInv
  BY DEF Init
<1>2. LockInv /\ FreeInv /\ [Next]_vars => FreeInv'
  <2> SUFFICES ASSUME LockInv, FreeInv, [Next]_vars
               PROVE  FreeInv'
    OBVIOUS
  <2>1. CASE updateVCPUControllers \/ updateBeforeMarket \/ collect
    BY <2>1 DEF updateVCPUControllers, updateBeforeMarket, collect, Walk, Visit,
                resetting, mutexes, vms
  <2>2. CASE run
    BY <2>2 DEF run, Walk, Visit, resetting, mutexes, LockInv
  <2>3. CASE lockMarket \/ lockLog \/ append \/ waitCpuFrame
    BY <2>3 DEF lockMarket, lockLog, append, waitCpuFrame, resetting, mutexes, LockInv
  <2>4. CASE treatResetCounters \/ lockReset \/ lockResetMarket
    BY <2>4 DEF treatResetCounters, lockReset, lockResetMarket, walk, mutexes
  <2>5. CASE reset \/ removeLog
    BY <2>5 DEF reset, removeLog, walk, LockInv
  <2>6. CASE \E v \in VM : push(v) \/ remove(v)
    BY <2>6 DEF push, remove, walk, resetting, mutexes
  <2>7. CASE UNCHANGED vars
    BY <2>7 DEF vars, walk, resetting, mutexes
  <2> QED
    BY <2>1, <2>2, <2>3, <2>4, <2>5, <2>6, <2>7
    DEF Next, cpuControlLoop, resetMarketCounters
<1>3. LockInv /\ FreeInv => ~ (LoopWaits /\ ResetWaits)
  BY DEF LockInv, LoopWaits, ResetWaits
<1> QED
  BY <1>1, <1>2, <1>3, LockInvariant, PTL DEF Spec
=============================================================================
