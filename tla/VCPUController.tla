--------------------------- MODULE VCPUController ---------------------------
(***************************************************************************)
(* The controller of one vcpu (src/monitor/libvirt/controller): it reads   *)
(* the usage counter of its cgroup at every tick of the control loop, hands *)
(* the consumption of the frame and its slope to the market, and writes    *)
(* the quota of the market back to the cgroup.                             *)
(*                                                                         *)
(* Time is counted in ticks and consumption in cycles, at most Core of them *)
(* in a tick.  The object is built before the domain boots, and the loop   *)
(* sees it once the VM is registered.  The guest runs on between the three *)
(* moments at which an update reads the counter, reads the timer and resets *)
(* the timer.                                                              *)
(***************************************************************************)
EXTENDS Integers, Sequences, Functions

CONSTANTS
  Core,          \* cycles of a core in a tick
  MaxHistory,   \* _maxHistory: consumptions that the slope is computed from
  Word,         \* 2^32: the counter is read as an unsigned int
  LongWord,     \* 2^64: it is stored and subtracted as an unsigned long
  DefaultPeriod, \* the period of a new controller, 10000
  Period,       \* the period of the market, 100000
  KernelPeriod, \* the period of the cgroup until somebody writes it
  Second,       \* the microseconds a quota is a part of, 1000000
  V2,           \* the host has cgroups v2
  Scope, own,   \* directories of VMs below machine.slice; the one of this VM
  Matching,     \* those with "v" and the id of this VM in their path
  Works,        \* cycles that the guest uses in a tick
  Quotas,       \* allocations of the market, in cycles
  Totals,       \* bound of the instances: totals that the guest comes by
  ElapsedBound, \* bound of the instances: ticks between two updates
  PauseBound,   \* bound of the instances: ticks in the middle of an update
  MicroBound    \* updates in the first frame of the loop; later ones have one

ASSUME MaxAssumption == Core \in Nat \ {0} /\ Works \subseteq 0..Core
ASSUME WordAssumption == Word \in Nat \ {0} /\ LongWord \in Nat \ {0} /\ LongWord % Word = 0
ASSUME QuotaAssumption ==
  /\ Period \in Nat \ {0} /\ KernelPeriod \in Nat \ {0} /\ Second \in Nat \ {0}
  /\ Quotas \subseteq 0..Second /\ V2 \in BOOLEAN
ASSUME BoundAssumption ==
  Totals \subseteq Nat /\ {ElapsedBound, PauseBound, MicroBound} \subseteq Nat
ASSUME ScopeAssumption == own \in Matching /\ Matching \subseteq Scope

VARIABLES
  used,            \* the counter of the kernel: cycles since the domain booted
  elapsed,         \* ticks since _t was reset
  step,            \* "time", "reset": what an update does next; "idle": none runs
  scopes,          \* the directories that there are
  opening,         \* the directory that the search is about to open, or <<>>
  aborted,         \* the search has ended the daemon
  _limit,          \* the directory that the controller reads and writes, or <<>>
  registered,      \* the VM is in the vector that the loop walks
  _microConsumption, _nbMicros, _sumConsumption, _sumDelta,
  _consumption, _delta, _history, _slope,
  _quota, _period,
  limit,           \* what the cgroup enforces: <<quota, period>>, or <<>>
  \* For the properties.
  read, before,    \* the counter at the last update, at the last frame
  truth, frames,   \* the cycles of the last frame, the frames that were
  pause,           \* ticks between the last reading and the reset of the timer
  lost, lag        \* such ticks, of the updates of this frame, of the last frame
ticks == <<_microConsumption, _nbMicros, _sumConsumption, _sumDelta>>
frame == <<_consumption, _delta, _history, _slope>>
capping == <<_quota, _period, limit>>
marks == <<read, before, truth, frames>>
pauses == <<pause, lost, lag>>
cgroup == <<scopes, opening, aborted, _limit>>
vars == <<used, elapsed, step, registered, cgroup, ticks, frame, capping, marks, pauses>>

\* The history is kept in cycles per tick, of which the code keeps the percentage of
\* a core.  _slope is a fraction, kept as its numerator over the variance of the
\* positions, both scaled by the square of the length of the history.
Init ==
  /\ used = 0 /\ elapsed = 0 /\ step = "idle" /\ registered = FALSE
  /\ scopes = Scope /\ opening = <<>> /\ aborted = FALSE /\ _limit = <<>>
  /\ _microConsumption = 0 /\ _nbMicros = 0 /\ _sumConsumption = 0 /\ _sumDelta = 0
  /\ _consumption = 0 /\ _delta = 0 /\ _history = <<>> /\ _slope = 0
  /\ _quota = -1 /\ _period = DefaultPeriod /\ limit = <<>>
  /\ read = 0 /\ before = 0 /\ truth = 0 /\ frames = 0
  /\ pause = 0 /\ lost = 0 /\ lag = 0

-----------------------------------------------------------------------------
\* A tick of the guest; the first ones are those of its boot.
work(cycles) ==
  /\ elapsed < ElapsedBound /\ used + cycles \in Totals
  /\ step # "idle" => pause < PauseBound
  /\ used' = used + cycles
  /\ elapsed' = elapsed + 1
  /\ pause' = IF step = "idle" THEN pause ELSE pause + 1
  /\ UNCHANGED <<step, registered, cgroup, ticks, frame, capping, marks, lost, lag>>

\* The hypervisor makes the directory of a VM when it starts, and removes it.
moveScope(s) ==
  /\ _limit = <<>> /\ ~ aborted
  /\ scopes' = IF s \in scopes THEN scopes \ {s} ELSE scopes \union {s}
  /\ UNCHANGED <<used, elapsed, step, registered, opening, aborted, _limit, ticks, frame,
                 capping, marks, pauses>>

\* Directories are walked in any order: one that is there and has the name of the VM
\* in it is the result, any other is opened.
recursiveSearch ==
  /\ opening = <<>>
  /\ \E s \in scopes : IF s \in Matching THEN _limit' = <<s>> /\ UNCHANGED opening
                                         ELSE opening' = <<s>> /\ UNCHANGED _limit
  /\ UNCHANGED aborted

\* directory_iterator throws what nobody catches if the directory has gone since.
openDirectory ==
  /\ opening # <<>> /\ opening' = <<>>
  /\ aborted' = (opening[1] \notin scopes)
  /\ UNCHANGED _limit

\* enable searches until a directory is found.
enable ==
  /\ _limit = <<>> /\ ~ aborted
  /\ recursiveSearch \/ openDirectory
  /\ UNCHANGED <<used, elapsed, step, registered, scopes, ticks, frame, capping, marks,
                 pauses>>

register ==
  /\ ~ registered /\ _limit # <<>> /\ registered' = TRUE
  /\ before' = used
  /\ UNCHANGED <<used, elapsed, step, cgroup, ticks, frame, capping, read, truth, frames,
                 pauses>>

\* readUsage returns an unsigned int.
readUsage == used % Word

\* The loop has made two passes before its first frame, one before each other.
Ticking ==
  /\ registered /\ step = "idle" /\ elapsed > 0
  /\ _nbMicros < IF frames = 0 THEN MicroBound ELSE 1

\* Mutant: compares the new counter with 0, not with the last one.
updateFromZero ==
  /\ Ticking /\ step' = "time"
  /\ _microConsumption' = readUsage
  /\ _sumConsumption' = _sumConsumption + readUsage
  /\ read' = used /\ lost' = lost + pause /\ pause' = 0
  /\ UNCHANGED <<used, elapsed, registered, cgroup, _nbMicros, _sumDelta, frame, capping,
                 before, truth, frames, lag>>

\* An update first reads the counter, and sums the cycles since the last reading,
update ==
  /\ Ticking /\ step' = "time"
  /\ _microConsumption' = readUsage
  /\ _sumConsumption' =
       (_sumConsumption + readUsage + LongWord - _microConsumption) % LongWord
  /\ read' = used /\ lost' = lost + pause /\ pause' = 0
  /\ UNCHANGED <<used, elapsed, registered, cgroup, _nbMicros, _sumDelta, frame, capping,
                 before, truth, frames, lag>>

\* Mutant: keeps only the length of the last tick.
timeOfLastTick ==
  /\ step = "time" /\ step' = "reset"
  /\ _sumDelta' = elapsed /\ _nbMicros' = _nbMicros + 1
  /\ UNCHANGED <<used, elapsed, registered, cgroup, _microConsumption, _sumConsumption,
                 frame, capping, marks, pauses>>

\* then it reads the timer,
time_since_start ==
  /\ step = "time" /\ step' = "reset"
  /\ _sumDelta' = _sumDelta + elapsed /\ _nbMicros' = _nbMicros + 1
  /\ UNCHANGED <<used, elapsed, registered, cgroup, _microConsumption, _sumConsumption,
                 frame, capping, marks, pauses>>

\* and at last resets the timer, whatever it shows by then.
reset ==
  /\ step = "reset" /\ step' = "idle"
  /\ elapsed' = 0
  /\ UNCHANGED <<used, registered, cgroup, ticks, frame, capping, marks, pauses>>

\* The cycles of a tick, truncated.
getAbsoluteConsumption(cycles, ticked) == cycles \div ticked

\* Covariance and variance of the positions, both times the square of the length.
Slope(h) ==
  LET n == Len(h)
      sum_x == SumFunction([x \in 1..n |-> x])
      sum_y == SumFunction(h)
  IN  SumFunction([x \in 1..n |-> (n * x - sum_x) * (n * h[x] - sum_y)])

Variance ==
  LET n == MaxHistory
      sum_x == SumFunction([x \in 1..n |-> x])
  IN  SumFunction([x \in 1..n |-> (n * x - sum_x) * (n * x - sum_x)])

\* Mutant: computes the slope before it adds the value.
addAfterSlope(value) ==
  LET longer == Append(_history, value) IN
  /\ _slope' = IF Len(_history) = MaxHistory THEN Slope(_history) ELSE _slope
  /\ _history' = IF Len(longer) > MaxHistory THEN Tail(longer) ELSE longer

addToHistory(value) ==
  LET longer == Append(_history, value)
      history == IF Len(longer) > MaxHistory THEN Tail(longer) ELSE longer
  IN  /\ _history' = history
      /\ _slope' = IF Len(history) = MaxHistory THEN Slope(history) ELSE _slope

\* Mutant: goes on summing from the frame before.
updateKeepsSum ==
  /\ _nbMicros > 0 /\ step = "idle"
  /\ _consumption' = _sumConsumption
  /\ _delta' = _sumDelta
  /\ _sumDelta' = 0 /\ _nbMicros' = 0
  /\ addToHistory(getAbsoluteConsumption(_sumConsumption, _sumDelta))
  /\ truth' = read - before /\ before' = read
  /\ frames' = IF frames < 2 THEN frames + 1 ELSE frames
  /\ lag' = lost /\ lost' = 0
  /\ UNCHANGED <<used, elapsed, step, registered, _microConsumption, _sumConsumption,
                 cgroup, capping, read, pause>>

\* The loop has updated the vcpu before, so there is no division by zero here.
updateBeforeMarket ==
  /\ _nbMicros > 0 /\ step = "idle"
  /\ _consumption' = _sumConsumption
  /\ _delta' = _sumDelta
  /\ _sumConsumption' = 0 /\ _sumDelta' = 0 /\ _nbMicros' = 0
  /\ addToHistory(getAbsoluteConsumption(_sumConsumption, _sumDelta))
  /\ truth' = read - before /\ before' = read
  /\ frames' = IF frames < 2 THEN frames + 1 ELSE frames
  /\ lag' = lost /\ lost' = 0
  /\ UNCHANGED <<used, elapsed, step, registered, _microConsumption, cgroup, capping, read,
                 pause>>

\* cgroups v1 keep the period they have: only the quota is written.
setLimit(nbMicros, period) ==
  limit' = IF nbMicros = -1 THEN <<>>
           ELSE <<nbMicros, IF V2 THEN period ELSE KernelPeriod>>

Unlimited(nbMicros) == 100 * nbMicros >= 85 * Second

\* Mutant: leaves the period to its default.
setQuotaDefaultPeriod(nbMicros) ==
  /\ frames > 0 /\ _nbMicros = 0 /\ step = "idle"
  /\ _period' = DefaultPeriod
  /\ _quota' = (nbMicros * _period') \div Second
  /\ setLimit(IF Unlimited(nbMicros) THEN -1 ELSE _quota', _period')
  /\ UNCHANGED <<used, elapsed, step, registered, cgroup, ticks, frame, marks, pauses>>

\* The market runs right after a frame was measured.  A vcpu that obtains 85% of a
\* core or more is not limited at all.
setQuota(nbMicros) ==
  /\ frames > 0 /\ _nbMicros = 0 /\ step = "idle"
  /\ _period' = Period
  /\ _quota' = (nbMicros * Period) \div Second
  /\ setLimit(IF Unlimited(nbMicros) THEN -1 ELSE _quota', Period)
  /\ UNCHANGED <<used, elapsed, step, registered, cgroup, ticks, frame, marks, pauses>>

Next ==
  \/ \E cycles \in Works : work(cycles)
  \/ \E s \in Scope : moveScope(s)
  \/ enable \/ register
  \/ update \/ time_since_start \/ reset \/ updateBeforeMarket
  \/ \E nbMicros \in Quotas : setQuota(nbMicros)

Spec == Init /\ [][Next]_vars

-----------------------------------------------------------------------------
(* Properties. *)

\* vcpu.hh:89: _consumption is the consumption of the last macro tick, here from
\* the second one on: no cycle is lost or counted twice between two frames.
LaterTicksMeasured == frames >= 2 => _consumption = truth

\* Counter arithmetic: what is measured and not yet handed to the market is what
\* the counter has moved, modulo the word that was read.
NothingLost ==
  frames >= 1 => (_sumConsumption - (read - before)) % Word = 0

\* The counter and the timer are read at two moments (vcpu.cc:45, 47) and the timer is
\* reset at a third (49).  A frame may show more than a core, but no more than what a
\* core does in its time and in the pauses between reading the counter and resetting
\* the timer, of the update that ended the frame before and of all but its own last
\* one: the error does not add up from frame to frame.
RateWithinCore == _consumption <= Core * (_delta + lag)

\* A consumption that has only grown in the history, by 1% of a core or more in all, is
\* never taken for a stable one (sellBaseCycles: a slope between -0.1% and 0.1% of a
\* core a frame), however small the steps and wherever they are.
Rising == \A x \in 1..(Len(_history) - 1) : _history[x] <= _history[x + 1]
Stable == 1000 * _slope < Core * Variance /\ 1000 * _slope > - Core * Variance
TrendSeen ==
  /\ Len(_history) = MaxHistory /\ Rising
  /\ 100 * (_history[MaxHistory] - _history[1]) >= Core
  => ~ Stable

\* What the cgroup enforces is what the market believes (getAbsoluteCapping), or
\* more: the guest may always use the share it has bought.
EnforcedIsReported ==
  limit # <<>> => limit[1] * _period = _quota * limit[2]

\* cgroup.hh:70: "Recursively search for the cgroup of the VM": what is enforced, is
\* enforced on this VM and not on another one.
EnforcedOnOwnVM == limit # <<>> => _limit = <<own>>
=============================================================================
