----------------------------- MODULE VCPUMarket -----------------------------
(***************************************************************************)
(* The CPU market of the daemon (src/server/market/vcpu.cc).  Once per     *)
(* frame the control loop resets the accounts of the frame, and the market *)
(* hands the cycles of the host to the vcpus: it first sells to each vcpu  *)
(* what it uses, up to its nominal share, then lets the vcpus that want    *)
(* more buy windows of cycles with the money of their VM, splits what is   *)
(* left between those that could not pay, spreads what remains over        *)
(* everybody, and turns the allocations into cgroup quotas.                *)
(*                                                                         *)
(* One action is one iteration of a loop of the code.  The lists of the    *)
(* code are walked in the order of the vcpus and nothing is inserted in    *)
(* them out of order, so a list is the set of its elements and a loop      *)
(* takes the least vcpu of the set it has left ("todo").                   *)
(* Cycles are counted in the unit of the code, microseconds per second of  *)
(* one core; the instances that TLC checks have cores with fewer of them.  *)
(***************************************************************************)
EXTENDS Integers, FiniteSets

CONSTANTS
  VCPU,              \* the vcpus of the running VMs, numbered in list order
  VM,                \* the running VMs
  VmOf,              \* the VM of each vcpu
  Nominal,           \* nominal cycles of each vcpu: freq / cpuFreq * Max
  Capacity,          \* cycles of the host: get_nprocs () * Max
  Max,               \* cycles of one core, 1000000 in the code
  Floor,             \* 1% of Max: least allocation, and margin of a stable vcpu
  Window,            \* windowSize: cycles a vcpu may buy in one round
  TriggerIncrement, TriggerDecrement,  \* percent of the capping
  IncreasingSpeed, DecreasingSpeed,    \* percent of the capping
  Word,              \* 2^64: range of unsigned long
  Usages,            \* consumptions a frame may measure
  Deltas,            \* lengths a frame may measure, in percent of a second
  Loss,              \* cycles lost when a quota is rounded to its period
  MoneyBound         \* bound of the instances: no run starts above it

ASSUME VCPUAssumption == VCPU \subseteq Nat /\ IsFiniteSet(VCPU) /\ VCPU # {}
ASSUME VMAssumption == VmOf \in [VCPU -> VM]
ASSUME CycleAssumption ==
  /\ Nominal \in [VCPU -> Nat]
  /\ Capacity \in Nat
  /\ Max \in Nat /\ Floor \in 0..Max
  /\ Window \in Nat
  /\ Word \in Nat /\ \A v \in VCPU : Nominal[v] < Word
  /\ Loss \in Nat
ASSUME TriggerAssumption ==
  /\ TriggerIncrement \in Nat /\ TriggerDecrement \in Nat
  /\ IncreasingSpeed \in Nat /\ DecreasingSpeed \in 0..100
ASSUME ReadingAssumption ==
  /\ Usages \subseteq Nat
  /\ Deltas \subseteq Nat \ {0}
  /\ MoneyBound \in Nat

VARIABLES
  pc,          \* the loop the run is in, "idle" between two runs
  todo,        \* what this loop has still to visit
  market,      \* cycles not sold (of the split: notSold)
  buyers,      \* vcpus still bidding
  fails,       \* vcpus that could not buy all they wanted
  allNeeded,   \* what those vcpus still want
  rest,        \* cycles to split between them
  percent,     \* cycles that each vcpu is given at the end
  allocated,   \* per vcpu: cycles it has obtained in this frame
  buying,      \* per vcpu: cycles it still wants
  money,       \* per VM: its account
  capping      \* per vcpu: its quota, in cycles (getAbsoluteCapping)

locals == <<market, buyers, fails, allNeeded, rest, percent>>
vars == <<pc, todo, locals, allocated, buying, money, capping>>

-----------------------------------------------------------------------------
Least(a, b) == IF a <= b THEN a ELSE b
Greatest(a, b) == IF a <= b THEN b ELSE a

\* The vcpu that the current loop visits next.
First(v) == v \in todo /\ \A w \in todo : v <= w

\* Cycles held under f, as a set of pairs: its cardinality is the sum of f.
Cells(f) == UNION {{v} \X (1..f[v]) : v \in VCPU}
Total(f) == Cardinality(Cells(f))

-----------------------------------------------------------------------------
\* _quota is -1 until the first run has applied an allocation; its capping is
\* out of the range of unsigned long, which the x86-64 conversion makes 0.
Init ==
  /\ pc = "idle" /\ todo = {}
  /\ market = 0 /\ buyers = {} /\ fails = {}
  /\ allNeeded = 0 /\ rest = 0 /\ percent = 0
  /\ allocated = [v \in VCPU |-> 0]
  /\ buying = [v \in VCPU |-> 0]
  /\ money = [m \in VM |-> 0]
  /\ capping = [v \in VCPU |-> 0]

ReturnFromRun ==
  /\ pc' = "idle" /\ todo' = {}
  /\ market' = 0 /\ buyers' = {} /\ fails' = {}
  /\ allNeeded' = 0 /\ rest' = 0 /\ percent' = 0

\* The control loop resets the vcpus (updateBeforeMarket) and calls run.
updateBeforeMarket ==
  /\ allocated' = [v \in VCPU |-> 0]
  /\ buying' = [v \in VCPU |-> 0]

BeginRun ==
  /\ pc = "idle"
  /\ \A m \in VM : money[m] <= MoneyBound
  /\ updateBeforeMarket
  /\ pc' = "sell" /\ todo' = VCPU
  /\ market' = Capacity
  /\ UNCHANGED <<buyers, fails, allNeeded, rest, percent, money, capping>>

\* reset: the accounts start again from nothing.  The control loop and the
\* client's request exclude each other, so it falls between two runs.
reset ==
  /\ pc = "idle"
  /\ money' = [m \in VM |-> 0]
  /\ UNCHANGED <<pc, todo, locals, allocated, buying, capping>>

-----------------------------------------------------------------------------
(* Selling the base cycles. *)

\* Mutant: forgets the nominal cycles the vcpu already holds.
RoomWholeCore(v) == Max

\* max - nominal, an unsigned subtraction.
Room(v) == IF Nominal[v] <= Max THEN Max - Nominal[v]
                                ELSE Word + Max - Nominal[v]

\* The vcpu gets the base cycles; it asks for what it wants above its nominal
\* cycles, or its VM is paid for the nominal cycles it leaves to the others.
SellBase(v, base, want) ==
  /\ First(v)
  /\ todo' = todo \ {v}
  /\ allocated' = [allocated EXCEPT ![v] = base]
  /\ market' = market - base
  /\ \/ /\ want > Nominal[v]
        /\ buying' = [buying EXCEPT ![v] = Least(Room(v), want - Nominal[v])]
        /\ buyers' = buyers \union {v}
        /\ UNCHANGED money
     \/ /\ want <= Nominal[v]
        /\ money' = [money EXCEPT ![VmOf[v]] = @ + (Nominal[v] - want)]
        /\ UNCHANGED <<buying, buyers>>
  /\ UNCHANGED <<pc, fails, allNeeded, rest, percent, capping>>

\* Mutant: guarantees the last quota instead of the nominal cycles.
GuaranteeLastQuota(v, want) == Greatest(Floor, Least(Nominal[v], capping[v]))

Guarantee(v, want) == Greatest(Floor, Least(Nominal[v], want))

\* getAbsoluteConsumption; the load compares it with the capping.
Speed(usage, delta) == (usage * 100) \div delta
Low(v, speed) == 100 * speed < TriggerDecrement * capping[v]
High(v, speed) == 100 * speed > TriggerIncrement * capping[v]

\* The slope is flat: the vcpu wants what it uses and a margin.
SellStable(v, usage) ==
  LET increase == Least(Max, usage + Floor)
  IN  SellBase(v, Guarantee(v, increase), increase)

\* It uses less than the trigger: it wants what it uses, but gives up its
\* capping slowly.
SellDecrease(v, usage, delta) ==
  LET slower == (capping[v] * (100 - DecreasingSpeed)) \div 100
      decrease == Greatest(Floor, Greatest(usage, slower))
  IN  /\ Low(v, Speed(usage, delta))
      /\ SellBase(v, Least(Nominal[v], decrease), decrease)

\* It uses more than the trigger: it wants more than its capping.
SellIncrease(v, usage, delta) ==
  LET increase == (capping[v] * (100 + IncreasingSpeed)) \div 100
  IN  /\ ~ Low(v, Speed(usage, delta))
      /\ High(v, Speed(usage, delta))
      /\ SellBase(v, Guarantee(v, increase), increase)

\* Between the triggers: it wants its capping again.
SellSame(v, usage, delta) ==
  /\ ~ Low(v, Speed(usage, delta))
  /\ ~ High(v, Speed(usage, delta))
  /\ SellBase(v, Guarantee(v, capping[v]), capping[v])

\* The consumption of a vcpu, and whether it is flat, is up to the VM.
Sell(v, usage, delta) ==
  /\ pc = "sell"
  /\ \/ SellStable(v, usage)
     \/ SellDecrease(v, usage, delta)
     \/ SellIncrease(v, usage, delta)
     \/ SellSame(v, usage, delta)

sellBaseCycles ==
  \E v \in todo, usage \in Usages, delta \in Deltas : Sell(v, usage, delta)

\* Mutant: applies the base cycles of an over-allocated host.
OverAllocationApplied ==
  /\ pc = "sell" /\ todo = {} /\ market < 0
  /\ pc' = "apply" /\ todo' = VCPU
  /\ UNCHANGED <<locals, allocated, buying, money, capping>>

\* More was sold than the host has: the run gives up, no quota is applied.
OverAllocation ==
  /\ pc = "sell" /\ todo = {} /\ market < 0
  /\ ReturnFromRun
  /\ UNCHANGED <<allocated, buying, money, capping>>

EndSelling ==
  /\ pc = "sell" /\ todo = {} /\ market >= 0
  /\ pc' = "buy"
  /\ UNCHANGED <<todo, locals, allocated, buying, money, capping>>

-----------------------------------------------------------------------------
(* Buying: rounds of bids, one window at most per vcpu and round. *)

\* Mutant: buys on credit.
BoughtOnCredit(v) == Least(Least(Window, buying[v]), market)

Bought(v) ==
  Least(Least(Least(Window, money[VmOf[v]]), buying[v]), market)

\* Mutant: does not pay.
BuyForFree(v) ==
  LET bought == Bought(v) IN
  /\ buying[v] # 0 /\ bought # 0
  /\ allocated' = [allocated EXCEPT ![v] = @ + bought]
  /\ buying' = [buying EXCEPT ![v] = @ - bought]
  /\ market' = market - bought
  /\ UNCHANGED <<money, buyers, fails, allNeeded>>

Buy(v) ==
  LET bought == Bought(v) IN
  /\ buying[v] # 0 /\ bought # 0
  /\ allocated' = [allocated EXCEPT ![v] = @ + bought]
  /\ money' = [money EXCEPT ![VmOf[v]] = @ - bought]
  /\ buying' = [buying EXCEPT ![v] = @ - bought]
  /\ market' = market - bought
  /\ UNCHANGED <<buyers, fails, allNeeded>>

\* Mutant: drops the bidder without recording that it failed.
FailUnrecorded(v) ==
  /\ buying[v] # 0 /\ Bought(v) = 0
  /\ allNeeded' = allNeeded + buying[v]
  /\ buyers' = buyers \ {v}
  /\ UNCHANGED <<market, fails, allocated, money, buying>>

FailToBuy(v) ==
  /\ buying[v] # 0 /\ Bought(v) = 0
  /\ allNeeded' = allNeeded + buying[v]
  /\ fails' = fails \union {v}
  /\ buyers' = buyers \ {v}
  /\ UNCHANGED <<market, allocated, money, buying>>

\* Mutant: a satisfied bidder stays in the list.
NeverLeave(v) ==
  /\ buying[v] = 0
  /\ UNCHANGED <<market, buyers, fails, allNeeded, allocated, money, buying>>

Leave(v) ==
  /\ buying[v] = 0
  /\ buyers' = buyers \ {v}
  /\ UNCHANGED <<market, fails, allNeeded, allocated, money, buying>>

Bid ==
  /\ pc = "buy"
  /\ \E v \in todo :
       /\ First(v)
       /\ todo' = todo \ {v}
       /\ Buy(v) \/ FailToBuy(v) \/ Leave(v)
  /\ UNCHANGED <<pc, rest, percent, capping>>

NextRound ==
  /\ pc = "buy" /\ todo = {} /\ market > 0 /\ buyers # {}
  /\ todo' = buyers
  /\ UNCHANGED <<pc, locals, allocated, buying, money, capping>>

-----------------------------------------------------------------------------
(* Distributing what is left. *)

\* Mutant: splits after one round of bids.
SplitAfterOneRound ==
  /\ pc = "buy" /\ todo = {} /\ market > 0
  /\ pc' = "split" /\ todo' = fails \union buyers
  /\ rest' = Least(allNeeded, market)
  /\ UNCHANGED <<market, buyers, fails, allNeeded, percent,
                 allocated, buying, money, capping>>

StartSplit ==
  /\ pc = "buy" /\ todo = {} /\ market > 0 /\ buyers = {}
  /\ pc' = "split" /\ todo' = fails
  /\ rest' = Least(allNeeded, market)
  /\ UNCHANGED <<market, buyers, fails, allNeeded, percent,
                 allocated, buying, money, capping>>

SoldOut ==
  /\ pc = "buy" /\ todo = {} /\ market = 0
  /\ pc' = "apply" /\ todo' = VCPU
  /\ UNCHANGED <<locals, allocated, buying, money, capping>>

\* (unsigned long) (percent * rest): the products and quotients are floats, off
\* by less than a quarter of a cycle (24 bits of mantissa, less than 2^20 cycles
\* wanted), then truncated.
Share(v) ==
  {add \in 0..buying[v] :
     /\ 4 * allNeeded * add <= 4 * buying[v] * rest + allNeeded
     /\ 4 * allNeeded * (add + 1) > 4 * buying[v] * rest - allNeeded}

Split ==
  /\ pc = "split"
  /\ \E v \in todo : \E add \in Share(v) :
       /\ First(v)
       /\ todo' = todo \ {v}
       /\ allocated' = [allocated EXCEPT ![v] = @ + add]
       /\ buying' = [buying EXCEPT ![v] = @ - add]
       /\ market' = market - add
  /\ UNCHANGED <<pc, buyers, fails, allNeeded, rest, percent, money, capping>>

\* Mutant: divides by the number of VMs instead of the number of vcpus.
EndSplitPerVM ==
  /\ pc = "split" /\ todo = {}
  /\ todo' = VCPU
  /\ \/ market > 0 /\ pc' = "spread" /\ percent' = market \div Cardinality(VM)
     \/ market <= 0 /\ pc' = "apply" /\ UNCHANGED percent
  /\ UNCHANGED <<market, buyers, fails, allNeeded, rest,
                 allocated, buying, money, capping>>

EndSplit ==
  /\ pc = "split" /\ todo = {}
  /\ todo' = VCPU
  /\ \/ /\ market > 0
        /\ pc' = "spread"
        /\ percent' = market \div Cardinality(VCPU)
     \/ /\ market <= 0
        /\ pc' = "apply"
        /\ UNCHANGED percent
  /\ UNCHANGED <<market, buyers, fails, allNeeded, rest,
                 allocated, buying, money, capping>>

Spread ==
  /\ pc = "spread"
  /\ \E v \in todo :
       /\ First(v)
       /\ todo' = todo \ {v}
       /\ allocated' = [allocated EXCEPT ![v] = Least(Max, @ + percent)]
  /\ UNCHANGED <<pc, locals, buying, money, capping>>

EndSpread ==
  /\ pc = "spread" /\ todo = {}
  /\ pc' = "apply" /\ todo' = VCPU
  /\ UNCHANGED <<locals, allocated, buying, money, capping>>

\* setQuota and getAbsoluteCapping: the quota counts in microseconds of the
\* period, so up to Loss cycles of the allocation are lost.
Quantised(a) == Greatest(0, a - Loss)..a

applyMarketAllocation ==
  /\ pc = "apply"
  /\ \E v \in todo : \E c \in Quantised(allocated[v]) :
       /\ First(v)
       /\ todo' = todo \ {v}
       /\ capping' = [capping EXCEPT ![v] = c]
  /\ UNCHANGED <<pc, locals, allocated, buying, money>>

EndRun ==
  /\ pc = "apply" /\ todo = {}
  /\ ReturnFromRun
  /\ UNCHANGED <<allocated, buying, money, capping>>

-----------------------------------------------------------------------------
Step ==
  \/ sellBaseCycles \/ OverAllocation \/ EndSelling
  \/ Bid \/ NextRound \/ StartSplit \/ SoldOut
  \/ Split \/ EndSplit \/ Spread \/ EndSpread
  \/ applyMarketAllocation \/ EndRun

Next == BeginRun \/ reset \/ Step

Spec == Init /\ [][Next]_vars

\* A run is a sequential program on a thread of its own: it keeps on stepping.
FairSpec == Spec /\ WF_vars(Step)

-----------------------------------------------------------------------------
(* Properties. *)

\* Every variable stays in its range: no account and no unmet demand goes below
\* zero, which in the code would wrap around to 2^64.
TypeOK ==
  /\ pc \in {"idle", "sell", "buy", "split", "spread", "apply"}
  /\ todo \subseteq VCPU /\ buyers \subseteq VCPU /\ fails \subseteq VCPU
  /\ market \in Int
  /\ allNeeded \in Nat /\ rest \in Nat /\ percent \in Nat
  /\ allocated \in [VCPU -> Nat] /\ buying \in [VCPU -> Nat]
  /\ money \in [VM -> Nat] /\ capping \in [VCPU -> Nat]

\* The market (run) neither loses nor creates cycles: what the vcpus hold and
\* what is not sold add up to the host, and the final spread fits in what was
\* not sold.
Conservation ==
  /\ pc \in {"sell", "buy", "split"} => market = Capacity - Total(allocated)
  /\ pc = "spread" => Total(allocated) + percent * Cardinality(todo) <= Capacity

\* The quotas in force between two runs never add up to more than the host, but
\* for the rounding of the split, even after runs that gave up.
QuotasFitHost ==
  pc = "idle" => 4 * (Total(capping) - Capacity) <= Cardinality(VCPU)

\* Cycles are given away to everybody only once the vcpus that asked for more
\* have what they asked for, up to one cycle each, or have shared all there was.
NoIdleWhileWanted ==
  pc = "spread" =>
    \/ \A v \in VCPU : buying[v] <= 1
    \/ 4 * market < 5 * Cardinality(fails)

\* A vcpu that still wants cycles holds at least its nominal share, at any point
\* of a run and after it, for every nominal frequency that the host has.
ServedAboveNominal ==
  \A v \in VCPU :
    Nominal[v] <= Max /\ buying[v] > 0 => allocated[v] >= Nominal[v]

\* The split gives free cycles only to vcpus whose VM has spent all its money.
BrokeBeforeFree ==
  pc = "split" /\ Window > 0 =>
    \A v \in VCPU : buying[v] > 0 => money[VmOf[v]] = 0

\* No vcpu obtains more than one core, nor asks for more before the spread, if its
\* nominal frequency is between 1% of the frequency of the host and all of it.
AllocationFits ==
  \A v \in VCPU : Nominal[v] \in Floor..Max =>
    /\ allocated[v] <= Max
    /\ pc \in {"sell", "buy", "split"} => allocated[v] + buying[v] <= Max

\* A run always ends: each round of bids sells a cycle or drops a bidder.
RunEnds == (pc # "idle") ~> (pc = "idle")

\* The market implements the ledger.
Ledger == INSTANCE CycleLedger WITH
  Holder <- VCPU, Owner <- VM, OwnerOf <- VmOf, Supply <- Capacity,
  Slack <- Cardinality(VCPU),
  phase <- CASE pc = "idle" -> "closed" [] pc = "sell" -> "endow"
             [] pc = "buy" -> "trade" [] pc \in {"split", "spread"} -> "share"
             [] pc = "apply" -> "publish",
  held <- allocated, wanted <- buying, account <- money, quota <- capping
LedgerSpec == Ledger!Spec
=============================================================================
