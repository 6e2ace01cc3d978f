----------------------------- MODULE HungryVCPUs ----------------------------
(***************************************************************************)
(* The control loop closed over VMs that wake up and from then on use all  *)
(* they are allowed: the consumption that the market reads is what the     *)
(* quota of the last run let the vcpu consume.  The question is whether    *)
(* such a vcpu climbs back to its nominal cycles, from any quota it may    *)
(* have been left with and whoever took its cycles in the meantime, on a   *)
(* host that is not over-allocated.                                        *)
(***************************************************************************)
EXTENDS VCPUMarket

CONSTANT WakeBound   \* bound of the instances: no VM sleeps above this account

VARIABLE hungry      \* the vcpus that use all they are allowed

hungryVars == <<vars, hungry>>

HungryInit == Init /\ hungry = {}

WakeUp(v) ==
  /\ pc = "idle" /\ v \notin hungry
  /\ hungry' = hungry \union {v}
  /\ UNCHANGED vars

\* A VM whose account has passed the bound is not left asleep.
Overslept(v) == v \notin hungry /\ money[VmOf[v]] > WakeBound

\* setQuota lifts the limit of a vcpu that holds 85% of a core; a vcpu that no
\* run has served yet has no limit either.
MayBeUnlimited(v) ==
  \/ capping[v] = 0
  \/ 100 * (capping[v] + Loss) >= 85 * Max

Used(v) ==
  IF v \in hungry
  THEN {capping[v]} \union (IF MayBeUnlimited(v) THEN {Max} ELSE {})
  ELSE Usages

HungrySell ==
  \E v \in todo : \E usage \in Used(v), delta \in Deltas : Sell(v, usage, delta)

HungryStep ==
  /\ \/ HungrySell \/ OverAllocation \/ EndSelling
     \/ Bid \/ NextRound \/ StartSplit \/ SoldOut
     \/ Split \/ EndSplit \/ Spread \/ EndSpread
     \/ applyMarketAllocation \/ EndRun
  /\ UNCHANGED hungry

HungryBegin == BeginRun /\ ~ (\E v \in VCPU : Overslept(v)) /\ UNCHANGED hungry
HungryReset == reset /\ UNCHANGED hungry

HungryNext ==
  HungryBegin \/ HungryReset \/ HungryStep \/ \E v \in VCPU : WakeUp(v)

\* cpuControlLoop calls the market every frame and never leaves a run halfway;
\* the sleepers that the bound of the instance stops do wake up.
HungrySpec ==
  /\ HungryInit /\ [][HungryNext]_hungryVars
  /\ WF_hungryVars(HungryBegin) /\ WF_hungryVars(HungryStep)
  /\ \A v \in VCPU : WF_hungryVars(Overslept(v) /\ WakeUp(v))

\* A vcpu that uses all it is allowed ends up with its nominal cycles in every
\* frame, whatever the case of sellBaseCycles that serves it on the way.
NominalReached ==
  \A v \in VCPU :
    [](v \in hungry => <>[](pc = "idle" => capping[v] >= Nominal[v] - Loss))
=============================================================================
