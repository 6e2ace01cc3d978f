-------------------------- MODULE VCPUMarketProofs --------------------------
(***************************************************************************)
(* Theorems about VCPUMarket, for every set of vcpus and VMs, every        *)
(* configuration of the market and every consumption.                      *)
(***************************************************************************)
EXTENDS VCPUMarket, FiniteSetTheorems, TLAPS

USE DEF Least, Greatest

LEMMA CardinalityVCPU == Cardinality(VCPU) \in Nat /\ Cardinality(VCPU) > 0
  BY VCPUAssumption, FS_CardinalityType, FS_EmptySet

(* A share of the split is between nothing and what the vcpu wants. *)
LEMMA ShareType ==
  ASSUME NEW v \in VCPU, NEW add \in Share(v), buying[v] \in Nat
  PROVE  add \in Nat /\ add <= buying[v]
  BY DEF Share

LEMMA RoomType == ASSUME NEW v \in VCPU PROVE Room(v) \in Nat
  BY CycleAssumption DEF Room

-----------------------------------------------------------------------------
(* TypeOK is inductive together with one more fact: nothing is bought from a
   market that has no cycles left, so no bid is negative. *)
MarketOpen == pc = "buy" => market >= 0
TypeInv == TypeOK /\ MarketOpen

LEMMA BoughtType ==
  ASSUME TypeInv, pc = "buy", NEW v \in VCPU
  PROVE  /\ Bought(v) \in Nat
         /\ Bought(v) <= money[VmOf[v]]
         /\ Bought(v) <= buying[v]
         /\ Bought(v) <= market
  BY CycleAssumption, VMAssumption DEF TypeInv, TypeOK, MarketOpen, Bought

LEMMA SellBaseType ==
  ASSUME TypeInv, pc = "sell", NEW v \in VCPU, NEW base \in Nat, NEW want \in Nat,
         SellBase(v, base, want)
  PROVE  TypeInv'
  <1> USE DEF TypeInv, TypeOK, MarketOpen
  <1>1. Room(v) \in Nat /\ Nominal[v] \in Nat /\ VmOf[v] \in VM
    BY RoomType, CycleAssumption, VMAssumption
  <1>2. allocated' \in [VCPU -> Nat] /\ market' \in Int
    BY DEF SellBase
  <1>3. buying' \in [VCPU -> Nat] /\ money' \in [VM -> Nat] /\ buyers' \subseteq VCPU
    BY <1>1 DEF SellBase
  <1> QED BY <1>2, <1>3 DEF SellBase

(* Whatever case of the sale applies, the base cycles and the wish are numbers. *)
LEMMA SaleIsSellBase ==
  ASSUME TypeInv, sellBaseCycles
  PROVE  \E v \in VCPU, base \in Nat, want \in Nat :
           /\ SellBase(v, base, want)
           /\ base <= Greatest(Floor, Nominal[v])
           /\ want > Nominal[v] => base >= Nominal[v]
  <1> USE DEF TypeInv, TypeOK
  <1>1. PICK v \in todo, usage \in Usages, delta \in Deltas :
          \/ SellStable(v, usage) \/ SellDecrease(v, usage, delta)
          \/ SellIncrease(v, usage, delta) \/ SellSame(v, usage, delta)
    BY DEF sellBaseCycles, Sell
  <1>2. v \in VCPU /\ Nominal[v] \in Nat /\ Floor \in Nat /\ Max \in Nat
        /\ capping[v] \in Nat
    BY CycleAssumption
  <1>3. ASSUME NEW want \in Nat, SellBase(v, Guarantee(v, want), want)
        PROVE  \E base \in Nat :
                 /\ SellBase(v, base, want)
                 /\ base <= Greatest(Floor, Nominal[v])
                 /\ want > Nominal[v] => base >= Nominal[v]
    BY <1>2, <1>3 DEF Guarantee
  <1>4. CASE SellStable(v, usage)
    <2>1. SellBase(v, Guarantee(v, Least(Max, usage + Floor)), Least(Max, usage + Floor))
      BY <1>4 DEF SellStable
    <2>2. Least(Max, usage + Floor) \in Nat
      BY <1>2, ReadingAssumption
    <2> QED BY <1>2, <1>3, <2>1, <2>2
  <1>5. CASE SellDecrease(v, usage, delta)
    <2> DEFINE slower == (capping[v] * (100 - DecreasingSpeed)) \div 100
    <2>1. SellBase(v, Least(Nominal[v], Greatest(Floor, Greatest(usage, slower))),
                   Greatest(Floor, Greatest(usage, slower)))
      BY <1>5 DEF SellDecrease
    <2>2. slower \in Int
      BY <1>2, TriggerAssumption
    <2> HIDE DEF slower
    <2> DEFINE decrease == Greatest(Floor, Greatest(usage, slower))
    <2>3. decrease \in Nat
      BY <1>2, <2>2, ReadingAssumption
    <2>4. SellBase(v, Least(Nominal[v], decrease), decrease)
      BY <2>1
    <2> HIDE DEF decrease
    <2>5. /\ Least(Nominal[v], decrease) \in Nat
          /\ Least(Nominal[v], decrease) <= Greatest(Floor, Nominal[v])
          /\ decrease > Nominal[v] => Least(Nominal[v], decrease) >= Nominal[v]
      BY <1>2, <2>3
    <2> QED BY <1>2, <2>3, <2>4, <2>5
  <1>6. CASE SellIncrease(v, usage, delta)
    <2> DEFINE increase == (capping[v] * (100 + IncreasingSpeed)) \div 100
    <2>1. SellBase(v, Guarantee(v, increase), increase)
      BY <1>6 DEF SellIncrease
    <2>2. capping[v] * (100 + IncreasingSpeed) \in Nat
      BY <1>2, TriggerAssumption
    <2>3. increase \in Nat
      BY <2>2
    <2> QED BY <1>2, <1>3, <2>1, <2>3
  <1>7. CASE SellSame(v, usage, delta)
    <2>1. SellBase(v, Guarantee(v, capping[v]), capping[v])
      BY <1>7 DEF SellSame
    <2> QED BY <1>2, <1>3, <2>1
  <1> QED BY <1>1, <1>4, <1>5, <1>6, <1>7

LEMMA TypeInvInit == Init => TypeInv
  BY DEF Init, TypeInv, TypeOK, MarketOpen

LEMMA BidType ==
  ASSUME TypeInv, Bid
  PROVE  TypeInv'
  <1> USE DEF TypeInv, TypeOK, MarketOpen
  <1>1. PICK v \in todo : /\ First(v)
                          /\ todo' = todo \ {v}
                          /\ Buy(v) \/ FailToBuy(v) \/ Leave(v)
    BY DEF Bid
  <1>2. pc = "buy" /\ UNCHANGED <<pc, rest, percent, capping>> /\ v \in VCPU
        /\ VmOf[v] \in VM /\ buying[v] \in Nat
    BY VMAssumption DEF Bid
  <1>3. CASE Buy(v)
    BY <1>1, <1>2, <1>3, BoughtType DEF Buy
  <1>4. CASE FailToBuy(v)
    BY <1>1, <1>2, <1>4 DEF FailToBuy
  <1>5. CASE Leave(v)
    BY <1>1, <1>2, <1>5 DEF Leave
  <1> QED BY <1>1, <1>3, <1>4, <1>5

LEMMA TypeInvNext == TypeInv /\ [Next]_vars => TypeInv'
  <1> SUFFICES ASSUME TypeInv, [Next]_vars PROVE TypeInv'
    OBVIOUS
  <1> USE DEF TypeInv, TypeOK, MarketOpen, locals
  <1>1. CASE BeginRun
    BY <1>1, CycleAssumption DEF BeginRun, updateBeforeMarket
  <1>2. CASE reset
    BY <1>2 DEF reset
  <1>3. CASE sellBaseCycles
    BY <1>3, SaleIsSellBase, SellBaseType DEF sellBaseCycles, Sell
  <1>4. CASE OverAllocation
    BY <1>4 DEF OverAllocation, ReturnFromRun
  <1>5. CASE EndSelling
    BY <1>5 DEF EndSelling
  <1>6. CASE Bid
    BY <1>6, BidType
  <1>7. CASE NextRound
    BY <1>7 DEF NextRound
  <1>8. CASE StartSplit
    BY <1>8 DEF StartSplit
  <1>9. CASE SoldOut
    BY <1>9 DEF SoldOut
  <1>10. CASE Split
    <2>0. PICK v \in todo : \E add \in Share(v) :
            /\ First(v)
            /\ todo' = todo \ {v}
            /\ allocated' = [allocated EXCEPT ![v] = @ + add]
            /\ buying' = [buying EXCEPT ![v] = @ - add]
            /\ market' = market - add
      BY <1>10 DEF Split
    <2>1. PICK add \in Share(v) :
            /\ todo' = todo \ {v}
            /\ allocated' = [allocated EXCEPT ![v] = @ + add]
            /\ buying' = [buying EXCEPT ![v] = @ - add]
            /\ market' = market - add
      BY <2>0
    <2>2. v \in VCPU /\ buying[v] \in Nat /\ add \in Nat /\ add <= buying[v]
      BY ShareType
    <2> QED BY <1>10, <2>1, <2>2 DEF Split
  <1>11. CASE EndSplit
    <2>1. market > 0 => market \div Cardinality(VCPU) \in Nat
      BY CardinalityVCPU
    <2> QED BY <1>11, <2>1 DEF EndSplit
  <1>12. CASE Spread
    BY <1>12, CycleAssumption DEF Spread
  <1>13. CASE EndSpread
    BY <1>13 DEF EndSpread
  <1>14. CASE applyMarketAllocation
    <2>0. PICK v \in todo : \E c \in Quantised(allocated[v]) :
            /\ First(v)
            /\ todo' = todo \ {v}
            /\ capping' = [capping EXCEPT ![v] = c]
      BY <1>14 DEF applyMarketAllocation
    <2>1. PICK c \in Quantised(allocated[v]) :
            /\ todo' = todo \ {v}
            /\ capping' = [capping EXCEPT ![v] = c]
      BY <2>0
    <2>2. c \in Nat
      BY CycleAssumption DEF Quantised
    <2> QED BY <1>14, <2>1, <2>2 DEF applyMarketAllocation
  <1>15. CASE EndRun
    BY <1>15 DEF EndRun, ReturnFromRun
  <1>16. CASE UNCHANGED vars
    BY <1>16 DEF vars
  <1> QED BY <1>1, <1>2, <1>3, <1>4, <1>5, <1>6, <1>7, <1>8, <1>9, <1>10,
             <1>11, <1>12, <1>13, <1>14, <1>15, <1>16 DEF Next, Step

\* Every variable of the market stays in its range; no account and no demand of
\* VCPUMarket::run underflows.
THEOREM TypeCorrect == Spec => []TypeOK
  <1>1. Spec => []TypeInv
    BY TypeInvInit, TypeInvNext, PTL DEF Spec
  <1> QED BY <1>1, PTL DEF TypeInv

-----------------------------------------------------------------------------
(* The sum of the cycles held: Total adds up the entries of a function. *)

LEMMA CellsFinite ==
  ASSUME NEW f \in [VCPU -> Nat]
  PROVE  IsFiniteSet(Cells(f))
  <1> DEFINE row == [v \in VCPU |-> {v} \X (1..f[v])]
             rows == {{v} \X (1..f[v]) : v \in VCPU}
  <1>1. row \in Surjection(VCPU, rows)
    BY DEF Surjection
  <1>2. IsFiniteSet(rows)
    BY <1>1, FS_Surjection, VCPUAssumption
  <1>3. ASSUME NEW v \in VCPU PROVE IsFiniteSet({v} \X (1..f[v]))
    <2>1. 1 \in Int /\ f[v] \in Int
      OBVIOUS
    <2>2. IsFiniteSet(1..f[v])
      BY <2>1, FS_Interval
    <2>3. IsFiniteSet({v})
      BY FS_Singleton
    <2> QED BY <2>2, <2>3, FS_Product
  <1> QED BY <1>2, <1>3, FS_UNION DEF Cells

LEMMA TotalType == ASSUME NEW f \in [VCPU -> Nat] PROVE Total(f) \in Nat
  BY CellsFinite, FS_CardinalityType DEF Total

LEMMA TotalZero == Total([v \in VCPU |-> 0]) = 0
  <1>1. Cells([v \in VCPU |-> 0]) = {}
    BY DEF Cells
  <1> QED BY <1>1, FS_EmptySet DEF Total

(* One entry is taken out of the sum. *)
LEMMA TotalWithout ==
  ASSUME NEW f \in [VCPU -> Nat], NEW v \in VCPU
  PROVE  Total(f) = Total([f EXCEPT ![v] = 0]) + f[v]
  <1> DEFINE g == [f EXCEPT ![v] = 0]
             mine == {v} \X (1..f[v])
  <1>1. g \in [VCPU -> Nat] /\ f[v] \in Nat
    OBVIOUS
  <1>2. Cells(f) = Cells(g) \cup mine
    BY DEF Cells
  <1>3. Cells(g) \cap mine = {}
    BY DEF Cells
  <1>4. IsFiniteSet(mine) /\ Cardinality(mine) = f[v]
    <2>1. IsFiniteSet({v}) /\ Cardinality({v}) = 1
      BY FS_Singleton
    <2>2. IsFiniteSet(1..f[v]) /\ Cardinality(1..f[v]) = f[v]
      BY <1>1, FS_Interval
    <2>3. Cardinality(mine) = Cardinality({v}) * Cardinality(1..f[v]) /\ IsFiniteSet(mine)
      BY <2>1, <2>2, FS_Product
    <2> QED BY <1>1, <2>1, <2>2, <2>3
  <1> HIDE DEF mine, g
  <1>5. IsFiniteSet(Cells(g)) /\ Cardinality(Cells(g)) \in Nat
    BY <1>1, CellsFinite, FS_CardinalityType
  <1>6. Cardinality(Cells(f)) = Cardinality(Cells(g)) + Cardinality(mine) - Cardinality({})
    BY <1>2, <1>3, <1>4, <1>5, FS_Union
  <1>7. Total(f) = Total(g) + f[v]
    BY <1>1, <1>4, <1>5, <1>6, FS_EmptySet DEF Total
  <1> QED BY <1>7 DEF g

(* One entry is replaced. *)
LEMMA TotalUpdate ==
  ASSUME NEW f \in [VCPU -> Nat], NEW v \in VCPU, NEW k \in Nat
  PROVE  Total([f EXCEPT ![v] = k]) = Total(f) - f[v] + k
  <1> DEFINE g == [f EXCEPT ![v] = k]
             h == [f EXCEPT ![v] = 0]
  <1>1. g \in [VCPU -> Nat] /\ g[v] = k /\ [g EXCEPT ![v] = 0] = h /\ h \in [VCPU -> Nat]
    OBVIOUS
  <1>2. Total(g) = Total([g EXCEPT ![v] = 0]) + g[v]
    BY <1>1, TotalWithout
  <1>3. Total(f) = Total(h) + f[v]
    BY TotalWithout
  <1>4. Total(f) \in Nat /\ Total(g) \in Nat /\ Total(h) \in Nat /\ f[v] \in Nat
    BY <1>1, TotalType
  <1>5. Total(g) = Total(h) + k
    BY <1>1, <1>2
  <1> HIDE DEF g, h
  <1>6. Total(g) = Total(f) - f[v] + k
    BY <1>3, <1>4, <1>5
  <1> QED BY <1>6 DEF g

-----------------------------------------------------------------------------
(* What one step does to allocated, buying and money, for the proofs below. *)

(* The sale of the base cycles, seen from the vcpu it serves. *)
LEMMA SellStep ==
  ASSUME TypeInv, sellBaseCycles
  PROVE  \E v \in todo, base \in Nat :
           /\ todo' = todo \ {v}
           /\ pc = "sell" /\ pc' = "sell"
           /\ allocated' = [allocated EXCEPT ![v] = base]
           /\ market' = market - base
           /\ base <= Greatest(Floor, Nominal[v])
           /\ \/ \E ask \in Nat :
                   /\ base >= Nominal[v]
                   /\ ask <= Room(v)
                   /\ buying' = [buying EXCEPT ![v] = ask]
                   /\ buyers' = buyers \union {v}
              \/ buying' = buying /\ buyers' = buyers
           /\ UNCHANGED <<fails, percent, capping>>
  <1>1. PICK v \in VCPU, base \in Nat, want \in Nat :
          /\ SellBase(v, base, want)
          /\ base <= Greatest(Floor, Nominal[v])
          /\ want > Nominal[v] => base >= Nominal[v]
    BY SaleIsSellBase
  <1>2. v \in todo /\ Room(v) \in Nat /\ Nominal[v] \in Nat /\ buying \in [VCPU -> Nat]
    BY <1>1, RoomType, CycleAssumption DEF SellBase, First, TypeInv, TypeOK
  <1>3. CASE want > Nominal[v]
    <2>1. Least(Room(v), want - Nominal[v]) \in Nat
          /\ Least(Room(v), want - Nominal[v]) <= Room(v)
      BY <1>2, <1>3
    <2> QED BY <1>1, <1>2, <1>3, <2>1 DEF SellBase, sellBaseCycles, Sell
  <1>4. CASE ~ (want > Nominal[v])
    BY <1>1, <1>2, <1>4 DEF SellBase, sellBaseCycles, Sell
  <1> QED BY <1>3, <1>4

(* A bid either buys, or fails because the vcpu has no money left. *)
LEMMA BidStep ==
  ASSUME TypeInv, Bid
  PROVE  \E v \in todo :
           /\ todo' = todo \ {v}
           /\ pc = "buy" /\ pc' = "buy"
           /\ \/ \E bought \in Nat \ {0} :
                   /\ bought <= buying[v] /\ bought <= market
                   /\ bought <= money[VmOf[v]]
                   /\ allocated' = [allocated EXCEPT ![v] = @ + bought]
                   /\ buying' = [buying EXCEPT ![v] = @ - bought]
                   /\ money' = [money EXCEPT ![VmOf[v]] = @ - bought]
                   /\ market' = market - bought
                   /\ UNCHANGED <<buyers, fails>>
              \/ /\ Bought(v) = 0 /\ buying[v] # 0
                 /\ fails' = fails \union {v} /\ buyers' = buyers \ {v}
                 /\ UNCHANGED <<market, allocated, money, buying>>
              \/ /\ buying[v] = 0 /\ buyers' = buyers \ {v}
                 /\ UNCHANGED <<market, fails, allocated, money, buying>>
           /\ UNCHANGED <<percent, capping>>
  <1>1. PICK v \in todo : /\ First(v)
                          /\ todo' = todo \ {v}
                          /\ Buy(v) \/ FailToBuy(v) \/ Leave(v)
    BY DEF Bid
  <1>2. pc = "buy" /\ pc' = "buy" /\ v \in VCPU /\ UNCHANGED <<percent, capping>>
    BY DEF Bid, TypeInv, TypeOK
  <1>3. /\ Bought(v) \in Nat
        /\ Bought(v) <= money[VmOf[v]] /\ Bought(v) <= buying[v] /\ Bought(v) <= market
    BY <1>2, BoughtType
  <1>4. CASE Buy(v)
    BY <1>1, <1>2, <1>3, <1>4 DEF Buy
  <1>5. CASE FailToBuy(v)
    BY <1>1, <1>2, <1>5 DEF FailToBuy
  <1>6. CASE Leave(v)
    BY <1>1, <1>2, <1>6 DEF Leave
  <1> QED BY <1>1, <1>4, <1>5, <1>6

(* A vcpu gets its share of the split. *)
LEMMA SplitStep ==
  ASSUME TypeInv, Split
  PROVE  \E v \in todo : \E add \in Share(v) :
           /\ add \in Nat /\ add <= buying[v]
           /\ todo' = todo \ {v}
           /\ pc = "split" /\ pc' = "split"
           /\ allocated' = [allocated EXCEPT ![v] = @ + add]
           /\ buying' = [buying EXCEPT ![v] = @ - add]
           /\ market' = market - add
           /\ UNCHANGED <<buyers, fails, allNeeded, rest, percent, money, capping>>
  <1>1. PICK v \in todo : \E add \in Share(v) :
           /\ First(v)
           /\ todo' = todo \ {v}
           /\ allocated' = [allocated EXCEPT ![v] = @ + add]
           /\ buying' = [buying EXCEPT ![v] = @ - add]
           /\ market' = market - add
    BY DEF Split
  <1>2. v \in VCPU /\ buying[v] \in Nat
    BY DEF TypeInv, TypeOK
  <1>3. PICK add \in Share(v) :
           /\ todo' = todo \ {v}
           /\ allocated' = [allocated EXCEPT ![v] = @ + add]
           /\ buying' = [buying EXCEPT ![v] = @ - add]
           /\ market' = market - add
    BY <1>1
  <1>4. add \in Nat /\ add <= buying[v]
    BY <1>2, ShareType
  <1> QED BY <1>3, <1>4 DEF Split

(* A quota is set below the allocation of its vcpu. *)
LEMMA ApplyStep ==
  ASSUME TypeInv, applyMarketAllocation
  PROVE  \E v \in todo : \E c \in Nat :
           /\ c <= allocated[v]
           /\ todo' = todo \ {v}
           /\ capping' = [capping EXCEPT ![v] = c]
           /\ pc = "apply" /\ pc' = "apply"
           /\ UNCHANGED <<locals, allocated, buying, money>>
  <1>1. PICK v \in todo : \E c \in Quantised(allocated[v]) :
           /\ First(v)
           /\ todo' = todo \ {v}
           /\ capping' = [capping EXCEPT ![v] = c]
    BY DEF applyMarketAllocation
  <1>2. v \in VCPU /\ allocated[v] \in Nat
    BY DEF TypeInv, TypeOK
  <1>3. \A c \in Quantised(allocated[v]) : c \in Nat /\ c <= allocated[v]
    BY <1>2, CycleAssumption DEF Quantised
  <1> QED BY <1>1, <1>3 DEF applyMarketAllocation

(* The steps that leave the accounts of the vcpus alone. *)
Quiet ==
  \/ reset \/ OverAllocation \/ EndSelling \/ NextRound \/ StartSplit \/ SoldOut
  \/ EndSplit \/ EndSpread \/ EndRun \/ UNCHANGED vars

LEMMA StepCases ==
  ASSUME [Next]_vars
  PROVE  BeginRun \/ sellBaseCycles \/ Bid \/ Split \/ Spread
         \/ applyMarketAllocation \/ Quiet
  BY DEF Next, Step, Quiet

LEMMA QuietStep ==
  ASSUME Quiet PROVE allocated' = allocated /\ buying' = buying
  BY DEF Quiet, reset, OverAllocation, EndSelling, NextRound, StartSplit, SoldOut,
         EndSplit, EndSpread, EndRun, vars

-----------------------------------------------------------------------------
(* The guarantee of the nominal frequency. *)

(* A vcpu that the sale has not reached holds and asks for nothing yet. *)
Unsold == pc = "sell" => \A v \in todo : buying[v] = 0 /\ allocated[v] = 0

ServedInv == ServedAboveNominal /\ Unsold

LEMMA ServedNext == TypeInv /\ ServedInv /\ [Next]_vars => ServedInv'
  <1> SUFFICES ASSUME TypeInv, ServedInv, [Next]_vars PROVE ServedInv'
    OBVIOUS
  <1> USE CycleAssumption DEF TypeInv, TypeOK, ServedInv, ServedAboveNominal, Unsold
  <1>1. CASE BeginRun
    BY <1>1 DEF BeginRun, updateBeforeMarket
  <1>2. CASE sellBaseCycles
    <2>1. PICK v \in todo, base \in Nat :
            /\ todo' = todo \ {v}
            /\ pc = "sell" /\ pc' = "sell"
            /\ allocated' = [allocated EXCEPT ![v] = base]
            /\ base <= Greatest(Floor, Nominal[v])
            /\ \/ \E ask \in Nat :
                    /\ base >= Nominal[v]
                    /\ ask <= Room(v)
                    /\ buying' = [buying EXCEPT ![v] = ask]
               \/ buying' = buying
      BY <1>2, SellStep
    <2>2. CASE buying' = buying
      BY <2>1, <2>2
    <2>3. CASE \E ask \in Nat : /\ base >= Nominal[v]
                                /\ ask <= Room(v)
                                /\ buying' = [buying EXCEPT ![v] = ask]
      BY <2>1, <2>3
    <2> QED BY <2>1, <2>2, <2>3
  <1>3. CASE Bid
    BY <1>3, BidStep
  <1>4. CASE Split
    BY <1>4, SplitStep
  <1>5. CASE Spread
    BY <1>5 DEF Spread
  <1>6. CASE applyMarketAllocation
    BY <1>6 DEF applyMarketAllocation
  <1>7. CASE Quiet
    <2>1. pc' = "sell" => pc = "sell" /\ todo' = todo
      BY <1>7 DEF Quiet, reset, OverAllocation, EndSelling, NextRound, StartSplit,
         SoldOut, EndSplit, EndSpread, EndRun, ReturnFromRun, vars
    <2> QED BY <1>7, <2>1, QuietStep
  <1> QED BY <1>1, <1>2, <1>3, <1>4, <1>5, <1>6, <1>7, StepCases

\* sellBaseCycles gives its nominal cycles to every vcpu that asks for more, and
\* nothing that follows in the run takes them back.
THEOREM NominalServed == Spec => []ServedAboveNominal
  <1>1. Init => ServedInv
    BY DEF Init, ServedInv, ServedAboveNominal, Unsold
  <1>2. ServedInv => ServedAboveNominal
    BY DEF ServedInv
  <1> QED BY <1>1, <1>2, TypeInvInit, TypeInvNext, ServedNext, PTL DEF Spec

-----------------------------------------------------------------------------
(* No vcpu holds more than a core. *)

FitsInv ==
  /\ AllocationFits
  /\ Unsold

LEMMA FitsNext == TypeInv /\ FitsInv /\ [Next]_vars => FitsInv'
  <1> SUFFICES ASSUME TypeInv, FitsInv, [Next]_vars PROVE FitsInv'
    OBVIOUS
  <1> USE CycleAssumption DEF TypeInv, TypeOK, FitsInv, AllocationFits, Unsold
  <1>1. CASE BeginRun
    BY <1>1 DEF BeginRun, updateBeforeMarket
  <1>2. CASE sellBaseCycles
    <2>1. PICK v \in todo, base \in Nat :
            /\ todo' = todo \ {v}
            /\ pc = "sell" /\ pc' = "sell"
            /\ allocated' = [allocated EXCEPT ![v] = base]
            /\ base <= Greatest(Floor, Nominal[v])
            /\ \/ \E ask \in Nat :
                    /\ base >= Nominal[v]
                    /\ ask <= Room(v)
                    /\ buying' = [buying EXCEPT ![v] = ask]
               \/ buying' = buying
      BY <1>2, SellStep
    <2>2. CASE buying' = buying
      BY <2>1, <2>2
    <2>3. CASE \E ask \in Nat : /\ base >= Nominal[v]
                                /\ ask <= Room(v)
                                /\ buying' = [buying EXCEPT ![v] = ask]
      BY <2>1, <2>3 DEF Room
    <2> QED BY <2>1, <2>2, <2>3
  <1>3. CASE Bid
    BY <1>3, BidStep
  <1>4. CASE Split
    BY <1>4, SplitStep
  <1>5. CASE Spread
    BY <1>5 DEF Spread
  <1>6. CASE applyMarketAllocation
    BY <1>6 DEF applyMarketAllocation
  <1>7. CASE Quiet
    <2>1. pc' \in {"sell", "buy", "split"} => pc \in {"sell", "buy", "split"}
      BY <1>7 DEF Quiet, reset, OverAllocation, EndSelling, NextRound, StartSplit,
         SoldOut, EndSplit, EndSpread, EndRun, ReturnFromRun, vars
    <2>2. pc' = "sell" => pc = "sell" /\ todo' = todo
      BY <1>7 DEF Quiet, reset, OverAllocation, EndSelling, NextRound, StartSplit,
         SoldOut, EndSplit, EndSpread, EndRun, ReturnFromRun, vars
    <2> QED BY <1>7, <2>1, <2>2, QuietStep
  <1> QED BY <1>1, <1>2, <1>3, <1>4, <1>5, <1>6, <1>7, StepCases

\* The bids, the split and the spread never push a vcpu above one core.
THEOREM NoMoreThanACore == Spec => []AllocationFits
  <1>1. Init => FitsInv
    BY CycleAssumption DEF Init, FitsInv, AllocationFits, Unsold
  <1>2. FitsInv => AllocationFits
    BY DEF FitsInv
  <1> QED BY <1>1, <1>2, TypeInvInit, TypeInvNext, FitsNext, PTL DEF Spec

-----------------------------------------------------------------------------
(* Free cycles go to vcpus that have spent their money. *)

BrokeInv ==
  /\ BrokeBeforeFree
  /\ pc \in {"idle", "sell"} => fails = {}
  /\ pc = "sell" => \A v \in VCPU : buying[v] > 0 => v \in buyers
  /\ pc = "buy" => \A v \in VCPU : buying[v] > 0 => v \in buyers \union fails
  /\ pc = "buy" /\ Window > 0 /\ market > 0 => \A v \in fails : money[VmOf[v]] = 0

LEMMA BrokeNext == TypeInv /\ BrokeInv /\ [Next]_vars => BrokeInv'
  <1> SUFFICES ASSUME TypeInv, BrokeInv, [Next]_vars PROVE BrokeInv'
    OBVIOUS
  <1> USE CycleAssumption, VMAssumption
      DEF TypeInv, TypeOK, MarketOpen, BrokeInv, BrokeBeforeFree
  <1>1. CASE BeginRun
    BY <1>1 DEF BeginRun, updateBeforeMarket
  <1>2. CASE sellBaseCycles
    BY <1>2, SellStep
  <1>3. CASE Bid
    <2>1. PICK v \in todo : /\ pc = "buy" /\ pc' = "buy"
            /\ \/ \E bought \in Nat \ {0} :
                    /\ bought <= buying[v] /\ bought <= market
                    /\ bought <= money[VmOf[v]]
                    /\ buying' = [buying EXCEPT ![v] = @ - bought]
                    /\ money' = [money EXCEPT ![VmOf[v]] = @ - bought]
                    /\ market' = market - bought
                    /\ UNCHANGED <<buyers, fails>>
               \/ /\ Bought(v) = 0 /\ buying[v] # 0
                  /\ fails' = fails \union {v} /\ buyers' = buyers \ {v}
                  /\ UNCHANGED <<market, money, buying>>
               \/ /\ buying[v] = 0 /\ buyers' = buyers \ {v}
                  /\ UNCHANGED <<market, fails, money, buying>>
      BY <1>3, BidStep
    <2>2. v \in VCPU /\ VmOf[v] \in VM /\ buying[v] \in Nat
      OBVIOUS
    <2>3. CASE \E bought \in Nat \ {0} :
                 /\ bought <= buying[v] /\ bought <= market
                 /\ bought <= money[VmOf[v]]
                 /\ buying' = [buying EXCEPT ![v] = @ - bought]
                 /\ money' = [money EXCEPT ![VmOf[v]] = @ - bought]
                 /\ market' = market - bought
                 /\ UNCHANGED <<buyers, fails>>
      BY <2>1, <2>2, <2>3
    <2>4. CASE /\ Bought(v) = 0 /\ buying[v] # 0
               /\ fails' = fails \union {v} /\ buyers' = buyers \ {v}
               /\ UNCHANGED <<market, money, buying>>
      <3>1. Window > 0 /\ market > 0 /\ buying[v] > 0 => money[VmOf[v]] = 0
        BY <2>2, <2>4 DEF Bought
      <3> QED BY <2>1, <2>2, <2>4, <3>1
    <2>5. CASE /\ buying[v] = 0 /\ buyers' = buyers \ {v}
               /\ UNCHANGED <<market, fails, money, buying>>
      BY <2>1, <2>2, <2>5
    <2> QED BY <2>1, <2>3, <2>4, <2>5
  <1>4. CASE Split
    BY <1>4, SplitStep
  <1>5. CASE Spread
    BY <1>5 DEF Spread
  <1>6. CASE applyMarketAllocation
    BY <1>6 DEF applyMarketAllocation
  <1>7. CASE Quiet
    BY <1>7 DEF Quiet, reset, OverAllocation, EndSelling, NextRound, StartSplit,
         SoldOut, EndSplit, EndSpread, EndRun, ReturnFromRun, vars, locals
  <1> QED BY <1>1, <1>2, <1>3, <1>4, <1>5, <1>6, <1>7, StepCases

\* The split of run gives free cycles only to vcpus of VMs without money.
THEOREM NothingFreeWithMoney == Spec => []BrokeBeforeFree
  <1>1. Init => BrokeInv
    BY DEF Init, BrokeInv, BrokeBeforeFree
  <1>2. BrokeInv => BrokeBeforeFree
    BY DEF BrokeInv
  <1> QED BY <1>1, <1>2, TypeInvInit, TypeInvNext, BrokeNext, PTL DEF Spec

-----------------------------------------------------------------------------
(* The cycles of the host are conserved. *)

LEMMA SubsetCardinality ==
  ASSUME NEW T \in SUBSET VCPU
  PROVE  Cardinality(T) \in Nat /\ Cardinality(T) <= Cardinality(VCPU)
  BY VCPUAssumption, FS_Subset, FS_CardinalityType

LEMMA TodoCardinality ==
  ASSUME TypeInv
  PROVE  /\ IsFiniteSet(todo) /\ Cardinality(todo) \in Nat
         /\ Cardinality(todo) <= Cardinality(VCPU)
         /\ \A v \in todo : Cardinality(todo \ {v}) = Cardinality(todo) - 1
  <1>1. todo \in SUBSET VCPU /\ IsFiniteSet(VCPU)
    BY VCPUAssumption DEF TypeInv, TypeOK
  <1>2. IsFiniteSet(todo) /\ Cardinality(todo) <= Cardinality(VCPU)
    BY <1>1, FS_Subset
  <1>3. \A v \in todo : Cardinality(todo \ {v}) = Cardinality(todo) - 1
    BY <1>2, FS_RemoveElement
  <1> QED BY <1>2, <1>3, FS_CardinalityType

LEMMA FloorShare ==
  ASSUME NEW m \in Nat, NEW n \in Nat \ {0}
  PROVE  (m \div n) \in Nat /\ (m \div n) * n <= m
  OBVIOUS

LEMMA SpreadArithmetic ==
  ASSUME NEW t \in Int, NEW p \in Nat, NEW k \in Int, NEW u \in Int,
         t + p * k <= Capacity, u <= t + p
  PROVE  u + p * (k - 1) <= Capacity
  <1>1. p * (k - 1) = p * k - p
    OBVIOUS
  <1>2. p * k \in Int /\ p * (k - 1) \in Int
    OBVIOUS
  <1> QED BY <1>1, <1>2, CycleAssumption

LEMMA QuietToSpread ==
  ASSUME Quiet, pc' = "spread"
  PROVE  EndSplit \/ (pc = "spread" /\ UNCHANGED <<allocated, percent, todo>>)
  <1>1. CASE EndSplit
    BY <1>1
  <1>2. CASE OverAllocation \/ EndSelling \/ NextRound \/ StartSplit \/ SoldOut
             \/ EndSpread \/ EndRun
    BY <1>2 DEF OverAllocation, EndSelling, NextRound, StartSplit, SoldOut, EndSpread,
                EndRun, ReturnFromRun
  <1>3. CASE reset \/ UNCHANGED vars
    BY <1>3 DEF reset, vars, locals
  <1> QED BY <1>1, <1>2, <1>3 DEF Quiet

ConservedInv == Conservation /\ Unsold

LEMMA ConservedNext == TypeInv /\ ConservedInv /\ [Next]_vars => ConservedInv'
  <1> SUFFICES ASSUME TypeInv, ConservedInv, [Next]_vars PROVE ConservedInv'
    OBVIOUS
  <1> USE CycleAssumption DEF TypeInv, TypeOK, ConservedInv, Conservation, Unsold
  <1>1. CASE BeginRun
    BY <1>1, TotalZero DEF BeginRun, updateBeforeMarket
  <1>2. CASE sellBaseCycles
    <2>1. PICK v \in todo, base \in Nat :
            /\ todo' = todo \ {v}
            /\ pc = "sell" /\ pc' = "sell"
            /\ allocated' = [allocated EXCEPT ![v] = base]
            /\ market' = market - base
            /\ \/ \E ask \in Nat : buying' = [buying EXCEPT ![v] = ask]
               \/ buying' = buying
      BY <1>2, SellStep
    <2>2. v \in VCPU /\ allocated[v] = 0 /\ Total(allocated) \in Nat
      BY <2>1, TotalType
    <2>3. Total(allocated') = Total(allocated) - allocated[v] + base
      BY <2>1, <2>2, TotalUpdate
    <2>4. market' = Capacity - Total(allocated')
      BY <2>1, <2>2, <2>3
    <2>5. \A w \in todo' : buying'[w] = 0 /\ allocated'[w] = 0
      BY <2>1
    <2> QED BY <2>1, <2>4, <2>5
  <1>3. CASE Bid
    <2>1. PICK v \in todo : /\ pc = "buy" /\ pc' = "buy"
            /\ \/ \E bought \in Nat \ {0} :
                    /\ allocated' = [allocated EXCEPT ![v] = @ + bought]
                    /\ market' = market - bought
               \/ UNCHANGED <<market, allocated>>
      BY <1>3, BidStep
    <2>2. CASE \E bought \in Nat \ {0} :
                 /\ allocated' = [allocated EXCEPT ![v] = @ + bought]
                 /\ market' = market - bought
      <3>1. PICK bought \in Nat \ {0} :
                 /\ allocated' = [allocated EXCEPT ![v] = allocated[v] + bought]
                 /\ market' = market - bought
        BY <2>2
      <3>2. v \in VCPU /\ allocated[v] + bought \in Nat /\ Total(allocated) \in Nat
        BY TotalType
      <3>3. Total(allocated') = Total(allocated) - allocated[v] + (allocated[v] + bought)
        BY <3>1, <3>2, TotalUpdate
      <3> QED BY <2>1, <3>1, <3>2, <3>3
    <2> QED BY <2>1, <2>2
  <1>4. CASE Split
    <2>1. PICK v \in todo : \E add \in Share(v) :
            /\ add \in Nat
            /\ pc = "split" /\ pc' = "split"
            /\ allocated' = [allocated EXCEPT ![v] = allocated[v] + add]
            /\ market' = market - add
      BY <1>4, SplitStep
    <2>2. PICK add \in Nat :
            /\ pc = "split" /\ pc' = "split"
            /\ allocated' = [allocated EXCEPT ![v] = allocated[v] + add]
            /\ market' = market - add
      BY <2>1
    <2>3. v \in VCPU /\ allocated[v] + add \in Nat /\ Total(allocated) \in Nat
      BY TotalType
    <2>4. Total(allocated') = Total(allocated) - allocated[v] + (allocated[v] + add)
      BY <2>2, <2>3, TotalUpdate
    <2> QED BY <2>2, <2>3, <2>4
  <1>5. CASE Spread
    <2>1. PICK v \in todo :
            /\ pc = "spread" /\ pc' = "spread"
            /\ todo' = todo \ {v}
            /\ allocated' = [allocated EXCEPT ![v] = Least(Max, allocated[v] + percent)]
            /\ percent' = percent
      BY <1>5 DEF Spread, locals
    <2> DEFINE k == Least(Max, allocated[v] + percent)
    <2>2. v \in VCPU /\ allocated[v] \in Nat /\ k \in Nat /\ k <= allocated[v] + percent
      OBVIOUS
    <2>3. allocated' = [allocated EXCEPT ![v] = k]
      BY <2>1
    <2> HIDE DEF k
    <2>4. Total(allocated') = Total(allocated) - allocated[v] + k
      BY <2>2, <2>3, TotalUpdate
    <2>5. /\ Cardinality(todo \ {v}) = Cardinality(todo) - 1
          /\ Cardinality(todo) \in Nat /\ Total(allocated) \in Nat
      BY TodoCardinality, TotalType
    <2>6. /\ Total(allocated) + percent * Cardinality(todo) <= Capacity
          /\ Total(allocated') <= Total(allocated) + percent
          /\ Total(allocated') \in Int
      BY <2>1, <2>2, <2>4, <2>5
    <2>7. Total(allocated') + percent * (Cardinality(todo) - 1) <= Capacity
      BY <2>5, <2>6, SpreadArithmetic
    <2> QED BY <2>1, <2>5, <2>7
  <1>6. CASE applyMarketAllocation
    BY <1>6 DEF applyMarketAllocation
  <1>7. CASE Quiet
    <2>0. pc' = "spread" =>
            EndSplit \/ (pc = "spread" /\ UNCHANGED <<allocated, percent, todo>>)
      BY <1>7, QuietToSpread
    <2>1. ASSUME pc' = "spread"
          PROVE  Total(allocated') + percent' * Cardinality(todo') <= Capacity
      <3>1. CASE EndSplit
        <4>1. /\ allocated' = allocated /\ todo' = VCPU
              /\ market \in Nat /\ percent' = market \div Cardinality(VCPU)
              /\ market = Capacity - Total(allocated)
          BY <2>1, <3>1 DEF EndSplit
        <4>2. percent' \in Nat /\ percent' * Cardinality(VCPU) <= market
          <5>1. Cardinality(VCPU) \in Nat \ {0}
            BY CardinalityVCPU
          <5>2. /\ market \div Cardinality(VCPU) \in Nat
                /\ (market \div Cardinality(VCPU)) * Cardinality(VCPU) <= market
            BY <4>1, <5>1, FloorShare
          <5> QED BY <4>1, <5>2
        <4>3. Total(allocated) \in Nat
          BY TotalType
        <4> DEFINE spent == percent' * Cardinality(VCPU)
        <4>4. spent \in Nat
          BY <4>2, CardinalityVCPU
        <4>5. spent <= market
          BY <4>2
        <4> HIDE DEF spent
        <4>6. Total(allocated) + spent <= Capacity
          BY <4>1, <4>3, <4>4, <4>5
        <4> QED BY <4>1, <4>6 DEF spent
      <3>2. CASE pc = "spread" /\ UNCHANGED <<allocated, percent, todo>>
        BY <3>2
      <3> QED BY <2>0, <2>1, <3>1, <3>2
    <2>2. pc' \in {"sell", "buy", "split"} =>
            pc \in {"sell", "buy", "split"} /\ market' = market /\ allocated' = allocated
      BY <1>7 DEF Quiet, reset, OverAllocation, EndSelling, NextRound, StartSplit,
         SoldOut, EndSplit, EndSpread, EndRun, ReturnFromRun, vars, locals
    <2>3. pc' = "sell" => pc = "sell" /\ todo' = todo /\ buying' = buying
      BY <1>7 DEF Quiet, reset, OverAllocation, EndSelling, NextRound, StartSplit,
         SoldOut, EndSplit, EndSpread, EndRun, ReturnFromRun, vars, locals
    <2> QED BY <2>1, <2>2, <2>3, QuietStep, <1>7
  <1> QED BY <1>1, <1>2, <1>3, <1>4, <1>5, <1>6, <1>7, StepCases

\* VCPUMarket::run hands out the cycles of the host, no more and no less.
THEOREM CyclesConserved == Spec => []Conservation
  <1>1. Init => ConservedInv
    BY DEF Init, ConservedInv, Conservation, Unsold
  <1>2. ConservedInv => Conservation
    BY DEF ConservedInv
  <1> QED BY <1>1, <1>2, TypeInvInit, TypeInvNext, ConservedNext, PTL DEF Spec

-----------------------------------------------------------------------------
(* The quotas fit the host.  The split may round above what is left, but by less
   than a quarter of a cycle per vcpu: what it still owes bounds what it needs. *)

\* What the vcpus of a set still want.
Owed(T) == [v \in VCPU |-> IF v \in T THEN buying[v] ELSE 0]

BidInv == pc = "buy" =>
  /\ todo \subseteq buyers /\ buyers \cap fails = {}
  /\ allNeeded = Total(Owed(fails))

SplitInv == pc = "split" =>
  /\ allNeeded = 0 => rest = 0 /\ market >= 0
  /\ 4 * allNeeded * market >=
       4 * rest * Total(Owed(todo)) - allNeeded * (Cardinality(VCPU) - Cardinality(todo))

StartInv == pc \in {"idle", "sell"} => fails = {} /\ allNeeded = 0

LEMMA OwedType == ASSUME TypeInv, NEW T PROVE Owed(T) \in [VCPU -> Nat]
  BY DEF Owed, TypeInv, TypeOK

LEMMA SplitArithmetic ==
  ASSUME NEW A \in Nat, NEW m \in Int, NEW r \in Nat, NEW S \in Int, NEW k \in Int,
         NEW a \in Nat, NEW b \in Nat,
         4 * A * m >= 4 * r * S - A * k,
         4 * A * a <= 4 * b * r + A
  PROVE  4 * A * (m - a) >= 4 * r * (S - b) - A * (k + 1)
  <1>1. 4 * A * (m - a) = 4 * A * m - 4 * A * a
    OBVIOUS
  <1>2. 4 * r * (S - b) = 4 * r * S - 4 * b * r
    OBVIOUS
  <1>3. A * (k + 1) = A * k + A
    OBVIOUS
  <1> QED BY <1>1, <1>2, <1>3

LEMMA SplitBound ==
  ASSUME NEW A \in Nat \ {0}, NEW m \in Int, NEW n \in Nat, 4 * A * m >= 0 - A * n
  PROVE  4 * m >= 0 - n
  <1>1. SUFFICES ASSUME 4 * m + n <= 0 - 1 PROVE FALSE
    OBVIOUS
  <1>2. A * (4 * m + n) <= A * (0 - 1)
    BY <1>1
  <1>3. A * (4 * m + n) = 4 * A * m + A * n /\ A * (0 - 1) = 0 - A
    OBVIOUS
  <1> QED BY <1>2, <1>3

LEMMA SplitStart ==
  ASSUME NEW A \in Nat, NEW m \in Nat, NEW r \in Nat, r <= m, NEW k \in Nat
  PROVE  4 * A * m >= 4 * r * A - A * k
  <1>1. A * r <= A * m
    OBVIOUS
  <1>2. 4 * A * m = 4 * (A * m) /\ 4 * r * A = 4 * (A * r) /\ A * k \in Nat
    OBVIOUS
  <1>3. A * r \in Nat /\ A * m \in Nat
    OBVIOUS
  <1> QED BY <1>1, <1>2, <1>3

LEMMA BidInvBid ==
  ASSUME TypeInv, BidInv, Bid PROVE BidInv'
  <1> USE DEF TypeInv, TypeOK
  <1>1. PICK v \in todo : /\ First(v)
                          /\ todo' = todo \ {v}
                          /\ Buy(v) \/ FailToBuy(v) \/ Leave(v)
    BY DEF Bid
  <1>2. /\ pc = "buy" /\ v \in VCPU /\ v \in buyers /\ v \notin fails
        /\ todo \subseteq buyers /\ buyers \cap fails = {}
        /\ allNeeded = Total(Owed(fails))
    BY <1>1 DEF Bid, BidInv
  <1>3. CASE Buy(v)
    <2>1. UNCHANGED <<buyers, fails, allNeeded>>
          /\ \A w \in VCPU \ {v} : buying'[w] = buying[w]
      BY <1>3 DEF Buy
    <2>2. Owed(fails)' = Owed(fails)
      BY <1>2, <2>1 DEF Owed
    <2> QED BY <1>1, <1>2, <2>1, <2>2 DEF BidInv
  <1>4. CASE FailToBuy(v)
    <2>1. /\ allNeeded' = allNeeded + buying[v] /\ buying' = buying
          /\ fails' = fails \union {v} /\ buyers' = buyers \ {v}
      BY <1>4 DEF FailToBuy
    <2>2. Owed(fails)' = [Owed(fails) EXCEPT ![v] = buying[v]]
      BY <1>2, <2>1 DEF Owed
    <2>3. Owed(fails)[v] = 0 /\ buying[v] \in Nat
      BY <1>2 DEF Owed
    <2>4. Owed(fails) \in [VCPU -> Nat] /\ Total(Owed(fails)) \in Nat
      BY OwedType, TotalType
    <2> DEFINE owed == Owed(fails)
               owes == [owed EXCEPT ![v] = buying[v]]
    <2>5. Total(owes) = Total(owed) - owed[v] + buying[v]
      BY <1>2, <2>3, <2>4, TotalUpdate
    <2>6. allNeeded' = Total(owes)
      BY <1>2, <2>1, <2>3, <2>4, <2>5
    <2>7. Total(owes) = Total(Owed(fails))'
      BY <2>2 DEF Total, Cells
    <2> QED BY <1>1, <1>2, <2>1, <2>6, <2>7 DEF BidInv
  <1>5. CASE Leave(v)
    <2>1. UNCHANGED <<fails, allNeeded, buying>> /\ buyers' = buyers \ {v}
      BY <1>5 DEF Leave
    <2>2. Owed(fails)' = Owed(fails)
      BY <2>1 DEF Owed
    <2> QED BY <1>1, <1>2, <2>1, <2>2 DEF BidInv
  <1> QED BY <1>1, <1>3, <1>4, <1>5

LEMMA SplitInvSplit ==
  ASSUME TypeInv, SplitInv, Split PROVE SplitInv'
  <1> USE DEF TypeInv, TypeOK
  <1>1. PICK v \in todo : \E add \in Share(v) :
           /\ add \in Nat /\ add <= buying[v]
           /\ todo' = todo \ {v}
           /\ pc = "split" /\ pc' = "split"
           /\ buying' = [buying EXCEPT ![v] = @ - add]
           /\ market' = market - add
           /\ UNCHANGED <<allNeeded, rest>>
    BY SplitStep
  <1>2. PICK add \in Share(v) :
           /\ add \in Nat /\ add <= buying[v]
           /\ todo' = todo \ {v}
           /\ pc = "split" /\ pc' = "split"
           /\ buying' = [buying EXCEPT ![v] = @ - add]
           /\ market' = market - add
           /\ UNCHANGED <<allNeeded, rest>>
    BY <1>1
  <1>3. v \in VCPU /\ buying[v] \in Nat
    OBVIOUS
  <1>4. /\ 4 * allNeeded * add <= 4 * buying[v] * rest + allNeeded
        /\ 4 * allNeeded * (add + 1) > 4 * buying[v] * rest - allNeeded
    BY DEF Share
  <1>5. allNeeded # 0
    <2>1. SUFFICES ASSUME allNeeded = 0 PROVE FALSE
      OBVIOUS
    <2>2. rest = 0
      BY <1>2, <2>1 DEF SplitInv
    <2> QED BY <1>2, <1>3, <1>4, <2>1, <2>2
  <1>6. Owed(todo)' = [Owed(todo) EXCEPT ![v] = 0]
    BY <1>2, <1>3 DEF Owed
  <1>7. Owed(todo)[v] = buying[v]
    BY <1>3 DEF Owed
  <1>8. Owed(todo) \in [VCPU -> Nat] /\ Total(Owed(todo)) \in Nat
    BY OwedType, TotalType
  <1> DEFINE owed == Owed(todo)
             owes == [owed EXCEPT ![v] = 0]
  <1>9. Total(owes) = Total(owed) - owed[v] + 0
    BY <1>3, <1>8, TotalUpdate
  <1>10. Total(owes) = Total(Owed(todo))'
    BY <1>6 DEF Total, Cells
  <1>11. /\ Cardinality(todo) \in Nat /\ Cardinality(VCPU) \in Nat
         /\ Cardinality(todo') = Cardinality(todo) - 1
    BY <1>2, TodoCardinality, CardinalityVCPU
  <1> DEFINE k == Cardinality(VCPU) - Cardinality(todo)
  <1>12. /\ k \in Int
         /\ 4 * allNeeded * market >= 4 * rest * Total(Owed(todo)) - allNeeded * k
    BY <1>2, <1>11 DEF SplitInv
  <1>13. Cardinality(VCPU) - Cardinality(todo') = k + 1
    BY <1>11
  <1> HIDE DEF k
  <1>14. 4 * allNeeded * (market - add) >=
           4 * rest * (Total(Owed(todo)) - buying[v]) - allNeeded * (k + 1)
    BY <1>2, <1>3, <1>4, <1>8, <1>12, SplitArithmetic
  <1>15. Total(Owed(todo))' = Total(Owed(todo)) - buying[v]
    BY <1>3, <1>7, <1>8, <1>9, <1>10
  <1> QED BY <1>2, <1>5, <1>13, <1>14, <1>15 DEF SplitInv

(* The split ends with at most a quarter of a cycle per vcpu oversold. *)
LEMMA SplitEnd ==
  ASSUME TypeInv, SplitInv, pc = "split", todo = {}
  PROVE  4 * market >= 0 - Cardinality(VCPU)
  <1> USE DEF TypeInv, TypeOK
  <1>1. Cardinality(VCPU) \in Nat /\ Cardinality(todo) = 0
    BY CardinalityVCPU, FS_EmptySet
  <1>2. Owed(todo) = [v \in VCPU |-> 0]
    BY DEF Owed
  <1>3. Total(Owed(todo)) = 0
    BY <1>2, TotalZero
  <1>4. CASE allNeeded = 0
    BY <1>1, <1>4 DEF SplitInv
  <1>5. CASE allNeeded # 0
    <2>1. 4 * allNeeded * market >= 4 * rest * 0 - allNeeded * (Cardinality(VCPU) - 0)
      BY <1>1, <1>3 DEF SplitInv
    <2>2. 4 * rest * 0 = 0 /\ Cardinality(VCPU) - 0 = Cardinality(VCPU)
      BY <1>1
    <2>3. 4 * allNeeded * market >= 0 - allNeeded * Cardinality(VCPU)
      BY <2>1, <2>2
    <2> QED BY <1>1, <1>5, <2>3, SplitBound
  <1> QED BY <1>4, <1>5

LoopInv == StartInv /\ BidInv /\ SplitInv

LEMMA StartSplitInv ==
  ASSUME TypeInv, LoopInv, StartSplit PROVE SplitInv'
  <1> USE DEF TypeInv, TypeOK
  <1>1. /\ pc = "buy" /\ market \in Nat /\ market > 0 /\ todo' = fails
        /\ rest' = Least(allNeeded, market) /\ rest' \in Nat /\ rest' <= market
        /\ allNeeded = 0 => rest' = 0
        /\ UNCHANGED <<market, allNeeded, buying>>
    BY DEF StartSplit
  <1>2. allNeeded = Total(Owed(fails)) /\ allNeeded \in Nat
    BY <1>1 DEF LoopInv, BidInv
  <1>3. Total(Owed(todo))' = Total(Owed(fails))
    BY <1>1 DEF Total, Cells, Owed
  <1>4. /\ Cardinality(fails) \in Nat
        /\ Cardinality(VCPU) \in Nat
        /\ Cardinality(fails) <= Cardinality(VCPU)
    <2>1. fails \in SUBSET VCPU /\ IsFiniteSet(VCPU)
      BY VCPUAssumption
    <2> QED BY <2>1, FS_Subset, FS_CardinalityType
  <1> DEFINE k == Cardinality(VCPU) - Cardinality(fails)
  <1>5. k \in Nat
    BY <1>4
  <1> HIDE DEF k
  <1>6. 4 * allNeeded * market >= 4 * rest' * allNeeded - allNeeded * k
    BY <1>1, <1>2, <1>5, SplitStart
  <1> QED BY <1>1, <1>2, <1>3, <1>6 DEF SplitInv, k

LEMMA LoopInvNext == TypeInv /\ LoopInv /\ [Next]_vars => LoopInv'
  <1> SUFFICES ASSUME TypeInv, LoopInv, [Next]_vars PROVE LoopInv'
    OBVIOUS
  <1> USE DEF LoopInv
  <1>1. CASE BeginRun
    BY <1>1 DEF BeginRun, updateBeforeMarket, StartInv, BidInv, SplitInv
  <1>2. CASE sellBaseCycles
    <2>1. pc = "sell" /\ pc' = "sell" /\ UNCHANGED <<fails, allNeeded>>
      BY <1>2 DEF sellBaseCycles, Sell, SellStable, SellDecrease, SellIncrease, SellSame, SellBase
    <2> QED BY <2>1 DEF StartInv, BidInv, SplitInv
  <1>3. CASE Bid
    <2>1. pc' = "buy"
      BY <1>3 DEF Bid
    <2> QED BY <1>3, <2>1, BidInvBid DEF StartInv, SplitInv
  <1>4. CASE Split
    <2>1. pc' = "split"
      BY <1>4 DEF Split
    <2> QED BY <1>4, <2>1, SplitInvSplit DEF StartInv, BidInv
  <1>5. CASE StartSplit
    <2>1. pc' = "split"
      BY <1>5 DEF StartSplit
    <2> QED BY <1>5, <2>1, StartSplitInv DEF StartInv, BidInv
  <1>6. CASE EndSelling
    <2>1. /\ pc = "sell" /\ pc' = "buy" /\ todo' = {} /\ fails' = {} /\ allNeeded' = 0
          /\ buying' = buying
      BY <1>6 DEF EndSelling, StartInv, locals
    <2>2. Owed(fails)' = [v \in VCPU |-> 0]
      BY <2>1 DEF Owed
    <2>3. Total(Owed(fails))' = Total([v \in VCPU |-> 0])
      BY <2>2 DEF Total, Cells
    <2> QED BY <2>1, <2>3, TotalZero DEF StartInv, BidInv, SplitInv
  <1>7. CASE NextRound
    <2>1. pc = "buy" /\ pc' = "buy" /\ todo' = buyers
          /\ UNCHANGED <<buyers, fails, allNeeded, buying>>
      BY <1>7 DEF NextRound, locals
    <2>2. Total(Owed(fails))' = Total(Owed(fails))
      BY <2>1 DEF Total, Cells, Owed
    <2> QED BY <2>1, <2>2 DEF StartInv, BidInv, SplitInv
  <1>8. CASE reset \/ UNCHANGED vars
    <2>1. UNCHANGED <<pc, todo, market, buyers, fails, allNeeded, rest, buying>>
      BY <1>8 DEF reset, vars, locals
    <2>2. /\ Total(Owed(fails))' = Total(Owed(fails))
          /\ Total(Owed(todo))' = Total(Owed(todo))
      BY <2>1 DEF Total, Cells, Owed
    <2> QED BY <2>1, <2>2 DEF StartInv, BidInv, SplitInv
  <1>9. CASE OverAllocation \/ EndRun
    BY <1>9 DEF OverAllocation, EndRun, ReturnFromRun, StartInv, BidInv, SplitInv
  <1>10. CASE SoldOut \/ EndSplit \/ Spread \/ EndSpread \/ applyMarketAllocation
    <2>1. pc' \in {"spread", "apply"}
      BY <1>10 DEF SoldOut, EndSplit, Spread, EndSpread, applyMarketAllocation
    <2> QED BY <2>1 DEF StartInv, BidInv, SplitInv
  <1> QED BY <1>1, <1>2, <1>3, <1>4, <1>5, <1>6, <1>7, <1>8, <1>9, <1>10 DEF Next, Step

(* The quotas, and the allocations they are about to be set to. *)
QuotaInv ==
  /\ pc = "apply" => /\ 4 * (Total(allocated) - Capacity) <= Cardinality(VCPU)
                     /\ \A v \in VCPU \ todo : capping[v] <= allocated[v]
  /\ pc # "apply" => 4 * (Total(capping) - Capacity) <= Cardinality(VCPU)

LEMMA TotalMonotone ==
  ASSUME NEW f \in [VCPU -> Nat], NEW g \in [VCPU -> Nat],
         \A v \in VCPU : f[v] <= g[v]
  PROVE  Total(f) <= Total(g)
  <1>1. Cells(f) \in SUBSET Cells(g)
    BY DEF Cells
  <1> QED BY <1>1, CellsFinite, FS_Subset DEF Total

LEMMA QuotaNext ==
  TypeInv /\ ConservedInv /\ LoopInv /\ QuotaInv /\ [Next]_vars => QuotaInv'
  <1> SUFFICES ASSUME TypeInv, ConservedInv, LoopInv, QuotaInv, [Next]_vars
               PROVE  QuotaInv'
    OBVIOUS
  <1> USE CycleAssumption, CardinalityVCPU DEF TypeInv, TypeOK
  <1>0. Total(allocated) \in Nat /\ Total(capping) \in Nat
    BY TotalType
  <1>1. CASE applyMarketAllocation
    <2>1. PICK v \in todo, c \in Nat :
            /\ c <= allocated[v]
            /\ todo' = todo \ {v}
            /\ capping' = [capping EXCEPT ![v] = c]
            /\ pc = "apply" /\ pc' = "apply"
            /\ allocated' = allocated
      BY <1>1, ApplyStep
    <2>2. \A w \in VCPU \ todo' : capping'[w] <= allocated'[w]
      BY <2>1 DEF QuotaInv
    <2> QED BY <2>1, <2>2 DEF QuotaInv
  <1>2. CASE SoldOut
    <2>1. market = 0 /\ market = Capacity - Total(allocated) /\ allocated' = allocated
          /\ pc' = "apply" /\ todo' = VCPU
      BY <1>2 DEF SoldOut, ConservedInv, Conservation
    <2> QED BY <1>0, <2>1 DEF QuotaInv
  <1>3. CASE EndSplit
    <2>1. /\ market = Capacity - Total(allocated)
          /\ 4 * market >= 0 - Cardinality(VCPU)
          /\ allocated' = allocated /\ capping' = capping /\ todo' = VCPU
          /\ pc = "split" /\ pc' \in {"spread", "apply"}
      BY <1>3, SplitEnd DEF EndSplit, ConservedInv, Conservation, LoopInv
    <2> QED BY <1>0, <2>1 DEF QuotaInv
  <1>4. CASE EndSpread
    <2>1. /\ Total(allocated) + percent * Cardinality(todo) <= Capacity
          /\ Cardinality(todo) = 0
          /\ allocated' = allocated /\ todo' = VCPU /\ pc' = "apply"
      BY <1>4, FS_EmptySet DEF EndSpread, ConservedInv, Conservation
    <2>2. percent * 0 = 0
      OBVIOUS
    <2>3. Total(allocated) <= Capacity
      BY <1>0, <2>1, <2>2
    <2> QED BY <1>0, <2>1, <2>3 DEF QuotaInv
  <1>5. CASE EndRun
    <2>1. /\ pc = "apply" /\ pc' = "idle" /\ capping' = capping
          /\ \A v \in VCPU : capping[v] <= allocated[v]
          /\ 4 * (Total(allocated) - Capacity) <= Cardinality(VCPU)
      BY <1>5 DEF EndRun, ReturnFromRun, QuotaInv
    <2>2. Total(capping) <= Total(allocated)
      BY <2>1, TotalMonotone
    <2> QED BY <1>0, <2>1, <2>2 DEF QuotaInv
  <1>6. CASE \/ BeginRun \/ reset \/ sellBaseCycles \/ OverAllocation \/ EndSelling
             \/ Bid \/ NextRound \/ StartSplit \/ Split \/ Spread
    <2>1. pc # "apply" /\ pc' # "apply" /\ capping' = capping
      BY <1>6 DEF BeginRun, reset, sellBaseCycles, Sell, SellStable, SellDecrease, SellIncrease,
         SellSame, SellBase, OverAllocation, ReturnFromRun, EndSelling, Bid, NextRound,
         StartSplit, Split, Spread
    <2> QED BY <2>1 DEF QuotaInv
  <1>7. CASE UNCHANGED vars
    BY <1>7 DEF QuotaInv, vars
  <1> QED BY <1>1, <1>2, <1>3, <1>4, <1>5, <1>6, <1>7 DEF Next, Step

\* applyMarketAllocation never programs more cycles than the host has, but for a
\* quarter of a cycle per vcpu, whatever the runs that gave up in between.
THEOREM QuotasNeverExceedHost == Spec => []QuotasFitHost
  <1>1. Init => ConservedInv /\ LoopInv
    BY DEF Init, ConservedInv, Conservation, Unsold, LoopInv, StartInv, BidInv, SplitInv
  <1>2. Init => QuotaInv
    BY TotalZero, CycleAssumption, CardinalityVCPU DEF Init, QuotaInv
  <1>3. QuotaInv => QuotasFitHost
    BY DEF QuotaInv, QuotasFitHost
  <1> QED BY <1>1, <1>2, <1>3, TypeInvInit, TypeInvNext, ConservedNext, LoopInvNext,
             QuotaNext, PTL DEF Spec

-----------------------------------------------------------------------------
(* Nothing is given away while a vcpu that asked still wants.  When the market can
   serve all that is needed, a share is short of the wish by one cycle at most;
   when it cannot, each share takes off the market all of its part but less than
   5/4 of a cycle, so that less than that is left per vcpu that failed to buy. *)

ShortInv ==
  /\ pc = "split" =>
       /\ todo \subseteq fails
       /\ rest = allNeeded => \A v \in VCPU \ todo : buying[v] <= 1
       /\ rest # allNeeded =>
            /\ rest < allNeeded
            /\ 4 * allNeeded * market + Cardinality(fails \ todo)
                 <= 4 * rest * Total(Owed(todo)) + 5 * allNeeded * Cardinality(fails \ todo)
  /\ NoIdleWhileWanted

LEMMA FullShare ==
  ASSUME NEW A \in Nat, NEW a \in Nat, NEW b \in Nat,
         4 * A * (a + 1) > 4 * b * A - A
  PROVE  b - a <= 1
  <1>1. SUFFICES ASSUME b - a >= 2 PROVE FALSE
    OBVIOUS
  <1>2. A * (b - a - 1) >= A
    BY <1>1
  <1>3. A * (b - a - 1) = A * b - A * a - A /\ A * b \in Nat /\ A * a \in Nat
    OBVIOUS
  <1>4. 4 * A * (a + 1) = 4 * (A * a) + 4 * A /\ 4 * b * A = 4 * (A * b)
    OBVIOUS
  <1> QED BY <1>2, <1>3, <1>4

LEMMA ShortArithmetic ==
  ASSUME NEW A \in Nat, NEW m \in Int, NEW r \in Nat, NEW S \in Int, NEW k \in Nat,
         NEW a \in Nat, NEW b \in Nat,
         4 * A * m + k <= 4 * r * S + 5 * A * k,
         4 * A * (a + 1) > 4 * b * r - A
  PROVE  4 * A * (m - a) + (k + 1) <= 4 * r * (S - b) + 5 * A * (k + 1)
  <1>1. 4 * A * (m - a) = 4 * A * m - 4 * A * a
    OBVIOUS
  <1>2. 4 * r * (S - b) = 4 * r * S - 4 * b * r
    OBVIOUS
  <1>3. 5 * A * (k + 1) = 5 * A * k + 5 * A
    OBVIOUS
  <1>4. 4 * A * (a + 1) = 4 * A * a + 4 * A
    OBVIOUS
  <1>5. /\ 4 * A * a \in Int /\ 4 * b * r \in Int /\ 4 * A * m \in Int
        /\ 4 * r * S \in Int /\ 5 * A * k \in Int
    OBVIOUS
  <1> QED BY <1>1, <1>2, <1>3, <1>4, <1>5

LEMMA ShortBound ==
  ASSUME NEW A \in Nat \ {0}, NEW m \in Nat \ {0}, NEW k \in Nat,
         4 * A * m + k <= 5 * A * k
  PROVE  4 * m < 5 * k
  <1>1. SUFFICES ASSUME 4 * m >= 5 * k PROVE FALSE
    OBVIOUS
  <1>2. A * (4 * m) >= A * (5 * k)
    BY <1>1
  <1>3. A * (4 * m) = 4 * A * m /\ A * (5 * k) = 5 * A * k
        /\ 4 * A * m \in Nat /\ 5 * A * k \in Nat
    OBVIOUS
  <1>4. k = 0
    BY <1>2, <1>3
  <1>5. A * (4 * m) <= 0
    BY <1>3, <1>4
  <1>6. A * (4 * m) > 0
    OBVIOUS
  <1> QED BY <1>3, <1>5, <1>6

LEMMA ShortSplit ==
  ASSUME TypeInv, ShortInv, Split
  PROVE  ShortInv'
  <1> USE DEF TypeInv, TypeOK
  <1>1. PICK v \in todo : \E add \in Share(v) :
           /\ add \in Nat /\ add <= buying[v]
           /\ todo' = todo \ {v}
           /\ pc = "split" /\ pc' = "split"
           /\ buying' = [buying EXCEPT ![v] = @ - add]
           /\ market' = market - add
           /\ UNCHANGED <<fails, allNeeded, rest>>
    BY SplitStep
  <1>2. PICK add \in Share(v) :
           /\ add \in Nat /\ add <= buying[v]
           /\ todo' = todo \ {v}
           /\ pc = "split" /\ pc' = "split"
           /\ buying' = [buying EXCEPT ![v] = @ - add]
           /\ market' = market - add
           /\ UNCHANGED <<fails, allNeeded, rest>>
    BY <1>1
  <1>3. v \in VCPU /\ buying[v] \in Nat
    OBVIOUS
  <1>4. 4 * allNeeded * (add + 1) > 4 * buying[v] * rest - allNeeded
    BY DEF Share
  <1>5. ASSUME rest = allNeeded PROVE \A w \in VCPU \ todo' : buying'[w] <= 1
    <2>1. buying'[v] <= 1
      <3>1. 4 * allNeeded * (add + 1) > 4 * buying[v] * allNeeded - allNeeded
        BY <1>4, <1>5
      <3>2. buying[v] - add <= 1
        BY <1>2, <1>3, <3>1, FullShare
      <3> QED BY <1>2, <1>3, <3>2
    <2>2. \A w \in VCPU \ todo : buying[w] <= 1
      BY <1>2, <1>5 DEF ShortInv
    <2> QED BY <1>2, <1>3, <2>1, <2>2
  <1>6. ASSUME rest # allNeeded
        PROVE  /\ rest < allNeeded
               /\ 4 * allNeeded * market' + Cardinality(fails \ todo')
                    <= 4 * rest * Total(Owed(todo)') + 5 * allNeeded * Cardinality(fails \ todo')
    <2> DEFINE k == Cardinality(fails \ todo)
               owed == Owed(todo)
               owes == [owed EXCEPT ![v] = 0]
    <2>1. k \in Nat /\ Cardinality(fails \ todo') = k + 1
      <3>1. v \in fails /\ v \notin fails \ todo /\ fails \ todo' = (fails \ todo) \union {v}
        BY <1>2 DEF ShortInv
      <3>2. fails \ todo \in SUBSET VCPU /\ IsFiniteSet(VCPU)
        BY VCPUAssumption
      <3>3. IsFiniteSet(fails \ todo)
        BY <3>2, FS_Subset
      <3> QED BY <3>1, <3>3, FS_AddElement, FS_CardinalityType
    <2>2. owed \in [VCPU -> Nat] /\ Total(owed) \in Nat /\ owed[v] = buying[v]
      <3>1. owed \in [VCPU -> Nat]
        BY OwedType
      <3> QED BY <1>3, <3>1, TotalType DEF Owed
    <2>3. Owed(todo)' = owes
      BY <1>2, <1>3 DEF Owed
    <2>4. Total(owes) = Total(owed) - owed[v] + 0
      BY <1>3, <2>2, TotalUpdate
    <2>5. Total(owes) = Total(owed) - buying[v]
      BY <1>3, <2>2, <2>4
    <2>6. rest < allNeeded /\ 4 * allNeeded * market + k <= 4 * rest * Total(owed) + 5 * allNeeded * k
      BY <1>2, <1>6 DEF ShortInv
    <2> HIDE DEF k, owed, owes
    <2>7. 4 * allNeeded * (market - add) + (k + 1)
            <= 4 * rest * (Total(owed) - buying[v]) + 5 * allNeeded * (k + 1)
      BY <1>2, <1>3, <1>4, <2>1, <2>2, <2>6, ShortArithmetic
    <2> QED BY <1>2, <2>1, <2>3, <2>5, <2>6, <2>7
  <1>7. todo' \subseteq fails' /\ pc' = "split"
    BY <1>2 DEF ShortInv
  <1>8. Total(Owed(todo)') = Total(Owed(todo))'
    BY DEF Total, Cells
  <1> QED BY <1>2, <1>5, <1>6, <1>7, <1>8 DEF ShortInv, NoIdleWhileWanted

LEMMA ShortStart ==
  ASSUME TypeInv, BrokeInv, LoopInv, StartSplit
  PROVE  ShortInv'
  <1> USE DEF TypeInv, TypeOK
  <1>1. /\ pc = "buy" /\ pc' = "split" /\ buyers = {} /\ todo' = fails
        /\ market \in Nat /\ rest' = Least(allNeeded, market)
        /\ UNCHANGED <<market, fails, allNeeded, buying>>
    BY DEF StartSplit
  <1>2. \A v \in VCPU \ todo' : buying'[v] <= 1
    BY <1>1 DEF BrokeInv
  <1>3. allNeeded = Total(Owed(fails)) /\ Total(Owed(todo))' = Total(Owed(fails))
    BY <1>1 DEF LoopInv, BidInv, Total, Cells, Owed
  <1>4. fails' \ todo' = {} /\ Cardinality(fails' \ todo') = 0
    BY <1>1, FS_EmptySet
  <1>5. ASSUME rest' # allNeeded'
        PROVE  /\ rest' < allNeeded'
               /\ 4 * allNeeded' * market' + 0 <= 4 * rest' * allNeeded + 5 * allNeeded' * 0
    <2>1. rest' = market /\ market < allNeeded
      BY <1>1, <1>5
    <2> QED BY <1>1, <2>1
  <1> QED BY <1>1, <1>2, <1>3, <1>4, <1>5 DEF ShortInv, NoIdleWhileWanted

LEMMA ShortEnd ==
  ASSUME TypeInv, ShortInv, EndSplit
  PROVE  ShortInv'
  <1> USE DEF TypeInv, TypeOK
  <1>1. /\ pc = "split" /\ todo = {} /\ pc' \in {"spread", "apply"}
        /\ pc' = "spread" => market > 0
        /\ UNCHANGED <<market, fails, buying>>
    BY DEF EndSplit
  <1>2. CASE rest = allNeeded
    BY <1>1, <1>2 DEF ShortInv, NoIdleWhileWanted
  <1>3. CASE rest # allNeeded
    <2> DEFINE k == Cardinality(fails)
    <2>1. fails \ todo = fails /\ k \in Nat
      BY <1>1, SubsetCardinality
    <2>2. Owed(todo) = [v \in VCPU |-> 0]
      BY <1>1 DEF Owed
    <2>3. Total(Owed(todo)) = 0
      BY <2>2, TotalZero
    <2>4. rest < allNeeded /\ 4 * allNeeded * market + k <= 4 * rest * 0 + 5 * allNeeded * k
      BY <1>1, <1>3, <2>1, <2>3 DEF ShortInv
    <2> HIDE DEF k
    <2>5. 4 * allNeeded * market + k <= 5 * allNeeded * k
      BY <2>1, <2>4
    <2>6. pc' = "spread" => 4 * market < 5 * k
      BY <1>1, <2>1, <2>4, <2>5, ShortBound
    <2> QED BY <1>1, <2>6 DEF k, ShortInv, NoIdleWhileWanted
  <1> QED BY <1>2, <1>3

LEMMA ShortNext == TypeInv /\ BrokeInv /\ LoopInv /\ ShortInv /\ [Next]_vars => ShortInv'
  <1> SUFFICES ASSUME TypeInv, BrokeInv, LoopInv, ShortInv, [Next]_vars PROVE ShortInv'
    OBVIOUS
  <1>1. CASE Split
    BY <1>1, ShortSplit
  <1>2. CASE StartSplit
    BY <1>2, ShortStart
  <1>3. CASE EndSplit
    BY <1>3, ShortEnd
  <1>4. CASE Spread
    BY <1>4 DEF Spread, locals, ShortInv, NoIdleWhileWanted
  <1>5. CASE reset \/ UNCHANGED vars
    <2>1. UNCHANGED <<pc, todo, market, fails, allNeeded, rest, buying>>
      BY <1>5 DEF reset, vars, locals
    <2>2. Total(Owed(todo))' = Total(Owed(todo))
      BY <2>1 DEF Total, Cells, Owed
    <2> QED BY <2>1, <2>2 DEF ShortInv, NoIdleWhileWanted
  <1>6. CASE \/ BeginRun \/ sellBaseCycles \/ OverAllocation \/ EndSelling \/ Bid
             \/ NextRound \/ SoldOut \/ EndSpread \/ applyMarketAllocation \/ EndRun
    <2>1. pc' \notin {"split", "spread"}
      BY <1>6 DEF BeginRun, sellBaseCycles, Sell, SellStable, SellDecrease, SellIncrease,
         SellSame, SellBase, OverAllocation, ReturnFromRun, EndSelling, Bid, NextRound,
         SoldOut, EndSpread, applyMarketAllocation, EndRun
    <2> QED BY <2>1 DEF ShortInv, NoIdleWhileWanted
  <1> QED BY <1>1, <1>2, <1>3, <1>4, <1>5, <1>6 DEF Next, Step

\* The split serves the vcpus that could not pay before run spreads what is left
\* over all of them, however the float shares are rounded.
THEOREM WantsComeFirst == Spec => []NoIdleWhileWanted
  <1>1. Init => BrokeInv /\ LoopInv /\ ShortInv
    BY DEF Init, BrokeInv, BrokeBeforeFree, LoopInv, StartInv, BidInv, SplitInv,
           ShortInv, NoIdleWhileWanted
  <1>2. ShortInv => NoIdleWhileWanted
    BY DEF ShortInv
  <1> QED BY <1>1, <1>2, TypeInvInit, TypeInvNext, BrokeNext, LoopInvNext, ShortNext,
             PTL DEF Spec

-----------------------------------------------------------------------------
(* The market implements the ledger: each of its loops is one kind of entry of
   the book, and the loops' own bookkeeping is invisible there. *)

LEMMA SumIsTotal == ASSUME NEW f PROVE Ledger!Sum(f) = Total(f)
  BY DEF Ledger!Sum, Total, Cells, Ledger!Cardinality, Cardinality

(* At any point of the split, what is sold exceeds the host by a quarter of a
   cycle per vcpu at most. *)
LEMMA SplitOversold ==
  ASSUME TypeInv', SplitInv', pc' = "split"
  PROVE  4 * market' >= 0 - Cardinality(VCPU)
  <1> USE DEF TypeInv, TypeOK
  <1> DEFINE n == Cardinality(VCPU)
             d == Cardinality(todo')
             A == allNeeded'
             m == market'
             owed == Total(Owed(todo)')
  <1>1. n \in Nat /\ d \in Nat
    BY CardinalityVCPU, SubsetCardinality
  <1>2. owed \in Nat
    <2>1. Owed(todo)' \in [VCPU -> Nat]
      BY DEF Owed
    <2> QED BY <2>1, TotalType
  <1>3. /\ A \in Nat /\ rest' \in Nat /\ m \in Int
        /\ A = 0 => m >= 0
        /\ 4 * A * m >= 4 * rest' * owed - A * (n - d)
    BY DEF SplitInv, Total, Cells
  <1> DEFINE due == rest' * owed
  <1>4. due \in Nat /\ 4 * rest' * owed = 4 * due
    BY <1>2, <1>3
  <1> HIDE DEF n, d, owed, A, m
  <1>5. A * (n - d) = A * n - A * d /\ A * d \in Nat /\ A * n \in Nat
    BY <1>1, <1>3
  <1>6. 4 * A * m >= 4 * due - A * (n - d) /\ 4 * A * m \in Int
    BY <1>3, <1>4
  <1> HIDE DEF due
  <1>7. 4 * A * m >= 0 - A * n
    BY <1>4, <1>5, <1>6
  <1>8. 4 * m >= 0 - n
    BY <1>1, <1>3, <1>7, SplitBound
  <1> QED BY <1>8 DEF m, n

LEMMA SaleIsEndowment ==
  ASSUME TypeInv, Unsold, sellBaseCycles
  PROVE  \E h \in VCPU : Ledger!Endow(h)
  <1> USE DEF TypeInv, TypeOK
  <1>1. PICK v \in VCPU, base \in Nat, want \in Nat : SellBase(v, base, want)
    BY SaleIsSellBase
  <1>2. /\ pc = "sell" /\ pc' = "sell" /\ UNCHANGED capping
        /\ v \in todo /\ allocated[v] = 0 /\ buying[v] = 0
        /\ allocated' = [allocated EXCEPT ![v] = base]
    BY <1>1 DEF sellBaseCycles, Sell, SellBase, First, Unsold
  <1>3. VmOf[v] \in VM /\ Nominal[v] \in Nat /\ Room(v) \in Nat
    BY VMAssumption, CycleAssumption, RoomType
  <1>4. Ledger!Only(v, allocated) /\ Ledger!Moved(v) >= 0
    BY <1>2 DEF Ledger!Only, Ledger!Moved
  <1>5. \/ Ledger!Only(v, buying) /\ buying'[v] > 0 /\ UNCHANGED money
        \/ /\ Ledger!Only(VmOf[v], money) /\ money'[VmOf[v]] >= money[VmOf[v]]
           /\ UNCHANGED buying
    <2>1. CASE /\ want > Nominal[v] /\ UNCHANGED money
               /\ buying' = [buying EXCEPT ![v] = Least(Room(v), want - Nominal[v])]
      <3>1. Least(Room(v), want - Nominal[v]) \in Nat
        BY <1>3, <2>1
      <3>2. CASE Least(Room(v), want - Nominal[v]) = 0
        BY <1>2, <1>3, <2>1, <3>2 DEF Ledger!Only
      <3>3. CASE Least(Room(v), want - Nominal[v]) > 0
        BY <1>2, <2>1, <3>3 DEF Ledger!Only
      <3> QED BY <3>1, <3>2, <3>3
    <2>2. CASE /\ want <= Nominal[v] /\ UNCHANGED buying
               /\ money' = [money EXCEPT ![VmOf[v]] = @ + (Nominal[v] - want)]
      <3>1. money[VmOf[v]] \in Nat /\ Nominal[v] - want \in Nat
        BY <1>3, <2>2
      <3>2. money'[VmOf[v]] = money[VmOf[v]] + (Nominal[v] - want)
        BY <1>3, <2>2
      <3>3. Ledger!Only(VmOf[v], money)
        BY <1>3, <2>2, <3>2 DEF Ledger!Only
      <3> QED BY <2>2, <3>1, <3>2, <3>3
    <2>3. \/ /\ want > Nominal[v] /\ UNCHANGED money
             /\ buying' = [buying EXCEPT ![v] = Least(Room(v), want - Nominal[v])]
          \/ /\ want <= Nominal[v] /\ UNCHANGED buying
             /\ money' = [money EXCEPT ![VmOf[v]] = @ + (Nominal[v] - want)]
      BY <1>1 DEF SellBase
    <2> QED BY <2>1, <2>2, <2>3
  <1> QED BY <1>2, <1>4, <1>5 DEF Ledger!Endow

LEMMA BidIsTrade ==
  ASSUME TypeInv, ConservedInv, TypeInv', ConservedInv', Bid
  PROVE  (\E h \in VCPU : Ledger!Trade(h)) \/ UNCHANGED Ledger!vars
  <1> USE DEF TypeInv, TypeOK
  <1>1. PICK v \in todo :
           /\ pc = "buy" /\ pc' = "buy"
           /\ \/ \E bought \in Nat \ {0} :
                   /\ bought <= buying[v] /\ bought <= market
                   /\ bought <= money[VmOf[v]]
                   /\ allocated' = [allocated EXCEPT ![v] = @ + bought]
                   /\ buying' = [buying EXCEPT ![v] = @ - bought]
                   /\ money' = [money EXCEPT ![VmOf[v]] = @ - bought]
                   /\ market' = market - bought
              \/ UNCHANGED <<market, allocated, money, buying>>
           /\ UNCHANGED <<percent, capping>>
    BY BidStep
  <1>2. v \in VCPU /\ VmOf[v] \in VM
    BY VMAssumption
  <1>3. ASSUME NEW bought \in Nat \ {0},
               bought <= buying[v], bought <= market, bought <= money[VmOf[v]],
               allocated' = [allocated EXCEPT ![v] = @ + bought],
               buying' = [buying EXCEPT ![v] = @ - bought],
               money' = [money EXCEPT ![VmOf[v]] = @ - bought],
               market' = market - bought
        PROVE  Ledger!Trade(v)
    <2>1. Ledger!Only(v, allocated) /\ Ledger!Moved(v) = bought
      BY <1>2, <1>3 DEF Ledger!Only, Ledger!Moved
    <2>2. market' = Capacity - Total(allocated') /\ market' >= 0
      BY <1>1, <1>3 DEF ConservedInv, Conservation
    <2>3. Total(allocated') \in Nat
      BY TotalType
    <2>4. Ledger!Sum(allocated') <= Capacity
      BY <2>2, <2>3, SumIsTotal, CycleAssumption
    <2>5. buying' = [buying EXCEPT ![v] = @ - Ledger!Moved(v)] /\ buying'[v] >= 0
      BY <1>2, <1>3, <2>1
    <2>6. money' = [money EXCEPT ![VmOf[v]] = @ - Ledger!Moved(v)] /\ money'[VmOf[v]] >= 0
      BY <1>2, <1>3, <2>1
    <2> QED BY <1>1, <2>1, <2>4, <2>5, <2>6 DEF Ledger!Trade
  <1>4. CASE UNCHANGED <<market, allocated, money, buying>>
    BY <1>1, <1>4 DEF Ledger!vars
  <1> QED BY <1>1, <1>2, <1>3, <1>4

LEMMA SplitIsGrant ==
  ASSUME TypeInv, BrokeInv, Window > 0, Split,
         TypeInv', ConservedInv', SplitInv'
  PROVE  (\E h \in VCPU : Ledger!Grant(h)) \/ UNCHANGED Ledger!vars
  <1> USE DEF TypeInv, TypeOK
  <1>1. PICK v \in todo : \E add \in Share(v) :
           /\ add \in Nat /\ add <= buying[v]
           /\ pc = "split" /\ pc' = "split"
           /\ allocated' = [allocated EXCEPT ![v] = @ + add]
           /\ buying' = [buying EXCEPT ![v] = @ - add]
           /\ UNCHANGED <<money, capping>>
    BY SplitStep
  <1>2. PICK add \in Nat :
           /\ add <= buying[v]
           /\ pc = "split" /\ pc' = "split"
           /\ allocated' = [allocated EXCEPT ![v] = @ + add]
           /\ buying' = [buying EXCEPT ![v] = @ - add]
           /\ UNCHANGED <<money, capping>>
    BY <1>1
  <1>3. v \in VCPU /\ buying[v] \in Nat /\ allocated[v] \in Nat
    OBVIOUS
  <1>4. CASE add = 0
    BY <1>2, <1>3, <1>4 DEF Ledger!vars
  <1>5. CASE add # 0
    <2>1. Ledger!Only(v, allocated) /\ Ledger!Moved(v) = add
      BY <1>2, <1>3 DEF Ledger!Only, Ledger!Moved
    <2>2. money[VmOf[v]] = 0
      BY <1>2, <1>3, <1>5 DEF BrokeInv, BrokeBeforeFree
    <2>3. market' = Capacity - Total(allocated') /\ 4 * market' >= 0 - Cardinality(VCPU)
      BY <1>2, SplitOversold DEF ConservedInv, Conservation
    <2>4. Total(allocated') \in Nat
      BY TotalType
    <2>5. 4 * (Total(allocated') - Capacity) <= Cardinality(VCPU)
      BY <2>3, <2>4, CycleAssumption, CardinalityVCPU
    <2>7. 4 * (Ledger!Sum(allocated') - Capacity) <= Cardinality(VCPU)
      BY <2>5, SumIsTotal
    <2>6. buying' = [buying EXCEPT ![v] = @ - Ledger!Moved(v)] /\ buying'[v] >= 0
      BY <1>2, <1>3, <2>1
    <2>8. Ledger!Grant(v)
      BY <1>2, <1>5, <2>1, <2>2, <2>6, <2>7 DEF Ledger!Grant
    <2> QED BY <1>3, <2>8
  <1> QED BY <1>4, <1>5

LEMMA SpreadIsGift ==
  ASSUME TypeInv, FitsInv, TypeInv', ConservedInv', Spread,
         \A v \in VCPU : Nominal[v] \in Floor..Max
  PROVE  (\E h \in VCPU : Ledger!Gift(h)) \/ UNCHANGED Ledger!vars
  <1> USE DEF TypeInv, TypeOK
  <1>1. PICK v \in todo :
           /\ pc = "spread" /\ pc' = "spread"
           /\ allocated' = [allocated EXCEPT ![v] = Least(Max, allocated[v] + percent)]
           /\ UNCHANGED <<buying, money, capping>>
    BY DEF Spread
  <1> DEFINE k == Least(Max, allocated[v] + percent)
  <1>2. /\ v \in VCPU /\ allocated[v] \in Nat /\ k \in Nat
        /\ allocated' = [allocated EXCEPT ![v] = k]
    BY <1>1, CycleAssumption
  <1>3. allocated[v] <= k
    BY <1>2, CycleAssumption DEF FitsInv, AllocationFits
  <1> HIDE DEF k
  <1>4. CASE k = allocated[v]
    BY <1>1, <1>2, <1>4 DEF Ledger!vars
  <1>5. CASE k # allocated[v]
    <2>1. Ledger!Only(v, allocated) /\ Ledger!Moved(v) > 0
      BY <1>2, <1>3, <1>5 DEF Ledger!Only, Ledger!Moved
    <2>2. Total(allocated') + percent' * Cardinality(todo') <= Capacity
      BY <1>1 DEF ConservedInv, Conservation
    <2>3. Total(allocated') \in Nat
      BY TotalType
    <2>4. Cardinality(todo') \in Nat
      BY SubsetCardinality
    <2>5. percent' * Cardinality(todo') \in Nat
      BY <2>4
    <2>6. Ledger!Sum(allocated') <= Capacity
      BY <2>2, <2>3, <2>5, SumIsTotal, CycleAssumption
    <2> QED BY <1>1, <1>2, <2>1, <2>6 DEF Ledger!Gift
  <1> QED BY <1>4, <1>5

LEMMA ApplyIsPublish ==
  ASSUME TypeInv, applyMarketAllocation
  PROVE  \E h \in VCPU : Ledger!Publish(h)
  <1> USE DEF TypeInv, TypeOK
  <1>1. PICK v \in todo, c \in Nat :
           /\ c <= allocated[v]
           /\ capping' = [capping EXCEPT ![v] = c]
           /\ pc = "apply" /\ pc' = "apply"
           /\ UNCHANGED <<allocated, buying, money>>
    BY ApplyStep
  <1>2. Ledger!Only(v, capping) /\ capping'[v] <= allocated[v] /\ v \in VCPU
    BY <1>1 DEF Ledger!Only
  <1> QED BY <1>1, <1>2 DEF Ledger!Publish

(* The end of a loop of the market is the end of a phase of the ledger. *)
LEMMA EndIsAdvance ==
  ASSUME TypeInv, ConservedInv, QuotaInv, Quiet, ~ reset
  PROVE  Ledger!Cancel \/ Ledger!Advance \/ UNCHANGED Ledger!vars
  <1> USE DEF TypeInv, TypeOK
  <1>1. Total(allocated) \in Nat /\ Ledger!Sum(allocated) = Total(allocated)
        /\ Capacity \in Nat
    BY TotalType, SumIsTotal, CycleAssumption
  <1>2. CASE OverAllocation
    BY <1>1, <1>2 DEF OverAllocation, ReturnFromRun, ConservedInv, Conservation, Ledger!Cancel
  <1>3. CASE EndSelling
    BY <1>1, <1>3 DEF EndSelling, ConservedInv, Conservation, Ledger!Advance
  <1>4. CASE StartSplit \/ SoldOut \/ EndSpread
    BY <1>4 DEF StartSplit, SoldOut, EndSpread, Ledger!Advance
  <1>5. CASE EndSplit
    BY <1>5 DEF EndSplit, Ledger!Advance, Ledger!vars
  <1>6. CASE NextRound \/ UNCHANGED vars
    BY <1>6 DEF NextRound, vars, Ledger!vars
  <1>7. CASE EndRun
    BY <1>7 DEF EndRun, ReturnFromRun, QuotaInv, Ledger!Advance
  <1> QED BY <1>2, <1>3, <1>4, <1>5, <1>6, <1>7 DEF Quiet

LEMMA MarketStepIsLedgerStep ==
  ASSUME Window > 0, \A v \in VCPU : Nominal[v] \in Floor..Max,
         TypeInv, ConservedInv, BrokeInv, FitsInv, LoopInv, QuotaInv,
         [Next]_vars
  PROVE  [Ledger!Next]_(Ledger!vars)
  <1>1. TypeInv' /\ ConservedInv' /\ LoopInv'
    BY TypeInvNext, ConservedNext, LoopInvNext
  <1>2. CASE BeginRun
    BY <1>2 DEF BeginRun, updateBeforeMarket, Ledger!Open, Ledger!Next
  <1>3. CASE sellBaseCycles
    BY <1>3, SaleIsEndowment DEF ConservedInv, Ledger!Next
  <1>4. CASE Bid
    BY <1>1, <1>4, BidIsTrade DEF Ledger!Next
  <1>5. CASE Split
    BY <1>1, <1>5, SplitIsGrant DEF LoopInv, Ledger!Next
  <1>6. CASE Spread
    BY <1>1, <1>6, SpreadIsGift DEF Ledger!Next
  <1>7. CASE applyMarketAllocation
    BY <1>7, ApplyIsPublish DEF Ledger!Next
  <1>8. CASE Quiet
    <2>1. CASE reset
      BY <2>1 DEF reset, Ledger!Forgive, Ledger!Next
    <2>2. CASE ~ reset
      BY <1>8, <2>2, EndIsAdvance DEF Ledger!Next
    <2> QED BY <2>1, <2>2
  <1> QED BY <1>2, <1>3, <1>4, <1>5, <1>6, <1>7, <1>8, StepCases

\* run is a session of the ledger, whatever the order of the bids: it endows, trades
\* against money one for one, shares what is left with vcpus that have no money,
\* and publishes quotas below what was obtained.  The vcpus' nominal frequency is
\* one that the host has, and the configured window lets them buy something.
THEOREM MarketKeepsLedger ==
  ASSUME Window > 0, \A v \in VCPU : Nominal[v] \in Floor..Max
  PROVE  Spec => LedgerSpec
  <1>1. Init => Ledger!Init
    BY DEF Init, Ledger!Init
  <1>2. Init => ConservedInv /\ LoopInv /\ BrokeInv
    BY DEF Init, ConservedInv, Conservation, Unsold, LoopInv, StartInv, BidInv, SplitInv,
           BrokeInv, BrokeBeforeFree
  <1>3. Init => QuotaInv /\ FitsInv
    BY TotalZero, CycleAssumption, CardinalityVCPU
       DEF Init, QuotaInv, FitsInv, AllocationFits, Unsold
  <1>4. TypeInv /\ ConservedInv /\ BrokeInv /\ FitsInv /\ LoopInv /\ QuotaInv /\ [Next]_vars
          => [Ledger!Next]_(Ledger!vars)
    BY MarketStepIsLedgerStep
  <1> QED BY <1>1, <1>2, <1>3, <1>4, TypeInvInit, TypeInvNext, ConservedNext, BrokeNext,
             FitsNext, LoopInvNext, QuotaNext, PTL DEF Spec, LedgerSpec, Ledger!Spec

-----------------------------------------------------------------------------
(* The length of a run.  A bid takes a cycle off the market or a vcpu off the
   bidders; so there are fewer rounds than there are cycles and vcpus. *)

Vcpus == Cardinality(VCPU)

\* The steps that a run makes at most before it returns.
StepsLeft ==
  LET visits == Cardinality(todo) IN
  CASE pc = "sell"   -> visits + 2 * Capacity + 5 * Vcpus + 6
    [] pc = "buy"    -> 2 * (market + Cardinality(buyers)) + 3 * Vcpus + 3
                          + (IF todo = {} THEN 1 ELSE 0)
    [] pc = "split"  -> visits + 2 * Vcpus + 3
    [] pc = "spread" -> visits + Vcpus + 2
    [] pc = "apply"  -> visits + 1
    [] pc = "idle"   -> 0
LongestRun == 2 * Capacity + 6 * Vcpus + 6

LEMMA VcpuSets ==
  ASSUME NEW S \in SUBSET VCPU
  PROVE  /\ Cardinality(S) \in Nat /\ Cardinality(S) <= Vcpus
         /\ S = {} => Cardinality(S) = 0
         /\ \A v \in S : Cardinality(S \ {v}) = Cardinality(S) - 1
<1>1. IsFiniteSet(S)
  BY VCPUAssumption, FS_Subset, Zenon
<1>2. Cardinality(S) \in Nat /\ Cardinality(S) <= Vcpus
  BY SubsetCardinality DEF Vcpus
<1>3. \A v \in S : Cardinality(S \ {v}) = Cardinality(S) - 1
  BY <1>1, FS_RemoveElement, Zenon
<1>4. S = {} => Cardinality(S) = 0
  BY FS_EmptySet
<1> QED
  BY <1>2, <1>3, <1>4

LEMMA StepsBounded ==
  ASSUME TypeInv, ConservedInv
  PROVE  StepsLeft \in 0..LongestRun /\ (StepsLeft = 0 <=> pc = "idle")
<1> DEFINE visits == Cardinality(todo)
           bidders == Cardinality(buyers)
<1>1. /\ visits \in Nat /\ visits <= Vcpus /\ bidders \in Nat /\ bidders <= Vcpus
      /\ Vcpus \in Nat /\ Capacity \in Nat
  BY VcpuSets, CardinalityVCPU, CycleAssumption DEF TypeInv, TypeOK, Vcpus
<1>2. pc = "buy" => market \in 0..Capacity
  <2>1. pc = "buy" => market = Capacity - Total(allocated)
    BY DEF ConservedInv, Conservation
  <2>2. Total(allocated) \in Nat
    BY TotalType DEF TypeInv, TypeOK
  <2> QED
    BY <1>1, <2>1, <2>2 DEF TypeInv, TypeOK, MarketOpen
<1>3. pc \in {"idle", "sell", "buy", "split", "spread", "apply"}
  BY DEF TypeInv, TypeOK
<1>4. StepsLeft =
        CASE pc = "sell"   -> visits + 2 * Capacity + 5 * Vcpus + 6
          [] pc = "buy"    -> 2 * (market + bidders) + 3 * Vcpus + 3
                                + (IF todo = {} THEN 1 ELSE 0)
          [] pc = "split"  -> visits + 2 * Vcpus + 3
          [] pc = "spread" -> visits + Vcpus + 2
          [] pc = "apply"  -> visits + 1
          [] pc = "idle"   -> 0
  BY DEF StepsLeft
<1> HIDE DEF visits, bidders
<1>5. CASE pc = "buy"
  BY <1>1, <1>2, <1>4, <1>5 DEF LongestRun
<1>6. CASE pc # "buy"
  BY <1>1, <1>3, <1>4, <1>6 DEF LongestRun
<1> QED
  BY <1>5, <1>6

\* A loop visits one vcpu less.
LEMMA VisitShorter ==
  ASSUME TypeInv, NEW v \in todo, todo' = todo \ {v}, pc' = pc, pc # "buy", pc # "idle"
  PROVE  StepsLeft' < StepsLeft
<1>1. /\ Cardinality(todo) \in Nat /\ Cardinality(todo') = Cardinality(todo) - 1
      /\ Vcpus \in Nat /\ Capacity \in Nat
  BY VcpuSets, CardinalityVCPU, CycleAssumption DEF TypeInv, TypeOK, Vcpus
<1> DEFINE visits == Cardinality(todo)
           fewer == Cardinality(todo')
<1>2. pc \in {"sell", "split", "spread", "apply"}
  BY DEF TypeInv, TypeOK
<1>3. /\ pc = "sell" => StepsLeft = visits + 2 * Capacity + 5 * Vcpus + 6
                        /\ StepsLeft' = fewer + 2 * Capacity + 5 * Vcpus + 6
      /\ pc = "split" => StepsLeft = visits + 2 * Vcpus + 3 /\ StepsLeft' = fewer + 2 * Vcpus + 3
      /\ pc = "spread" => StepsLeft = visits + Vcpus + 2 /\ StepsLeft' = fewer + Vcpus + 2
      /\ pc = "apply" => StepsLeft = visits + 1 /\ StepsLeft' = fewer + 1
  BY DEF StepsLeft
<1>4. visits \in Nat /\ fewer = visits - 1
  BY <1>1
<1> HIDE DEF visits, fewer
<1> QED
  BY <1>1, <1>2, <1>3, <1>4

\* A bid buys a cycle, or it is the last one of its vcpu.
LEMMA BidShorter ==
  ASSUME TypeInv, LoopInv, Bid, TypeInv'
  PROVE  StepsLeft' < StepsLeft
<1>1. PICK v \in todo :
        /\ pc = "buy" /\ pc' = "buy"
        /\ \/ \E bought \in Nat \ {0} : market' = market - bought /\ buyers' = buyers
           \/ market' = market /\ buyers' = buyers \ {v}
  BY BidStep
<1>2. v \in buyers /\ buyers \in SUBSET VCPU /\ todo # {}
  BY <1>1 DEF LoopInv, BidInv, TypeInv, TypeOK
<1> DEFINE bidders == Cardinality(buyers)
           fewer == Cardinality(buyers')
<1>3. /\ bidders \in Nat /\ Vcpus \in Nat /\ market \in Int
      /\ fewer = bidders \/ fewer = bidders - 1
      /\ buyers' = buyers \ {v} => fewer = bidders - 1
      /\ buyers' = buyers => fewer = bidders
  BY <1>1, <1>2, VcpuSets, CardinalityVCPU DEF TypeInv, TypeOK, Vcpus
<1>4. /\ StepsLeft = 2 * (market + bidders) + 3 * Vcpus + 3 + 0
      /\ StepsLeft' = 2 * (market' + fewer) + 3 * Vcpus + 3 + (IF todo' = {} THEN 1 ELSE 0)
  BY <1>1, <1>2 DEF StepsLeft
<1> HIDE DEF bidders, fewer
<1>5. market' + fewer <= market + bidders - 1 /\ market' + fewer \in Int
  BY <1>1, <1>3
<1> QED
  BY <1>3, <1>4, <1>5

\* The end of a loop starts one that the count has room for.
LEMMA LoopShorter ==
  ASSUME TypeInv, ConservedInv, TypeInv', ConservedInv',
         EndSelling \/ NextRound \/ StartSplit \/ SoldOut \/ EndSplit \/ EndSpread
  PROVE  StepsLeft' < StepsLeft
<1> DEFINE bidders == Cardinality(buyers)
           visits == Cardinality(todo')
<1>1. /\ bidders \in Nat /\ bidders <= Vcpus /\ visits \in Nat /\ visits <= Vcpus
      /\ Vcpus \in Nat /\ Capacity \in Nat /\ market \in Int
      /\ todo = {} => Cardinality(todo) = 0
      /\ todo' = {} => visits = 0
  BY VcpuSets, CardinalityVCPU, CycleAssumption DEF TypeInv, TypeOK, Vcpus
<1>2. CASE EndSelling
  <2>1. /\ pc = "sell" /\ pc' = "buy" /\ market >= 0 /\ market' = market /\ buyers' = buyers
        /\ todo = {} /\ todo' = {}
    BY <1>2 DEF EndSelling, locals
  <2>2. market' <= Capacity
    <3>1. market' = Capacity - Total(allocated)'
      BY <2>1 DEF ConservedInv, Conservation
    <3>2. Total(allocated)' \in Nat
      BY TotalType DEF TypeInv, TypeOK
    <3> QED
      BY <1>1, <3>1, <3>2
  <2>3. /\ StepsLeft = Cardinality(todo) + 2 * Capacity + 5 * Vcpus + 6
        /\ StepsLeft' = 2 * (market' + bidders) + 3 * Vcpus + 3 + 1
    BY <2>1 DEF StepsLeft
  <2> HIDE DEF bidders
  <2> QED
    BY <1>1, <2>1, <2>2, <2>3
<1>3. CASE NextRound
  <2>0. /\ pc = "buy" /\ pc' = "buy" /\ todo = {} /\ todo' # {}
        /\ market' = market /\ buyers' = buyers
    BY <1>3 DEF NextRound, locals
  <2>1. /\ StepsLeft = 2 * (market + bidders) + 3 * Vcpus + 3 + 1
        /\ StepsLeft' = 2 * (market + bidders) + 3 * Vcpus + 3 + 0
    BY <2>0 DEF StepsLeft
  <2> HIDE DEF bidders
  <2> QED
    BY <1>1, <2>1
<1>4. CASE StartSplit
  <2>1. /\ StepsLeft = 2 * (market + bidders) + 3 * Vcpus + 3 + 1
        /\ StepsLeft' = visits + 2 * Vcpus + 3 /\ market > 0
    BY <1>4 DEF StartSplit, StepsLeft
  <2> HIDE DEF bidders, visits
  <2> QED
    BY <1>1, <2>1
<1>5. CASE SoldOut
  <2>1. /\ StepsLeft = 2 * (market + bidders) + 3 * Vcpus + 3 + 1
        /\ StepsLeft' = visits + 1 /\ market = 0
    BY <1>5 DEF SoldOut, StepsLeft
  <2> HIDE DEF bidders, visits
  <2> QED
    BY <1>1, <2>1
<1>6. CASE EndSplit
  <2>1. /\ StepsLeft = Cardinality(todo) + 2 * Vcpus + 3 /\ todo = {}
        /\ StepsLeft' = visits + Vcpus + 2 \/ StepsLeft' = visits + 1
    BY <1>6 DEF EndSplit, StepsLeft
  <2> HIDE DEF visits
  <2> QED
    BY <1>1, <2>1
<1>7. CASE EndSpread
  <2>1. /\ StepsLeft = Cardinality(todo) + Vcpus + 2 /\ todo = {}
        /\ StepsLeft' = visits + 1
    BY <1>7 DEF EndSpread, StepsLeft
  <2> HIDE DEF visits
  <2> QED
    BY <1>1, <2>1
<1> QED
  BY <1>2, <1>3, <1>4, <1>5, <1>6, <1>7

\* The loops of run end, the rounds of lines 81-112 too: whatever the vcpus want and
\* the rounding of the shares, a run makes no more steps than LongestRun.
THEOREM RunsAreBounded ==
  Spec => /\ [](StepsLeft \in 0..LongestRun /\ (StepsLeft = 0 <=> pc = "idle"))
          /\ [][Step => StepsLeft' < StepsLeft]_vars
<1>1. Init => ConservedInv /\ LoopInv
  BY DEF Init, ConservedInv, Conservation, Unsold, LoopInv, StartInv, BidInv, SplitInv
<1>2. TypeInv /\ ConservedInv =>
        StepsLeft \in 0..LongestRun /\ (StepsLeft = 0 <=> pc = "idle")
  BY StepsBounded
<1>3. TypeInv /\ ConservedInv /\ LoopInv /\ TypeInv' /\ ConservedInv' /\ [Next]_vars
        => [Step => StepsLeft' < StepsLeft]_vars
  <2> SUFFICES ASSUME TypeInv, ConservedInv, LoopInv, TypeInv', ConservedInv', Step
               PROVE  StepsLeft' < StepsLeft
    OBVIOUS
  <2>1. CASE sellBaseCycles
    <3>1. PICK v \in todo : todo' = todo \ {v} /\ pc = "sell" /\ pc' = "sell"
      BY <2>1, SellStep
    <3> QED
      BY <3>1, VisitShorter
  <2>2. CASE Split
    <3>1. PICK v \in todo : todo' = todo \ {v} /\ pc = "split" /\ pc' = "split"
      BY <2>2, SplitStep
    <3> QED
      BY <3>1, VisitShorter
  <2>3. CASE Spread \/ applyMarketAllocation
    <3>1. PICK v \in todo : todo' = todo \ {v} /\ pc \in {"spread", "apply"} /\ pc' = pc
      BY <2>3 DEF Spread, applyMarketAllocation
    <3> QED
      BY <3>1, VisitShorter
  <2>4. CASE Bid
    BY <2>4, BidShorter
  <2>5. CASE EndSelling \/ NextRound \/ StartSplit \/ SoldOut \/ EndSplit \/ EndSpread
    BY <2>5, LoopShorter
  <2>6. CASE OverAllocation \/ EndRun
    <3>1. pc # "idle" /\ pc' = "idle"
      BY <2>6 DEF OverAllocation, EndRun, ReturnFromRun
    <3>2. StepsLeft' = 0
      BY <3>1 DEF StepsLeft
    <3>3. StepsLeft \in 0..LongestRun /\ StepsLeft # 0
      BY <3>1, StepsBounded, Zenon
    <3>4. \A n \in 0..LongestRun : n # 0 => 0 < n
      OBVIOUS
    <3> QED
      BY <3>2, <3>3, <3>4, Zenon
  <2> QED
    BY <2>1, <2>2, <2>3, <2>4, <2>5, <2>6 DEF Step
<1> QED
  BY <1>1, <1>2, <1>3, TypeInvInit, TypeInvNext, ConservedNext, LoopInvNext, PTL DEF Spec
=============================================================================
