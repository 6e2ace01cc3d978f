------------------------ MODULE VCPUControllerProofs ------------------------
(***************************************************************************)
(* Proofs about what VCPUController measures and enforces, for any core,   *)
(* guest, frames and quotas, as long as the counter does not wrap.         *)
(***************************************************************************)
EXTENDS VCPUController, FiniteSets, FiniteSetTheorems, SequenceTheorems, TLAPS

-----------------------------------------------------------------------------
(* The arithmetic of an update. *)

LEMMA ModSmall ==
  ASSUME NEW m \in Nat \ {0}, NEW x \in Nat, x < m
  PROVE  x % m = x /\ (x + m) % m = x
BY Z3

LEMMA WholeWords == Word <= LongWord
<1>1. SUFFICES ASSUME LongWord < Word PROVE FALSE
  BY WordAssumption
<1>2. LongWord % Word = LongWord
  BY <1>1, WordAssumption, ModSmall
<1> QED
  BY <1>2, WordAssumption

\* The cycles of two spans of time add up; a longer span has no fewer.
LEMMA Spans ==
  ASSUME NEW c \in Nat, NEW s \in Nat, NEW t \in Nat
  PROVE  /\ c * (s + t) = c * s + c * t /\ c * s \in Nat
         /\ c * s <= c * (s + t)
<1>1. c * (s + t) = c * s + c * t /\ c * s \in Nat /\ c * t \in Nat
  BY Z3
<1> QED
  BY <1>1

-----------------------------------------------------------------------------
(* The counter and the sums. *)

CounterOK ==
  /\ used \in 0..(Word - 1) /\ elapsed \in Nat /\ registered \in BOOLEAN
  /\ step \in {"idle", "time", "reset"}
  /\ read \in 0..used /\ before \in Nat /\ frames \in 0..2 /\ truth \in Int
  /\ _nbMicros \in Nat /\ _sumConsumption \in 0..(Word - 1) /\ _sumDelta \in Nat
  /\ _consumption \in Nat /\ _delta \in Nat
  /\ pause \in Nat /\ lost \in Nat /\ lag \in Nat

\* What is summed is what the counter has moved since the last frame, or since the
\* boot of the domain when there was none.
SumInv ==
  /\ _microConsumption = read
  /\ frames > 0 \/ _nbMicros > 0 \/ step # "idle" => registered
  /\ frames = 0 => _sumConsumption = read
  /\ frames > 0 => _sumConsumption = read - before
  /\ frames > 1 => _consumption = truth

\* The time since the last reading, and the time of what is summed: once the counter is
\* read, and before the timer is, the sum of times lacks what the timer will show, but
\* for the pause.
sinceRead == IF step = "idle" THEN elapsed + pause ELSE pause
summed == _sumDelta + lost + (IF step = "time" THEN elapsed - pause ELSE 0)

\* No more than a core, since the last reading, in the sums and in the frame.
CoreInv ==
  /\ step = "time" => pause <= elapsed /\ elapsed > 0
  /\ used - read <= Core * sinceRead
  /\ _sumConsumption <= Core * summed
  /\ _consumption <= Core * (_delta + lag)

CounterInv == CounterOK /\ SumInv /\ CoreInv

\* The guest never comes to the end of the word that is read.
ShortRun == Totals \subseteq 0..(Word - 1)

\* An update adds the cycles since the last one.
LEMMA UpdateAdds ==
  ASSUME CounterInv
  PROVE  /\ readUsage = used
         /\ (_sumConsumption + readUsage + LongWord - _microConsumption) % LongWord
              = _sumConsumption + (used - read)
         /\ _sumConsumption + (used - read) \in 0..used
<1>1. used \in Nat /\ read \in Nat /\ _sumConsumption \in Nat /\ used < Word
  BY WordAssumption DEF CounterInv, CounterOK
<1>2. readUsage = used
  BY <1>1, ModSmall, WordAssumption DEF readUsage
<1> DEFINE x == _sumConsumption + (used - read)
<1>3. x \in 0..used
  BY <1>1 DEF CounterInv, CounterOK, SumInv
<1>4. x \in Nat /\ x < LongWord
  BY <1>1, <1>3, WholeWords, WordAssumption
<1>5. _sumConsumption + readUsage + LongWord - _microConsumption = x + LongWord
  BY <1>1, <1>2, WordAssumption DEF CounterInv, SumInv
<1>6. (x + LongWord) % LongWord = x
  BY <1>4, ModSmall, WordAssumption
<1> QED
  BY <1>2, <1>3, <1>5, <1>6

LEMMA CounterInvariant ==
  ASSUME ShortRun
  PROVE  Spec => []CounterInv
<1>1. Init => CounterInv
  <2> SUFFICES ASSUME Init PROVE CounterInv
    OBVIOUS
  <2>1. Core * 0 = 0
    BY MaxAssumption
  <2>2. step = "idle" /\ elapsed = 0 /\ pause = 0 /\ _sumDelta = 0 /\ lost = 0 /\ lag = 0
        /\ used = 0 /\ read = 0 /\ _sumConsumption = 0 /\ _consumption = 0 /\ _delta = 0
    BY DEF Init
  <2>3. CoreInv
    BY <2>1, <2>2 DEF CoreInv, sinceRead, summed
  <2>4. SumInv
    BY DEF Init, SumInv
  <2>5. CounterOK
    <3>1. registered \in BOOLEAN
      BY Zenon DEF Init
    <3>2. 0 \in 0..(Word - 1) /\ 0 \in 0..0 /\ 0 \in 0..2
      BY WordAssumption
    <3> QED
      BY <2>2, <3>1, <3>2 DEF Init, CounterOK
  <2> QED
    BY <2>3, <2>4, <2>5 DEF CounterInv
<1>2. CounterInv /\ [Next]_vars => CounterInv'
  <2> SUFFICES ASSUME CounterInv, [Next]_vars
               PROVE  CounterInv'
    OBVIOUS
  <2> USE DEF CounterInv, CounterOK
  <2>1. ASSUME NEW cycles \in Works, work(cycles)
        PROVE  CounterInv'
    <3>1. cycles \in 0..Core /\ Core \in Nat /\ used + cycles \in 0..(Word - 1)
      BY <2>1, MaxAssumption DEF work, ShortRun
    <3>2. sinceRead \in Nat /\ sinceRead' = sinceRead + 1 /\ summed' = summed
      BY <2>1 DEF work, sinceRead, summed, ticks
    <3>3. Core * sinceRead' = Core * sinceRead + Core * 1
      BY <3>1, <3>2, Spans
    <3>4. used' - read' <= Core * sinceRead'
      <4>1. Core * sinceRead \in Nat
        BY <3>1, <3>2, Spans
      <4> QED
        BY <2>1, <3>1, <3>3, <4>1 DEF work, CoreInv, marks
    <3>5. CoreInv'
      <4>1. step' = "time" => pause' <= elapsed' /\ elapsed' > 0
        BY <2>1 DEF work, CoreInv
      <4>2. _sumConsumption' <= Core * summed' /\ _consumption' <= Core * (_delta' + lag')
        BY <2>1, <3>2 DEF work, CoreInv, ticks, frame
      <4> QED
        BY <3>4, <4>1, <4>2 DEF CoreInv
    <3> QED
      BY <2>1, <3>1, <3>5 DEF work, SumInv, marks, ticks, frame
  <2>2. CASE update
    <3>1. _sumConsumption' = _sumConsumption + (used - read)
      BY <2>2, UpdateAdds DEF update
    <3>2. /\ sinceRead = elapsed + pause /\ sinceRead' = 0
          /\ summed = _sumDelta + lost /\ summed' = summed + sinceRead
      BY <2>2 DEF update, Ticking, sinceRead, summed
    <3>3. Core * summed' = Core * summed + Core * sinceRead /\ Core * 0 = 0
      BY <3>2, MaxAssumption, Spans
    <3>4. CoreInv'
      <4>1. Core * summed \in Nat /\ Core * sinceRead \in Nat
        BY <3>2, MaxAssumption, Spans
      <4>2. used' - read' <= Core * sinceRead'
        BY <2>2, <3>2, <3>3 DEF update
      <4>3. _sumConsumption' <= Core * summed'
        BY <3>1, <3>3, <4>1 DEF CoreInv
      <4>4. step' = "time" => pause' <= elapsed' /\ elapsed' > 0
        BY <2>2 DEF update, Ticking
      <4> QED
        BY <2>2, <4>2, <4>3, <4>4 DEF update, CoreInv, frame
    <3>5. SumInv'
      BY <2>2, <3>1, UpdateAdds DEF update, Ticking, SumInv, frame
    <3>6. _sumConsumption' \in 0..(Word - 1)
      BY <3>1, UpdateAdds, WordAssumption
    <3>7. read' \in 0..used'
      BY <2>2 DEF update
    <3> QED
      BY <2>2, <3>4, <3>5, <3>6, <3>7 DEF update, frame
  <2>3. CASE time_since_start
    <3>1. summed \in Nat /\ summed' = summed + pause /\ sinceRead' = sinceRead
      BY <2>3 DEF time_since_start, summed, sinceRead, CoreInv, pauses
    <3>2. Core * summed <= Core * summed' /\ Core * summed \in Nat /\ Core * summed' \in Nat
      <4>1. summed' \in Nat
        BY <3>1
      <4> QED
        BY <3>1, <4>1, MaxAssumption, Spans
    <3>3. CoreInv'
      BY <2>3, <3>1, <3>2 DEF time_since_start, CoreInv, marks, frame, pauses
    <3> QED
      BY <2>3, <3>3 DEF time_since_start, SumInv, marks, frame, pauses
  <2>4. CASE reset
    <3>1. summed' = summed /\ sinceRead' = sinceRead
      BY <2>4 DEF reset, summed, sinceRead, ticks, pauses
    <3>2. CoreInv'
      BY <2>4, <3>1 DEF reset, CoreInv, ticks, marks, frame, pauses
    <3> QED
      BY <2>4, <3>2 DEF reset, SumInv, ticks, marks, frame, pauses
  <2>5. CASE updateBeforeMarket
    <3>1. /\ summed = _delta' + lag' /\ summed' = 0 /\ sinceRead' = sinceRead
          /\ Core * 0 = 0
      BY <2>5, MaxAssumption DEF updateBeforeMarket, summed, sinceRead
    <3>2. CoreInv'
      BY <2>5, <3>1 DEF updateBeforeMarket, CoreInv
    <3> QED
      BY <2>5, <3>2, WordAssumption DEF updateBeforeMarket, SumInv
  <2>6. CASE register
    BY <2>6 DEF register, SumInv, CoreInv, sinceRead, summed, ticks, frame, pauses
  <2>7. CASE enable \/ \E s \in Scope : moveScope(s)
    BY <2>7 DEF enable, moveScope, SumInv, CoreInv, sinceRead, summed, ticks, frame, marks,
                pauses
  <2>8. CASE \E nbMicros \in Quotas : setQuota(nbMicros)
    BY <2>8 DEF setQuota, SumInv, CoreInv, sinceRead, summed, ticks, frame, marks, pauses
  <2>9. CASE UNCHANGED vars
    BY <2>9 DEF vars, SumInv, CoreInv, sinceRead, summed, ticks, frame, marks, pauses
  <2> QED
    BY <2>1, <2>2, <2>3, <2>4, <2>5, <2>6, <2>7, <2>8, <2>9 DEF Next
<1> QED
  BY <1>1, <1>2, PTL DEF Spec

\* From the second frame on _consumption is what the vcpu has consumed in the frame,
\* as long as the counter stays below 2^32.
THEOREM FramesMeasured ==
  ASSUME ShortRun
  PROVE  Spec => []LaterTicksMeasured
<1>1. CounterInv => LaterTicksMeasured
  BY DEF CounterInv, CounterOK, SumInv, LaterTicksMeasured
<1> QED
  BY <1>1, CounterInvariant, PTL

\* No cycle between two frames is lost or summed twice.
THEOREM EachCycleOnce ==
  ASSUME ShortRun
  PROVE  Spec => []NothingLost
<1>1. ASSUME CounterInv PROVE NothingLost
  <2>1. frames >= 1 => _sumConsumption - (read - before) = 0
    BY <1>1 DEF CounterInv, CounterOK, SumInv
  <2>2. 0 % Word = 0
    BY ModSmall, WordAssumption
  <2> QED
    BY <2>1, <2>2 DEF NothingLost
<1> QED
  BY <1>1, CounterInvariant, PTL

\* No frame, the first one included, shows more than what a core does in its time and in
\* the pauses of its updates; the pauses of other frames do not count.
THEOREM AtMostACore ==
  ASSUME ShortRun
  PROVE  Spec => []RateWithinCore
<1>1. CounterInv => RateWithinCore
  BY DEF CounterInv, CoreInv, RateWithinCore
<1> QED
  BY <1>1, CounterInvariant, PTL

-----------------------------------------------------------------------------
(* The quota. *)

\* What is in force is what the controller remembers.
LimitInv == limit # <<>> => limit = <<_quota, _period>>

LEMMA LimitInvariant ==
  ASSUME V2 \/ Period = KernelPeriod
  PROVE  Spec => []LimitInv
<1> USE DEF LimitInv
<1>1. Init => LimitInv
  BY DEF Init
<1>2. LimitInv /\ [Next]_vars => LimitInv'
  <2> SUFFICES ASSUME LimitInv, [Next]_vars
               PROVE  LimitInv'
    OBVIOUS
  <2>1. CASE \E cycles \in Works : work(cycles)
    BY <2>1 DEF work, cgroup, capping
  <2>2. CASE update \/ time_since_start \/ reset
    BY <2>2 DEF update, time_since_start, reset, cgroup, capping
  <2>3. CASE updateBeforeMarket
    BY <2>3 DEF updateBeforeMarket, cgroup, capping
  <2>4. CASE register
    BY <2>4 DEF register, cgroup, capping
  <2>5. CASE enable \/ \E s \in Scope : moveScope(s)
    BY <2>5 DEF enable, moveScope, cgroup, capping
  <2>6. CASE \E nbMicros \in Quotas : setQuota(nbMicros)
    BY <2>6, QuotaAssumption DEF setQuota, setLimit, cgroup
  <2>7. CASE UNCHANGED vars
    BY <2>7 DEF vars, cgroup, capping
  <2> QED
    BY <2>1, <2>2, <2>3, <2>4, <2>5, <2>6, <2>7 DEF Next
<1> QED
  BY <1>1, <1>2, PTL DEF Spec

\* The quota that is read back is the one in force, where the kernel takes the
\* period of the daemon or has the same one.
THEOREM QuotaReadBack ==
  ASSUME V2 \/ Period = KernelPeriod
  PROVE  Spec => []EnforcedIsReported
<1>1. LimitInv => EnforcedIsReported
  BY DEF LimitInv, EnforcedIsReported
<1> QED
  BY <1>1, LimitInvariant, PTL

-----------------------------------------------------------------------------
(* The slope. *)

Pick(s) == CHOOSE x \in s : TRUE

\* A sum takes its terms in any order, each one once.
LEMMA SumOfFive ==
  ASSUME NEW f \in [1..5 -> Int]
  PROVE  SumFunction(f) = f[1] + f[2] + f[3] + f[4] + f[5]
<1> DEFINE part(s, x) == IF x \in s THEN f[x] ELSE 0
           total == [s \in SUBSET (1..5) |->
                       part(s, 1) + part(s, 2) + part(s, 3) + part(s, 4) + part(s, 5)]
           rest(s, g) == IF s = {} THEN 0 ELSE f[Pick(s)] + g[s \ {Pick(s)}]
           isSum(g) == g = [s \in SUBSET (1..5) |-> rest(s, g)]
           sum == CHOOSE g : isSum(g)
<1>1. DOMAIN f = 1..5
  OBVIOUS
<1>2. SumFunction(f) = sum[1..5]
  BY <1>1, Zenon DEF SumFunction, SumFunctionOnSet, FoldFunctionOnSet, MapThenFoldSet, Pick
<1>3. ASSUME NEW s \in SUBSET (1..5), s # {}
      PROVE  /\ Pick(s) \in s /\ s \ {Pick(s)} \in SUBSET (1..5)
             /\ total[s] = f[Pick(s)] + total[s \ {Pick(s)}]
  <2>1. Pick(s) \in s
    BY <1>3, Zenon DEF Pick
  <2> DEFINE p == Pick(s)
             r == s \ {p}
  <2>2. r \in SUBSET (1..5)
    OBVIOUS
  <2> HIDE DEF p
  <2>3. p \in s
    BY <2>1 DEF p
  <2>4. p \in {1, 2, 3, 4, 5}
    BY <2>3
  <2>5. \A x \in 1..5 : part(s, x) \in Int
    OBVIOUS
  <2>6. \A x \in 1..5 : part(r, x) = IF x = p THEN 0 ELSE part(s, x)
    OBVIOUS
  <2>7. part(s, p) = f[p]
    BY <2>3
  <2> HIDE DEF part
  <2>8. f[p] \in Int
    BY <2>4
  <2>9. /\ total[s] = part(s, 1) + part(s, 2) + part(s, 3) + part(s, 4) + part(s, 5)
        /\ total[r] = part(r, 1) + part(r, 2) + part(r, 3) + part(r, 4) + part(r, 5)
    BY <2>2, Zenon
  <2> HIDE DEF total, r
  <2>10. total[s] = f[p] + total[r]
    BY <2>4, <2>5, <2>6, <2>7, <2>8, <2>9
  <2> QED
    BY <2>1, <2>2, <2>10 DEF p, r
<1>4. total = [s \in SUBSET (1..5) |-> rest(s, total)]
  <2>1. total[{}] = 0
    OBVIOUS
  <2>2. \A s \in SUBSET (1..5) : total[s] = rest(s, total)
    <3> HIDE DEF total
    <3> QED
      BY <2>1, <1>3, Zenon
  <2> QED
    BY <2>2, Zenon
<1>5. isSum(sum)
  <2> HIDE DEF total
  <2>1. isSum(total)
    BY <1>4
  <2> QED
    BY <2>1, Zenon
<1>6. \A s \in SUBSET (1..5) : sum[s] = rest(s, sum)
  <2> HIDE DEF sum
  <2> QED
    BY <1>5, Zenon
<1>b. 1 \in Int /\ 5 \in Int /\ IsFiniteSet(1..5) /\ Cardinality(1..5) = 5
  <2>1. 1 \in Int /\ 5 \in Int
    OBVIOUS
  <2>2. IsFiniteSet(1..5) /\ Cardinality(1..5) = IF 1 > 5 THEN 0 ELSE 5 - 1 + 1
    BY <2>1, FS_Interval, Zenon
  <2> QED
    BY <2>2
<1>a. \A s \in SUBSET (1..5) : IsFiniteSet(s)
  BY <1>b, FS_Subset, Zenon
<1>7. ASSUME NEW n \in Nat,
             \A s \in SUBSET (1..5) : Cardinality(s) = n => sum[s] = total[s]
      PROVE  \A s \in SUBSET (1..5) : Cardinality(s) = n + 1 => sum[s] = total[s]
  <2> SUFFICES ASSUME NEW s \in SUBSET (1..5), Cardinality(s) = n + 1
               PROVE  sum[s] = total[s]
    OBVIOUS
  <2> HIDE DEF sum, total
  <2>1. IsFiniteSet(s)
    BY <1>a
  <2>2. s # {}
    BY FS_EmptySet
  <2>3. Pick(s) \in s /\ s \ {Pick(s)} \in SUBSET (1..5) /\ total[s] = f[Pick(s)] + total[s \ {Pick(s)}]
    BY <1>3, <2>2
  <2>4. Cardinality(s \ {Pick(s)}) = n
    <3> DEFINE p == Pick(s)
    <3> HIDE DEF p
    <3>1. p \in s
      BY <2>3 DEF p
    <3>2. Cardinality(s \ {p}) = IF p \in s THEN Cardinality(s) - 1 ELSE Cardinality(s)
      BY <2>1, FS_RemoveElement, Zenon
    <3> QED
      BY <3>1, <3>2 DEF p
  <2>5. sum[s] = f[Pick(s)] + sum[s \ {Pick(s)}]
    BY <1>6, <2>2
  <2> QED
    BY <1>7, <2>3, <2>4, <2>5
<1>8. \A s \in SUBSET (1..5) : Cardinality(s) = 0 => sum[s] = total[s]
  <2> HIDE DEF sum
  <2>1. \A s \in SUBSET (1..5) : Cardinality(s) = 0 => s = {}
    BY <1>a, FS_EmptySet, Zenon
  <2>2. {} \in SUBSET (1..5)
    OBVIOUS
  <2>3. total[{}] = 0
    BY <2>2
  <2>4. sum[{}] = rest({}, sum)
    <3> HIDE DEF rest
    <3> QED
      BY <1>6, <2>2
  <2> QED
    BY <2>1, <2>3, <2>4
<1>9. \A s \in SUBSET (1..5) : Cardinality(s) = 5 => sum[s] = total[s]
  <2> HIDE DEF sum, total
  <2> DEFINE same(n) == \A s \in SUBSET (1..5) : Cardinality(s) = n => sum[s] = total[s]
  <2>1. \A n \in Nat : same(n) => same(n + 1)
    BY <1>7
  <2>2. same(0)
    BY <1>8
  <2> HIDE DEF same
  <2>3. same(5)
    BY <2>1, <2>2
  <2> QED
    BY <2>3 DEF same
<1>10. sum[1..5] = total[1..5]
  <2> HIDE DEF sum, total
  <2> QED
    BY <1>9, <1>b
<1>11. total[1..5] = f[1] + f[2] + f[3] + f[4] + f[5]
  OBVIOUS
<1> HIDE DEF sum, total
<1> QED
  BY <1>2, <1>10, <1>11

\* The distances of five numbers to their mean, weighted by their places.
LEMMA Weighted ==
  ASSUME NEW a \in Int, NEW b \in Int, NEW c \in Int, NEW d \in Int, NEW e \in Int,
         NEW s \in Int, s = a + b + c + d + e
  PROVE  (5 * 1 - 15) * (5 * a - s) + (5 * 2 - 15) * (5 * b - s) + (5 * 3 - 15) * (5 * c - s)
           + (5 * 4 - 15) * (5 * d - s) + (5 * 5 - 15) * (5 * e - s)
           = 50 * (e - a) + 25 * (d - b)
BY Z3

\* The slope of five consumptions is that of their four steps.
LEMMA SlopeOfFive ==
  ASSUME NEW h \in Seq(Int), Len(h) = 5
  PROVE  /\ Slope(h) = 50 * (h[5] - h[1]) + 25 * (h[4] - h[2])
         /\ MaxHistory = 5 => Variance = 250
<1>1. h \in [1..5 -> Int]
  <2>1. h \in [1..Len(h) -> Int]
    BY LenProperties, Zenon
  <2> QED
    BY <2>1
<1>2. SumFunction(h) = h[1] + h[2] + h[3] + h[4] + h[5]
  BY <1>1, SumOfFive
<1> DEFINE xs == [x \in 1..5 |-> x]
<1>3. xs \in [1..5 -> Int] /\ xs[1] = 1 /\ xs[2] = 2 /\ xs[3] = 3 /\ xs[4] = 4 /\ xs[5] = 5
  OBVIOUS
<1>4. SumFunction(xs) = 15
  <2> HIDE DEF xs
  <2> QED
    BY <1>3, SumOfFive
<1> DEFINE sum_y == h[1] + h[2] + h[3] + h[4] + h[5]
           ps == [x \in 1..5 |-> (5 * x - 15) * (5 * h[x] - sum_y)]
           vs == [x \in 1..5 |-> (5 * x - 15) * (5 * x - 15)]
<1>5. /\ sum_y \in Int /\ h[1] \in Int /\ h[2] \in Int /\ h[3] \in Int
      /\ h[4] \in Int /\ h[5] \in Int
  BY <1>1
<1>6. SumFunction(ps) = 50 * (h[5] - h[1]) + 25 * (h[4] - h[2])
  <2>1. ps \in [1..5 -> Int]
    <3> HIDE DEF sum_y
    <3>1. \A x \in 1..5 : h[x] \in Int
      BY <1>1
    <3>2. \A x \in 1..5 : 5 * x - 15 \in Int /\ 5 * h[x] - sum_y \in Int
      BY <3>1, <1>5
    <3>3. \A a, b \in Int : a * b \in Int
      OBVIOUS
    <3>4. \A x \in 1..5 : (5 * x - 15) * (5 * h[x] - sum_y) \in Int
      BY <3>2, <3>3
    <3> QED
      BY <3>4, Zenon
  <2>2. \A x \in 1..5 : ps[x] = (5 * x - 15) * (5 * h[x] - sum_y)
    BY Zenon
  <2>3. SumFunction(ps) = ps[1] + ps[2] + ps[3] + ps[4] + ps[5]
    <3> HIDE DEF ps
    <3> QED
      BY <2>1, SumOfFive
  <2> HIDE DEF ps
  <2>4. 1 \in 1..5 /\ 2 \in 1..5 /\ 3 \in 1..5 /\ 4 \in 1..5 /\ 5 \in 1..5
    OBVIOUS
  <2>5. SumFunction(ps)
          = (5 * 1 - 15) * (5 * h[1] - sum_y) + (5 * 2 - 15) * (5 * h[2] - sum_y)
            + (5 * 3 - 15) * (5 * h[3] - sum_y) + (5 * 4 - 15) * (5 * h[4] - sum_y)
            + (5 * 5 - 15) * (5 * h[5] - sum_y)
    <3> HIDE DEF sum_y
    <3> QED
      BY <2>2, <2>3, <2>4, Zenon
  <2>6. sum_y = h[1] + h[2] + h[3] + h[4] + h[5]
    OBVIOUS
  <2> HIDE DEF sum_y
  <2>7. (5 * 1 - 15) * (5 * h[1] - sum_y) + (5 * 2 - 15) * (5 * h[2] - sum_y)
          + (5 * 3 - 15) * (5 * h[3] - sum_y) + (5 * 4 - 15) * (5 * h[4] - sum_y)
          + (5 * 5 - 15) * (5 * h[5] - sum_y) = 50 * (h[5] - h[1]) + 25 * (h[4] - h[2])
    <3> DEFINE a == h[1]
               b == h[2]
               c == h[3]
               d == h[4]
               e == h[5]
    <3>1. /\ a \in Int /\ b \in Int /\ c \in Int /\ d \in Int /\ e \in Int
          /\ sum_y \in Int /\ sum_y = a + b + c + d + e
      BY <2>6, <1>5, Zenon
    <3> HIDE DEF a, b, c, d, e
    <3>2. (5 * 1 - 15) * (5 * a - sum_y) + (5 * 2 - 15) * (5 * b - sum_y)
            + (5 * 3 - 15) * (5 * c - sum_y) + (5 * 4 - 15) * (5 * d - sum_y)
            + (5 * 5 - 15) * (5 * e - sum_y) = 50 * (e - a) + 25 * (d - b)
      BY <3>1, Weighted
    <3> QED
      BY <3>2, Zenon DEF a, b, c, d, e
  <2> QED
    BY <2>5, <2>7, Zenon
<1>7. SumFunction(vs) = 250
  <2>1. vs \in [1..5 -> Int] /\ vs[1] = 100 /\ vs[2] = 25 /\ vs[3] = 0 /\ vs[4] = 25
        /\ vs[5] = 100
    OBVIOUS
  <2> HIDE DEF vs
  <2> QED
    BY <2>1, SumOfFive
<1>8. Slope(h) = SumFunction(ps)
  <2> HIDE DEF sum_y
  <2> QED
    BY <1>2, <1>4, Zenon DEF Slope, sum_y
<1>9. MaxHistory = 5 => Variance = SumFunction(vs)
  BY <1>4, Zenon DEF Variance
<1> QED
  BY <1>6, <1>7, <1>8, <1>9

\* A full history always has its slope beside it; every frame has had an update.
SlopeInv ==
  /\ CounterInv
  /\ _nbMicros > 0 => _sumDelta > 0
  /\ _history \in Seq(Int) /\ Len(_history) <= MaxHistory
  /\ Len(_history) = MaxHistory => _slope = Slope(_history)

\* A frame drops the oldest consumption and no other.
LEMMA HistoryKept ==
  ASSUME MaxHistory = 5, NEW value \in Int,
         _history \in Seq(Int), Len(_history) <= MaxHistory, addToHistory(value)
  PROVE  /\ _history' \in Seq(Int) /\ Len(_history') <= MaxHistory
         /\ Len(_history') = MaxHistory => _slope' = Slope(_history')
<1> DEFINE longer == Append(_history, value)
<1>1. longer \in Seq(Int) /\ Len(longer) = Len(_history) + 1 /\ longer # <<>>
  OBVIOUS
<1>2. Len(longer) <= 6 /\ Tail(longer) \in Seq(Int) /\ Len(Tail(longer)) = Len(longer) - 1
  BY <1>1
<1> HIDE DEF longer
<1>3. /\ _history' = IF Len(longer) > MaxHistory THEN Tail(longer) ELSE longer
      /\ Len(_history') = MaxHistory => _slope' = Slope(_history')
  BY DEF addToHistory, longer
<1>4. Len(longer) \in Nat
  BY <1>1
<1> QED
  BY <1>1, <1>2, <1>3, <1>4

\* With histories of five, as vcpu.hh:137 makes them, a consumption that has only risen
\* in the last five frames, by 1% of a core or more in all, is not stable for the market,
\* in steps of any size.
THEOREM RisingSeen ==
  ASSUME ShortRun, MaxHistory = 5
  PROVE  Spec => []TrendSeen
<1>1. Init /\ CounterInv => SlopeInv
  <2> SUFFICES ASSUME Init, CounterInv PROVE SlopeInv
    OBVIOUS
  <2>1. _history = <<>> /\ _nbMicros = 0
    BY DEF Init
  <2>2. <<>> \in Seq(Int) /\ Len(<<>>) = 0
    OBVIOUS
  <2> QED
    BY <2>1, <2>2 DEF SlopeInv
<1>2. SlopeInv /\ [Next]_vars /\ CounterInv' => SlopeInv'
  <2> SUFFICES ASSUME SlopeInv, [Next]_vars, CounterInv'
               PROVE  SlopeInv'
    OBVIOUS
  <2> USE DEF SlopeInv
  <2>1. CASE \E cycles \in Works : work(cycles)
    BY <2>1 DEF work, ticks, frame
  <2>2. CASE update
    BY <2>2 DEF update, frame
  <2>8. CASE time_since_start
    <3>1. _sumDelta' > 0
      BY <2>8 DEF time_since_start, CounterInv, CounterOK, CoreInv
    <3> QED
      BY <2>8, <3>1 DEF time_since_start, frame
  <2>9. CASE reset
    BY <2>9 DEF reset, ticks, frame
  <2>3. CASE updateBeforeMarket
    <3> DEFINE value == getAbsoluteConsumption(_sumConsumption, _sumDelta)
    <3>1. value \in Int
      BY <2>3 DEF updateBeforeMarket, CounterInv, CounterOK, getAbsoluteConsumption
    <3>2. addToHistory(value)
      BY <2>3, Zenon DEF updateBeforeMarket
    <3>3. /\ _history' \in Seq(Int) /\ Len(_history') <= MaxHistory
          /\ Len(_history') = MaxHistory => _slope' = Slope(_history')
      <4> HIDE DEF value
      <4> QED
        BY <3>1, <3>2, HistoryKept
    <3>4. _nbMicros' = 0
      BY <2>3 DEF updateBeforeMarket
    <3> QED
      BY <3>3, <3>4
  <2>4. CASE register
    BY <2>4 DEF register, ticks, frame
  <2>5. CASE enable \/ \E s \in Scope : moveScope(s)
    BY <2>5 DEF enable, moveScope, ticks, frame
  <2>6. CASE \E nbMicros \in Quotas : setQuota(nbMicros)
    BY <2>6 DEF setQuota, ticks, frame
  <2>7. CASE UNCHANGED vars
    BY <2>7 DEF vars, ticks, frame
  <2> QED
    BY <2>1, <2>2, <2>3, <2>4, <2>5, <2>6, <2>7, <2>8, <2>9 DEF Next
<1>3. SlopeInv => TrendSeen
  <2> SUFFICES ASSUME SlopeInv, Len(_history) = 5, Rising,
                      100 * (_history[5] - _history[1]) >= Core
               PROVE  ~ Stable
    BY DEF TrendSeen
  <2>1. _slope = Slope(_history) /\ _history \in Seq(Int)
    BY DEF SlopeInv
  <2>2. _slope = 50 * (_history[5] - _history[1]) + 25 * (_history[4] - _history[2])
    BY <2>1, SlopeOfFive
  <2>3. Variance = 250
    BY <2>1, SlopeOfFive
  <2>4. /\ _history[1] \in Int /\ _history[2] \in Int /\ _history[3] \in Int
        /\ _history[4] \in Int /\ _history[5] \in Int
    <3>1. _history \in [1..Len(_history) -> Int]
      BY <2>1, LenProperties, Zenon
    <3> QED
      BY <3>1
  <2>5. _history[2] <= _history[3] /\ _history[3] <= _history[4]
    BY DEF Rising
  <2> QED
    BY <2>2, <2>3, <2>4, <2>5, MaxAssumption DEF Stable
<1> QED
  BY <1>1, <1>2, <1>3, CounterInvariant, PTL DEF Spec
=============================================================================
