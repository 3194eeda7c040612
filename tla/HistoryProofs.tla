---------------------------- MODULE HistoryProofs ----------------------------
(***************************************************************************)
(* Proofs about what is computed from daily histories, for every history,  *)
(* request, strategy and log.                                              *)
(*                                                                         *)
(* A backtest: the indicators are causal, that is, what each has computed  *)
(* up to a bar is what it computes when the bars after it are not there.   *)
(* So are the signals drawn from them.  The invariant keeps, with the bars *)
(* and the signals of the run, that every trade answers a signal of the    *)
(* bar before it.                                                          *)
(*                                                                         *)
(* A report: the books of a log, cash and holdings after each trade, are   *)
(* the thread.  The curve shows the books of each session, the guard rolls *)
(* the last of them on to the end of the log, and the invariant says that  *)
(* those at the end are the account.                                       *)
(***************************************************************************)
EXTENDS Backtest, Analytics, Induction

-----------------------------------------------------------------------------
(* Arithmetic of the strategies *)

\* An exact division has a whole result.
LEMMA ExactlyType ==
  ASSUME NEW a \in Int, NEW b \in Int
  PROVE  Exactly(a, b) \in Int
<1>1. (CHOOSE q \in Int : TRUE) \in Int
  <2>1. \E q \in Int : TRUE
    BY 0 \in Int
  <2>. QED BY <2>1
<1>2. b > 0 => a \div b \in Int
  OBVIOUS
<1>. QED BY <1>1, <1>2 DEF Exactly

\* A number an int can hold is itself as one.
LEMMA AsIntIs ==
  ASSUME NEW n \in Int, 0 <= n, n <= IntMax
  PROVE  AsInt(n) = n
<1> DEFINE M == IntMax + 1
           x == n + M
           d == 2 * M
           q == x \div d
<1>1. IntMax \in Nat /\ M \in Nat /\ M > 0 /\ d = M + M /\ x >= 0 /\ x < d /\ x \in Int /\ d \in Nat /\ d > 0
  BY StrategiesAssumption
<1>. HIDE DEF x, d, M
<1>2. q \in Int /\ x = d * q + (x % d) /\ x % d \in 0..(d - 1)
  BY <1>1
<1>3. q = 0
  <2>1. CASE q >= 1
    <3>1. d * q >= d
      BY <1>1, <1>2, <2>1
    <3>. QED BY <1>1, <1>2, <3>1
  <2>2. CASE q <= -1
    <3>1. d * q <= -d
      BY <1>1, <1>2, <2>2
    <3>. QED BY <1>1, <1>2, <3>1
  <2>. QED BY <1>2, <2>1, <2>2
<1>. HIDE DEF q
<1>4. x % d = x
  <2>1. d * q = 0
    BY <1>1, <1>3
  <2>. QED BY <1>1, <1>2, <2>1
<1>5. AsInt(n) = (x % d) - M
  <2>1. n + IntMax + 1 = x /\ 2 * (IntMax + 1) = d /\ IntMax + 1 = M
    BY <1>1 DEF x, d, M
  <2>. QED BY <2>1 DEF AsInt
<1>. QED BY <1>1, <1>4, <1>5 DEF x

-----------------------------------------------------------------------------
(* Indicators: what each computes, and from which bars *)

\* Two sequences that are alike in their first m places.
Agree(a, b, m) == m <= Len(a) /\ m <= Len(b) /\ \A i \in 1..m : a[i] = b[i]

\* Agreement, with what is known of the lengths.
LEMMA AgreeMeans ==
  ASSUME NEW a \in Seq(Int), NEW b \in Seq(Int), NEW m \in Nat, Agree(a, b, m)
  PROVE  Len(a) \in Nat /\ Len(b) \in Nat /\ m <= Len(a) /\ m <= Len(b) /\ \A i \in 1..m : a[i] = b[i]
<1>1. Len(a) \in Nat /\ Len(b) \in Nat
  OBVIOUS
<1>2. m <= Len(a) /\ m <= Len(b) /\ \A i \in 1..m : a[i] = b[i]
  BY Zenon DEF Agree
<1>. QED BY <1>1, <1>2, Zenon

\* The moving average, from its running sum.
LEMMA movingAveragesIs ==
  ASSUME NEW a \in Seq(Int), NEW window \in Nat \ {0}
  PROVE  \E sum \in [0..Len(a) -> Int] :
           /\ sum[0] = 0
           /\ \A i \in 1..Len(a) :
                sum[i] = sum[i - 1] + a[i] - (IF i > window THEN a[i - window] ELSE 0)
           /\ movingAverages(a, window) =
                [i \in 1..Len(a) |-> IF i >= window THEN Exactly(sum[i], window) ELSE 0]
<1> DEFINE n == Len(a)
           gone(i) == IF i > window THEN a[i - window] ELSE 0
           Running(f) == f = [i \in 0..n |-> IF i = 0 THEN 0 ELSE f[i - 1] + a[i] - gone(i)]
           step == [i \in 1..n |-> [x \in Int |-> x + a[i] - gone(i)]]
<1>1. n \in Nat /\ \A i \in 1..n : a[i] \in Int /\ gone(i) \in Int
  <2>1. n \in Nat /\ \A i \in 1..n : a[i] \in Int
    OBVIOUS
  <2>2. \A i \in 1..n : i > window => i - window \in 1..n
    BY <2>1
  <2>. QED BY <2>1, <2>2
<1>. HIDE DEF gone
<1>2. step \in [1..n -> [Int -> Int]] /\ 0 \in Int
  BY <1>1
<1>3. PICK f \in [0..n -> Int] : f[0] = 0 /\ \A i \in 1..n : f[i] = step[i][f[i - 1]]
  <2>1. Runnable(n, Int, 0, step)
    <3>. HIDE DEF step, n
    <3>. QED BY <1>1, <1>2, ForwardRecursionExists
  <2>. HIDE DEF step, n
  <2>. QED BY <2>1 DEF Runnable, Runs
<1>4. Running(f) /\ \A i \in 1..n : f[i] = f[i - 1] + a[i] - gone(i)
  <2>1. \A i \in 1..n : f[i] = f[i - 1] + a[i] - gone(i)
    <3>1. \A i \in 1..n : f[i - 1] \in Int
      BY <1>1
    <3>. QED BY <1>3, <3>1
  <2>. QED BY <1>1, <1>3, <2>1
<1> DEFINE g == CHOOSE f_ : Running(f_)
<1>5. Running(g)
  <2>. HIDE DEF Running
  <2>. QED BY <1>4
<1>6. movingAverages(a, window) =
        [i \in 1..n |-> IF i >= window THEN Exactly(g[i], window) ELSE 0]
  BY DEF movingAverages, gone
<1>7. \A i \in 0..n : g[i] = f[i]
  <2>. HIDE DEF g
  <2>1. g[0] = f[0]
    BY <1>1, <1>4, <1>5
  <2>2. \A i \in 1..n : g[i] = g[i - 1] + a[i] - gone(i)
    <3>1. \A i \in 1..n : i \in 0..n /\ i # 0
      BY <1>1
    <3>. QED BY <1>5, <3>1
  <2>3. \A i \in 1..n : g[i - 1] = f[i - 1] => g[i] = f[i]
    BY <1>4, <2>2
  <2>4. Alike(g, f, n)
    BY <1>1, <2>1, <2>3, AgreeAlong DEF Stepwise
  <2>. QED BY <2>4 DEF Alike
<1>8. movingAverages(a, window) =
        [i \in 1..n |-> IF i >= window THEN Exactly(f[i], window) ELSE 0]
  <2>. HIDE DEF g
  <2>. QED BY <1>1, <1>6, <1>7
<1>. QED BY <1>3, <1>4, <1>8 DEF gone

\* It uses the past alone.
LEMMA movingAveragesCausal ==
  ASSUME NEW a \in Seq(Int), NEW b \in Seq(Int), NEW m \in Nat, Agree(a, b, m),
         NEW window \in Nat \ {0}
  PROVE  /\ movingAverages(a, window) \in Seq(Int)
         /\ Len(movingAverages(a, window)) = Len(a)
         /\ Agree(movingAverages(a, window), movingAverages(b, window), m)
<1>1. PICK f \in [0..Len(a) -> Int] :
           /\ f[0] = 0
           /\ \A i \in 1..Len(a) :
                f[i] = f[i - 1] + a[i] - (IF i > window THEN a[i - window] ELSE 0)
           /\ movingAverages(a, window) =
                [i \in 1..Len(a) |-> IF i >= window THEN Exactly(f[i], window) ELSE 0]
  BY movingAveragesIs
<1>2. PICK g \in [0..Len(b) -> Int] :
           /\ g[0] = 0
           /\ \A i \in 1..Len(b) :
                g[i] = g[i - 1] + b[i] - (IF i > window THEN b[i - window] ELSE 0)
           /\ movingAverages(b, window) =
                [i \in 1..Len(b) |-> IF i >= window THEN Exactly(g[i], window) ELSE 0]
  BY movingAveragesIs
<1>3. Len(a) \in Nat /\ Len(b) \in Nat /\ m <= Len(a) /\ m <= Len(b) /\ \A i \in 1..m : a[i] = b[i]
  BY AgreeMeans
<1>4. \A i \in 0..m : f[i] = g[i]
  <2>1. ASSUME NEW i \in 1..m, f[i - 1] = g[i - 1]
        PROVE  f[i] = g[i]
    <3>1. i \in 1..Len(a) /\ i \in 1..Len(b) /\ a[i] = b[i]
      BY <1>3
    <3>2. (IF i > window THEN a[i - window] ELSE 0) = (IF i > window THEN b[i - window] ELSE 0)
      <4>1. i > window => i - window \in 1..m
        BY <1>3
      <4>. QED BY <1>3, <4>1
    <3>. QED BY <1>1, <1>2, <2>1, <3>1, <3>2, SMTT(30)
  <2>2. Alike(f, g, m)
    BY <1>1, <1>2, <2>1, AgreeAlong DEF Stepwise
  <2>. QED BY <2>2 DEF Alike
<1>5. \A i \in 1..Len(a) : Exactly(f[i], window) \in Int
  <2>1. ASSUME NEW i \in 1..Len(a)
        PROVE  Exactly(f[i], window) \in Int
    <3>1. i \in 0..Len(a)
      BY <1>3
    <3>2. f[i] \in Int /\ window \in Int
      BY <3>1, SMTT(30)
    <3>. QED BY <3>2, ExactlyType
  <2>. QED BY <2>1
<1>6. movingAverages(a, window) \in Seq(Int) /\ Len(movingAverages(a, window)) = Len(a)
  BY <1>1, <1>3, <1>5
<1>7. Len(movingAverages(b, window)) = Len(b)
  BY <1>2, <1>3
<1>8. \A i \in 1..m : movingAverages(a, window)[i] = movingAverages(b, window)[i]
  BY <1>1, <1>2, <1>3, <1>4
<1>. QED BY <1>3, <1>6, <1>7, <1>8 DEF Agree

\* The exponential average, from its seed.
LEMMA emaIs ==
  ASSUME NEW a \in Seq(Int), NEW period \in Nat \ {0}
  PROVE  \E e \in [0..Len(a) -> Int] :
           /\ e[0] = 0
           /\ \A i \in 1..Len(a) :
                e[i] = IF i < period THEN 0
                       ELSE IF i = period THEN Exactly(SumSeq(SubSeq(a, 1, period)), period)
                       ELSE Exactly(2 * a[i] + (period - 1) * e[i - 1], period + 1)
           /\ ema(a, period) = [i \in 1..Len(a) |-> e[i]]
<1> DEFINE n == Len(a)
           seed == Exactly(SumSeq(SubSeq(a, 1, period)), period)
           next(i, x) == Exactly(2 * a[i] + (period - 1) * x, period + 1)
           Averages(f) == f = [i \in 0..n |-> IF i < period THEN 0 ELSE IF i = period THEN seed
                                              ELSE next(i, f[i - 1])]
           step == [i \in 1..n |-> [x \in Int |-> IF i < period THEN 0 ELSE IF i = period THEN seed
                                                  ELSE next(i, x)]]
<1>1. n \in Nat /\ \A i \in 1..n : a[i] \in Int
  OBVIOUS
<1>2. \A i \in 1..n : i = period => seed \in Int
  <2>1. SUFFICES ASSUME period \in 1..n
                 PROVE  seed \in Int
    OBVIOUS
  <2>2. SubSeq(a, 1, period) \in Seq(Int)
    BY <1>1, <2>1
  <2>3. SumSeq(SubSeq(a, 1, period)) \in Int
    BY <2>2, SumSeqType
  <2>. QED BY <2>3, ExactlyType
<1>3. ASSUME NEW i \in 1..n, NEW x \in Int
      PROVE  next(i, x) \in Int
  <2>1. a[i] \in Int
    BY <1>1
  <2>2. 2 * a[i] + (period - 1) * x \in Int /\ period + 1 \in Int
    BY <2>1
  <2>. QED BY <2>2, ExactlyType
<1>. HIDE DEF seed, next
<1>4. step \in [1..n -> [Int -> Int]] /\ 0 \in Int
  <2>1. ASSUME NEW i \in 1..n, NEW x \in Int
        PROVE  (IF i < period THEN 0 ELSE IF i = period THEN seed ELSE next(i, x)) \in Int
    <3>1. next(i, x) \in Int /\ 0 \in Int
      BY <1>3
    <3>2. i = period => seed \in Int
      BY <1>2
    <3>. QED BY <3>1, <3>2, Zenon
  <2>. QED BY <2>1
<1>5. PICK f \in [0..n -> Int] : f[0] = 0 /\ \A i \in 1..n : f[i] = step[i][f[i - 1]]
  <2>1. Runnable(n, Int, 0, step)
    <3>. HIDE DEF step, n
    <3>. QED BY <1>1, <1>4, ForwardRecursionExists
  <2>. HIDE DEF step, n
  <2>. QED BY <2>1 DEF Runnable, Runs
<1>6. \A i \in 1..n : f[i] = IF i < period THEN 0 ELSE IF i = period THEN seed ELSE next(i, f[i - 1])
  <2>1. \A i \in 1..n : f[i - 1] \in Int
    BY <1>1, SMTT(30)
  <2>. QED BY <1>5, <2>1
<1>7. Averages(f)
  BY <1>1, <1>5, <1>6
<1> DEFINE g == CHOOSE f_ : Averages(f_)
<1>8. Averages(g)
  <2>. HIDE DEF Averages
  <2>. QED BY <1>7
<1>9. ema(a, period) = [i \in 1..n |-> g[i]]
  BY DEF ema, seed, next
<1>10. \A i \in 0..n : g[i] = f[i]
  <2>. HIDE DEF g
  <2>1. g[0] = f[0]
    BY <1>1, <1>5, <1>8
  <2>2. \A i \in 1..n : g[i] = IF i < period THEN 0 ELSE IF i = period THEN seed ELSE next(i, g[i - 1])
    <3>1. \A i \in 1..n : i \in 0..n
      BY <1>1
    <3>. QED BY <1>8, <3>1
  <2>3. \A i \in 1..n : g[i - 1] = f[i - 1] => g[i] = f[i]
    BY <1>6, <2>2
  <2>4. Alike(g, f, n)
    BY <1>1, <2>1, <2>3, AgreeAlong DEF Stepwise
  <2>. QED BY <2>4 DEF Alike
<1>11. ema(a, period) = [i \in 1..n |-> f[i]]
  <2>. HIDE DEF g
  <2>. QED BY <1>1, <1>9, <1>10
<1>. QED BY <1>5, <1>6, <1>11 DEF seed, next

\* It uses the past alone.
LEMMA emaCausal ==
  ASSUME NEW a \in Seq(Int), NEW b \in Seq(Int), NEW m \in Nat, Agree(a, b, m),
         NEW period \in Nat \ {0}
  PROVE  /\ ema(a, period) \in Seq(Int)
         /\ Len(ema(a, period)) = Len(a)
         /\ Agree(ema(a, period), ema(b, period), m)
<1> DEFINE seedA == Exactly(SumSeq(SubSeq(a, 1, period)), period)
           seedB == Exactly(SumSeq(SubSeq(b, 1, period)), period)
           nextA(i, x) == Exactly(2 * a[i] + (period - 1) * x, period + 1)
           nextB(i, x) == Exactly(2 * b[i] + (period - 1) * x, period + 1)
<1>1. PICK f \in [0..Len(a) -> Int] :
           /\ f[0] = 0
           /\ \A i \in 1..Len(a) : f[i] = IF i < period THEN 0 ELSE IF i = period THEN seedA
                                          ELSE nextA(i, f[i - 1])
           /\ ema(a, period) = [i \in 1..Len(a) |-> f[i]]
  BY emaIs
<1>2. PICK g \in [0..Len(b) -> Int] :
           /\ g[0] = 0
           /\ \A i \in 1..Len(b) : g[i] = IF i < period THEN 0 ELSE IF i = period THEN seedB
                                          ELSE nextB(i, g[i - 1])
           /\ ema(b, period) = [i \in 1..Len(b) |-> g[i]]
  BY emaIs
<1>3. Len(a) \in Nat /\ Len(b) \in Nat /\ m <= Len(a) /\ m <= Len(b) /\ \A i \in 1..m : a[i] = b[i]
  BY AgreeMeans
<1>4. period <= m => seedA = seedB
  <2>1. SUFFICES ASSUME period <= m
                 PROVE  SubSeq(a, 1, period) = SubSeq(b, 1, period)
    OBVIOUS
  <2>. QED BY <1>3, <2>1
<1>5. \A i \in 1..m : \A x : nextA(i, x) = nextB(i, x)
  BY <1>3
<1>. HIDE DEF seedA, seedB, nextA, nextB
<1>6. \A i \in 0..m : f[i] = g[i]
  <2>1. ASSUME NEW i \in 1..m, f[i - 1] = g[i - 1]
        PROVE  f[i] = g[i]
    <3>1. i \in 1..Len(a) /\ i \in 1..Len(b) /\ nextA(i, f[i - 1]) = nextB(i, g[i - 1])
      BY <1>3, <1>5, <2>1, SMTT(30)
    <3>2. i = period => seedA = seedB
      BY <1>4
    <3>. QED BY <1>1, <1>2, <3>1, <3>2
  <2>2. Alike(f, g, m)
    BY <1>1, <1>2, <2>1, AgreeAlong DEF Stepwise
  <2>. QED BY <2>2 DEF Alike
<1>7. ema(a, period) \in Seq(Int) /\ Len(ema(a, period)) = Len(a)
  <2>1. \A i \in 1..Len(a) : i \in 0..Len(a)
    BY <1>3
  <2>2. \A i \in 1..Len(a) : f[i] \in Int
    BY <2>1
  <2>. QED BY <1>1, <1>3, <2>2
<1>8. Len(ema(b, period)) = Len(b)
  BY <1>2, <1>3
<1>9. \A i \in 1..m : ema(a, period)[i] = ema(b, period)[i]
  BY <1>1, <1>2, <1>3, <1>6
<1>. QED BY <1>3, <1>7, <1>8, <1>9 DEF Agree

\* Wilder's average, from its seed.
LEMMA SmoothedIs ==
  ASSUME NEW a \in Seq(Int), NEW period \in Nat \ {0}
  PROVE  \E e \in [0..Len(a) -> Int] :
           /\ e[0] = 0
           /\ \A i \in 1..Len(a) :
                e[i] = IF i <= period THEN 0
                       ELSE IF i = period + 1 THEN Exactly(SumSeq(SubSeq(a, 2, period + 1)), period)
                       ELSE Exactly(e[i - 1] * (period - 1) + a[i], period)
           /\ Smoothed(a, period) = [i \in 1..Len(a) |-> e[i]]
<1> DEFINE n == Len(a)
           seed == Exactly(SumSeq(SubSeq(a, 2, period + 1)), period)
           next(i, x) == Exactly(x * (period - 1) + a[i], period)
           Averages(f) == f = [i \in 0..n |-> IF i <= period THEN 0 ELSE IF i = period + 1 THEN seed
                                              ELSE next(i, f[i - 1])]
           step == [i \in 1..n |-> [x \in Int |-> IF i <= period THEN 0 ELSE IF i = period + 1 THEN seed
                                                  ELSE next(i, x)]]
<1>1. n \in Nat /\ \A i \in 1..n : a[i] \in Int
  OBVIOUS
<1>2. \A i \in 1..n : i = period + 1 => seed \in Int
  <2>1. SUFFICES ASSUME period + 1 \in 1..n
                 PROVE  seed \in Int
    OBVIOUS
  <2>2. SubSeq(a, 2, period + 1) \in Seq(Int)
    BY <1>1, <2>1
  <2>3. SumSeq(SubSeq(a, 2, period + 1)) \in Int
    BY <2>2, SumSeqType
  <2>. QED BY <2>3, ExactlyType
<1>3. ASSUME NEW i \in 1..n, NEW x \in Int
      PROVE  next(i, x) \in Int
  <2>1. a[i] \in Int
    BY <1>1
  <2>2. x * (period - 1) + a[i] \in Int /\ period \in Int
    BY <2>1
  <2>. QED BY <2>2, ExactlyType
<1>. HIDE DEF seed, next
<1>4. step \in [1..n -> [Int -> Int]] /\ 0 \in Int
  <2>1. ASSUME NEW i \in 1..n, NEW x \in Int
        PROVE  (IF i <= period THEN 0 ELSE IF i = period + 1 THEN seed ELSE next(i, x)) \in Int
    <3>1. next(i, x) \in Int /\ 0 \in Int
      BY <1>3
    <3>2. i = period + 1 => seed \in Int
      BY <1>2
    <3>. QED BY <3>1, <3>2, Zenon
  <2>. QED BY <2>1
<1>5. PICK f \in [0..n -> Int] : f[0] = 0 /\ \A i \in 1..n : f[i] = step[i][f[i - 1]]
  <2>1. Runnable(n, Int, 0, step)
    <3>. HIDE DEF step, n
    <3>. QED BY <1>1, <1>4, ForwardRecursionExists
  <2>. HIDE DEF step, n
  <2>. QED BY <2>1 DEF Runnable, Runs
<1>6. \A i \in 1..n : f[i] = IF i <= period THEN 0 ELSE IF i = period + 1 THEN seed ELSE next(i, f[i - 1])
  <2>1. \A i \in 1..n : f[i - 1] \in Int
    BY <1>1
  <2>. QED BY <1>5, <2>1
<1>7. Averages(f)
  BY <1>1, <1>5, <1>6
<1> DEFINE g == CHOOSE f_ : Averages(f_)
<1>8. Averages(g)
  <2>. HIDE DEF Averages
  <2>. QED BY <1>7
<1>9. Smoothed(a, period) = [i \in 1..n |-> g[i]]
  BY DEF Smoothed, seed, next
<1>10. \A i \in 0..n : g[i] = f[i]
  <2>. HIDE DEF g
  <2>1. g[0] = f[0]
    BY <1>1, <1>5, <1>8
  <2>2. \A i \in 1..n : g[i] = IF i <= period THEN 0 ELSE IF i = period + 1 THEN seed ELSE next(i, g[i - 1])
    <3>1. \A i \in 1..n : i \in 0..n
      BY <1>1
    <3>. QED BY <1>8, <3>1
  <2>3. \A i \in 1..n : g[i - 1] = f[i - 1] => g[i] = f[i]
    BY <1>6, <2>2
  <2>4. Alike(g, f, n)
    BY <1>1, <2>1, <2>3, AgreeAlong DEF Stepwise
  <2>. QED BY <2>4 DEF Alike
<1>11. Smoothed(a, period) = [i \in 1..n |-> f[i]]
  <2>. HIDE DEF g
  <2>. QED BY <1>1, <1>9, <1>10
<1>. QED BY <1>5, <1>6, <1>11 DEF seed, next

\* It uses the past alone.
LEMMA SmoothedCausal ==
  ASSUME NEW a \in Seq(Int), NEW b \in Seq(Int), NEW m \in Nat, Agree(a, b, m),
         NEW period \in Nat \ {0}
  PROVE  /\ Smoothed(a, period) \in Seq(Int)
         /\ Len(Smoothed(a, period)) = Len(a)
         /\ Agree(Smoothed(a, period), Smoothed(b, period), m)
<1> DEFINE seedA == Exactly(SumSeq(SubSeq(a, 2, period + 1)), period)
           seedB == Exactly(SumSeq(SubSeq(b, 2, period + 1)), period)
           nextA(i, x) == Exactly(x * (period - 1) + a[i], period)
           nextB(i, x) == Exactly(x * (period - 1) + b[i], period)
<1>1. PICK f \in [0..Len(a) -> Int] :
           /\ f[0] = 0
           /\ \A i \in 1..Len(a) : f[i] = IF i <= period THEN 0 ELSE IF i = period + 1 THEN seedA
                                          ELSE nextA(i, f[i - 1])
           /\ Smoothed(a, period) = [i \in 1..Len(a) |-> f[i]]
  BY SmoothedIs
<1>2. PICK g \in [0..Len(b) -> Int] :
           /\ g[0] = 0
           /\ \A i \in 1..Len(b) : g[i] = IF i <= period THEN 0 ELSE IF i = period + 1 THEN seedB
                                          ELSE nextB(i, g[i - 1])
           /\ Smoothed(b, period) = [i \in 1..Len(b) |-> g[i]]
  BY SmoothedIs
<1>3. Len(a) \in Nat /\ Len(b) \in Nat /\ m <= Len(a) /\ m <= Len(b) /\ \A i \in 1..m : a[i] = b[i]
  BY AgreeMeans
<1>4. period + 1 <= m => seedA = seedB
  <2>1. SUFFICES ASSUME period + 1 <= m
                 PROVE  SubSeq(a, 2, period + 1) = SubSeq(b, 2, period + 1)
    OBVIOUS
  <2>. QED BY <1>3, <2>1
<1>5. \A i \in 1..m : \A x : nextA(i, x) = nextB(i, x)
  BY <1>3
<1>. HIDE DEF seedA, seedB, nextA, nextB
<1>6. \A i \in 0..m : f[i] = g[i]
  <2>1. ASSUME NEW i \in 1..m, f[i - 1] = g[i - 1]
        PROVE  f[i] = g[i]
    <3>1. i \in 1..Len(a) /\ i \in 1..Len(b) /\ nextA(i, f[i - 1]) = nextB(i, g[i - 1])
      BY <1>3, <1>5, <2>1
    <3>2. i = period + 1 => seedA = seedB
      BY <1>4
    <3>. QED BY <1>1, <1>2, <3>1, <3>2
  <2>2. Alike(f, g, m)
    BY <1>1, <1>2, <2>1, AgreeAlong DEF Stepwise
  <2>. QED BY <2>2 DEF Alike
<1>7. Smoothed(a, period) \in Seq(Int) /\ Len(Smoothed(a, period)) = Len(a)
  <2>1. \A i \in 1..Len(a) : i \in 0..Len(a)
    BY <1>3
  <2>2. \A i \in 1..Len(a) : f[i] \in Int
    BY <2>1
  <2>. QED BY <1>1, <1>3, <2>2
<1>8. Len(Smoothed(b, period)) = Len(b)
  BY <1>2, <1>3
<1>9. \A i \in 1..m : Smoothed(a, period)[i] = Smoothed(b, period)[i]
  BY <1>1, <1>2, <1>3, <1>6
<1>. QED BY <1>3, <1>7, <1>8, <1>9 DEF Agree

\* Gains are found from a bar and the one before it.
LEMMA GainsCausal ==
  ASSUME NEW a \in Seq(Int), NEW b \in Seq(Int), NEW m \in Nat, Agree(a, b, m)
  PROVE  /\ Gains(a) \in Seq(Int) /\ Gains(b) \in Seq(Int)
         /\ Len(Gains(a)) = Len(a) /\ Len(Gains(b)) = Len(b)
         /\ Agree(Gains(a), Gains(b), m)
<1>1. Len(a) \in Nat /\ Len(b) \in Nat /\ m <= Len(a) /\ m <= Len(b) /\ \A i \in 1..m : a[i] = b[i]
  BY AgreeMeans
<1>2. ASSUME NEW c \in Seq(Int)
      PROVE  Gains(c) \in Seq(Int) /\ Len(Gains(c)) = Len(c)
  <2>1. Len(c) \in Nat /\ \A i \in 1..Len(c) : c[i] \in Int /\ (i > 1 => c[i - 1] \in Int)
    OBVIOUS
  <2>. QED BY <2>1, SMTT(30) DEF Gains
<1>3. \A i \in 1..m : Gains(a)[i] = Gains(b)[i]
  <2>1. ASSUME NEW i \in 1..m
        PROVE  Gains(a)[i] = Gains(b)[i]
    <3>1. i \in 1..Len(a) /\ i \in 1..Len(b) /\ (i > 1 => i - 1 \in 1..m)
      BY <1>1
    <3>2. a[i] = b[i] /\ (i > 1 => a[i - 1] = b[i - 1])
      BY <1>1, <3>1
    <3>. QED BY <3>1, <3>2 DEF Gains
  <2>. QED BY <2>1
<1>. QED BY <1>1, <1>2, <1>3 DEF Agree

\* Losses are found from a bar and the one before it.
LEMMA LossesCausal ==
  ASSUME NEW a \in Seq(Int), NEW b \in Seq(Int), NEW m \in Nat, Agree(a, b, m)
  PROVE  /\ Losses(a) \in Seq(Int) /\ Losses(b) \in Seq(Int)
         /\ Len(Losses(a)) = Len(a) /\ Len(Losses(b)) = Len(b)
         /\ Agree(Losses(a), Losses(b), m)
<1>1. Len(a) \in Nat /\ Len(b) \in Nat /\ m <= Len(a) /\ m <= Len(b) /\ \A i \in 1..m : a[i] = b[i]
  BY AgreeMeans
<1>2. ASSUME NEW c \in Seq(Int)
      PROVE  Losses(c) \in Seq(Int) /\ Len(Losses(c)) = Len(c)
  <2>1. Len(c) \in Nat /\ \A i \in 1..Len(c) : c[i] \in Int /\ (i > 1 => c[i - 1] \in Int)
    OBVIOUS
  <2>. QED BY <2>1, SMTT(30) DEF Losses
<1>3. \A i \in 1..m : Losses(a)[i] = Losses(b)[i]
  <2>1. ASSUME NEW i \in 1..m
        PROVE  Losses(a)[i] = Losses(b)[i]
    <3>1. i \in 1..Len(a) /\ i \in 1..Len(b) /\ (i > 1 => i - 1 \in 1..m)
      BY <1>1
    <3>2. a[i] = b[i] /\ (i > 1 => a[i - 1] = b[i - 1])
      BY <1>1, <3>1
    <3>. QED BY <3>1, <3>2 DEF Losses
  <2>. QED BY <2>1
<1>. QED BY <1>1, <1>2, <1>3 DEF Agree

\* The RSI uses the past alone.
LEMMA wilderRSICausal ==
  ASSUME NEW a \in Seq(Int), NEW b \in Seq(Int), NEW m \in Nat, Agree(a, b, m),
         NEW period \in Nat \ {0}
  PROVE  /\ Len(wilderRSI(a, period)) = Len(a)
         /\ Agree(wilderRSI(a, period), wilderRSI(b, period), m)
<1>1. Len(a) \in Nat /\ Len(b) \in Nat /\ m <= Len(a) /\ m <= Len(b)
  BY AgreeMeans
<1> DEFINE gainA == Smoothed(Gains(a), period)
           gainB == Smoothed(Gains(b), period)
           lossA == Smoothed(Losses(a), period)
           lossB == Smoothed(Losses(b), period)
<1>2. Agree(gainA, gainB, m)
  <2>1. Gains(a) \in Seq(Int) /\ Gains(b) \in Seq(Int) /\ Agree(Gains(a), Gains(b), m)
    BY GainsCausal
  <2>. QED BY <2>1, SmoothedCausal
<1>3. Agree(lossA, lossB, m)
  <2>1. Losses(a) \in Seq(Int) /\ Losses(b) \in Seq(Int) /\ Agree(Losses(a), Losses(b), m)
    BY LossesCausal
  <2>. QED BY <2>1, SmoothedCausal
<1>4. \A i \in 1..m : gainA[i] = gainB[i] /\ lossA[i] = lossB[i]
  BY <1>2, <1>3 DEF Agree
<1>5. /\ wilderRSI(a, period) = [i \in 1..Len(a) |->
           IF i <= period THEN <<0, 1>> ELSE rsiFromAverages(gainA[i], lossA[i])]
      /\ wilderRSI(b, period) = [i \in 1..Len(b) |->
           IF i <= period THEN <<0, 1>> ELSE rsiFromAverages(gainB[i], lossB[i])]
  BY DEF wilderRSI
<1>. HIDE DEF gainA, gainB, lossA, lossB
<1>6. Len(wilderRSI(a, period)) = Len(a) /\ Len(wilderRSI(b, period)) = Len(b)
  BY <1>1, <1>5
<1>7. ASSUME NEW i \in 1..m
      PROVE  wilderRSI(a, period)[i] = wilderRSI(b, period)[i]
  <2>1. i \in 1..Len(a) /\ i \in 1..Len(b)
    BY <1>1
  <2>. QED BY <1>4, <1>5, <2>1
<1>. QED BY <1>1, <1>6, <1>7 DEF Agree

-----------------------------------------------------------------------------
(* Signals: from which bars *)

\* A crossing is seen from a bar and the one before it.
LEMMA crossoverCausal ==
  ASSUME NEW fa, NEW sa, NEW fb, NEW sb, NEW m \in Nat, Agree(fa, fb, m), Agree(sa, sb, m),
         Len(fa) \in Nat, Len(fb) \in Nat, NEW from \in Nat \ {0}
  PROVE  /\ \A i \in 1..Len(fa) : i <= from => crossoverSignals(fa, sa, from)[i] = "none"
         /\ \A i \in 1..m : crossoverSignals(fa, sa, from)[i] = crossoverSignals(fb, sb, from)[i]
<1>1. \A i \in 1..Len(fa) : i <= from => crossoverSignals(fa, sa, from)[i] = "none"
  BY DEF crossoverSignals
<1>2. ASSUME NEW i \in 1..m
      PROVE  crossoverSignals(fa, sa, from)[i] = crossoverSignals(fb, sb, from)[i]
  <2>1. i \in 1..Len(fa) /\ i \in 1..Len(fb) /\ fa[i] = fb[i] /\ sa[i] = sb[i]
    BY DEF Agree
  <2>2. i > from => i - 1 \in 1..m
    OBVIOUS
  <2>3. i > from => fa[i - 1] = fb[i - 1] /\ sa[i - 1] = sb[i - 1]
    BY <2>2 DEF Agree
  <2>. QED BY <2>1, <2>3 DEF crossoverSignals
<1>. QED BY <1>1, <1>2

\* So is the exit from a zone.
LEMMA zoneExitCausal ==
  ASSUME NEW ra, NEW rb, NEW m \in Nat, Agree(ra, rb, m), Len(ra) \in Nat, Len(rb) \in Nat,
         NEW oversold, NEW overbought, NEW from \in Nat, from >= 2
  PROVE  /\ \A i \in 1..Len(ra) : i < from => rsiZoneExitSignals(ra, oversold, overbought, from)[i] = "none"
         /\ \A i \in 1..m : rsiZoneExitSignals(ra, oversold, overbought, from)[i]
                              = rsiZoneExitSignals(rb, oversold, overbought, from)[i]
<1>1. \A i \in 1..Len(ra) : i < from => rsiZoneExitSignals(ra, oversold, overbought, from)[i] = "none"
  BY DEF rsiZoneExitSignals
<1>2. ASSUME NEW i \in 1..m
      PROVE  rsiZoneExitSignals(ra, oversold, overbought, from)[i]
               = rsiZoneExitSignals(rb, oversold, overbought, from)[i]
  <2>1. i \in 1..Len(ra) /\ i \in 1..Len(rb) /\ ra[i] = rb[i]
    BY DEF Agree
  <2>2. ~(i < from) => i - 1 \in 1..m
    OBVIOUS
  <2>3. ~(i < from) => ra[i - 1] = rb[i - 1]
    BY <2>2 DEF Agree
  <2>. QED BY <2>1, <2>3 DEF rsiZoneExitSignals
<1>. QED BY <1>1, <1>2

\* The MACD line uses the past alone.
LEMMA macdLineCausal ==
  ASSUME NEW a \in Seq(Int), NEW b \in Seq(Int), NEW m \in Nat, Agree(a, b, m),
         NEW p, p[1] \in Nat \ {0}, p[2] \in Nat \ {0}
  PROVE  /\ macdLine(a, p) \in Seq(Int) /\ Len(macdLine(a, p)) = Len(a)
         /\ Agree(macdLine(a, p), macdLine(b, p), m)
<1> DEFINE fastA == ema(a, p[1])
           fastB == ema(b, p[1])
           slowA == ema(a, p[2])
           slowB == ema(b, p[2])
<1>1. Len(a) \in Nat /\ Len(b) \in Nat /\ m <= Len(a) /\ m <= Len(b)
  BY AgreeMeans
<1>2. fastA \in Seq(Int) /\ Len(fastA) = Len(a) /\ Agree(fastA, fastB, m)
  BY emaCausal
<1>3. slowA \in Seq(Int) /\ Len(slowA) = Len(a) /\ Agree(slowA, slowB, m)
  BY emaCausal
<1>4. /\ macdLine(a, p) = [i \in 1..Len(a) |-> IF i >= p[2] THEN fastA[i] - slowA[i] ELSE 0]
      /\ macdLine(b, p) = [i \in 1..Len(b) |-> IF i >= p[2] THEN fastB[i] - slowB[i] ELSE 0]
  BY DEF macdLine
<1>. HIDE DEF fastA, fastB, slowA, slowB
<1>5. macdLine(a, p) \in Seq(Int) /\ Len(macdLine(a, p)) = Len(a) /\ Len(macdLine(b, p)) = Len(b)
  <2>1. \A i \in 1..Len(a) : fastA[i] \in Int /\ slowA[i] \in Int
    BY <1>2, <1>3, SMTT(30)
  <2>. QED BY <1>1, <1>4, <2>1
<1>6. ASSUME NEW i \in 1..m
      PROVE  macdLine(a, p)[i] = macdLine(b, p)[i]
  <2>1. i \in 1..Len(a) /\ i \in 1..Len(b)
    BY <1>1
  <2>2. fastA[i] = fastB[i] /\ slowA[i] = slowB[i]
    BY <1>2, <1>3, Zenon DEF Agree
  <2>. QED BY <1>4, <2>1, <2>2
<1>. QED BY <1>1, <1>5, <1>6 DEF Agree

\* A place of a concatenation is one of its first part or of its second.
LEMMA ConcatIs ==
  ASSUME NEW h \in Seq(Int), NEW e \in Seq(Int)
  PROVE  /\ Len(h) \in Nat /\ Len(e) \in Nat /\ Len(h \o e) = Len(h) + Len(e)
         /\ \A i \in 1..Len(h) : (h \o e)[i] = h[i]
         /\ \A k \in 1..Len(e) : (h \o e)[Len(h) + k] = e[k]
<1>1. Len(h) \in Nat /\ Len(e) \in Nat /\ Len(h \o e) = Len(h) + Len(e)
  OBVIOUS
<1>2. \A i \in 1..Len(h) : (h \o e)[i] = h[i]
  BY <1>1
<1>3. ASSUME NEW k \in 1..Len(e)
      PROVE  (h \o e)[Len(h) + k] = e[k]
  <2>1. Len(h) + k \in 1..(Len(h) + Len(e)) /\ Len(h) + k > Len(h) /\ (Len(h) + k) - Len(h) = k
    BY <1>1
  <2>. QED BY <1>1, <2>1
<1>. QED BY <1>1, <1>2, <1>3

\* So does the signal line, from its first value on.
LEMMA signalLineCausal ==
  ASSUME NEW a \in Seq(Int), NEW b \in Seq(Int), NEW m \in Nat, Agree(a, b, m),
         NEW p, p[2] \in 1..m, p[3] \in Nat \ {0}
  PROVE  Agree(signalLine(a, p), signalLine(b, p), m)
<1> DEFINE q == p[2]
           tailA == SubSeq(a, q, Len(a))
           tailB == SubSeq(b, q, Len(b))
           r == m - q + 1
           eA == ema(tailA, p[3])
           eB == ema(tailB, p[3])
           headA == SubSeq(a, 1, q - 1)
           headB == SubSeq(b, 1, q - 1)
<1>1. Len(a) \in Nat /\ Len(b) \in Nat /\ m <= Len(a) /\ m <= Len(b) /\ q \in 1..m /\ r \in Nat
      /\ \A i \in 1..m : a[i] = b[i]
  BY SMTT(30) DEF Agree
<1>. HIDE DEF q
<1>2. /\ tailA \in Seq(Int) /\ Len(tailA) = Len(a) - q + 1
      /\ tailB \in Seq(Int) /\ Len(tailB) = Len(b) - q + 1
      /\ \A i \in 1..Len(tailA) : tailA[i] = a[q + i - 1]
      /\ \A i \in 1..Len(tailB) : tailB[i] = b[q + i - 1]
  BY <1>1, SMTT(30)
<1>3. /\ headA \in Seq(Int) /\ Len(headA) = q - 1 /\ headB \in Seq(Int) /\ Len(headB) = q - 1
      /\ \A i \in 1..(q - 1) : headA[i] = a[i] /\ headB[i] = b[i]
  BY <1>1, SMTT(30)
<1>. HIDE DEF tailA, tailB, headA, headB
<1>4. Agree(tailA, tailB, r)
  <2>1. ASSUME NEW i \in 1..r
        PROVE  tailA[i] = tailB[i]
    <3>1. q + i - 1 \in 1..m
      BY <1>1
    <3>2. i \in 1..Len(tailA) /\ i \in 1..Len(tailB)
      <4>1. Len(a) \in Nat /\ Len(b) \in Nat /\ q \in Nat /\ m <= Len(a) /\ m <= Len(b)
        BY <1>1
      <4>2. Len(tailA) = Len(a) - q + 1 /\ Len(tailB) = Len(b) - q + 1
        BY <1>2
      <4>3. i \in Nat /\ 1 <= i /\ i <= m - q + 1
        BY <1>1
      <4>4. i <= Len(a) - q + 1 /\ i <= Len(b) - q + 1
        BY <4>1, <4>3, SMTT(30)
      <4>. QED BY <4>1, <4>2, <4>3, <4>4
    <3>. QED BY <1>1, <1>2, <3>1, <3>2
  <2>2. r <= Len(tailA) /\ r <= Len(tailB)
    <3>1. Len(a) \in Nat /\ Len(b) \in Nat /\ q \in Nat /\ m <= Len(a) /\ m <= Len(b)
      BY <1>1
    <3>2. Len(tailA) = Len(a) - q + 1 /\ Len(tailB) = Len(b) - q + 1
      BY <1>2
    <3>. QED BY <3>1, <3>2
  <2>. QED BY <2>1, <2>2 DEF Agree
<1>5. /\ eA \in Seq(Int) /\ Len(eA) = Len(a) - q + 1
      /\ eB \in Seq(Int) /\ Len(eB) = Len(b) - q + 1 /\ Agree(eA, eB, r)
  <2>1. Agree(tailB, tailA, r)
    BY <1>4 DEF Agree
  <2>. QED BY <1>1, <1>2, <1>4, <2>1, emaCausal
<1>6. signalLine(a, p) = headA \o eA /\ signalLine(b, p) = headB \o eB
  BY DEF signalLine, headA, headB, tailA, tailB, q
<1>. HIDE DEF eA, eB
<1>7. Len(signalLine(a, p)) = Len(a) /\ Len(signalLine(b, p)) = Len(b)
  <2>1. Len(headA \o eA) = Len(headA) + Len(eA) /\ Len(headB \o eB) = Len(headB) + Len(eB)
    BY <1>3, <1>5, ConcatIs
  <2>. QED BY <1>1, <1>3, <1>5, <1>6, <2>1
<1>8. ASSUME NEW i \in 1..m
      PROVE  signalLine(a, p)[i] = signalLine(b, p)[i]
  <2>1. CASE i < q
    <3>1. i \in 1..(q - 1) /\ i \in 1..Len(headA) /\ i \in 1..Len(headB)
      BY <1>1, <1>3, <2>1
    <3>2. (headA \o eA)[i] = headA[i] /\ (headB \o eB)[i] = headB[i]
      BY <1>3, <1>5, <3>1, ConcatIs
    <3>. QED BY <1>1, <1>3, <1>6, <3>1, <3>2
  <2>2. CASE ~(i < q)
    <3> DEFINE k == i - (q - 1)
    <3>1. k \in 1..r /\ i = (q - 1) + k
      BY <1>1, <2>2
    <3>2. k \in 1..Len(eA) /\ k \in 1..Len(eB)
      <4>1. Len(eA) = Len(a) - q + 1 /\ Len(eB) = Len(b) - q + 1
        BY <1>5
      <4>2. m <= Len(a) /\ m <= Len(b) /\ Len(a) \in Nat /\ Len(b) \in Nat /\ q \in Nat
        BY <1>1
      <4>. QED BY <3>1, <4>1, <4>2, SMTT(30)
    <3>. HIDE DEF k
    <3>3. (headA \o eA)[Len(headA) + k] = eA[k]
      BY <1>3, <1>5, <3>2, ConcatIs
    <3>4. (headB \o eB)[Len(headB) + k] = eB[k]
      BY <1>3, <1>5, <3>2, ConcatIs
    <3>5. Len(headA) + k = i /\ Len(headB) + k = i
      BY <1>3, <3>1
    <3>6. eA[k] = eB[k]
      BY <1>5, <3>1 DEF Agree
    <3>. QED BY <1>6, <3>3, <3>4, <3>5, <3>6
  <2>. QED BY <2>1, <2>2
<1>. QED BY <1>1, <1>7, <1>8 DEF Agree

-----------------------------------------------------------------------------
(* Strategies that are accepted *)

\* What NewStrategy has established of the one it returns: its parameters are in
\* range and its warm-up, as a number, is within the bound.
Usable(s) ==
  LET p == s.params
  IN \/ /\ s.kind = "ma_crossover" /\ p[1] \in Nat \ {0} /\ p[2] \in Nat \ {0}
        /\ WarmupBars(s) = p[2] /\ p[2] <= maxWarmupBars
     \/ /\ s.kind = "rsi" /\ p[1] \in Nat \ {0}
        /\ WarmupBars(s) = p[1] + 1 /\ p[1] + 1 <= maxWarmupBars
     \/ /\ s.kind = "macd" /\ p[1] \in Nat \ {0} /\ p[2] \in Nat \ {0} /\ p[3] \in Nat \ {0}
        /\ WarmupBars(s) = p[2] + p[3] - 1 /\ p[2] + p[3] - 1 <= maxWarmupBars

\* The sum of the MACD's periods cannot wrap: each is bounded before it is added.
LEMMA NewStrategyUsable ==
  ASSUME NEW s, Decoded(s), NewStrategy(s)
  PROVE  Usable(s)
<1> DEFINE p == s.params
<1>1. p \in Seq(Int)
  BY DEF Decoded
<1>2. maxWarmupBars \in Nat /\ IntMax \in Nat /\ 2 * maxWarmupBars <= IntMax
  <2>1. maxWarmupBars \in Nat /\ IntMax \in Nat /\ maxWarmupBars < IntMax \div 2
    BY StrategiesAssumption
  <2>2. IntMax \div 2 \in Nat /\ 2 * (IntMax \div 2) <= IntMax
    BY <2>1
  <2>. QED BY <2>1, <2>2
<1>3. CASE s.kind = "ma_crossover"
  <2>1. p[1] \in Int /\ p[2] \in Int
    BY <1>1, <1>3 DEF Decoded
  <2>2. newMACrossover(p) /\ WarmupBars(s) <= maxWarmupBars /\ WarmupBars(s) = p[2]
    BY <1>3 DEF NewStrategy, WarmupBars
  <2>. QED BY <1>3, <2>1, <2>2 DEF newMACrossover, Usable
<1>4. CASE s.kind = "rsi"
  <2>1. p[1] \in Int /\ p[2] \in Int /\ p[3] \in Int
    BY <1>1, <1>4 DEF Decoded
  <2>2. newRSIStrategy(p) /\ WarmupBars(s) <= maxWarmupBars /\ WarmupBars(s) = AsInt(p[1] + 1)
    BY <1>4 DEF NewStrategy, WarmupBars
  <2>3. p[1] >= 2 /\ p[1] <= maxWarmupBars
    BY <2>2 DEF newRSIStrategy
  <2>4. p[1] + 1 \in Int /\ 0 <= p[1] + 1 /\ p[1] + 1 <= IntMax
    BY <1>2, <2>1, <2>3
  <2>5. AsInt(p[1] + 1) = p[1] + 1
    BY <2>4, AsIntIs
  <2>. QED BY <1>4, <2>1, <2>2, <2>3, <2>5 DEF Usable
<1>5. CASE s.kind = "macd"
  <2>1. p[1] \in Int /\ p[2] \in Int /\ p[3] \in Int
    BY <1>1, <1>5 DEF Decoded
  <2>2. newMACDStrategy(p) /\ WarmupBars(s) <= maxWarmupBars /\ WarmupBars(s) = AsInt(p[2] + p[3] - 1)
    BY <1>5 DEF NewStrategy, WarmupBars
  <2>3. p[1] >= 2 /\ p[2] > p[1] /\ p[3] >= 2 /\ p[2] <= maxWarmupBars /\ p[3] <= maxWarmupBars
    BY <2>2 DEF newMACDStrategy
  <2>4. p[2] + p[3] - 1 \in Int /\ 0 <= p[2] + p[3] - 1 /\ p[2] + p[3] - 1 <= IntMax
    BY <1>2, <2>1, <2>3
  <2>5. AsInt(p[2] + p[3] - 1) = p[2] + p[3] - 1
    BY <2>4, AsIntIs
  <2>. QED BY <1>5, <2>1, <2>2, <2>3, <2>5 DEF Usable
<1>6. s.kind \in {"ma_crossover", "rsi", "macd"}
  BY DEF NewStrategy
<1>. QED BY <1>3, <1>4, <1>5, <1>6

-----------------------------------------------------------------------------
(* No signal looks ahead *)

\* The closes of a prefix of the bars are the prefix of the closes.
LEMMA closesOfCausal ==
  ASSUME NEW series \in Seq(Bar), NEW m \in 1..Len(series)
  PROVE  /\ SubSeq(series, 1, m) \in Seq(Bar) /\ Len(SubSeq(series, 1, m)) = m
         /\ closesOf(series) \in Seq(Int) /\ Len(closesOf(series)) = Len(series)
         /\ closesOf(SubSeq(series, 1, m)) \in Seq(Int) /\ Len(closesOf(SubSeq(series, 1, m))) = m
         /\ Agree(closesOf(series), closesOf(SubSeq(series, 1, m)), m)
<1> DEFINE past == SubSeq(series, 1, m)
<1>1. Len(series) \in Nat /\ m \in Nat /\ m <= Len(series)
  OBVIOUS
<1>2. past \in Seq(Bar) /\ Len(past) = m /\ \A i \in 1..m : past[i] = series[i]
  BY <1>1
<1>3. ASSUME NEW c \in Seq(Bar)
      PROVE  closesOf(c) \in Seq(Int) /\ Len(closesOf(c)) = Len(c)
             /\ \A i \in 1..Len(c) : closesOf(c)[i] = c[i].close * Scale
  <2>1. Len(c) \in Nat /\ \A i \in 1..Len(c) : c[i] \in Bar
    OBVIOUS
  <2>2. ASSUME NEW i \in 1..Len(c)
        PROVE  c[i].close * Scale \in Int
    <3>1. c[i].close \in Int
      BY <2>1 DEF Bar
    <3>2. Scale \in Int
      BY StrategiesAssumption
    <3>. QED BY <3>1, <3>2
  <2>. QED BY <2>1, <2>2 DEF closesOf
<1>. HIDE DEF past, Bar
<1>4. closesOf(series) \in Seq(Int) /\ Len(closesOf(series)) = Len(series)
      /\ \A i \in 1..Len(series) : closesOf(series)[i] = series[i].close * Scale
  BY <1>3
<1>5. closesOf(past) \in Seq(Int) /\ Len(closesOf(past)) = m
      /\ \A i \in 1..m : closesOf(past)[i] = past[i].close * Scale
  BY <1>2, <1>3
<1>6. ASSUME NEW i \in 1..m
      PROVE  closesOf(series)[i] = closesOf(past)[i]
  <2>1. i \in 1..Len(series)
    BY <1>1
  <2>. QED BY <1>2, <1>4, <1>5, <2>1
<1>7. Agree(closesOf(series), closesOf(past), m)
  BY <1>1, <1>4, <1>5, <1>6 DEF Agree
<1>. QED BY <1>2, <1>4, <1>5, <1>7 DEF past

\* From the warm-up on, a signal is the same when the bars after it are not there.
LEMMA SignalsWarm ==
  ASSUME NEW s, Decoded(s), Usable(s), NEW series \in Seq(Bar), NEW m \in 1..Len(series),
         WarmupBars(s) <= m
  PROVE  GenerateSignals(s, SubSeq(series, 1, m))[m] = GenerateSignals(s, series)[m]
<1> DEFINE p == s.params
           past == SubSeq(series, 1, m)
           a == closesOf(series)
           b == closesOf(past)
<1>0. Len(series) \in Nat /\ m \in Nat /\ m \in 1..m /\ m <= Len(series) /\ Len(past) = m
  BY closesOfCausal
<1>1. /\ a \in Seq(Int) /\ Len(a) = Len(series) /\ b \in Seq(Int) /\ Len(b) = m /\ Agree(a, b, m)
      /\ Len(series) \in Nat /\ m \in Nat
  BY closesOfCausal, <1>0
<1>. HIDE DEF past
<1>2. CASE s.kind = "ma_crossover"
  <2> DEFINE fa == movingAverages(a, p[1])
             fb == movingAverages(b, p[1])
             sa == movingAverages(a, p[2])
             sb == movingAverages(b, p[2])
  <2>1. p[1] \in Nat \ {0} /\ p[2] \in Nat \ {0} /\ WarmupBars(s) = p[2]
    BY <1>2 DEF Usable
  <2>2. Agree(b, b, m)
    BY <1>1 DEF Agree
  <2>3. Agree(fa, fb, m) /\ Agree(sa, sb, m) /\ Len(fa) = Len(a)
    BY <1>1, <2>1, movingAveragesCausal
  <2>4. Len(fb) = Len(b)
    BY <1>1, <2>1, <2>2, movingAveragesCausal
  <2>5. GenerateSignals(s, series) = crossoverSignals(fa, sa, p[2])
    BY <1>0, <1>2, <2>1, SMTT(30) DEF GenerateSignals
  <2>6. GenerateSignals(s, past) = crossoverSignals(fb, sb, p[2])
    BY <1>0, <1>2, <2>1, SMTT(30) DEF GenerateSignals
  <2>. HIDE DEF fa, fb, sa, sb, a, b, p
  <2>7. \A i \in 1..m : crossoverSignals(fa, sa, p[2])[i] = crossoverSignals(fb, sb, p[2])[i]
    <3>1. Len(fa) \in Nat /\ Len(fb) \in Nat
      BY <1>1, <2>3, <2>4
    <3>. QED BY <1>0, <2>1, <2>3, <3>1, crossoverCausal
  <2>. QED BY <1>0, <2>5, <2>6, <2>7 DEF past
<1>3. CASE s.kind = "rsi"
  <2> DEFINE ra == wilderRSI(a, p[1])
             rb == wilderRSI(b, p[1])
             from == p[1] + 2
  <2>1. p[1] \in Nat \ {0} /\ WarmupBars(s) = p[1] + 1
    BY <1>3 DEF Usable
  <2>2. Agree(b, b, m)
    BY <1>1 DEF Agree
  <2>3. Agree(ra, rb, m) /\ Len(ra) = Len(a)
    BY <1>1, <2>1, wilderRSICausal
  <2>4. Len(rb) = Len(b)
    BY <1>1, <2>1, <2>2, wilderRSICausal
  <2>5. GenerateSignals(s, series) = rsiZoneExitSignals(ra, p[2], p[3], from)
    BY <1>0, <1>3, <2>1, SMTT(30) DEF GenerateSignals
  <2>6. GenerateSignals(s, past) = rsiZoneExitSignals(rb, p[2], p[3], from)
    BY <1>0, <1>3, <2>1, SMTT(30) DEF GenerateSignals
  <2>. HIDE DEF ra, rb, a, b, p
  <2>7. from \in Nat /\ from >= 2
    BY <2>1
  <2>. HIDE DEF from
  <2>8. \A i \in 1..m : rsiZoneExitSignals(ra, p[2], p[3], from)[i]
                           = rsiZoneExitSignals(rb, p[2], p[3], from)[i]
    <3>1. Len(ra) \in Nat /\ Len(rb) \in Nat
      BY <1>1, <2>3, <2>4
    <3>. QED BY <1>0, <2>3, <2>7, <3>1, zoneExitCausal
  <2>. QED BY <1>0, <2>5, <2>6, <2>8 DEF past
<1>4. CASE s.kind = "macd"
  <2> DEFINE fa == macdLine(a, p)
             fb == macdLine(b, p)
             sa == signalLine(fa, p)
             sb == signalLine(fb, p)
             from == p[2] + p[3] - 1
  <2>1. p[1] \in Nat \ {0} /\ p[2] \in Nat \ {0} /\ p[3] \in Nat \ {0} /\ WarmupBars(s) = from
    BY <1>4 DEF Usable
  <2>2. Agree(b, b, m)
    BY <1>1 DEF Agree
  <2>3. fa \in Seq(Int) /\ Agree(fa, fb, m) /\ Len(fa) = Len(a)
    BY <1>1, <2>1, macdLineCausal
  <2>4. fb \in Seq(Int) /\ Len(fb) = Len(b)
    BY <1>1, <2>1, <2>2, macdLineCausal
  <2>5. GenerateSignals(s, series) = crossoverSignals(fa, sa, from)
    BY <1>0, <1>4, <2>1, SMTT(30) DEF GenerateSignals
  <2>6. GenerateSignals(s, past) = crossoverSignals(fb, sb, from)
    BY <1>0, <1>4, <2>1, SMTT(30) DEF GenerateSignals
  <2>7. from \in Nat \ {0} /\ from >= p[2]
    BY <2>1, SMTT(30)
  <2>8. from <= m
    BY <2>1
  <2>9. Agree(sa, sb, m)
    <3>1. p[2] \in 1..m
      <4>. HIDE DEF from, p
      <4>. QED BY <1>0, <2>1, <2>7, <2>8
    <3>. HIDE DEF fa, fb, a, b, from, p
    <3>. QED BY <1>1, <2>1, <2>3, <2>4, <3>1, signalLineCausal
  <2>. HIDE DEF fa, fb, sa, sb, a, b, from, p
  <2>10. \A i \in 1..m : crossoverSignals(fa, sa, from)[i] = crossoverSignals(fb, sb, from)[i]
    <3>1. Len(fa) \in Nat /\ Len(fb) \in Nat
      BY <1>1, <2>3, <2>4
    <3>. QED BY <1>0, <2>3, <2>7, <2>9, <3>1, crossoverCausal
  <2>. QED BY <1>0, <2>5, <2>6, <2>10 DEF past
<1>. QED BY <1>2, <1>3, <1>4 DEF Usable, past

\* Before it, there is none.
LEMMA SignalsCold ==
  ASSUME NEW s, Decoded(s), Usable(s), NEW series \in Seq(Bar), NEW m \in 1..Len(series),
         m < WarmupBars(s)
  PROVE  GenerateSignals(s, series)[m] = "none"
<1> DEFINE p == s.params
           a == closesOf(series)
<1>1. Len(series) \in Nat /\ m \in Nat /\ m <= Len(series) /\ a \in Seq(Int) /\ Len(a) = Len(series)
  BY closesOfCausal
<1>2. Agree(a, a, m)
  BY <1>1 DEF Agree
<1>3. CASE WarmupBars(s) > Len(series)
  BY <1>3 DEF GenerateSignals
<1>4. CASE ~(WarmupBars(s) > Len(series)) /\ s.kind = "ma_crossover"
  <2> DEFINE fa == movingAverages(a, p[1])
             sa == movingAverages(a, p[2])
  <2>1. p[1] \in Nat \ {0} /\ p[2] \in Nat \ {0} /\ WarmupBars(s) = p[2]
    BY <1>4 DEF Usable
  <2>2. Len(fa) = Len(a)
    BY <1>1, <1>2, <2>1, movingAveragesCausal
  <2>3. GenerateSignals(s, series) = crossoverSignals(fa, sa, p[2])
    BY <1>4, SMTT(30) DEF GenerateSignals
  <2>. HIDE DEF fa, sa, p, a
  <2>4. m \in 1..Len(fa) /\ m <= p[2]
    BY <1>1, <2>1, <2>2
  <2>. QED BY <2>3, <2>4 DEF crossoverSignals
<1>5. CASE ~(WarmupBars(s) > Len(series)) /\ s.kind = "rsi"
  <2> DEFINE ra == wilderRSI(a, p[1])
  <2>1. p[1] \in Nat \ {0} /\ WarmupBars(s) = p[1] + 1
    BY <1>5 DEF Usable
  <2>2. Len(ra) = Len(a)
    BY <1>1, <1>2, <2>1, wilderRSICausal
  <2>3. GenerateSignals(s, series) = rsiZoneExitSignals(ra, p[2], p[3], p[1] + 2)
    BY <1>5, SMTT(30) DEF GenerateSignals
  <2>. HIDE DEF ra, p, a
  <2>4. m \in 1..Len(ra) /\ m < p[1] + 2
    BY <1>1, <2>1, <2>2
  <2>. QED BY <2>3, <2>4 DEF rsiZoneExitSignals
<1>6. CASE ~(WarmupBars(s) > Len(series)) /\ s.kind = "macd"
  <2> DEFINE fa == macdLine(a, p)
             sa == signalLine(fa, p)
             from == p[2] + p[3] - 1
  <2>1. p[1] \in Nat \ {0} /\ p[2] \in Nat \ {0} /\ p[3] \in Nat \ {0} /\ WarmupBars(s) = from
    BY <1>6 DEF Usable
  <2>2. Len(fa) = Len(a)
    BY <1>1, <1>2, <2>1, macdLineCausal
  <2>3. GenerateSignals(s, series) = crossoverSignals(fa, sa, from)
    BY <1>6, SMTT(30) DEF GenerateSignals
  <2>. HIDE DEF fa, sa, p, a
  <2>4. from \in Nat
    BY <2>1
  <2>. HIDE DEF from
  <2>5. m \in 1..Len(fa) /\ m <= from
    BY <1>1, <2>1, <2>2, <2>4
  <2>. QED BY <2>3, <2>5 DEF crossoverSignals
<1>. QED BY <1>3, <1>4, <1>5, <1>6 DEF Usable

\* Every strategy that NewStrategy accepts is causal: on every history, its signal on
\* a bar is the one it gives on that bar when the history ends there.
THEOREM SignalsAreCausal ==
  ASSUME NEW s, Decoded(s), NewStrategy(s), NEW series \in Seq(Bar), NEW m \in 1..Len(series)
  PROVE  GenerateSignals(s, SubSeq(series, 1, m))[m] = GenerateSignals(s, series)[m]
<1>1. Usable(s)
  BY NewStrategyUsable
<1>2. WarmupBars(s) \in Int /\ m \in Int
  <2>1. WarmupBars(s) \in Int
    BY <1>1, SMTT(30) DEF Usable
  <2>2. m \in Int
    BY closesOfCausal
  <2>. QED BY <2>1, <2>2
<1>3. CASE WarmupBars(s) <= m
  BY <1>1, <1>3, SignalsWarm
<1>4. CASE m < WarmupBars(s)
  <2>1. GenerateSignals(s, series)[m] = "none"
    BY <1>1, <1>4, SignalsCold
  <2>2. SubSeq(series, 1, m) \in Seq(Bar) /\ Len(SubSeq(series, 1, m)) = m
    BY closesOfCausal
  <2> DEFINE past == SubSeq(series, 1, m)
  <2>. HIDE DEF past
  <2>3. past \in Seq(Bar) /\ m \in 1..Len(past)
    BY <2>2 DEF past
  <2>4. GenerateSignals(s, past)[m] = "none"
    BY <1>1, <1>4, <2>3, SignalsCold
  <2>. QED BY <2>1, <2>4 DEF past
<1>. QED BY <1>2, <1>3, <1>4

-----------------------------------------------------------------------------
(* Validation *)

\* The sorted symbols of a request that is accepted are those it names, each once.
LEMMA SymbolsSorted ==
  ASSUME NEW raw \in Seq(DOMAIN Upper), normalizeSymbols(raw)
  PROVE  /\ Sorted(Uppered(raw)) \in Seq(Listed) /\ Sorted(Uppered(raw)) # <<>>
         /\ DOMAIN Sorted(Uppered(raw)) = DOMAIN raw
         /\ \A i, j \in DOMAIN Sorted(Uppered(raw)) :
              i < j => Sorted(Uppered(raw))[i] < Sorted(Uppered(raw))[j]
<1> DEFINE u == Uppered(raw)
           n == Len(raw)
           S == ToSet(u)
<1>1. n \in Nat /\ n >= 1 /\ DOMAIN raw = 1..n /\ DOMAIN u = 1..n
  BY BacktestAssumption DEF normalizeSymbols, Uppered
<1>2. \A i \in 1..n : u[i] \in Listed
  <2>1. ASSUME NEW i \in 1..n
        PROVE  u[i] \in Listed
    <3>1. raw[i] \in DOMAIN Upper /\ u[i] = Upper[raw[i]] /\ Upper[raw[i]] # 0
      BY <1>1 DEF normalizeSymbols, Uppered
    <3>. QED BY <3>1 DEF Listed
  <2>. QED BY <2>1
<1>3. S = {u[i] : i \in 1..n}
  BY <1>1 DEF ToSet
<1>4. S \subseteq Listed /\ Listed \subseteq Nat
  <2>1. Listed \subseteq Nat
    BY RequestsAssumption DEF Listed
  <2>. QED BY <1>2, <1>3, <2>1
<1>5. IsFiniteSet(1..n) /\ Cardinality(1..n) = n
  <2>1. IsFiniteSet(1..n) /\ Cardinality(1..n) = IF 1 > n THEN 0 ELSE n - 1 + 1
    BY <1>1, FS_Interval
  <2>. QED BY <1>1, <2>1
<1>6. IsFiniteSet(S) /\ Cardinality(S) = n
  <2>1. \A i, j \in 1..n : u[i] = u[j] => i = j
    BY <1>1 DEF normalizeSymbols, IsInjective
  <2>2. u \in [1..n -> S]
    BY <1>1, <1>3 DEF Uppered
  <2>. HIDE DEF u, S, n
  <2>3. \A y \in S : \E i \in 1..n : u[i] = y
    BY <1>3
  <2>4. u \in Bijection(1..n, S)
    BY <2>1, <2>2, <2>3, Zenon DEF Bijection, Injection, Surjection, IsInjective
  <2>5. ExistsBijection(1..n, S)
    BY <2>4 DEF ExistsBijection
  <2>. QED BY <1>5, <2>5, FS_Bijection
<1>. HIDE DEF S, u, n
<1>7. S \in SUBSET Int
  <2>1. \A x \in S : x \in Nat
    BY <1>4
  <2>. QED BY <2>1
<1>8. Ascending(S) \in [1..n -> S] /\ \A i, j \in 1..n : i < j <=> Ascending(S)[i] < Ascending(S)[j]
  BY <1>6, <1>7, AscendingIs
<1>9. Sorted(u) = Ascending(S)
  BY DEF Sorted, S
<1>10. Ascending(S) \in Seq(Listed)
  <2>1. Ascending(S) \in [1..n -> Listed]
    BY <1>4, <1>8
  <2>. QED BY <1>1, <2>1
<1>11. Ascending(S) # <<>>
  BY <1>1, <1>8
<1>12. DOMAIN Ascending(S) = 1..n
  BY <1>8
<1>. QED BY <1>1, <1>8, <1>9, <1>10, <1>11, <1>12 DEF u

-----------------------------------------------------------------------------
(* Alignment *)

\* Bars in the order of their days, no day twice.
BarsAscend(series) == \A j, k \in DOMAIN series : j < k => series[j].day < series[k].day

\* What is kept of such bars is in that order.
LEMMA KeepBars ==
  ASSUME NEW h \in Seq(Bar), BarsAscend(h), NEW places \in SUBSET DOMAIN h
  PROVE  /\ Keep(h, places) \in Seq(Bar) /\ BarsAscend(Keep(h, places))
         /\ ToSet(Keep(h, places)) = {h[k] : k \in places}
<1> DEFINE n == Cardinality(places)
           a == Ascending(places)
           kept == Keep(h, places)
<1>1. /\ n \in Nat /\ kept \in Seq(Bar) /\ Len(kept) = n
      /\ \A k \in 1..n : a[k] \in places /\ kept[k] = h[a[k]]
      /\ \A p \in places : \E k \in 1..n : a[k] = p /\ kept[k] = h[p]
      /\ \A j, k \in 1..n : j < k => a[j] < a[k]
  BY KeepIs
<1>. HIDE DEF n, a, kept, Bar
<1>2. DOMAIN kept = 1..n
  BY <1>1
<1>3. ASSUME NEW j \in 1..n, NEW k \in 1..n, j < k
      PROVE  kept[j].day < kept[k].day
  <2>1. a[j] \in DOMAIN h /\ a[k] \in DOMAIN h /\ a[j] < a[k]
    BY <1>1, <1>3
  <2>2. kept[j] = h[a[j]] /\ kept[k] = h[a[k]]
    BY <1>1
  <2>3. h[a[j]].day < h[a[k]].day
    BY <2>1 DEF BarsAscend
  <2>. QED BY <2>2, <2>3
<1>4. BarsAscend(kept)
  BY <1>2, <1>3 DEF BarsAscend
<1>5. ToSet(kept) = {h[k] : k \in places}
  <2>1. \A k \in 1..n : a[k] \in places /\ kept[k] = h[a[k]]
    BY <1>1
  <2>2. \A p \in places : \E k \in 1..n : kept[k] = h[p]
    BY <1>1
  <2>3. ToSet(kept) = {kept[k] : k \in 1..n}
    BY <1>2 DEF ToSet
  <2>. QED BY <2>1, <2>2, <2>3
<1>. QED BY <1>1, <1>4, <1>5 DEF kept

\* sliceRange gives the bars of the range, both ends included.
LEMMA sliceRangeIs ==
  ASSUME NEW h \in Seq(Bar), BarsAscend(h), NEW start \in Int, NEW end \in Int
  PROVE  /\ sliceRange(h, start, end) \in Seq(Bar) /\ BarsAscend(sliceRange(h, start, end))
         /\ ToSet(sliceRange(h, start, end)) = {b \in ToSet(h) : start <= b.day /\ b.day <= end}
<1> DEFINE places == {k \in DOMAIN h : start <= h[k].day /\ h[k].day <= end}
<1>1. places \in SUBSET DOMAIN h
  OBVIOUS
<1>2. sliceRange(h, start, end) = Keep(h, places)
  BY DEF sliceRange
<1>3. {h[k] : k \in places} = {b \in ToSet(h) : start <= b.day /\ b.day <= end}
  BY Zenon DEF ToSet
<1>. HIDE DEF places
<1>. QED BY <1>1, <1>2, <1>3, KeepBars

\* The bars of one symbol and day among what is in its range.
ByDay(series, day) == {b \in ToSet(series) : b.day = day}

\* What market-data serves of a history: its bars of the newest days, in order.
LEMMA ServedIs ==
  ASSUME NEW h \in Seq(Bar), BarsAscend(h)
  PROVE  /\ Served(h) \in Seq(Bar) /\ BarsAscend(Served(h))
         /\ ToSet(Served(h)) \subseteq ToSet(h) /\ DaysOf(Served(h)) = NewestDays(h)
<1> DEFINE places == {k \in DOMAIN h : Len(h) - k < historyLimit}
<1>1. places \in SUBSET DOMAIN h
  OBVIOUS
<1>2. Served(h) = Keep(h, places)
  BY DEF Served
<1>3. places = {j \in DOMAIN h : Len(h) < j + historyLimit}
  <2>1. Len(h) \in Nat /\ DOMAIN h = 1..Len(h) /\ historyLimit \in Nat
    BY BacktestAssumption
  <2>. QED BY <2>1
<1>4. /\ Served(h) \in Seq(Bar) /\ BarsAscend(Served(h))
      /\ ToSet(Served(h)) = {h[k] : k \in places}
  <2>. HIDE DEF places, Bar
  <2>. QED BY <1>1, <1>2, KeepBars
<1>5. ToSet(Served(h)) \subseteq ToSet(h)
  BY <1>4 DEF ToSet
<1>6. DaysOf(Served(h)) = {h[k].day : k \in places}
  <2>. HIDE DEF places
  <2>. QED BY <1>4 DEF DaysOf
<1>7. NewestDays(h) = {h[k].day : k \in places}
  BY <1>3 DEF NewestDays
<1>. QED BY <1>4, <1>5, <1>6, <1>7

\* What a run's fetch is given: for each symbol, its newest bars in the order of their days.
LEMMA HistoriesAscend ==
  ASSUME stored \in Markets, Accepted(req), NEW i \in DOMAIN req.symbols
  PROVE  LET h == stored[req.symbols[i]]
         IN /\ Served(h) \in Seq(Bar) /\ BarsAscend(Served(h))
            /\ ToSet(Served(h)) \subseteq ToSet(h) /\ DaysOf(Served(h)) = NewestDays(h)
<1>1. req.symbols[i] \in Listed
  <2>1. req.symbols \in Seq(Listed)
    BY DEF Accepted
  <2>. HIDE DEF Listed
  <2>. QED BY <2>1
<1>2. stored[req.symbols[i]] \in Seq(Bar) /\ BarsAscend(stored[req.symbols[i]])
  BY <1>1, MarketsAssumption DEF BarsAscend
<1>. QED BY <1>2, ServedIs

\* alignBars gives each symbol a bar on every common day and on no other.
LEMMA alignBarsIs ==
  ASSUME stored \in Markets, Accepted(req)
  PROVE  /\ alignBars \in Seq(Seq(Bar)) /\ Len(alignBars) = Len(req.symbols) /\ alignBars # <<>>
         /\ \A i \in DOMAIN alignBars : Len(alignBars[i]) = Len(alignBars[1])
         /\ OnCommonDays(stored, req, alignBars)
<1> DEFINE n == Len(req.symbols)
           D == DOMAIN req.symbols
           H(i) == Served(stored[req.symbols[i]])
           ranged == [i \in D |-> sliceRange(H(i), req.start, req.end)]
           first == ranged[1]
           P == {k \in DOMAIN first : \A i \in D : ByDay(ranged[i], first[k].day) # {}}
           common == Keep(first, P)
           Pick(i, k) == CHOOSE b \in ByDay(ranged[i], common[k].day) : TRUE
           series == [i \in D |-> [k \in DOMAIN common |-> Pick(i, k)]]
<1>1. n \in Nat /\ n >= 1 /\ D = 1..n /\ 1 \in D
  <2>1. req.symbols \in Seq(Listed) /\ req.symbols # <<>>
    BY DEF Accepted
  <2>. HIDE DEF Listed
  <2>. QED BY <2>1
<1>2. req.start \in Int /\ req.end \in Int
  BY DEF Accepted
<1>3. ASSUME NEW i \in D
      PROVE  /\ ranged[i] \in Seq(Bar) /\ BarsAscend(ranged[i])
             /\ ToSet(ranged[i]) = {b \in ToSet(H(i)) : req.start <= b.day /\ b.day <= req.end}
  <2>1. H(i) \in Seq(Bar) /\ BarsAscend(H(i))
    BY HistoriesAscend
  <2>2. ranged[i] = sliceRange(H(i), req.start, req.end)
    OBVIOUS
  <2>. HIDE DEF H, ranged, Bar
  <2>3. LET cut == sliceRange(H(i), req.start, req.end)
        IN /\ cut \in Seq(Bar) /\ BarsAscend(cut)
           /\ ToSet(cut) = {b \in ToSet(H(i)) : req.start <= b.day /\ b.day <= req.end}
    BY ONLY <1>2, <2>1, sliceRangeIs, Zenon
  <2>. QED BY ONLY <2>2, <2>3, Zenon
<1>4. alignBars = series
  BY DEF alignBars, ByDay
<1>. HIDE DEF H, ranged, Bar
<1>5. first \in Seq(Bar) /\ BarsAscend(first)
      /\ ToSet(first) = {b \in ToSet(H(1)) : req.start <= b.day /\ b.day <= req.end}
  BY <1>1, <1>3
<1>6. common \in Seq(Bar) /\ BarsAscend(common) /\ ToSet(common) = {first[k] : k \in P}
  <2>1. P \in SUBSET DOMAIN first
    OBVIOUS
  <2>. HIDE DEF P, first
  <2>. QED BY <1>5, <2>1, KeepBars
<1>7. Len(common) \in Nat /\ DOMAIN common = 1..Len(common)
  <2>. HIDE DEF common
  <2>. QED BY <1>6
<1>8. ASSUME NEW k \in DOMAIN common
      PROVE  common[k] \in ToSet(first) /\ \A i \in D : ByDay(ranged[i], common[k].day) # {}
  <2>1. common[k] \in ToSet(common)
    BY DEF ToSet
  <2>2. PICK j \in P : common[k] = first[j]
    <3>. HIDE DEF common, first, P
    <3>. QED BY <1>6, <2>1
  <2>3. j \in DOMAIN first /\ \A i \in D : ByDay(ranged[i], first[j].day) # {}
    OBVIOUS
  <2>. HIDE DEF common, first, P
  <2>. QED BY <2>2, <2>3 DEF ToSet
<1>9. ASSUME NEW i \in D, NEW k \in DOMAIN common
      PROVE  /\ series[i][k] \in ToSet(ranged[i]) /\ series[i][k] \in Bar
             /\ series[i][k].day = common[k].day
  <2>1. series[i][k] = Pick(i, k)
    OBVIOUS
  <2>2. Pick(i, k) \in ByDay(ranged[i], common[k].day)
    <3>. HIDE DEF common
    <3>. QED BY <1>8
  <2>. HIDE DEF series, Pick, common
  <2>3. series[i][k] \in ToSet(ranged[i]) /\ series[i][k].day = common[k].day
    BY <2>1, <2>2 DEF ByDay
  <2>4. \A b \in ToSet(ranged[i]) : b \in Bar
    BY <1>3 DEF ToSet
  <2>. QED BY <2>3, <2>4
<1>10. DOMAIN series = D /\ \A i \in D : DOMAIN series[i] = DOMAIN common
  OBVIOUS
<1>11. ASSUME NEW i \in D
       PROVE  series[i] \in Seq(Bar) /\ Len(series[i]) = Len(common)
  <2>1. series[i] \in [1..Len(common) -> Bar]
    <3>1. series[i] = [k \in 1..Len(common) |-> Pick(i, k)]
      BY <1>7
    <3>2. \A k \in 1..Len(common) : Pick(i, k) \in Bar
      <4>1. \A k \in DOMAIN common : series[i][k] = Pick(i, k)
        OBVIOUS
      <4>. HIDE DEF series, Pick, common
      <4>. QED BY <1>7, <1>9, <4>1
    <3>. HIDE DEF series, Pick, common
    <3>. QED BY <3>1, <3>2
  <2>. HIDE DEF series, common
  <2>. QED BY <1>7, <2>1
<1>12. series \in Seq(Seq(Bar)) /\ Len(series) = n /\ series # <<>>
  <2>1. series \in [1..n -> Seq(Bar)]
    <3>1. series = [i \in 1..n |-> series[i]]
      BY <1>1
    <3>. HIDE DEF series, common
    <3>. QED BY <1>1, <1>11, <3>1
  <2>. HIDE DEF series
  <2>. QED BY <1>1, <2>1
<1>. HIDE DEF series
<1>13. \A i \in DOMAIN series : Len(series[i]) = Len(series[1])
  <2>. HIDE DEF common
  <2>. QED BY <1>1, <1>10, <1>11
<1> DEFINE days == CommonDays(stored, req)
<1>14. ASSUME NEW k \in DOMAIN common
       PROVE  common[k].day \in days
  <2>1. common[k] \in ToSet(H(1)) /\ req.start <= common[k].day /\ common[k].day <= req.end
    <3>. HIDE DEF common, first
    <3>. QED BY <1>5, <1>8
  <2>2. common[k].day \in Int
    <3>. HIDE DEF common
    <3>1. common[k] \in Bar
      BY <1>6
    <3>. QED BY <3>1 DEF Bar
  <2>3. ASSUME NEW i \in D
        PROVE  common[k].day \in NewestDays(stored[req.symbols[i]])
    <3>1. PICK b \in ToSet(ranged[i]) : b.day = common[k].day
      <4>. HIDE DEF common
      <4>. QED BY <1>8 DEF ByDay
    <3>2. b \in ToSet(H(i))
      BY <1>3
    <3>3. common[k].day \in DaysOf(H(i))
      <4>. HIDE DEF common
      <4>. QED BY <3>1, <3>2 DEF DaysOf
    <3>. HIDE DEF common
    <3>. QED BY <3>3, HistoriesAscend DEF H
  <2>4. \A s \in ToSet(req.symbols) : common[k].day \in NewestDays(stored[s])
    <3>. HIDE DEF common
    <3>. QED BY <2>3 DEF ToSet
  <2>5. common[k].day \in req.start..req.end
    <3>. HIDE DEF common
    <3>. QED BY <1>2, <2>1, <2>2
  <2>. HIDE DEF common
  <2>. QED BY <2>4, <2>5 DEF CommonDays
<1>15. ASSUME NEW d \in days
       PROVE  \E k \in DOMAIN common : common[k].day = d
  <2>1. d \in Int /\ req.start <= d /\ d <= req.end /\ \A s \in ToSet(req.symbols) : d \in NewestDays(stored[s])
    BY <1>2 DEF CommonDays
  <2>2. ASSUME NEW i \in D
        PROVE  \E b \in ToSet(ranged[i]) : b.day = d
    <3>1. req.symbols[i] \in ToSet(req.symbols)
      BY DEF ToSet
    <3>2. PICK b \in ToSet(H(i)) : b.day = d
      <4>1. d \in DaysOf(H(i))
        BY <2>1, <3>1, HistoriesAscend DEF H
      <4>. QED BY <4>1 DEF DaysOf
    <3>3. b \in ToSet(ranged[i])
      BY <1>3, <2>1, <3>2
    <3>. QED BY <3>2, <3>3
  <2>3. PICK b \in ToSet(first) : b.day = d
    BY <1>1, <2>2
  <2>4. PICK j \in DOMAIN first : first[j] = b
    BY DEF ToSet
  <2>5. \A i \in D : ByDay(ranged[i], d) # {}
    BY <2>2 DEF ByDay
  <2>6. j \in P
    BY <2>3, <2>4, <2>5
  <2>7. b \in ToSet(common)
    <3>. HIDE DEF common, P, first
    <3>. QED BY <1>6, <2>4, <2>6
  <2>. HIDE DEF common, P, first
  <2>. QED BY <2>3, <2>7 DEF ToSet
<1>. HIDE DEF common, first, P
<1>16. ASSUME NEW i \in D
       PROVE  /\ DaysOf(series[i]) = days
              /\ \A k \in DOMAIN series[i] : k > 1 => series[i][k - 1].day < series[i][k].day
              /\ ToSet(series[i]) \subseteq ToSet(stored[req.symbols[i]])
  <2>1. DOMAIN series[i] = DOMAIN common
    BY <1>10
  <2>2. DaysOf(series[i]) = {series[i][k].day : k \in DOMAIN common}
    BY <2>1 DEF DaysOf, ToSet
  <2>3. DaysOf(series[i]) = days
    <3>. HIDE DEF days
    <3>1. \A k \in DOMAIN common : series[i][k].day = common[k].day
      BY <1>9
    <3>. QED BY <1>14, <1>15, <2>2, <3>1
  <2>4. ASSUME NEW k \in DOMAIN common, k > 1
        PROVE  series[i][k - 1].day < series[i][k].day
    <3>1. k - 1 \in DOMAIN common /\ k - 1 < k
      BY <1>7, <2>4
    <3>2. common[k - 1].day < common[k].day
      BY <1>6, <3>1 DEF BarsAscend
    <3>. QED BY <1>9, <3>1, <3>2
  <2>5. ToSet(series[i]) \subseteq ToSet(stored[req.symbols[i]])
    <3>1. \A k \in DOMAIN common : series[i][k] \in ToSet(ranged[i])
      BY <1>9
    <3>2. ToSet(ranged[i]) \subseteq ToSet(stored[req.symbols[i]])
      <4>1. ToSet(ranged[i]) \subseteq ToSet(H(i))
        BY <1>3
      <4>. QED BY <4>1, HistoriesAscend DEF H
    <3>3. ToSet(series[i]) = {series[i][k] : k \in DOMAIN common}
      BY <2>1 DEF ToSet
    <3>. QED BY <3>1, <3>2, <3>3
  <2>. QED BY <2>1, <2>3, <2>4, <2>5
<1>17. OnCommonDays(stored, req, series)
  BY <1>10, <1>16 DEF OnCommonDays
<1>. QED BY <1>4, <1>12, <1>13, <1>17

-----------------------------------------------------------------------------
(* Simulation *)

\* The portfolio's states of a run that has begun.
States == SimStates(req.symbols, aligned, signals)

\* The value of a portfolio is a whole number.
LEMMA ValueType ==
  ASSUME NEW n \in Nat, Portfolio = 1..n, NEW p, p.cash \in Int, p.quantity \in [Portfolio -> Int],
         NEW price \in [Portfolio -> Int]
  PROVE  Value(p, price) \in Int
<1> DEFINE v == [i \in Portfolio |-> p.quantity[i] * price[i]]
<1>1. \A i \in Portfolio : p.quantity[i] * price[i] \in Int
  OBVIOUS
<1>2. v \in [1..n -> Int]
  BY <1>1
<1>3. v \in Seq(Int)
  <2>. HIDE DEF v
  <2>. QED BY <1>2
<1>4. SumSeq(v) \in Int
  <2>. HIDE DEF v
  <2>. QED BY <1>3, SumSeqType
<1>5. Value(p, price) = p.cash + SumSeq(v)
  BY DEF Value
<1>. HIDE DEF v
<1>. QED BY <1>4, <1>5

\* What a bar may use of a run.
LEMMA RunBars ==
  ASSUME Accepted(req), Playable(req, aligned)
  PROVE  /\ Len(aligned) \in Nat /\ Len(aligned) >= 1 /\ Portfolio = 1..Len(aligned)
         /\ DOMAIN aligned = 1..Len(aligned) /\ Len(aligned[1]) \in Nat
         /\ \A i \in Portfolio : /\ req.symbols[i] \in Listed
                                 /\ aligned[i] \in Seq(Bar) /\ Len(aligned[i]) = Len(aligned[1])
         /\ \A i \in Portfolio : \A k \in 1..Len(aligned[1]) :
              aligned[i][k] \in Bar /\ aligned[i][k].open \in Int /\ aligned[i][k].close \in Int
<1>. HIDE DEF Listed, Bar
<1>1. req.symbols \in Seq(Listed) /\ req.symbols # <<>>
  BY DEF Accepted
<1>2. aligned \in Seq(Seq(Bar)) /\ Len(aligned) = Len(req.symbols)
      /\ \A i \in DOMAIN aligned : Len(aligned[i]) = Len(aligned[1])
  BY DEF Playable
<1>3. Len(req.symbols) \in Nat /\ Len(req.symbols) >= 1
  BY <1>1
<1>4. Len(aligned) \in Nat /\ Len(aligned) >= 1 /\ Portfolio = 1..Len(aligned) /\ DOMAIN aligned = 1..Len(aligned)
  BY <1>2, <1>3 DEF Portfolio
<1>5. ASSUME NEW i \in Portfolio
      PROVE  req.symbols[i] \in Listed /\ aligned[i] \in Seq(Bar) /\ Len(aligned[i]) = Len(aligned[1])
  <2>1. i \in 1..Len(req.symbols) /\ i \in 1..Len(aligned) /\ i \in DOMAIN aligned
    BY <1>2, <1>4
  <2>2. req.symbols[i] \in Listed
    BY <1>1, <2>1
  <2>3. aligned[i] \in Seq(Bar)
    BY <1>2, <2>1
  <2>. QED BY <1>2, <2>1, <2>2, <2>3
<1>6. Len(aligned[1]) \in Nat
  <2>1. 1 \in Portfolio
    BY <1>4
  <2>2. aligned[1] \in Seq(Bar)
    BY <1>5, <2>1
  <2>. QED BY <2>2
<1>7. ASSUME NEW i \in Portfolio, NEW k \in 1..Len(aligned[1])
      PROVE  aligned[i][k] \in Bar /\ aligned[i][k].open \in Int /\ aligned[i][k].close \in Int
  <2>1. aligned[i] \in Seq(Bar) /\ k \in 1..Len(aligned[i])
    BY <1>5
  <2>2. aligned[i][k] \in Bar
    BY <2>1
  <2>. QED BY <2>2 DEF Bar
<1>. QED BY <1>4, <1>5, <1>6, <1>7

\* A trade that is recorded where a signal was given answers it.
LEMMA RecordAnswers ==
  ASSUME Accepted(req), Playable(req, aligned), NEW p \in States,
         NEW i \in Portfolio, NEW k \in 2..Len(aligned[1]), NEW side \in {"buy", "sell"},
         signals[i][k - 1] = side, NEW quantity \in Int, NEW pl \in Int
  PROVE  Append(p.trades, Record(side, i, k, quantity, pl))
           \in Seq({t \in TradeType : Answers(t, req.symbols, aligned, signals)})
<1> DEFINE t == Record(side, i, k, quantity, pl)
           T == {u \in TradeType : Answers(u, req.symbols, aligned, signals)}
<1>1. Len(aligned[1]) \in Nat /\ req.symbols[i] \in Listed /\ i \in DOMAIN aligned
  BY RunBars DEF Portfolio
<1>2. k \in Nat /\ k \in 1..Len(aligned[1])
  BY <1>1
<1>3. aligned[i][k].open \in Int
  BY <1>2, RunBars
<1>4. t \in TradeType
  BY <1>1, <1>2, <1>3 DEF Record, TradeType
<1>5. t.symbol = req.symbols[i] /\ t.bar = k /\ t.side = side
  BY DEF Record
<1>. HIDE DEF t
<1>6. Answers(t, req.symbols, aligned, signals)
  BY <1>1, <1>5 DEF Answers
<1>7. t \in T
  BY <1>4, <1>6
<1>. HIDE DEF T
<1>8. p.trades \in Seq(T)
  BY DEF States, SimStates, T
<1>9. Append(p.trades, t) \in Seq(T)
  BY <1>7, <1>8
<1>. QED BY <1>9 DEF t, T

\* A state after a fill of symbol i.
Filled(p, money, i, quantity, avgCost, trades) ==
  [p EXCEPT !.cash = money, !.quantity[i] = quantity, !.avgCost[i] = avgCost, !.trades = trades]

\* It is still a state of the run when what is filled in has its type.
LEMMA FilledStays ==
  ASSUME NEW p \in States, NEW money \in Int, NEW i \in Portfolio, NEW quantity \in Int,
         NEW avgCost \in Int,
         NEW trades \in Seq({t \in TradeType : Answers(t, req.symbols, aligned, signals)})
  PROVE  Filled(p, money, i, quantity, avgCost, trades) \in States
<1> DEFINE T == Seq({t \in TradeType : Answers(t, req.symbols, aligned, signals)})
<1>1. States = [bar : 0..Len(aligned[1]), cash : Int, quantity : [Portfolio -> Int],
                avgCost : [Portfolio -> Int], trades : T, equity : Int]
  BY DEF States, SimStates, Portfolio
<1>. HIDE DEF T, States
<1>2. trades \in T
  BY DEF T
<1>. QED BY <1>1, <1>2 DEF Filled

\* A sell, of one that answers a signal.
LEMMA SellStays ==
  ASSUME Accepted(req), Playable(req, aligned), NEW p \in States,
         NEW i \in Portfolio, NEW k \in 2..Len(aligned[1])
  PROVE  Sell(p, i, k) \in States
<1> DEFINE open == aligned[i][k].open
           q == p.quantity[i]
           pl == (open - p.avgCost[i]) * q
           t == Record("sell", i, k, q, pl)
<1>1. CASE signals[i][k - 1] # "sell" \/ p.quantity[i] = 0
  BY <1>1 DEF Sell, Signal
<1>2. CASE ~(signals[i][k - 1] # "sell" \/ p.quantity[i] = 0)
  <2>1. p.cash \in Int /\ q \in Int /\ p.avgCost[i] \in Int
    BY DEF States, SimStates, Portfolio
  <2>2. open \in Int
    <3>1. k \in 1..Len(aligned[1])
      BY RunBars
    <3>. QED BY <3>1, RunBars
  <2>3. pl \in Int /\ p.cash + q * open \in Int
    <3>. HIDE DEF open, q
    <3>. QED BY <2>1, <2>2, SMTT(30)
  <2>4. Append(p.trades, t) \in Seq({u \in TradeType : Answers(u, req.symbols, aligned, signals)})
    <3>. HIDE DEF q, pl
    <3>. QED BY <1>2, <2>1, <2>3, RecordAnswers
  <2>5. Sell(p, i, k) = Filled(p, p.cash + q * open, i, 0, 0, Append(p.trades, t))
    <3>1. Sell(p, i, k) = [p EXCEPT !.cash = p.cash + q * open, !.trades = Append(p.trades, t),
                                    !.quantity[i] = 0, !.avgCost[i] = 0]
      BY <1>2 DEF Sell, Signal
    <3>2. p \in [bar : 0..Len(aligned[1]), cash : Int, quantity : [Portfolio -> Int],
                 avgCost : [Portfolio -> Int],
                 trades : Seq({u \in TradeType : Answers(u, req.symbols, aligned, signals)}), equity : Int]
      BY DEF States, SimStates, Portfolio
    <3>. HIDE DEF open, q, pl, t
    <3>. QED BY <3>1, <3>2 DEF Filled
  <2>. HIDE DEF open, q, pl, t, States
  <2>6. 0 \in Int
    OBVIOUS
  <2>. QED BY <2>3, <2>4, <2>5, <2>6, FilledStays
<1>. QED BY <1>1, <1>2

\* A buy, of one that answers a signal.
LEMMA BuyStays ==
  ASSUME Accepted(req), Playable(req, aligned), NEW p \in States,
         NEW i \in Portfolio, NEW k \in 2..Len(aligned[1]), NEW target \in Int
  PROVE  Buy(p, i, k, target) \in States
<1> DEFINE open == aligned[i][k].open
           spend == IF p.cash < target THEN p.cash ELSE target
           q == Exactly(spend, open)
           t == Record("buy", i, k, q, 0)
<1>1. CASE signals[i][k - 1] # "buy" \/ p.quantity[i] # 0 \/ spend <= 0
  BY <1>1 DEF Buy, Signal
<1>2. CASE ~(signals[i][k - 1] # "buy" \/ p.quantity[i] # 0 \/ spend <= 0)
  <2>1. p.cash \in Int
    BY DEF States, SimStates
  <2>2. open \in Int
    <3>1. k \in 1..Len(aligned[1])
      BY RunBars
    <3>. QED BY <3>1, RunBars
  <2>3. spend \in Int
    <3>. HIDE DEF open
    <3>. QED BY <2>1
  <2>4. q \in Int /\ p.cash - spend \in Int /\ 0 \in Int
    <3>. HIDE DEF open, spend
    <3>1. Exactly(spend, open) \in Int
      BY <2>2, <2>3, ExactlyType
    <3>. QED BY <2>1, <2>3, <3>1
  <2>5. Append(p.trades, t) \in Seq({u \in TradeType : Answers(u, req.symbols, aligned, signals)})
    <3>. HIDE DEF q
    <3>. QED BY <1>2, <2>4, RecordAnswers
  <2>6. Buy(p, i, k, target) = Filled(p, p.cash - spend, i, q, open, Append(p.trades, t))
    <3>1. Buy(p, i, k, target) = [p EXCEPT !.cash = p.cash - spend, !.quantity[i] = q, !.avgCost[i] = open,
                                           !.trades = Append(p.trades, t)]
      BY <1>2 DEF Buy, Signal
    <3>. QED BY <3>1 DEF Filled
  <2>. HIDE DEF open, q, spend, t, States
  <2>. QED BY <2>2, <2>4, <2>5, <2>6, FilledStays
<1>. QED BY <1>1, <1>2

\* The pass of the sells over the symbols.
LEMMA SellsStay ==
  ASSUME Accepted(req), Playable(req, aligned), NEW first \in States, NEW k \in 2..Len(aligned[1])
  PROVE  (CHOOSE f : f = [i \in 0..Len(aligned) |->
                            IF i = 0 THEN first ELSE Sell(f[i - 1], i, k)])[Len(aligned)] \in States
<1> DEFINE n == Len(aligned)
           Sells(f) == f = [i \in 0..n |-> IF i = 0 THEN first ELSE Sell(f[i - 1], i, k)]
           step == [i \in 1..n |-> [p \in States |-> Sell(p, i, k)]]
           g == CHOOSE f : Sells(f)
<1>1. n \in Nat /\ Portfolio = 1..n
  BY RunBars
<1>2. step \in [1..n -> [States -> States]]
  <2>1. \A i \in 1..n, p \in States : Sell(p, i, k) \in States
    BY <1>1, SellStays
  <2>. HIDE DEF n, States
  <2>. QED BY <2>1
<1>3. PICK f \in [0..n -> States] : f[0] = first /\ \A i \in 1..n : f[i] = step[i][f[i - 1]]
  <2>1. Runnable(n, States, first, step)
    <3>. HIDE DEF step, n, States
    <3>. QED BY <1>1, <1>2, ForwardRecursionExists
  <2>. HIDE DEF step, n, States
  <2>. QED BY <2>1 DEF Runnable, Runs
<1>. HIDE DEF n, States
<1>4. \A i \in 1..n : f[i] = Sell(f[i - 1], i, k)
  <2>1. \A i \in 1..n : f[i - 1] \in States
    BY <1>1
  <2>. QED BY <1>3, <2>1
<1>5. Sells(f)
  BY <1>1, <1>3, <1>4
<1>6. Sells(g)
  <2>. HIDE DEF Sells
  <2>. QED BY <1>5
<1>7. g[n] = f[n]
  <2>. HIDE DEF g
  <2>1. g[0] = f[0]
    BY <1>1, <1>3, <1>6
  <2>2. \A i \in 1..n : i \in 0..n /\ i # 0
    BY <1>1
  <2>3. \A i \in 1..n : g[i] = Sell(g[i - 1], i, k)
    BY <1>6, <2>2
  <2>4. \A i \in 1..n : g[i - 1] = f[i - 1] => g[i] = f[i]
    BY <1>4, <2>3
  <2>5. Alike(g, f, n)
    BY <1>1, <2>1, <2>4, AgreeAlong DEF Stepwise
  <2>. QED BY <1>1, <2>5 DEF Alike
<1>8. f[n] \in States
  BY <1>1
<1>9. g[n] \in States
  <2>. HIDE DEF g
  <2>. QED BY <1>7, <1>8
<1>. QED BY <1>9 DEF n

\* The pass of the buys.
LEMMA BuysStay ==
  ASSUME Accepted(req), Playable(req, aligned), NEW first \in States, NEW k \in 2..Len(aligned[1]),
         NEW target \in Int
  PROVE  (CHOOSE f : f = [i \in 0..Len(aligned) |->
                            IF i = 0 THEN first ELSE Buy(f[i - 1], i, k, target)])[Len(aligned)] \in States
<1> DEFINE n == Len(aligned)
           Buys(f) == f = [i \in 0..n |-> IF i = 0 THEN first ELSE Buy(f[i - 1], i, k, target)]
           step == [i \in 1..n |-> [p \in States |-> Buy(p, i, k, target)]]
           g == CHOOSE f : Buys(f)
<1>1. n \in Nat /\ Portfolio = 1..n
  BY RunBars
<1>2. step \in [1..n -> [States -> States]]
  <2>1. \A i \in 1..n, p \in States : Buy(p, i, k, target) \in States
    BY <1>1, BuyStays
  <2>. HIDE DEF n, States
  <2>. QED BY <2>1
<1>3. PICK f \in [0..n -> States] : f[0] = first /\ \A i \in 1..n : f[i] = step[i][f[i - 1]]
  <2>1. Runnable(n, States, first, step)
    <3>. HIDE DEF step, n, States
    <3>. QED BY <1>1, <1>2, ForwardRecursionExists
  <2>. HIDE DEF step, n, States
  <2>. QED BY <2>1 DEF Runnable, Runs
<1>. HIDE DEF n, States
<1>4. \A i \in 1..n : f[i] = Buy(f[i - 1], i, k, target)
  <2>1. \A i \in 1..n : f[i - 1] \in States
    BY <1>1
  <2>. QED BY <1>3, <2>1
<1>5. Buys(f)
  BY <1>1, <1>3, <1>4
<1>6. Buys(g)
  <2>. HIDE DEF Buys
  <2>. QED BY <1>5
<1>7. g[n] = f[n]
  <2>. HIDE DEF g
  <2>1. g[0] = f[0]
    BY <1>1, <1>3, <1>6
  <2>2. \A i \in 1..n : i \in 0..n /\ i # 0
    BY <1>1
  <2>3. \A i \in 1..n : g[i] = Buy(g[i - 1], i, k, target)
    BY <1>6, <2>2
  <2>4. \A i \in 1..n : g[i - 1] = f[i - 1] => g[i] = f[i]
    BY <1>4, <2>3
  <2>5. Alike(g, f, n)
    BY <1>1, <2>1, <2>4, AgreeAlong DEF Stepwise
  <2>. QED BY <1>1, <2>5 DEF Alike
<1>8. f[n] \in States
  BY <1>1
<1>9. g[n] \in States
  <2>. HIDE DEF g
  <2>. QED BY <1>7, <1>8
<1>. QED BY <1>9 DEF n

\* A bar keeps every trade an answer to a signal of the bar before it.
LEMMA SimulateBarStays ==
  ASSUME Accepted(req), Playable(req, aligned), sim \in States, SimulateBar
  PROVE  sim' \in States
<1> DEFINE k == sim.bar + 1
           n == Len(aligned)
           sold == CHOOSE f : f = [i \in 0..n |-> IF i = 0 THEN sim ELSE Sell(f[i - 1], i, k)]
           opens == [i \in Portfolio |-> aligned[i][k].open]
           closes == [i \in Portfolio |-> aligned[i][k].close]
           target == Exactly(Value(sold[n], opens), n)
           bought == CHOOSE f : f = [i \in 0..n |-> IF i = 0 THEN sold[n] ELSE Buy(f[i - 1], i, k, target)]
           filled == IF k = 1 THEN sim ELSE bought[n]
<1>1. n \in Nat /\ n >= 1 /\ Portfolio = 1..n /\ Len(aligned[1]) \in Nat
  BY RunBars
<1>2. k \in 1..Len(aligned[1])
  <2>1. sim.bar \in 0..Len(aligned[1])
    BY DEF States, SimStates
  <2>2. sim.bar < Len(aligned[1])
    BY DEF SimulateBar
  <2>. QED BY <1>1, <2>1, <2>2
<1>3. sim' = [filled EXCEPT !.bar = k, !.equity = Value(filled, closes)]
  BY DEF SimulateBar
<1>4. opens \in [Portfolio -> Int] /\ closes \in [Portfolio -> Int]
  <2>1. \A i \in Portfolio : aligned[i][k].open \in Int /\ aligned[i][k].close \in Int
    <3>. HIDE DEF k
    <3>. QED BY <1>2, RunBars
  <2>. QED BY <2>1
<1>5. \A p \in States : p.cash \in Int /\ p.quantity \in [Portfolio -> Int]
  BY DEF States, SimStates, Portfolio
<1>6. filled \in States
  <2>1. CASE k = 1
    BY <2>1
  <2>2. CASE k # 1
    <3>1. k \in 2..Len(aligned[1])
      <4>. HIDE DEF k
      <4>. QED BY <1>1, <1>2, <2>2
    <3>2. sold[n] \in States
      <4>. HIDE DEF k
      <4>. QED BY <3>1, SellsStay
    <3>3. Value(sold[n], opens) \in Int
      <4>. HIDE DEF sold, opens, n
      <4>. QED BY <1>1, <1>4, <1>5, <3>2, ValueType
    <3>4. target \in Int
      <4>. HIDE DEF sold, opens, n
      <4>1. n \in Int
        BY <1>1
      <4>. QED BY <3>3, <4>1, ExactlyType
    <3>5. bought[n] \in States
      <4> DEFINE first == sold[n]
      <4>. HIDE DEF k, sold, target, first
      <4>1. first \in States
        BY <3>2 DEF first
      <4>2. (CHOOSE f : f = [i \in 0..n |-> IF i = 0 THEN first ELSE Buy(f[i - 1], i, k, target)])[n] \in States
        BY <3>1, <3>4, <4>1, BuysStay
      <4>. QED BY <4>2 DEF first
    <3>. HIDE DEF bought, sold, k
    <3>. QED BY <2>2, <3>5
  <2>. QED BY <2>1, <2>2
<1>. HIDE DEF filled, k, closes, opens
<1>7. Value(filled, closes) \in Int
  BY <1>1, <1>4, <1>5, <1>6, ValueType
<1> DEFINE v == Value(filled, closes)
           T == Seq({t \in TradeType : Answers(t, req.symbols, aligned, signals)})
<1>8. States = [bar : 0..Len(aligned[1]), cash : Int, quantity : [Portfolio -> Int],
                avgCost : [Portfolio -> Int], trades : T, equity : Int]
  BY DEF States, SimStates, Portfolio
<1>9. k \in 0..Len(aligned[1])
  BY <1>1, <1>2
<1>. HIDE DEF v, T, States
<1>10. [filled EXCEPT !.bar = k, !.equity = v] \in States
  BY <1>6, <1>7, <1>8, <1>9 DEF v
<1>. QED BY <1>3, <1>10 DEF v

-----------------------------------------------------------------------------
(* The invariant *)

\* A run starts in the invariant.
LEMMA InvInit == Init => BacktestInv
<1>. SUFFICES ASSUME Init
              PROVE  BacktestInv
  OBVIOUS
<1>1. /\ stored \in Markets /\ at = "request" /\ reply = NoReply
      /\ aligned = <<>> /\ sim = NoSim /\ db = NoRows
  BY DEF Init
<1>2. RunTypeOK
  BY <1>1 DEF RunTypeOK
<1>3. RunFollowsSignals
  BY <1>1 DEF RunFollowsSignals
<1>4. reply.code = "none" /\ db.runs = {}
  BY <1>1 DEF NoReply, NoRows
<1>. QED BY <1>1, <1>2, <1>3, <1>4 DEF BacktestInv, SameFailureReported, TimelineIsCommon

\* Until a run is answered there is no answer and nothing in the store.
LEMMA Unanswered ==
  ASSUME BacktestInv, at # "answered"
  PROVE  reply = NoReply /\ reply.code = "none" /\ db = NoRows /\ db.runs = {}
<1>1. reply = NoReply /\ db = NoRows
  BY DEF BacktestInv, RunTypeOK
<1>. QED BY <1>1 DEF NoReply, NoRows

\* Validation keeps it: what it lets through is Accepted.
LEMMA RunBacktestInv == BacktestInv /\ RunBacktest => BacktestInv'
<1>. SUFFICES ASSUME BacktestInv, RunBacktest
              PROVE  BacktestInv'
  OBVIOUS
<1>1. at = "request" /\ UNCHANGED <<stored, waitErr, aligned, signals, sim, tx, db>>
  BY DEF RunBacktest
<1>2. reply = NoReply /\ reply.code = "none" /\ db.runs = {} /\ db = NoRows
  BY <1>1, Unanswered
<1>3. stored \in Markets /\ aligned = <<>> /\ sim = NoSim
  BY <1>1 DEF BacktestInv, RunTypeOK, RunFollowsSignals
<1>4. RunFollowsSignals'
  BY <1>1, <1>3 DEF RunFollowsSignals
<1>5. PICK r \in Requests :
        IF validateRequest(r)
        THEN /\ req' = [r EXCEPT !.symbols = Sorted(Uppered(r.symbols))]
             /\ errs' = [i \in DOMAIN r.symbols |-> "pending"]
             /\ at' = "fetch" /\ UNCHANGED reply
        ELSE Reply("invalid_request", 0) /\ UNCHANGED <<req, errs>>
  BY DEF RunBacktest
<1>6. CASE validateRequest(r)
  <2>1. /\ req' = [r EXCEPT !.symbols = Sorted(Uppered(r.symbols))]
        /\ errs' = [i \in DOMAIN r.symbols |-> "pending"] /\ at' = "fetch" /\ reply' = reply
    BY <1>5, <1>6
  <2>2. /\ r \in [symbols : Seq(DOMAIN Upper), strategy : [kind : STRING, params : Seq(Int)],
                  capital : Int, start : Nat, end : Nat]
        /\ Decoded(r.strategy)
    BY RequestsAssumption
  <2>3. normalizeSymbols(r.symbols) /\ NewStrategy(r.strategy)
    BY <1>6 DEF validateRequest
  <2> DEFINE sorted == Sorted(Uppered(r.symbols))
  <2>4. /\ sorted \in Seq(Listed) /\ sorted # <<>> /\ DOMAIN sorted = DOMAIN r.symbols
        /\ \A i, j \in DOMAIN sorted : i < j => sorted[i] < sorted[j]
    <3>1. r.symbols \in Seq(DOMAIN Upper)
      BY <2>2
    <3>. QED BY <2>3, <3>1, SymbolsSorted
  <2>. HIDE DEF sorted
  <2>5. /\ req'.symbols = sorted /\ req'.strategy = r.strategy /\ req'.start = r.start /\ req'.end = r.end
        /\ req'.capital = r.capital
    BY <2>1, <2>2 DEF sorted
  <2>6. Accepted(req')
    <3>1. r.capital \in Int /\ r.start \in Int /\ r.end \in Int
      BY <2>2
    <3>. QED BY <2>2, <2>3, <2>4, <2>5, <3>1 DEF Accepted
  <2>7. errs' \in [DOMAIN req'.symbols -> Outcomes]
    <3>1. "pending" \in Outcomes
      BY DEF Outcomes
    <3>. QED BY <2>1, <2>4, <2>5, <3>1
  <2>8. RunTypeOK'
    BY <1>1, <1>2, <1>3, <2>1, <2>6, <2>7 DEF RunTypeOK
  <2>. QED BY <1>1, <1>2, <1>4, <2>1, <2>8 DEF BacktestInv, SameFailureReported, TimelineIsCommon
<1>7. CASE ~validateRequest(r)
  <2>1. at' = "answered" /\ reply' = [code |-> "invalid_request", symbol |-> 0]
    BY <1>5, <1>7 DEF Reply
  <2>2. reply'.code = "invalid_request"
    BY <2>1
  <2>3. RunTypeOK'
    BY <1>1, <1>3, <2>1 DEF RunTypeOK
  <2>. QED BY <1>1, <1>2, <1>4, <2>1, <2>2, <2>3 DEF BacktestInv, SameFailureReported, TimelineIsCommon
<1>. QED BY <1>6, <1>7

\* The end of one fetch keeps it.
LEMMA HistoryInv ==
  ASSUME BacktestInv, NEW i \in DOMAIN errs, History(i)
  PROVE  BacktestInv'
<1>1. at = "fetch" /\ UNCHANGED <<stored, at, reply, req, aligned, signals, sim, tx, db>>
  BY DEF History
<1>2. reply.code = "none" /\ db.runs = {}
  BY <1>1, Unanswered
<1>3. RunTypeOK /\ RunFollowsSignals
  BY DEF BacktestInv
<1>4. errs \in [DOMAIN req.symbols -> Outcomes] /\ Accepted(req)
  BY <1>1, <1>3 DEF RunTypeOK
<1>5. PICK err \in {"upstream_unavailable",
                    IF stored[req.symbols[i]] = <<>> THEN "symbol_unavailable" ELSE "ok"} :
        errs' = [errs EXCEPT ![i] = err]
  BY DEF History
<1>6. err \in Outcomes
  BY DEF Outcomes
<1>7. errs' \in [DOMAIN req'.symbols -> Outcomes]
  BY <1>1, <1>4, <1>5, <1>6
<1>8. RunTypeOK'
  BY <1>1, <1>3, <1>4, <1>7 DEF RunTypeOK
<1>9. RunFollowsSignals'
  BY <1>1, <1>3 DEF RunFollowsSignals, RunTypeOK
<1>. QED BY <1>1, <1>2, <1>8, <1>9 DEF BacktestInv, SameFailureReported, TimelineIsCommon

\* The failure answered is that of the first symbol, in alphabetical order, whose
\* fetch failed, whatever the order in which the fetches ended.
LEMMA FailureInv ==
  ASSUME BacktestInv, at = "fetch", \A i \in DOMAIN errs : errs[i] # "pending",
         FailedFetches # {}, Reply(errs[Min(FailedFetches)], req.symbols[Min(FailedFetches)]),
         UNCHANGED <<stored, req, errs, aligned, signals, sim, tx, db>>
  PROVE  BacktestInv'
<1> DEFINE i == Min(FailedFetches)
<1>1. RunTypeOK /\ RunFollowsSignals
  BY DEF BacktestInv
<1>2. errs \in [DOMAIN req.symbols -> Outcomes] /\ Accepted(req) /\ stored \in Markets /\ aligned = <<>>
  BY <1>1 DEF RunTypeOK
<1>3. db.runs = {}
  BY Unanswered
<1>4. DOMAIN errs = 1..Len(req.symbols) /\ Len(req.symbols) \in Nat
      /\ DOMAIN req.symbols = DOMAIN errs /\ \A j \in DOMAIN errs : req.symbols[j] \in Nat
  <2>1. req.symbols \in Seq(Listed)
    BY <1>2 DEF Accepted
  <2>2. Listed \subseteq Nat
    BY RequestsAssumption DEF Listed
  <2>. HIDE DEF Listed
  <2>3. DOMAIN errs = 1..Len(req.symbols) /\ Len(req.symbols) \in Nat /\ DOMAIN req.symbols = DOMAIN errs
    BY <1>2, <2>1
  <2>4. \A j \in DOMAIN errs : req.symbols[j] \in Listed
    BY <2>1, <2>3
  <2>. QED BY <2>2, <2>3, <2>4
<1>5. FailedFetches \subseteq Nat
  BY <1>4 DEF FailedFetches
<1>6. i \in FailedFetches /\ \A j \in FailedFetches : i <= j
  <2>1. \E x \in FailedFetches : \A y \in FailedFetches : x <= y
    BY <1>5, LeastElement
  <2>. HIDE DEF FailedFetches
  <2>. QED BY <2>1 DEF Min
<1>. HIDE DEF i
<1>7. i \in DOMAIN errs /\ errs[i] # "ok"
  BY <1>6 DEF FailedFetches
<1>8. reply' = [code |-> errs[i], symbol |-> req.symbols[i]] /\ at' = "answered"
  BY DEF Reply, i
<1>9. reply'.code = errs[i] /\ reply'.symbol = req.symbols[i]
  BY <1>8
<1>10. ASSUME NEW j \in DOMAIN errs, req.symbols[j] < req.symbols[i]
       PROVE  errs[j] = "ok"
  <2>1. SUFFICES ASSUME errs[j] # "ok"
                 PROVE  FALSE
    OBVIOUS
  <2>2. j \in FailedFetches
    BY <2>1 DEF FailedFetches
  <2>3. i <= j /\ i \in Nat /\ j \in Nat /\ req.symbols[i] \in Nat /\ req.symbols[j] \in Nat
    BY <1>4, <1>6, <1>7, <2>2
  <2>4. i < j => req.symbols[i] < req.symbols[j]
    BY <1>2, <1>4, <1>7 DEF Accepted
  <2>. QED BY <1>10, <2>3, <2>4
<1>11. SameFailureReported'
  BY <1>7, <1>9, <1>10 DEF SameFailureReported
<1>12. errs[i] # "created"
  BY <1>2, <1>7 DEF Outcomes
<1>13. RunTypeOK'
  BY <1>2, <1>8 DEF RunTypeOK
<1>14. RunFollowsSignals'
  BY <1>1, <1>2 DEF RunFollowsSignals
<1>. QED BY <1>3, <1>8, <1>9, <1>11, <1>12, <1>13, <1>14 DEF BacktestInv, TimelineIsCommon

\* The run begins on aligned bars, long enough for the strategy.
LEMMA RunInv ==
  ASSUME BacktestInv, at = "fetch", Run(alignBars),
         ~(WarmupBars(req.strategy) > Len(alignBars[1])),
         UNCHANGED <<stored, req, errs, waitErr, tx, db>>
  PROVE  BacktestInv'
<1> DEFINE series == alignBars
<1>1. /\ stored \in Markets /\ Accepted(req) /\ errs \in [DOMAIN req.symbols -> Outcomes]
  BY DEF BacktestInv, RunTypeOK
<1>2. reply = NoReply /\ reply.code = "none" /\ db = NoRows /\ db.runs = {}
  BY Unanswered
<1>3. /\ series \in Seq(Seq(Bar)) /\ Len(series) = Len(req.symbols) /\ series # <<>>
      /\ \A i \in DOMAIN series : Len(series[i]) = Len(series[1])
      /\ OnCommonDays(stored, req, series)
  BY <1>1, alignBarsIs
<1>4. /\ aligned' = series /\ at' = "simulate" /\ reply' = reply
      /\ signals' = [i \in DOMAIN series |-> GenerateSignals(req.strategy, series[i])]
      /\ sim' = [NoSim EXCEPT !.cash = req.capital, !.quantity = [i \in DOMAIN series |-> 0],
                              !.avgCost = [i \in DOMAIN series |-> 0]]
  BY DEF Run
<1>5. ~(WarmupBars(req.strategy) > Len(series[1]))
  OBVIOUS
<1>. HIDE DEF series
<1>6. Len(series[1]) \in Nat
  <2>. HIDE DEF Bar
  <2>1. 1 \in DOMAIN series /\ DOMAIN series = 1..Len(series)
    BY <1>3
  <2>2. series[1] \in Seq(Bar)
    BY <1>3, <2>1
  <2>. QED BY <2>2
<1>7. Playable(req, series)
  <2>1. Usable(req.strategy)
    BY <1>1, NewStrategyUsable DEF Accepted
  <2>2. WarmupBars(req.strategy) \in Int
    BY <2>1, SMTT(30) DEF Usable
  <2>3. WarmupBars(req.strategy) <= Len(series[1])
    BY <1>5, <1>6, <2>2
  <2>. QED BY <1>3, <2>3 DEF Playable
<1>8. sim' \in SimStates(req.symbols, series, signals')
  <2> DEFINE z == [i \in DOMAIN series |-> 0]
             T == {t \in TradeType : Answers(t, req.symbols, series, signals')}
  <2>1. z \in [DOMAIN series -> Int] /\ req.capital \in Int /\ 0 \in Int /\ 0 \in 0..Len(series[1])
    BY <1>1, <1>6 DEF Accepted
  <2>2. <<>> \in Seq(T)
    OBVIOUS
  <2>3. sim' = [bar |-> 0, cash |-> req.capital, quantity |-> z, avgCost |-> z, trades |-> <<>>,
                equity |-> 0]
    BY <1>4 DEF NoSim
  <2>4. SimStates(req.symbols, series, signals') =
          [bar : 0..Len(series[1]), cash : Int, quantity : [DOMAIN series -> Int],
           avgCost : [DOMAIN series -> Int], trades : Seq(T), equity : Int]
    BY DEF SimStates
  <2>. HIDE DEF z, T
  <2>. QED BY <2>1, <2>2, <2>3, <2>4
<1>9. RunTypeOK'
  BY <1>1, <1>2, <1>3, <1>4 DEF RunTypeOK
<1>10. RunFollowsSignals'
  BY <1>1, <1>3, <1>4, <1>7, <1>8 DEF RunFollowsSignals
<1>11. TimelineIsCommon'
  BY <1>3, <1>4 DEF TimelineIsCommon
<1>. QED BY <1>2, <1>4, <1>9, <1>10, <1>11 DEF BacktestInv, SameFailureReported

\* Wait's return keeps it.
LEMMA FetchedInv == BacktestInv /\ Fetched => BacktestInv'
<1>. SUFFICES ASSUME BacktestInv, Fetched
              PROVE  BacktestInv'
  OBVIOUS
<1>1. /\ at = "fetch" /\ \A i \in DOMAIN errs : errs[i] # "pending"
      /\ UNCHANGED <<stored, req, errs, waitErr, tx, db>>
  BY DEF Fetched
<1>2. CASE FailedFetches # {}
  <2>1. Reply(errs[Min(FailedFetches)], req.symbols[Min(FailedFetches)])
        /\ UNCHANGED <<aligned, signals, sim>>
    BY <1>2 DEF Fetched
  <2>. QED BY <1>1, <1>2, <2>1, FailureInv
<1>3. CASE FailedFetches = {} /\ (alignBars[1] = <<>> \/ WarmupBars(req.strategy) > Len(alignBars[1]))
  <2>1. PICK code \in {"date_range_unavailable", "invalid_request"} :
          Reply(code, 0) /\ UNCHANGED <<aligned, signals, sim>>
    BY <1>3 DEF Fetched
  <2>2. at' = "answered" /\ reply' = [code |-> code, symbol |-> 0]
    BY <2>1 DEF Reply
  <2>3. reply'.code = code
    BY <2>2
  <2>4. db.runs = {}
    BY <1>1, Unanswered
  <2>5. stored \in Markets /\ aligned = <<>> /\ sim = NoSim
    BY <1>1 DEF BacktestInv, RunTypeOK, RunFollowsSignals
  <2>6. RunTypeOK' /\ RunFollowsSignals'
    BY <1>1, <2>1, <2>2, <2>5 DEF RunTypeOK, RunFollowsSignals
  <2>. QED BY <1>1, <2>1, <2>2, <2>3, <2>4, <2>6 DEF BacktestInv, SameFailureReported, TimelineIsCommon
<1>4. CASE FailedFetches = {} /\ ~(alignBars[1] = <<>> \/ WarmupBars(req.strategy) > Len(alignBars[1]))
  <2>1. Run(alignBars)
    BY <1>4 DEF Fetched
  <2>. QED BY <1>1, <1>4, <2>1, RunInv
<1>. QED BY <1>2, <1>3, <1>4

\* A bar keeps it.
LEMMA SimulateBarInv == BacktestInv /\ SimulateBar => BacktestInv'
<1>. SUFFICES ASSUME BacktestInv, SimulateBar
              PROVE  BacktestInv'
  OBVIOUS
<1>1. at = "simulate" /\ UNCHANGED <<stored, at, reply, req, errs, waitErr, aligned, signals, tx, db>>
  BY DEF SimulateBar
<1>2. RunTypeOK /\ RunFollowsSignals /\ TimelineIsCommon
  BY DEF BacktestInv
<1>3. aligned # <<>>
  BY <1>1, <1>2 DEF RunTypeOK
<1>4. Accepted(req) /\ Playable(req, aligned) /\ sim \in SimStates(req.symbols, aligned, signals)
      /\ signals = [i \in DOMAIN aligned |-> GenerateSignals(req.strategy, aligned[i])]
  BY <1>2, <1>3 DEF RunFollowsSignals
<1>5. sim' \in SimStates(req.symbols, aligned, signals)
  BY <1>4, SimulateBarStays DEF States
<1>6. RunTypeOK'
  BY <1>1, <1>2 DEF RunTypeOK
<1>7. RunFollowsSignals'
  BY <1>1, <1>3, <1>4, <1>5 DEF RunFollowsSignals
<1>8. reply.code = "none" /\ db.runs = {}
  BY <1>1, Unanswered
<1>. QED BY <1>1, <1>2, <1>6, <1>7, <1>8 DEF BacktestInv, SameFailureReported, TimelineIsCommon

\* The end of the simulation keeps it.
LEMMA SimulatedInv == BacktestInv /\ Simulated => BacktestInv'
<1>. SUFFICES ASSUME BacktestInv, Simulated
              PROVE  BacktestInv'
  OBVIOUS
<1>1. at = "simulate" /\ at' = "save"
      /\ UNCHANGED <<stored, reply, req, errs, waitErr, aligned, signals, sim, tx, db>>
  BY DEF Simulated
<1>2. RunTypeOK /\ RunFollowsSignals /\ TimelineIsCommon
  BY DEF BacktestInv
<1>3. RunTypeOK'
  BY <1>1, <1>2 DEF RunTypeOK
<1>4. RunFollowsSignals'
  BY <1>1, <1>2 DEF RunFollowsSignals
<1>5. reply.code = "none" /\ db.runs = {}
  BY <1>1, Unanswered
<1>. QED BY <1>1, <1>2, <1>3, <1>4, <1>5 DEF BacktestInv, SameFailureReported, TimelineIsCommon

\* The rows a transaction has to insert are the run's, however far it has come.
LEMMA RowsStay ==
  ASSUME UNCHANGED <<req, sim>>, NEW n
  PROVE  Row' = Row /\ TradeRows(n)' = TradeRows(n)
BY DEF Row, ComputeMetrics, TradeRows, TradeRow

\* A run being saved has a log, and its bars and signals stay.
LEMMA Saving ==
  ASSUME BacktestInv, at \in {"save", "insert"},
         UNCHANGED <<stored, req, errs, waitErr, aligned, signals, sim>>
  PROVE  /\ Len(sim.trades) \in Nat /\ db.runs = {} /\ reply.code = "none"
         /\ RunFollowsSignals' /\ TimelineIsCommon
         /\ UNCHANGED reply /\ db' = db /\ at' = "insert" => RunTypeOK'
         /\ at' = "answered" => RunTypeOK'
<1>1. RunTypeOK /\ RunFollowsSignals /\ TimelineIsCommon
  BY DEF BacktestInv
<1>2. db.runs = {} /\ reply.code = "none"
  BY Unanswered
<1>3. RunFollowsSignals'
  BY <1>1 DEF RunFollowsSignals
<1>4. Len(sim.trades) \in Nat
  <2> DEFINE T == {t \in TradeType : Answers(t, req.symbols, aligned, signals)}
  <2>1. aligned # <<>>
    BY <1>1 DEF RunTypeOK
  <2>2. sim.trades \in Seq(T)
    BY <1>1, <2>1 DEF RunFollowsSignals, SimStates
  <2>. HIDE DEF T
  <2>. QED BY <2>2
<1>5. /\ UNCHANGED reply /\ db' = db /\ at' = "insert" => RunTypeOK'
      /\ at' = "answered" => RunTypeOK'
  BY <1>1 DEF RunTypeOK
<1>. QED BY <1>1, <1>2, <1>3, <1>4, <1>5

\* The transaction begins with the run's row and none of its trades.
LEMMA InsertBacktestInv == BacktestInv /\ InsertBacktest => BacktestInv'
<1>. SUFFICES ASSUME BacktestInv, InsertBacktest
              PROVE  BacktestInv'
  OBVIOUS
<1>1. /\ at = "save" /\ at' = "insert" /\ tx' = [NoTx EXCEPT !.runs = {Row}]
      /\ UNCHANGED <<stored, reply, req, errs, waitErr, aligned, signals, sim, db>>
  BY DEF InsertBacktest
<1>2. /\ Len(sim.trades) \in Nat /\ db.runs = {} /\ reply.code = "none"
      /\ RunFollowsSignals' /\ TimelineIsCommon /\ RunTypeOK'
  BY <1>1, Saving
<1>3. tx'.done = 0 /\ tx'.trades = {} /\ tx'.runs = {Row}
  BY <1>1 DEF NoTx
<1>4. InTransaction'
  <2>1. TradeRows(0) = {} /\ TradeRows(0)' = {} /\ Row' = Row
    BY <1>1, RowsStay DEF TradeRows
  <2>2. tx'.trades = TradeRows(tx.done)'
    BY <1>3 DEF TradeRows
  <2>. QED BY <1>1, <1>2, <1>3, <2>1, <2>2 DEF InTransaction
<1>5. TimelineIsCommon'
  BY <1>1, <1>2 DEF TimelineIsCommon
<1>. QED BY <1>1, <1>2, <1>4, <1>5 DEF BacktestInv, SameFailureReported

\* It inserts the next trade of the log.
LEMMA InsertTradeInv == BacktestInv /\ InsertTrade => BacktestInv'
<1>. SUFFICES ASSUME BacktestInv, InsertTrade
              PROVE  BacktestInv'
  OBVIOUS
<1>1. /\ at = "insert" /\ at' = "insert" /\ tx.done < Len(sim.trades)
      /\ tx' = [tx EXCEPT !.done = @ + 1, !.trades = @ \cup {TradeRow(tx.done + 1)}]
      /\ UNCHANGED <<stored, reply, req, errs, waitErr, aligned, signals, sim, db>>
  BY DEF InsertTrade
<1>2. /\ Len(sim.trades) \in Nat /\ db.runs = {} /\ reply.code = "none"
      /\ RunFollowsSignals' /\ TimelineIsCommon /\ RunTypeOK'
  BY <1>1, Saving
<1>3. InTransaction
  BY <1>1 DEF BacktestInv
<1>4. /\ tx.done \in 0..Len(sim.trades) /\ tx.trades = TradeRows(tx.done) /\ tx.runs = {Row}
  BY <1>1, <1>3 DEF InTransaction
<1>5. InTransaction'
  <2>1. PICK n \in Nat : n = tx.done
    BY <1>2, <1>4
  <2>2. tx'.done = n + 1 /\ tx'.trades = TradeRows(n) \cup {TradeRow(n + 1)} /\ tx'.runs = tx.runs
    BY <1>1, <1>4, <2>1
  <2>3. TradeRows(n + 1) = TradeRows(n) \cup {TradeRow(n + 1)}
    <3>1. 1..(n + 1) = 1..n \cup {n + 1}
      OBVIOUS
    <3>. QED BY <3>1, Zenon DEF TradeRows
  <2>4. TradeRows(n + 1)' = TradeRows(n + 1) /\ Row' = Row
    BY <1>1, RowsStay
  <2>5. tx'.trades = TradeRows(tx.done)'
    BY <2>2, <2>3, <2>4 DEF TradeRows
  <2>. QED BY <1>1, <1>2, <1>4, <2>1, <2>2, <2>4, <2>5 DEF InTransaction
<1>6. TimelineIsCommon'
  BY <1>1, <1>2 DEF TimelineIsCommon
<1>. QED BY <1>1, <1>2, <1>5, <1>6 DEF BacktestInv, SameFailureReported

\* It commits all of them.
LEMMA CommitBacktestInv == BacktestInv /\ CommitBacktest => BacktestInv'
<1>. SUFFICES ASSUME BacktestInv, CommitBacktest
              PROVE  BacktestInv'
  OBVIOUS
<1>1. /\ at = "insert" /\ tx.done = Len(sim.trades)
      /\ db' = [runs |-> tx.runs, trades |-> tx.trades]
      /\ UNCHANGED <<stored, req, errs, waitErr, aligned, signals, sim>>
  BY DEF CommitBacktest
<1>2. PICK code \in {"created", "internal_error"} :
        at' = "answered" /\ reply' = [code |-> code, symbol |-> 0]
  BY DEF CommitBacktest, Reply
<1>3. RunFollowsSignals' /\ RunTypeOK'
  BY <1>1, <1>2, Saving
<1>4. InTransaction
  BY <1>1 DEF BacktestInv
<1>5. PICK n : n = Len(sim.trades)
  OBVIOUS
<1>6. db'.runs = {Row} /\ db'.trades = TradeRows(n)
  BY <1>1, <1>4, <1>5 DEF InTransaction
<1>7. TradeRows(n)' = TradeRows(n)
  BY <1>1, RowsStay
<1>8. db'.trades = TradeRows(Len(sim.trades))'
  BY <1>1, <1>5, <1>6, <1>7 DEF TradeRows
<1>9. reply'.code = code
  BY <1>2
<1>. QED BY <1>2, <1>3, <1>6, <1>8, <1>9 DEF BacktestInv, SameFailureReported, TimelineIsCommon

\* A failure leaves nothing of the run.
LEMMA SaveFailsInv == BacktestInv /\ SaveFails => BacktestInv'
<1>. SUFFICES ASSUME BacktestInv, SaveFails
              PROVE  BacktestInv'
  OBVIOUS
<1>1. /\ at \in {"save", "insert"}
      /\ at' = "answered" /\ reply' = [code |-> "internal_error", symbol |-> 0]
      /\ UNCHANGED <<stored, req, errs, waitErr, aligned, signals, sim, db>>
  BY DEF SaveFails, Reply
<1>2. RunFollowsSignals' /\ RunTypeOK' /\ db.runs = {}
  BY <1>1, Saving
<1>3. reply'.code = "internal_error"
  BY <1>1
<1>. QED BY <1>1, <1>2, <1>3 DEF BacktestInv, SameFailureReported, TimelineIsCommon

\* Every reachable state of a run satisfies the invariant.
THEOREM BacktestInvariant == Spec => []BacktestInv
<1>1. BacktestInv /\ [Next]_vars => BacktestInv'
  <2>. SUFFICES ASSUME BacktestInv, [Next]_vars
                PROVE  BacktestInv'
    OBVIOUS
  <2>1. CASE UNCHANGED vars
    <3>1. UNCHANGED <<stored, at, reply, req, errs, aligned, signals, sim, tx, db>>
      BY <2>1 DEF vars
    <3>2. InTransaction' = InTransaction
      BY <3>1 DEF InTransaction, TradeRows, TradeRow, Row, ComputeMetrics
    <3>3. TradeRows(Len(sim.trades))' = TradeRows(Len(sim.trades))
      BY <3>1 DEF TradeRows, TradeRow
    <3>. QED BY <3>1, <3>2, <3>3 DEF BacktestInv, RunTypeOK, RunFollowsSignals,
                SameFailureReported, TimelineIsCommon
  <2>2. CASE \E i \in DOMAIN errs : History(i)
    BY <2>2, HistoryInv
  <2>. QED BY <2>1, <2>2, RunBacktestInv, FetchedInv, SimulateBarInv, SimulatedInv,
              InsertBacktestInv, InsertTradeInv, CommitBacktestInv, SaveFailsInv DEF Next
<1>. QED BY <1>1, InvInit, PTL DEF Spec

-----------------------------------------------------------------------------
(* The properties *)

\* NoLookahead, of SimulatePortfolio and the strategies: every fill of every run,
\* for every history and every accepted strategy, answers a signal the strategy
\* gives on the bars before it alone.
THEOREM FillsNeverLookAhead == Spec => []NoLookahead
<1>1. BacktestInv => NoLookahead
  <2>. SUFFICES ASSUME BacktestInv, NEW n \in DOMAIN sim.trades
                PROVE  LET t == sim.trades[n]
                           i == CHOOSE j \in Portfolio : req.symbols[j] = t.symbol
                           past == SubSeq(aligned[i], 1, t.bar - 1)
                       IN GenerateSignals(req.strategy, past)[t.bar - 1] = t.side
    BY DEF NoLookahead
  <2> DEFINE t == sim.trades[n]
             T == {u \in TradeType : Answers(u, req.symbols, aligned, signals)}
  <2>1. aligned # <<>>
    <3>1. SUFFICES ASSUME aligned = <<>>
                   PROVE  FALSE
      OBVIOUS
    <3>2. sim.trades = <<>>
      BY <3>1 DEF BacktestInv, RunFollowsSignals, NoSim
    <3>. QED BY <3>2
  <2>2. /\ Accepted(req) /\ Playable(req, aligned) /\ sim \in SimStates(req.symbols, aligned, signals)
        /\ signals = [i \in DOMAIN aligned |-> GenerateSignals(req.strategy, aligned[i])]
    BY <2>1 DEF BacktestInv, RunFollowsSignals
  <2>3. t \in T
    <3>1. sim.trades \in Seq(T)
      BY <2>2 DEF SimStates
    <3>. HIDE DEF T
    <3>. QED BY <3>1
  <2>4. t.side \in {"buy", "sell"} /\ t.bar \in Nat
    BY <2>3 DEF TradeType
  <2>5. PICK j \in DOMAIN aligned : /\ req.symbols[j] = t.symbol
                                    /\ t.bar \in 2..Len(aligned[1])
                                    /\ signals[j][t.bar - 1] = t.side
    <3>. HIDE DEF t
    <3>. QED BY <2>3 DEF Answers
  <2>. HIDE DEF t, T
  <2>6. /\ Portfolio = DOMAIN aligned /\ DOMAIN aligned = 1..Len(aligned) /\ Len(aligned) \in Nat
        /\ aligned[j] \in Seq(Bar) /\ Len(aligned[j]) = Len(aligned[1]) /\ Len(aligned[1]) \in Nat
    BY <2>2, RunBars DEF Portfolio
  <2>7. ASSUME NEW i \in Portfolio, req.symbols[i] = t.symbol
        PROVE  i = j
    <3>1. /\ DOMAIN req.symbols = 1..Len(aligned)
          /\ \A a, b \in DOMAIN req.symbols : a < b => req.symbols[a] < req.symbols[b]
      <4>. HIDE DEF Listed, Bar
      <4>. QED BY <2>2 DEF Accepted, Playable
    <3>2. req.symbols[i] \in Nat
      <4>1. req.symbols[i] \in Listed
        BY <2>2, RunBars
      <4>. QED BY <4>1, RequestsAssumption DEF Listed
    <3>3. i \in DOMAIN req.symbols /\ j \in DOMAIN req.symbols /\ i \in Nat /\ j \in Nat
      BY <2>6, <3>1
    <3>4. ~(i < j) /\ ~(j < i)
      BY <2>5, <2>7, <3>1, <3>2, <3>3, SMTT(30)
    <3>. QED BY <3>3, <3>4
  <2>8. j = CHOOSE i \in Portfolio : req.symbols[i] = t.symbol
    BY <2>5, <2>6, <2>7
  <2> DEFINE m == t.bar - 1
  <2>9. m \in 1..Len(aligned[j])
    BY <2>4, <2>5, <2>6
  <2>10. GenerateSignals(req.strategy, aligned[j])[m] = t.side
    BY <2>2, <2>5
  <2>. HIDE DEF m
  <2>11. Decoded(req.strategy) /\ NewStrategy(req.strategy)
    BY <2>2 DEF Accepted
  <2>12. GenerateSignals(req.strategy, SubSeq(aligned[j], 1, m))[m]
           = GenerateSignals(req.strategy, aligned[j])[m]
    BY <2>6, <2>9, <2>11, SignalsAreCausal
  <2>. QED BY <2>8, <2>10, <2>12 DEF t, m
<1>. QED BY <1>1, BacktestInvariant, PTL

\* TimelineIsCommon, of alignBars: for every history and every range.
THEOREM TimelineCommon == Spec => []TimelineIsCommon
<1>1. BacktestInv => TimelineIsCommon
  BY DEF BacktestInv
<1>. QED BY <1>1, BacktestInvariant, PTL

\* WarmupFits, of NewStrategy: for every bound within half of the int, no sum of
\* periods that is accepted has wrapped.
THEOREM WarmupNeverWraps == Spec => []WarmupFits
<1>1. BacktestInv => WarmupFits
  <2>. SUFFICES ASSUME BacktestInv, at = "fetch"
                PROVE  WarmupFits
    BY DEF WarmupFits
  <2>1. Accepted(req)
    BY DEF BacktestInv, RunTypeOK
  <2>2. Usable(req.strategy)
    BY <2>1, NewStrategyUsable DEF Accepted
  <2>3. CASE req.strategy.kind = "ma_crossover"
    BY <2>2, <2>3 DEF Usable, WarmupFits
  <2>4. CASE req.strategy.kind = "rsi"
    BY <2>2, <2>4 DEF Usable, WarmupFits
  <2>5. CASE req.strategy.kind = "macd"
    BY <2>2, <2>5 DEF Usable, WarmupFits
  <2>. QED BY <2>2, <2>3, <2>4, <2>5 DEF Usable
<1>. QED BY <1>1, BacktestInvariant, PTL

\* SameFailureReported, of fetchAll: for any number of symbols and any order in
\* which their fetches end.
THEOREM FailureIsDeterministic == Spec => []SameFailureReported
<1>1. BacktestInv => SameFailureReported
  BY DEF BacktestInv
<1>. QED BY <1>1, BacktestInvariant, PTL

\* A column holds a number's nearest tick.
LEMMA InTicksNear ==
  ASSUME NEW x \in Int, NEW tick \in Nat \ {0}
  PROVE  WithinHalf(InTicks(x, tick), x, tick)
<1>1. \E n \in Int : n = IF x >= 0 THEN 2 * x + tick ELSE tick - 2 * x
  <2>1. 2 * x + tick \in Int /\ tick - 2 * x \in Int
    OBVIOUS
  <2>. QED BY <2>1, Zenon
<1>2. PICK n \in Int : n = IF x >= 0 THEN 2 * x + tick ELSE tick - 2 * x
  BY <1>1
<1> DEFINE m == n \div (2 * tick)
<1>3. m \in Int /\ n = (2 * tick) * m + (n % (2 * tick)) /\ n % (2 * tick) \in 0..(2 * tick - 1)
  OBVIOUS
<1>4. InTicks(x, tick) = IF x >= 0 THEN m ELSE -m
  BY <1>2 DEF InTicks
<1>. HIDE DEF m
<1>5. (2 * tick) * m = 2 * (m * tick) /\ m * tick \in Int /\ (-m) * tick = -(m * tick)
  BY <1>3
<1>. QED BY <1>3, <1>4, <1>5, <1>2 DEF WithinHalf

\* SavedWhole, of SaveBacktest and GetBacktest: a run that can be read has its whole
\* trade log in the order of the simulation, each number within half a tick, whichever
\* step of the transaction fails and whether or not the commit's answer is lost.
THEOREM SavedRunsAreWhole == Spec => []SavedWhole
<1>1. BacktestInv => SavedWhole
  <2>. SUFFICES ASSUME BacktestInv, db.runs # {}
                PROVE  /\ DOMAIN GetBacktest = DOMAIN sim.trades
                       /\ \A i \in DOMAIN sim.trades : ReadsAs(GetBacktest[i], sim.trades[i])
    BY DEF BacktestInv, SavedWhole
  <2> DEFINE trades == sim.trades
             n == Len(trades)
  <2>1. trades \in Seq(TradeType)
    <3>1. CASE aligned = <<>>
      <4>1. trades = <<>>
        BY <3>1 DEF BacktestInv, RunFollowsSignals, NoSim
      <4>. QED BY <4>1
    <3>2. CASE aligned # <<>>
      <4> DEFINE T == {u \in TradeType : Answers(u, req.symbols, aligned, signals)}
      <4>1. trades \in Seq(T) /\ T \subseteq TradeType
        BY <3>2 DEF BacktestInv, RunFollowsSignals, SimStates
      <4>. HIDE DEF T, trades, TradeType
      <4>. QED BY <4>1
    <3>. QED BY <3>1, <3>2
  <2>2. n \in Nat /\ DOMAIN trades = 1..n /\ \A i \in 1..n : trades[i] \in TradeType
    <3>. HIDE DEF trades, TradeType
    <3>. QED BY <2>1
  <2>3. db.trades = {[seq |-> i, trade |-> Stored(trades[i])] : i \in 1..n}
    BY <2>2 DEF BacktestInv, TradeRows, TradeRow
  <2>. HIDE DEF trades, n
  <2>4. {row.seq : row \in db.trades} = 1..n
    <3>1. \A row \in db.trades : row.seq \in 1..n
      BY <2>3
    <3>2. ASSUME NEW i \in 1..n
          PROVE  \E row \in db.trades : row.seq = i
      <4>1. [seq |-> i, trade |-> Stored(trades[i])] \in db.trades
        BY <2>3
      <4>2. [seq |-> i, trade |-> Stored(trades[i])].seq = i
        OBVIOUS
      <4>. QED BY <4>1, <4>2, Zenon
    <3>. QED BY <3>1, <3>2
  <2>5. Ascending({row.seq : row \in db.trades}) = [k \in 1..n |-> k]
    BY <2>2, <2>4, IntervalAscends
  <2>6. ASSUME NEW i \in 1..n
        PROVE  (CHOOSE row \in db.trades : row.seq = i).trade = Stored(trades[i])
    <3>1. [seq |-> i, trade |-> Stored(trades[i])] \in db.trades
      BY <2>3
    <3>2. \A row \in db.trades : row.seq = i => row.trade = Stored(trades[i])
      BY <2>3
    <3>3. \E row \in db.trades : row.seq = i
      BY <3>1
    <3>. QED BY <3>2, <3>3
  <2>7. GetBacktest = [i \in 1..n |-> (CHOOSE row \in db.trades : row.seq = i).trade]
    <3> DEFINE seqs == Ascending({row.seq : row \in db.trades})
    <3>1. GetBacktest = [i \in DOMAIN seqs |-> (CHOOSE row \in db.trades : row.seq = seqs[i]).trade]
      BY DEF GetBacktest
    <3>2. DOMAIN seqs = 1..n /\ \A i \in 1..n : seqs[i] = i
      BY <2>5
    <3>. HIDE DEF seqs
    <3>. QED BY <3>1, <3>2
  <2>8. ASSUME NEW t \in TradeType
        PROVE  ReadsAs(Stored(t), t)
    <3>1. t.quantity \in Int /\ t.pl \in Int
      BY DEF TradeType
    <3>2. /\ WithinHalf(InTicks(t.quantity, QuantityTick), t.quantity, QuantityTick)
          /\ WithinHalf(InTicks(t.pl, MoneyTick), t.pl, MoneyTick)
      BY <3>1, BacktestAssumption, InTicksNear
    <3>3. Stored(t) = [t EXCEPT !.quantity = InTicks(t.quantity, QuantityTick),
                                !.pl = InTicks(t.pl, MoneyTick)]
      BY DEF Stored
    <3>4. /\ Stored(t).symbol = t.symbol /\ Stored(t).side = t.side /\ Stored(t).bar = t.bar
          /\ Stored(t).price = t.price
          /\ Stored(t).quantity = InTicks(t.quantity, QuantityTick)
          /\ Stored(t).pl = InTicks(t.pl, MoneyTick)
      BY <3>3 DEF TradeType
    <3>. QED BY <3>2, <3>4 DEF ReadsAs
  <2>9. ASSUME NEW i \in 1..n
        PROVE  ReadsAs(GetBacktest[i], trades[i])
    <3>1. GetBacktest[i] = Stored(trades[i])
      BY <2>6, <2>7
    <3>. QED BY <2>2, <2>8, <3>1
  <2>. QED BY <2>2, <2>7, <2>9 DEF trades
<1>. QED BY <1>1, BacktestInvariant, PTL


-----------------------------------------------------------------------------
(* Cash and holdings, and what trades make of them *)

\* Cash and the holdings that are not nothing, of some symbols.
Books(S) == UNION {[cash : Int, holdings : [D -> Int \ {0}]] : D \in SUBSET S}

\* Books, by their parts.
LEMMA BooksAre ==
  ASSUME NEW S
  PROVE  /\ \A D \in SUBSET S : \A c \in Int : \A h \in [D -> Int \ {0}] :
              [cash |-> c, holdings |-> h] \in Books(S)
         /\ \A b \in Books(S) :
              /\ b = [cash |-> b.cash, holdings |-> b.holdings] /\ b.cash \in Int
              /\ DOMAIN b.holdings \in SUBSET S
              /\ b.holdings \in [DOMAIN b.holdings -> Int \ {0}]
<1>1. ASSUME NEW D \in SUBSET S, NEW c \in Int, NEW h \in [D -> Int \ {0}]
      PROVE  [cash |-> c, holdings |-> h] \in Books(S)
  <2>1. [cash |-> c, holdings |-> h] \in [cash : Int, holdings : [D -> Int \ {0}]]
    OBVIOUS
  <2>. QED BY <2>1, Zenon DEF Books
<1>2. ASSUME NEW b \in Books(S)
      PROVE  /\ b = [cash |-> b.cash, holdings |-> b.holdings] /\ b.cash \in Int
             /\ DOMAIN b.holdings \in SUBSET S
             /\ b.holdings \in [DOMAIN b.holdings -> Int \ {0}]
  <2>1. PICK D \in SUBSET S : b \in [cash : Int, holdings : [D -> Int \ {0}]]
    BY Zenon DEF Books
  <2>. QED BY <2>1
<1>. QED BY <1>1, <1>2, Zenon

\* How much a book holds of a symbol is a number, and nothing of one it does not have.
LEMMA QuantityIs ==
  ASSUME NEW S, NEW b \in Books(S), NEW s
  PROVE  /\ Quantity(b.holdings, s) \in Int
         /\ s \in DOMAIN b.holdings <=> Quantity(b.holdings, s) # 0
         /\ s \in DOMAIN b.holdings => b.holdings[s] = Quantity(b.holdings, s)
<1>1. b.holdings \in [DOMAIN b.holdings -> Int \ {0}]
  BY BooksAre
<1>. QED BY <1>1 DEF Quantity

\* Two books with as much cash and as much of every symbol are the same.
LEMMA SameBooks ==
  ASSUME NEW S, NEW a \in Books(S), NEW b \in Books(S), a.cash = b.cash,
         \A s \in S : Quantity(a.holdings, s) = Quantity(b.holdings, s)
  PROVE  a = b
<1> DEFINE f == a.holdings
           g == b.holdings
<1>1. /\ a = [cash |-> a.cash, holdings |-> f] /\ b = [cash |-> b.cash, holdings |-> g]
      /\ DOMAIN f \in SUBSET S /\ DOMAIN g \in SUBSET S
      /\ f \in [DOMAIN f -> Int \ {0}] /\ g \in [DOMAIN g -> Int \ {0}]
  BY BooksAre
<1>2. /\ \A s : s \in DOMAIN f <=> Quantity(f, s) # 0
      /\ \A s : s \in DOMAIN g <=> Quantity(g, s) # 0
      /\ \A s \in DOMAIN f : f[s] = Quantity(f, s)
      /\ \A s \in DOMAIN g : g[s] = Quantity(g, s)
  BY QuantityIs
<1>. HIDE DEF f, g
<1>3. DOMAIN f = DOMAIN g
  BY <1>1, <1>2 DEF f, g
<1>4. \A s \in DOMAIN f : f[s] = g[s]
  BY <1>1, <1>2, <1>3 DEF f, g
<1>5. f = g
  BY <1>1, <1>3, <1>4
<1>. QED BY <1>1, <1>5

\* Books the account opens with.
LEMMA OpenedIs ==
  ASSUME NEW S
  PROVE  Opened \in Books(S) /\ Opened.cash = OpeningCash /\ \A s : Quantity(Opened.holdings, s) = 0
<1>1. <<>> \in [{} -> Int \ {0}] /\ DOMAIN <<>> = {}
  OBVIOUS
<1>2. OpeningCash \in Int
  BY ReconstructionAssumption
<1>3. Opened \in Books(S)
  BY <1>1, <1>2, BooksAre, {} \in SUBSET S, Zenon DEF Opened
<1>. QED BY <1>1, <1>3 DEF Opened, Quantity

\* One trade: the cash it moves, and the one holding it changes.
LEMMA applyTradeIs ==
  ASSUME NEW S, NEW b \in Books(S), NEW t \in Executions(S)
  PROVE  /\ Delta(t) \in Int /\ t.price \in Int /\ t.symbol \in S /\ t.day \in Int
         /\ applyTrade(t, b) \in Books(S)
         /\ applyTrade(t, b).cash = b.cash - Delta(t) * t.price
         /\ \A s : Quantity(applyTrade(t, b).holdings, s)
                     = Quantity(b.holdings, s) + (IF s = t.symbol THEN Delta(t) ELSE 0)
<1> DEFINE h == b.holdings
           q == Quantity(h, t.symbol) + Delta(t)
           open == (DOMAIN h \ {t.symbol}) \cup (IF q = 0 THEN {} ELSE {t.symbol})
           g == [s \in open |-> IF s = t.symbol THEN q ELSE h[s]]
           c == b.cash - Delta(t) * t.price
<1>1. Delta(t) \in Int /\ t.price \in Int /\ t.symbol \in S /\ t.day \in Int
  BY DEF Executions, Delta
<1>2. b.cash \in Int /\ DOMAIN h \in SUBSET S /\ h \in [DOMAIN h -> Int \ {0}]
  BY BooksAre
<1>3. applyTrade(t, b) = [cash |-> c, holdings |-> g]
  BY Zenon DEF applyTrade
<1>4. Quantity(h, t.symbol) \in Int
  BY QuantityIs
<1>5. q \in Int
  BY <1>1, <1>4
<1>6. c \in Int
  <2>1. Delta(t) * t.price \in Int
    BY <1>1
  <2>. QED BY <1>2, <2>1
<1>7. open \in SUBSET S /\ g \in [open -> Int \ {0}] /\ DOMAIN g = open
  <2>. HIDE DEF q, h
  <2>. QED BY <1>1, <1>2, <1>5
<1>8. applyTrade(t, b) \in Books(S)
  <2>. HIDE DEF g, c, open
  <2>1. [cash |-> c, holdings |-> g] \in Books(S)
    BY <1>6, <1>7, BooksAre
  <2>. QED BY <1>3, <2>1
<1>9. ASSUME NEW s
      PROVE  Quantity(g, s) = Quantity(h, s) + (IF s = t.symbol THEN Delta(t) ELSE 0)
  <2>1. Quantity(h, s) \in Int /\ (s \in DOMAIN h => Quantity(h, s) = h[s])
                              /\ (s \notin DOMAIN h => Quantity(h, s) = 0)
    BY QuantityIs
  <2>2. CASE s = t.symbol
    <3>1. Quantity(g, s) = q
      <4>1. s \in open <=> q # 0
        <5>. HIDE DEF q, h
        <5>. QED BY <2>2
      <4>2. s \in open => g[s] = q
        <5>. HIDE DEF q, h, open
        <5>. QED BY <2>2
      <4>. HIDE DEF q, h, open, g
      <4>. QED BY <1>5, <1>7, <4>1, <4>2 DEF Quantity
    <3>. QED BY <2>2, <3>1
  <2>3. CASE s # t.symbol
    <3>1. s \in open <=> s \in DOMAIN h
      <4>. HIDE DEF q, h
      <4>. QED BY <2>3
    <3>2. Quantity(g, s) = Quantity(h, s)
      <4>. HIDE DEF q, h, open
      <4>. QED BY <1>7, <2>3, <3>1 DEF Quantity
    <3>. HIDE DEF g, h
    <3>. QED BY <2>1, <2>3, <3>2
  <2>. QED BY <2>2, <2>3
<1>. HIDE DEF g, c
<1>10. applyTrade(t, b).cash = c /\ applyTrade(t, b).holdings = g
  BY <1>3
<1>. QED BY <1>1, <1>8, <1>9, <1>10 DEF c

\* Two trades have the same effect in either order.
LEMMA TradesCommute ==
  ASSUME NEW S, NEW b \in Books(S), NEW t \in Executions(S), NEW u \in Executions(S)
  PROVE  applyTrade(u, applyTrade(t, b)) = applyTrade(t, applyTrade(u, b))
<1> DEFINE bt == applyTrade(t, b)
           bu == applyTrade(u, b)
           x == applyTrade(u, bt)
           y == applyTrade(t, bu)
<1>1. /\ bt \in Books(S) /\ bu \in Books(S)
      /\ bt.cash = b.cash - Delta(t) * t.price /\ bu.cash = b.cash - Delta(u) * u.price
      /\ Delta(t) * t.price \in Int /\ Delta(u) * u.price \in Int /\ b.cash \in Int
      /\ Delta(t) \in Int /\ Delta(u) \in Int
  <2>1. Delta(t) \in Int /\ t.price \in Int /\ Delta(u) \in Int /\ u.price \in Int
    BY applyTradeIs
  <2>2. Delta(t) * t.price \in Int /\ Delta(u) * u.price \in Int
    BY <2>1
  <2>. QED BY <2>1, <2>2, applyTradeIs, BooksAre
<1>2. \A s : /\ Quantity(b.holdings, s) \in Int
             /\ Quantity(bt.holdings, s) = Quantity(b.holdings, s) + (IF s = t.symbol THEN Delta(t) ELSE 0)
             /\ Quantity(bu.holdings, s) = Quantity(b.holdings, s) + (IF s = u.symbol THEN Delta(u) ELSE 0)
  <2>1. \A s : Quantity(b.holdings, s) \in Int
    BY QuantityIs
  <2>2. \A s : Quantity(bt.holdings, s) = Quantity(b.holdings, s) + (IF s = t.symbol THEN Delta(t) ELSE 0)
    BY applyTradeIs
  <2>3. \A s : Quantity(bu.holdings, s) = Quantity(b.holdings, s) + (IF s = u.symbol THEN Delta(u) ELSE 0)
    BY applyTradeIs
  <2>. QED BY <2>1, <2>2, <2>3
<1>. HIDE DEF bt, bu
<1>3. /\ x \in Books(S) /\ y \in Books(S)
      /\ x.cash = bt.cash - Delta(u) * u.price /\ y.cash = bu.cash - Delta(t) * t.price
      /\ \A s : /\ Quantity(x.holdings, s) = Quantity(bt.holdings, s) + (IF s = u.symbol THEN Delta(u) ELSE 0)
                /\ Quantity(y.holdings, s) = Quantity(bu.holdings, s) + (IF s = t.symbol THEN Delta(t) ELSE 0)
  <2>1. /\ x \in Books(S) /\ x.cash = bt.cash - Delta(u) * u.price
        /\ \A s : Quantity(x.holdings, s) = Quantity(bt.holdings, s) + (IF s = u.symbol THEN Delta(u) ELSE 0)
    BY <1>1, applyTradeIs
  <2>2. /\ y \in Books(S) /\ y.cash = bu.cash - Delta(t) * t.price
        /\ \A s : Quantity(y.holdings, s) = Quantity(bu.holdings, s) + (IF s = t.symbol THEN Delta(t) ELSE 0)
    BY <1>1, applyTradeIs
  <2>. HIDE DEF x, y
  <2>. QED BY <2>1, <2>2, Zenon
<1>. HIDE DEF x, y
<1>4. x.cash = y.cash
  <2> DEFINE p == Delta(t) * t.price
             q == Delta(u) * u.price
  <2>1. p \in Int /\ q \in Int /\ b.cash \in Int /\ x.cash = (b.cash - p) - q /\ y.cash = (b.cash - q) - p
    BY <1>1, <1>3
  <2>. HIDE DEF p, q
  <2>. QED BY <2>1
<1>5. \A s \in S : Quantity(x.holdings, s) = Quantity(y.holdings, s)
  <2>1. ASSUME NEW s \in S
        PROVE  Quantity(x.holdings, s) = Quantity(y.holdings, s)
    <3> DEFINE n == Quantity(b.holdings, s)
               p == IF s = t.symbol THEN Delta(t) ELSE 0
               q == IF s = u.symbol THEN Delta(u) ELSE 0
    <3>1. n \in Int /\ p \in Int /\ q \in Int
      BY <1>1, <1>2
    <3>2. Quantity(x.holdings, s) = (n + p) + q /\ Quantity(y.holdings, s) = (n + q) + p
      BY <1>2, <1>3
    <3>. HIDE DEF n, p, q
    <3>. QED BY <3>1, <3>2
  <2>. QED BY <2>1
<1>6. x = y
  BY <1>3, <1>4, <1>5, SameBooks
<1>. QED BY <1>6 DEF x, y, bt, bu

\* The books after each trade of a sequence.
Along(f, ts, b) == f[0] = b /\ \A i \in 1..Len(ts) : f[i] = applyTrade(ts[i], f[i - 1])

\* ApplyAll ends in the last of them, whichever function has them.
LEMMA ApplyAllEnds ==
  ASSUME NEW ts, Len(ts) \in Nat, NEW b, NEW f, DOMAIN f = 0..Len(ts), f = [i \in 0..Len(ts) |-> f[i]],
         Along(f, ts, b)
  PROVE  ApplyAll(ts, b) = f[Len(ts)]
<1> DEFINE n == Len(ts)
           Solves(h) == h = [i \in 0..n |-> IF i = 0 THEN b ELSE applyTrade(ts[i], h[i - 1])]
<1>1. f[0] = b /\ \A i \in 1..n : f[i] = applyTrade(ts[i], f[i - 1])
  BY DEF Along
<1>2. Solves(f)
  <2>1. \A i \in 0..n : i # 0 => i \in 1..n
    OBVIOUS
  <2>2. \A i \in 0..n : f[i] = IF i = 0 THEN b ELSE applyTrade(ts[i], f[i - 1])
    BY <1>1, <2>1
  <2>. QED BY <2>2
<1> DEFINE g == CHOOSE h : Solves(h)
<1>3. Solves(g)
  <2>. HIDE DEF Solves
  <2>. QED BY <1>2
<1>4. ApplyAll(ts, b) = g[n]
  BY DEF ApplyAll
<1>5. \A i \in 0..n : g[i] = IF i = 0 THEN b ELSE applyTrade(ts[i], g[i - 1])
  <2>. HIDE DEF g
  <2>. QED BY <1>3
<1>. HIDE DEF g
<1>6. g[0] = f[0]
  BY <1>1, <1>5
<1>7. \A i \in 1..n : g[i - 1] = f[i - 1] => g[i] = f[i]
  <2>1. \A i \in 1..n : i \in 0..n /\ i # 0
    OBVIOUS
  <2>2. \A i \in 1..n : g[i] = applyTrade(ts[i], g[i - 1])
    BY <1>5, <2>1
  <2>. QED BY <1>1, <2>2, Zenon
<1>8. Alike(g, f, n)
  BY <1>6, <1>7, AgreeAlong DEF Stepwise
<1>. QED BY <1>4, <1>8 DEF Alike

\* There are such books, and they stay books.
LEMMA ReplayExists ==
  ASSUME NEW S, NEW b \in Books(S), NEW ts \in Seq(Executions(S))
  PROVE  \E f \in [0..Len(ts) -> Books(S)] : Along(f, ts, b)
<1> DEFINE n == Len(ts)
           B == Books(S)
           step == [i \in 1..n |-> [x \in B |-> applyTrade(ts[i], x)]]
<1>1. n \in Nat /\ \A i \in 1..n : ts[i] \in Executions(S)
  OBVIOUS
<1>2. \A i \in 1..n : \A x \in B : applyTrade(ts[i], x) \in B
  BY <1>1, applyTradeIs
<1>. HIDE DEF B, n
<1>3. step \in [1..n -> [B -> B]]
  BY <1>2
<1>4. PICK f \in [0..n -> B] : f[0] = b /\ \A i \in 1..n : f[i] = step[i][f[i - 1]]
  <2>1. Runnable(n, B, b, step)
    <3>1. b \in B
      BY DEF B
    <3>. HIDE DEF step
    <3>. QED BY <1>1, <1>3, <3>1, ForwardRecursionExists
  <2>. HIDE DEF step
  <2>. QED BY <2>1 DEF Runnable, Runs
<1>5. \A i \in 1..n : f[i] = applyTrade(ts[i], f[i - 1])
  <2>1. \A i \in 1..n : i - 1 \in 0..n
    BY <1>1
  <2>2. \A i \in 1..n : f[i - 1] \in B
    BY <2>1
  <2>. QED BY <1>4, <2>2
<1>. QED BY <1>4, <1>5 DEF Along, B, n

\* The books of a log, from the opening of the account on; a stretch of the log
\* leads from those at its beginning to those at its end.
Replays(f, ts) ==
  /\ f \in [0..Len(ts) -> Books(Symbols)] /\ Along(f, ts, Opened)
  /\ ApplyAll(ts, Opened) = f[Len(ts)]
  /\ \A m \in 0..Len(ts) : \A n \in m..Len(ts) : ApplyAll(SubSeq(ts, m + 1, n), f[m]) = f[n]

LEMMA StretchIs ==
  ASSUME NEW ts \in Seq(Executions(Symbols)), NEW f \in [0..Len(ts) -> Books(Symbols)],
         Along(f, ts, Opened), NEW m \in 0..Len(ts), NEW n \in m..Len(ts)
  PROVE  ApplyAll(SubSeq(ts, m + 1, n), f[m]) = f[n]
<1> DEFINE part == SubSeq(ts, m + 1, n)
           g == [k \in 0..(n - m) |-> f[m + k]]
<1>0. Len(ts) \in Nat /\ m \in Nat /\ n \in Nat /\ m <= n /\ n <= Len(ts) /\ n - m \in Nat /\ m + (n - m) = n
  OBVIOUS
<1>1. Len(part) = n - m /\ \A k \in 1..(n - m) : part[k] = ts[m + k]
  <2>1. part = [k \in 1..(n - m) |-> ts[m + k]]
    <3>1. part = [k \in 1..(1 + n - (m + 1)) |-> ts[(m + 1) + k - 1]]
      BY <1>0 DEF SubSeq
    <3>2. 1 + n - (m + 1) = n - m /\ \A k \in 1..(n - m) : (m + 1) + k - 1 = m + k
      BY <1>0
    <3>. QED BY <3>1, <3>2
  <2>. HIDE DEF part
  <2>2. part \in [1..(n - m) -> Executions(Symbols)]
    <3>1. \A k \in 1..(n - m) : m + k \in 1..Len(ts)
      BY <1>0
    <3>. QED BY <2>1, <3>1
  <2>. QED BY <1>0, <2>1, <2>2
<1>. HIDE DEF part
<1>2. g[0] = f[m] /\ g[n - m] = f[n]
  BY <1>0
<1>3. \A k \in 1..(n - m) : g[k] = applyTrade(part[k], g[k - 1])
  <2>1. ASSUME NEW k \in 1..(n - m)
        PROVE  g[k] = applyTrade(part[k], g[k - 1])
    <3>1. /\ m + k \in 1..Len(ts) /\ k \in 0..(n - m) /\ k - 1 \in 0..(n - m)
          /\ m + (k - 1) = (m + k) - 1
      BY <1>0
    <3>2. f[m + k] = applyTrade(ts[m + k], f[(m + k) - 1])
      BY <3>1 DEF Along
    <3>3. g[k] = f[m + k] /\ g[k - 1] = f[(m + k) - 1]
      BY <3>1
    <3>. HIDE DEF g
    <3>. QED BY <1>1, <3>2, <3>3
  <2>. QED BY <2>1
<1>4. DOMAIN g = 0..(n - m) /\ g = [k \in 0..(n - m) |-> g[k]]
  OBVIOUS
<1>. HIDE DEF g
<1>5. Along(g, part, f[m])
  BY <1>1, <1>2, <1>3 DEF Along
<1>6. ApplyAll(part, f[m]) = g[Len(part)]
  BY <1>0, <1>1, <1>4, <1>5, ApplyAllEnds
<1>. QED BY <1>1, <1>2, <1>6 DEF part

LEMMA AlongReplays ==
  ASSUME NEW ts \in Seq(Executions(Symbols)), NEW f \in [0..Len(ts) -> Books(Symbols)],
         Along(f, ts, Opened)
  PROVE  Replays(f, ts)
<1>1. ApplyAll(ts, Opened) = f[Len(ts)]
  <2>1. Len(ts) \in Nat /\ DOMAIN f = 0..Len(ts) /\ f = [i \in 0..Len(ts) |-> f[i]]
    OBVIOUS
  <2>. QED BY <2>1, ApplyAllEnds
<1>2. \A m \in 0..Len(ts) : \A n \in m..Len(ts) : ApplyAll(SubSeq(ts, m + 1, n), f[m]) = f[n]
  BY StretchIs
<1>. QED BY <1>1, <1>2 DEF Replays

LEMMA ReplayIs ==
  ASSUME NEW ts \in Seq(Executions(Symbols))
  PROVE  \E f \in [0..Len(ts) -> Books(Symbols)] : Replays(f, ts)
BY OpenedIs, ReplayExists, AlongReplays

-----------------------------------------------------------------------------
(* Days *)

\* Places that hold every place before one of theirs are the first so many.
LEMMA FirstPlaces ==
  ASSUME NEW n \in Nat, NEW T \in SUBSET (1..n), \A i \in T : \A j \in 1..i : j \in T
  PROVE  Cardinality(T) \in 0..n /\ T = 1..Cardinality(T)
<1> DEFINE U == (1..(n + 1)) \ T
<1>1. n + 1 \in U /\ U \subseteq Nat
  OBVIOUS
<1>2. PICK x \in U : \A y \in U : x <= y
  <2>. HIDE DEF U
  <2>. QED BY <1>1, LeastElement
<1>3. x \in 1..(n + 1) /\ x \notin T
  BY <1>2
<1>4. T = 1..(x - 1)
  <2>1. ASSUME NEW i \in T
        PROVE  i \in 1..(x - 1)
    <3>1. i \in 1..n
      OBVIOUS
    <3>2. ~(x <= i)
      BY <1>3, <3>1
    <3>. QED BY <1>3, <3>1, <3>2
  <2>2. ASSUME NEW i \in 1..(x - 1)
        PROVE  i \in T
    <3>1. i \in 1..(n + 1) /\ ~(x <= i)
      BY <1>3
    <3>. QED BY <1>2, <3>1
  <2>. QED BY <2>1, <2>2
<1>5. Cardinality(1..(x - 1)) = x - 1
  <2>1. 1 \in Int /\ x - 1 \in Int
    BY <1>3
  <2>2. Cardinality(1..(x - 1)) = IF 1 > x - 1 THEN 0 ELSE (x - 1) - 1 + 1
    BY <2>1, FS_Interval
  <2>. QED BY <1>3, <2>2
<1>. QED BY <1>3, <1>4, <1>5

\* A log's places and days.
LEMMA LogIs ==
  ASSUME NEW ts \in Seq(Executions(Symbols))
  PROVE  /\ Len(ts) \in Nat /\ DOMAIN ts = 1..Len(ts)
         /\ \A i \in 1..Len(ts) : ts[i] \in Executions(Symbols) /\ ts[i].day \in Int
<1>1. /\ Len(ts) \in Nat /\ DOMAIN ts = 1..Len(ts)
      /\ \A i \in 1..Len(ts) : ts[i] \in Executions(Symbols)
  OBVIOUS
<1>2. \A t \in Executions(Symbols) : t.day \in Int
  BY DEF Executions
<1>. QED BY <1>1, <1>2

\* In a log that ascends, the trades up to a day come first.
LEMMA TradesByIs ==
  ASSUME NEW ts \in Seq(Executions(Symbols)), DaysAscend(ts), NEW d \in Int
  PROVE  /\ TradesBy(ts, d) \in 0..Len(ts)
         /\ \A i \in DOMAIN ts : ts[i].day <= d <=> i <= TradesBy(ts, d)
<1> DEFINE T == {i \in DOMAIN ts : ts[i].day <= d}
<1>1. Len(ts) \in Nat /\ DOMAIN ts = 1..Len(ts) /\ \A i \in 1..Len(ts) : ts[i].day \in Int
  BY LogIs
<1>2. T \in SUBSET (1..Len(ts))
  BY <1>1
<1>3. ASSUME NEW i \in T, NEW j \in 1..i
      PROVE  j \in T
  <2>1. i \in 1..Len(ts) /\ j \in 1..Len(ts) /\ (j < i \/ j = i)
    BY <1>1
  <2>2. ts[j].day <= ts[i].day
    BY <1>1, <2>1 DEF DaysAscend
  <2>. QED BY <1>1, <2>1, <2>2
<1>4. Cardinality(T) \in 0..Len(ts) /\ T = 1..Cardinality(T)
  <2>. HIDE DEF T
  <2>. QED BY <1>1, <1>2, <1>3, FirstPlaces
<1>5. TradesBy(ts, d) = Cardinality(T)
  BY DEF TradesBy
<1>6. \A i \in DOMAIN ts : ts[i].day <= d <=> i \in T
  OBVIOUS
<1>. HIDE DEF T
<1>. QED BY <1>1, <1>4, <1>5, <1>6

\* And more of them up to a later day.
LEMMA TradesByGrows ==
  ASSUME NEW ts \in Seq(Executions(Symbols)), DaysAscend(ts), NEW d \in Int, NEW e \in Int, d <= e
  PROVE  TradesBy(ts, d) <= TradesBy(ts, e)
<1> DEFINE m == TradesBy(ts, d)
           n == TradesBy(ts, e)
<1>1. Len(ts) \in Nat /\ DOMAIN ts = 1..Len(ts) /\ \A i \in 1..Len(ts) : ts[i].day \in Int
  BY LogIs
<1>2. /\ m \in 0..Len(ts) /\ \A i \in DOMAIN ts : ts[i].day <= d <=> i <= m
      /\ n \in 0..Len(ts) /\ \A i \in DOMAIN ts : ts[i].day <= e <=> i <= n
  BY TradesByIs
<1>. HIDE DEF m, n
<1>3. CASE m = 0
  BY <1>1, <1>2, <1>3 DEF m, n
<1>4. CASE m # 0
  <2>1. m \in DOMAIN ts /\ m <= m
    BY <1>1, <1>2, <1>4
  <2>2. ts[m].day <= d
    BY <1>2, <2>1
  <2>3. ts[m].day <= e
    BY <1>1, <2>1, <2>2
  <2>4. m <= n
    BY <1>2, <2>1, <2>3
  <2>. QED BY <2>4 DEF m, n
<1>. QED BY <1>3, <1>4

\* A log that ascends is its own stable order.
LEMMA StableIs ==
  ASSUME NEW ts \in Seq(Executions(Symbols)), DaysAscend(ts)
  PROVE  StableByDay(ts) = ts
<1> DEFINE NotAfter(j, i) == ts[j].day < ts[i].day \/ (ts[j].day = ts[i].day /\ j <= i)
           Rank(i) == Cardinality({j \in DOMAIN ts : NotAfter(j, i)})
<1>1. Len(ts) \in Nat /\ DOMAIN ts = 1..Len(ts) /\ \A i \in 1..Len(ts) : ts[i].day \in Int
  BY LogIs
<1>2. ASSUME NEW i \in DOMAIN ts
      PROVE  Rank(i) = i
  <2>1. ASSUME NEW j \in DOMAIN ts
        PROVE  NotAfter(j, i) <=> j \in 1..i
    <3>1. i \in 1..Len(ts) /\ j \in 1..Len(ts) /\ ts[i].day \in Int /\ ts[j].day \in Int
      BY <1>1
    <3>2. (j < i => ts[j].day <= ts[i].day) /\ (i < j => ts[i].day <= ts[j].day)
      BY DEF DaysAscend
    <3>. QED BY <3>1, <3>2
  <2>2. {j \in DOMAIN ts : NotAfter(j, i)} = 1..i
    <3>1. 1..i \subseteq DOMAIN ts
      BY <1>1
    <3>. HIDE DEF NotAfter
    <3>. QED BY <2>1, <3>1
  <2>3. Cardinality(1..i) = i
    <3>1. i \in 1..Len(ts) /\ 1 \in Int /\ i \in Int
      BY <1>1
    <3>2. Cardinality(1..i) = IF 1 > i THEN 0 ELSE i - 1 + 1
      BY <3>1, FS_Interval
    <3>. QED BY <3>1, <3>2
  <2>. QED BY <2>2, <2>3
<1>3. StableByDay(ts) = [k \in DOMAIN ts |-> ts[CHOOSE i \in DOMAIN ts : Rank(i) = k]]
  BY DEF StableByDay
<1>. HIDE DEF Rank
<1>4. \A k \in DOMAIN ts : (CHOOSE i \in DOMAIN ts : Rank(i) = k) = k
  BY <1>2
<1>5. ts = [k \in DOMAIN ts |-> ts[k]]
  BY <1>1
<1>. QED BY <1>3, <1>4, <1>5, Zenon

\* What is kept of the last places of a sequence is its end.
LEMMA KeepEnd ==
  ASSUME NEW V, NEW s \in Seq(V), NEW m \in 0..Len(s)
  PROVE  Keep(s, (m + 1)..Len(s)) = SubSeq(s, m + 1, Len(s))
<1> DEFINE L == Len(s)
           P == (m + 1)..L
           n == L - m
           a == Ascending(P)
<1>1. L \in Nat /\ m \in Nat /\ m <= L /\ n \in Nat /\ P \in SUBSET Int
  OBVIOUS
<1>2. IsFiniteSet(P) /\ Cardinality(P) = n
  <2>1. m + 1 \in Int /\ L \in Int
    BY <1>1
  <2>2. IsFiniteSet(P) /\ Cardinality(P) = IF m + 1 > L THEN 0 ELSE L - (m + 1) + 1
    BY <2>1, FS_Interval
  <2>. QED BY <1>1, <2>2
<1>3. \A x \in P : Below(P, x) = x - (m + 1)
  <2>1. ASSUME NEW x \in P
        PROVE  Below(P, x) = x - (m + 1)
    <3>1. {y \in P : y < x} = (m + 1)..(x - 1)
      BY <1>1
    <3>2. m + 1 \in Int /\ x - 1 \in Int /\ x \in Int /\ m + 1 <= x
      BY <1>1
    <3>3. Cardinality((m + 1)..(x - 1)) = IF m + 1 > x - 1 THEN 0 ELSE (x - 1) - (m + 1) + 1
      BY <3>2, FS_Interval
    <3>4. Below(P, x) = Cardinality((m + 1)..(x - 1))
      <4>. HIDE DEF P
      <4>. QED BY <3>1 DEF Below
    <3>. QED BY <1>1, <3>2, <3>3, <3>4
  <2>. QED BY <2>1
<1>4. \A k \in 1..n : a[k] = m + k
  <2>1. ASSUME NEW k \in 1..n
        PROVE  a[k] = m + k
    <3>1. m + k \in P /\ (m + k) - (m + 1) + 1 = k
      BY <1>1
    <3>2. a[Below(P, m + k) + 1] = m + k
      <4>. HIDE DEF P
      <4>. QED BY <1>1, <1>2, <3>1, AscendingIs
    <3>3. Below(P, m + k) + 1 = k
      <4>. HIDE DEF P
      <4>. QED BY <1>3, <3>1
    <3>. QED BY <3>2, <3>3
  <2>. QED BY <2>1
<1>5. Keep(s, P) = [k \in 1..n |-> s[m + k]]
  <2>1. Keep(s, P) = [k \in 1..n |-> s[a[k]]]
    <3>. HIDE DEF P, n
    <3>. QED BY <1>2 DEF Keep
  <2>. HIDE DEF a, n
  <2>. QED BY <1>4, <2>1
<1>6. SubSeq(s, m + 1, L) = [k \in 1..n |-> s[m + k]]
  <2>1. SubSeq(s, m + 1, L) = [k \in 1..(1 + L - (m + 1)) |-> s[(m + 1) + k - 1]]
    BY <1>1 DEF SubSeq
  <2>2. 1 + L - (m + 1) = n /\ \A k \in 1..n : (m + 1) + k - 1 = m + k
    BY <1>1
  <2>. QED BY <2>1, <2>2
<1>. QED BY <1>5, <1>6

-----------------------------------------------------------------------------
(* The curve *)

Ascends(dates) == \A j, k \in DOMAIN dates : j < k => dates[j] < dates[k]

\* The days on which every symbol of a log, and every benchmark, has a bar served.
Sessions(ts) ==
  {d \in 1..MaxDay : \A s \in reconstructionSymbols(ts) : d \in Recent(s)}

\* What is fetched for a log: of each of its symbols the newest bars, as they are.
LEMMA UsedIs ==
  ASSUME NEW ts
  PROVE  /\ DOMAIN Used(ts) = reconstructionSymbols(ts)
         /\ \A s \in reconstructionSymbols(ts) :
              /\ DOMAIN Used(ts)[s] = Recent(s) /\ Recent(s) \subseteq DOMAIN bars[s]
              /\ \A d \in Recent(s) : Used(ts)[s][d] = bars[s][d]
BY DEF Used, Recent

LEMMA CalendarIs ==
  ASSUME ReportTypeOK, NEW ts \in Seq(Executions(Symbols)), ts # <<>>
  PROVE  /\ Calendar(Used(ts)) \in Seq(Int) /\ Ascends(Calendar(Used(ts)))
         /\ Range(Calendar(Used(ts))) = Sessions(ts)
<1> DEFINE R == reconstructionSymbols(ts)
           u == Used(ts)
           C == {d \in UNION {DOMAIN u[s] : s \in DOMAIN u} : \A s \in DOMAIN u : d \in DOMAIN u[s]}
           c == Ascending(C)
<1>1. R \in SUBSET Symbols /\ R # {}
  <2>1. Len(ts) \in Nat /\ Len(ts) # 0 /\ DOMAIN ts = 1..Len(ts) /\ \A i \in DOMAIN ts : ts[i] \in Executions(Symbols)
    BY LogIs
  <2>2. 1 \in DOMAIN ts
    BY <2>1
  <2>3. \A i \in DOMAIN ts : ts[i].symbol \in Symbols
    BY <2>1 DEF Executions
  <2>4. BenchmarkSymbols \subseteq Symbols
    BY AnalyticsAssumption
  <2>. QED BY <2>2, <2>3, <2>4 DEF reconstructionSymbols
<1>2. DOMAIN u = R /\ \A s \in R : DOMAIN u[s] = Recent(s)
  BY UsedIs
<1>. HIDE DEF R, u
<1>3. \A s \in R : Recent(s) \subseteq 1..MaxDay
  BY <1>1 DEF ReportTypeOK, Recent
<1>4. C = Sessions(ts)
  <2>1. C = {d \in UNION {Recent(s) : s \in R} : \A s \in R : d \in Recent(s)}
    BY <1>2
  <2>. HIDE DEF C
  <2>. QED BY <1>1, <1>3, <2>1 DEF Sessions, R
<1>. HIDE DEF C
<1>5. C \in SUBSET Int /\ IsFiniteSet(C)
  <2>1. MaxDay \in Int /\ 1 \in Int
    BY AnalyticsAssumption
  <2>2. IsFiniteSet(1..MaxDay) /\ 1..MaxDay \in SUBSET Int
    BY <2>1, FS_Interval
  <2>3. C \in SUBSET (1..MaxDay)
    BY <1>4 DEF Sessions
  <2>. QED BY <2>2, <2>3, FS_Subset
<1>6. /\ Cardinality(C) \in Nat /\ c \in [1..Cardinality(C) -> C]
      /\ \A x \in C : Below(C, x) + 1 \in 1..Cardinality(C) /\ c[Below(C, x) + 1] = x
      /\ \A j, k \in 1..Cardinality(C) : j < k <=> c[j] < c[k]
  BY <1>5, AscendingIs
<1>7. Calendar(u) = c
  BY DEF Calendar, C
<1>. HIDE DEF c
<1>8. c \in Seq(Int) /\ DOMAIN c = 1..Cardinality(C)
  <2> DEFINE n == Cardinality(C)
  <2>1. n \in Nat /\ c \in [1..n -> C]
    BY <1>6
  <2>. HIDE DEF n
  <2>2. c \in [1..n -> Int]
    BY <1>5, <2>1
  <2>. QED BY <2>1, <2>2 DEF n
<1>9. Ascends(c)
  BY <1>6, <1>8 DEF Ascends
<1>10. Range(c) = C
  <2>1. Range(c) = {c[k] : k \in 1..Cardinality(C)}
    BY <1>8 DEF Range
  <2>2. \A k \in 1..Cardinality(C) : c[k] \in C
    BY <1>6
  <2>3. \A x \in C : \E k \in 1..Cardinality(C) : c[k] = x
    BY <1>6
  <2>. QED BY <2>1, <2>2, <2>3
<1>. QED BY <1>4, <1>7, <1>8, <1>9, <1>10 DEF u

\* The dates of a calendar from a day on.
LEMMA DatesAre ==
  ASSUME NEW c \in Seq(Int), Ascends(c), NEW x \in Int
  PROVE  LET dates == Keep(c, {k \in DOMAIN c : c[k] >= x})
         IN /\ dates \in Seq(Int) /\ Ascends(dates)
            /\ Range(dates) = {d \in Range(c) : d >= x}
<1> DEFINE P == {k \in DOMAIN c : c[k] >= x}
           n == Cardinality(P)
           a == Ascending(P)
           dates == Keep(c, P)
<1>1. P \in SUBSET DOMAIN c
  OBVIOUS
<1>2. /\ n \in Nat /\ P \in SUBSET Int
      /\ dates \in Seq(Int) /\ Len(dates) = n
      /\ \A k \in 1..n : a[k] \in P /\ dates[k] = c[a[k]]
      /\ \A p \in P : \E k \in 1..n : a[k] = p /\ dates[k] = c[p]
      /\ \A j, k \in 1..n : j < k => a[j] < a[k]
  <2>. HIDE DEF P
  <2>1. Cardinality(P) \in Nat /\ P \in SUBSET Int /\ Keep(c, P) \in Seq(Int) /\ Len(Keep(c, P)) = Cardinality(P)
    BY <1>1, KeepIs
  <2>2. \A k \in 1..Cardinality(P) : Ascending(P)[k] \in P /\ Keep(c, P)[k] = c[Ascending(P)[k]]
    BY <1>1, KeepIs
  <2>3. \A p \in P : \E k \in 1..Cardinality(P) : Ascending(P)[k] = p /\ Keep(c, P)[k] = c[p]
    BY <1>1, KeepIs
  <2>4. \A j, k \in 1..Cardinality(P) : j < k => Ascending(P)[j] < Ascending(P)[k]
    BY <1>1, KeepIs
  <2>. QED BY <2>1, <2>2, <2>3, <2>4, Zenon
<1>3. \A k \in DOMAIN c : k \in P <=> c[k] >= x
  OBVIOUS
<1>. HIDE DEF P, a, dates, n
<1>4. DOMAIN dates = 1..n
  BY <1>2
<1>5. Ascends(dates)
  <2>1. ASSUME NEW j \in 1..n, NEW k \in 1..n, j < k
        PROVE  dates[j] < dates[k]
    <3>1. a[j] \in DOMAIN c /\ a[k] \in DOMAIN c /\ a[j] < a[k]
      BY <1>1, <1>2, <2>1
    <3>2. c[a[j]] < c[a[k]]
      BY <3>1 DEF Ascends
    <3>. QED BY <1>2, <3>2
  <2>. QED BY <1>4, <2>1 DEF Ascends
<1>6. Range(dates) = {d \in Range(c) : d >= x}
  <2>1. Range(dates) = {dates[k] : k \in 1..n} /\ Range(c) = {c[k] : k \in DOMAIN c}
    BY <1>4 DEF Range
  <2>2. \A k \in 1..n : dates[k] \in Range(c) /\ dates[k] >= x
    <3>1. ASSUME NEW k \in 1..n
          PROVE  dates[k] \in Range(c) /\ dates[k] >= x
      <4>1. a[k] \in P /\ a[k] \in DOMAIN c /\ dates[k] = c[a[k]]
        BY <1>1, <1>2
      <4>2. c[a[k]] >= x /\ c[a[k]] \in Range(c)
        BY <1>3, <2>1, <4>1
      <4>. QED BY <4>1, <4>2
    <3>. QED BY <3>1
  <2>3. \A k \in DOMAIN c : c[k] >= x => \E j \in 1..n : dates[j] = c[k]
    BY <1>2, <1>3
  <2>. QED BY <2>1, <2>2, <2>3
<1>. QED BY <1>2, <1>5, <1>6 DEF dates, P

\* The curve over some dates, of the books on each of them.
Drawn(states, bars_, dates) ==
  IF \E i \in 1..Len(dates) : \E s \in DOMAIN states[i].holdings :
       s \notin DOMAIN bars_ \/ dates[i] \notin DOMAIN bars_[s]
  THEN [NoCurve EXCEPT !.missing = TRUE]
  ELSE [dates |-> dates,
        cash |-> [i \in 1..Len(dates) |-> states[i].cash],
        equity |-> [i \in 1..Len(dates) |->
                      states[i].cash + ValueOf(states[i].holdings, bars_, dates[i])],
        holdings |-> IF Len(dates) = 0 THEN <<>> ELSE states[Len(dates)].holdings,
        missing |-> FALSE]

\* Date by date, the loop of Reconstruct reaches the books of the trades so far.
LEMMA ReconstructIs ==
  ASSUME NEW ts \in Seq(Executions(Symbols)), ts # <<>>, DaysAscend(ts), NEW f, Replays(f, ts),
         NEW bars_, NEW c \in Seq(Int), c # <<>>, Ascends(c)
  PROVE  LET dates == Keep(c, {k \in DOMAIN c : c[k] >= ts[1].day})
         IN Reconstruct(ts, bars_, c) =
              Drawn([i \in 1..Len(dates) |-> f[TradesBy(ts, dates[i])]], bars_, dates)
<1> DEFINE dates == Keep(c, {k \in DOMAIN c : c[k] >= ts[1].day})
           n == Len(dates)
           m(i) == TradesBy(ts, dates[i])
           Solves(h) ==
             h = [i \in 0..n |->
                    IF i = 0 THEN [next |-> 0, st |-> Opened]
                    ELSE LET last == h[i - 1]
                             next == TradesBy(ts, dates[i])
                         IN [next |-> next, st |-> ApplyAll(SubSeq(ts, last.next + 1, next), last.st)]]
           after == CHOOSE h : Solves(h)
           g == [i \in 0..n |-> IF i = 0 THEN [next |-> 0, st |-> Opened]
                                ELSE [next |-> m(i), st |-> f[m(i)]]]
<1>1. StableByDay(ts) = ts
  BY StableIs
<1>2. Reconstruct(ts, bars_, c) = Drawn([i \in 1..n |-> after[i].st], bars_, dates)
  <2> DEFINE D(o) == Keep(c, {k \in DOMAIN c : c[k] >= o[1].day})
             Goes(o, h) ==
               h = [i \in 0..Len(D(o)) |->
                      IF i = 0 THEN [next |-> 0, st |-> Opened]
                      ELSE LET last == h[i - 1]
                               next == TradesBy(o, D(o)[i])
                           IN [next |-> next, st |-> ApplyAll(SubSeq(o, last.next + 1, next), last.st)]]
             Out(o) == Drawn([i \in 1..Len(D(o)) |-> (CHOOSE h : Goes(o, h))[i].st], bars_, D(o))
  <2>1. Reconstruct(ts, bars_, c) = Out(StableByDay(ts))
    BY Zenon DEF Reconstruct, Drawn
  <2>2. Out(ts) = Drawn([i \in 1..n |-> after[i].st], bars_, dates)
    BY Zenon
  <2>. HIDE DEF Out
  <2>. QED BY <1>1, <2>1, <2>2, Zenon
<1>3. /\ Len(ts) \in Nat /\ ts[1].day \in Int /\ n \in Nat
      /\ \A i \in 1..n : dates[i] \in Int
      /\ \A i, j \in 1..n : i < j => dates[i] < dates[j]
  <2>1. Len(ts) \in Nat /\ Len(ts) # 0 /\ \A i \in 1..Len(ts) : ts[i].day \in Int
    BY LogIs
  <2>2. ts[1].day \in Int
    BY <2>1
  <2>3. dates \in Seq(Int) /\ Ascends(dates)
    BY <2>2, DatesAre
  <2>. HIDE DEF dates
  <2>. QED BY <2>1, <2>2, <2>3 DEF Ascends
<1>. HIDE DEF dates
<1>4. \A i \in 1..n : m(i) \in 0..Len(ts)
  BY <1>3, TradesByIs
<1>5. \A i, j \in 1..n : i < j => m(i) <= m(j)
  BY <1>3, TradesByGrows
<1>6. /\ f[0] = Opened
      /\ \A j \in 0..Len(ts) : \A k \in j..Len(ts) : ApplyAll(SubSeq(ts, j + 1, k), f[j]) = f[k]
  BY DEF Replays, Along
<1>. HIDE DEF m
<1>7. \A i \in 0..n : g[i] = IF i = 0 THEN [next |-> 0, st |-> Opened]
                             ELSE [next |-> m(i), st |-> ApplyAll(SubSeq(ts, g[i - 1].next + 1, m(i)), g[i - 1].st)]
  <2>1. ASSUME NEW i \in 1..n
        PROVE  f[m(i)] = ApplyAll(SubSeq(ts, g[i - 1].next + 1, m(i)), g[i - 1].st)
    <3>1. CASE i = 1
      <4>1. g[i - 1].next = 0 /\ g[i - 1].st = f[0]
        BY <1>3, <1>6, <3>1
      <4>2. 0 \in 0..Len(ts) /\ m(i) \in 0..Len(ts)
        BY <1>3, <1>4
      <4>. HIDE DEF g
      <4>. QED BY <1>6, <4>1, <4>2
    <3>2. CASE i # 1
      <4>1. i - 1 \in 1..n /\ i - 1 \in 0..n /\ i - 1 # 0 /\ i - 1 < i
        BY <1>3, <3>2
      <4>2. g[i - 1].next = m(i - 1) /\ g[i - 1].st = f[m(i - 1)]
        BY <4>1
      <4>3. m(i - 1) \in 0..Len(ts) /\ m(i) \in m(i - 1)..Len(ts)
        <5>1. m(i - 1) \in 0..Len(ts) /\ m(i) \in 0..Len(ts) /\ m(i - 1) <= m(i)
          BY <1>4, <1>5, <4>1
        <5>. QED BY <1>3, <5>1
      <4>. HIDE DEF g
      <4>. QED BY <1>6, <4>2, <4>3
    <3>. QED BY <3>1, <3>2
  <2>2. \A i \in 0..n : i # 0 => i \in 1..n
    BY <1>3
  <2>3. \A i \in 0..n : g[i] = IF i = 0 THEN [next |-> 0, st |-> Opened]
                               ELSE [next |-> m(i), st |-> f[m(i)]]
    OBVIOUS
  <2>. HIDE DEF g
  <2>. QED BY <2>1, <2>2, <2>3
<1>8. g = [i \in 0..n |-> g[i]]
  OBVIOUS
<1>9. \A i \in 1..n : g[i].st = f[m(i)]
  BY <1>3
<1>. HIDE DEF g
<1>10. Solves(g)
  BY <1>7, <1>8 DEF m
<1>11. Solves(after)
  <2>. HIDE DEF Solves
  <2>. QED BY <1>10
<1>. HIDE DEF after
<1>12. \A i \in 0..n : after[i] = IF i = 0 THEN [next |-> 0, st |-> Opened]
                             ELSE [next |-> m(i), st |-> ApplyAll(SubSeq(ts, after[i - 1].next + 1, m(i)), after[i - 1].st)]
  BY <1>11 DEF m
<1>13. Alike(after, g, n)
  <2>1. after[0] = g[0]
    <3>1. 0 \in 0..n
      BY <1>3
    <3>. QED BY <1>7, <1>12, <3>1, Zenon
  <2>2. \A i \in 1..n : after[i - 1] = g[i - 1] => after[i] = g[i]
    <3>1. \A i \in 1..n : i \in 0..n /\ i # 0
      BY <1>3
    <3>. QED BY <1>7, <1>12, <3>1
  <2>. QED BY <1>3, <2>1, <2>2, AgreeAlong DEF Stepwise
<1>14. \A i \in 1..n : after[i].st = f[m(i)]
  <2>1. \A i \in 1..n : i \in 0..n
    BY <1>3
  <2>. QED BY <1>9, <1>13, <2>1 DEF Alike
<1>15. [i \in 1..n |-> after[i].st] = [i \in 1..n |-> f[m(i)]]
  BY <1>14
<1>. QED BY <1>2, <1>15, Zenon DEF dates, m

\* A symbol that is never traded is never held.
LEMMA UntradedIsFlat ==
  ASSUME NEW ts \in Seq(Executions(Symbols)), NEW f, Replays(f, ts), NEW s,
         \A i \in DOMAIN ts : ts[i].symbol # s
  PROVE  \A k \in 0..Len(ts) : s \notin DOMAIN f[k].holdings
<1> DEFINE n == Len(ts)
           F == [k \in 0..n |-> Quantity(f[k].holdings, s)]
           G == [k \in 0..n |-> 0]
<1>1. n \in Nat /\ DOMAIN ts = 1..n /\ \A i \in 1..n : ts[i] \in Executions(Symbols)
  BY LogIs
<1>2. /\ \A k \in 0..n : f[k] \in Books(Symbols)
      /\ f[0] = Opened /\ \A i \in 1..n : f[i] = applyTrade(ts[i], f[i - 1])
  BY DEF Replays, Along
<1>3. F[0] = G[0]
  BY <1>1, <1>2, OpenedIs
<1>4. ASSUME NEW i \in 1..n, F[i - 1] = G[i - 1]
      PROVE  F[i] = G[i]
  <2>1. i - 1 \in 0..n /\ i \in 0..n
    BY <1>1
  <2>2. Quantity(f[i - 1].holdings, s) = 0
    BY <1>4, <2>1
  <2>3. Quantity(f[i].holdings, s) = Quantity(f[i - 1].holdings, s) + (IF s = ts[i].symbol THEN Delta(ts[i]) ELSE 0)
    <3> DEFINE t == ts[i]
               b == f[i - 1]
    <3>1. b \in Books(Symbols) /\ t \in Executions(Symbols) /\ f[i] = applyTrade(t, b)
      BY <1>1, <1>2, <2>1
    <3>. HIDE DEF F, G, n, t, b
    <3>2. \A x : Quantity(applyTrade(t, b).holdings, x) = Quantity(b.holdings, x) + (IF x = t.symbol THEN Delta(t) ELSE 0)
      BY <3>1, applyTradeIs
    <3>. QED BY <3>1, <3>2 DEF t, b
  <2>4. s # ts[i].symbol
    BY <1>1
  <2>. QED BY <2>1, <2>2, <2>3, <2>4
<1>5. Alike(F, G, n)
  <2>. HIDE DEF F, G
  <2>. QED BY <1>1, <1>3, <1>4, AgreeAlong DEF Stepwise
<1>6. \A k \in 0..n : Quantity(f[k].holdings, s) = 0
  BY <1>5 DEF Alike
<1>. QED BY <1>2, <1>6, QuantityIs

\* What a curve shows of a log and its books.
CurveShows(r, ts, f) ==
  /\ r.missing = FALSE
  /\ r.dates \in Seq(Int) /\ Ascends(r.dates)
  /\ Range(r.dates) = {d \in Sessions(ts) : d >= ts[1].day}
  /\ \A i \in DOMAIN r.dates :
       LET b == f[TradesBy(ts, r.dates[i])]
       IN /\ TradesBy(ts, r.dates[i]) \in 0..Len(ts)
          /\ DOMAIN b.holdings \subseteq reconstructionSymbols(ts)
          /\ r.cash[i] = b.cash
          /\ r.equity[i] = b.cash + ValueOf(b.holdings, bars, r.dates[i])
  /\ r.dates # <<>> =>
       LET b == f[TradesBy(ts, Final(r.dates))]
       IN /\ Final(r.cash) = b.cash /\ r.holdings = b.holdings
          /\ Final(r.equity) = b.cash + ValueOf(b.holdings, bars, Final(r.dates))

\* A closing price is never missing, and the curve shows the books of each date.
LEMMA CurveIs ==
  ASSUME ReportTypeOK, NEW ts \in Seq(Executions(Symbols)), ts # <<>>, DaysAscend(ts),
         NEW f, Replays(f, ts)
  PROVE  CurveShows(Curve(ts), ts, f)
<1> DEFINE R == reconstructionSymbols(ts)
           u == Used(ts)
           c == Calendar(u)
           dates == Keep(c, {k \in DOMAIN c : c[k] >= ts[1].day})
           n == Len(dates)
           m(i) == TradesBy(ts, dates[i])
           states == [i \in 1..n |-> f[m(i)]]
           r == Curve(ts)
<1>1. c \in Seq(Int) /\ Ascends(c) /\ Range(c) = Sessions(ts)
  BY CalendarIs
<1>2. r = Reconstruct(ts, u, c)
  BY DEF Curve
<1>3. /\ Len(ts) \in Nat /\ ts[1].day \in Int
      /\ \A i \in DOMAIN ts : ts[i].symbol \in R
  <2>1. Len(ts) \in Nat /\ Len(ts) # 0 /\ \A i \in 1..Len(ts) : ts[i].day \in Int
    BY LogIs
  <2>2. \A i \in DOMAIN ts : ts[i].symbol \in R
    BY DEF reconstructionSymbols
  <2>. QED BY <2>1, <2>2
<1>4. DOMAIN u = R /\ \A s \in R : DOMAIN u[s] = Recent(s) /\ \A e \in Recent(s) : u[s][e] = bars[s][e]
  BY UsedIs
<1>. HIDE DEF R, u, c, r
<1>5. dates \in Seq(Int) /\ Ascends(dates) /\ Range(dates) = {d \in Sessions(ts) : d >= ts[1].day}
  BY <1>1, <1>3, DatesAre
<1>6. CASE c = <<>>
  <2>1. r = NoCurve
    BY <1>2, <1>6, Zenon DEF Reconstruct
  <2>2. r.missing = FALSE /\ r.dates = <<>> /\ DOMAIN r.dates = {}
    BY <2>1 DEF NoCurve
  <2>3. Range(c) = {} /\ Range(r.dates) = {}
    BY <1>6, <2>2 DEF Range
  <2>4. r.dates \in Seq(Int) /\ Ascends(r.dates)
    BY <2>2 DEF Ascends
  <2>5. Range(r.dates) = {d \in Sessions(ts) : d >= ts[1].day}
    BY <1>1, <2>3
  <2>. QED BY <2>2, <2>4, <2>5 DEF CurveShows, r
<1>7. CASE c # <<>>
  <2>1. r = Drawn(states, u, dates)
    BY <1>1, <1>2, <1>7, ReconstructIs
  <2>2. n \in Nat /\ DOMAIN dates = 1..n /\ \A i \in 1..n : dates[i] \in Int /\ dates[i] \in Sessions(ts)
    <3>. HIDE DEF dates
    <3>1. n \in Nat /\ DOMAIN dates = 1..n /\ \A i \in 1..n : dates[i] \in Int
      BY <1>5
    <3>2. \A i \in 1..n : dates[i] \in Range(dates)
      BY <3>1 DEF Range
    <3>. QED BY <1>5, <3>1, <3>2
  <2>. HIDE DEF dates
  <2>3. \A i \in 1..n : m(i) \in 0..Len(ts)
    BY <2>2, TradesByIs
  <2>4. \A i \in 1..n : f[m(i)] \in Books(Symbols) /\ DOMAIN f[m(i)].holdings \subseteq R
    <3>1. \A k \in 0..Len(ts) : f[k] \in Books(Symbols)
      BY DEF Replays
    <3>2. ASSUME NEW k \in 0..Len(ts), NEW s \in DOMAIN f[k].holdings
          PROVE  s \in R
      <4>1. ~ \A i \in DOMAIN ts : ts[i].symbol # s
        BY UntradedIsFlat
      <4>. QED BY <1>3, <4>1
    <3>. HIDE DEF m
    <3>. QED BY <2>3, <3>1, <3>2
  <2>. HIDE DEF m
  <2>5. \A i \in 1..n : states[i] = f[m(i)]
    OBVIOUS
  <2>. HIDE DEF states
  <2>6. ~ \E i \in 1..n : \E s \in DOMAIN states[i].holdings :
              s \notin DOMAIN u \/ dates[i] \notin DOMAIN u[s]
    <3>1. ASSUME NEW i \in 1..n, NEW s \in DOMAIN states[i].holdings
          PROVE  s \in DOMAIN u /\ dates[i] \in DOMAIN u[s]
      <4>1. s \in R
        BY <2>4, <2>5
      <4>2. dates[i] \in Recent(s)
        BY <2>2, <4>1 DEF Sessions, R
      <4>. QED BY <1>4, <4>1, <4>2
    <3>. QED BY <3>1
  <2>7. r = [dates |-> dates,
             cash |-> [i \in 1..n |-> states[i].cash],
             equity |-> [i \in 1..n |-> states[i].cash + ValueOf(states[i].holdings, u, dates[i])],
             holdings |-> IF n = 0 THEN <<>> ELSE states[n].holdings,
             missing |-> FALSE]
    BY <2>1, <2>6, Zenon DEF Drawn
  <2>8. \A i \in 1..n : ValueOf(f[m(i)].holdings, u, dates[i]) = ValueOf(f[m(i)].holdings, bars, dates[i])
    <3>1. ASSUME NEW i \in 1..n
          PROVE  ValueOf(f[m(i)].holdings, u, dates[i]) = ValueOf(f[m(i)].holdings, bars, dates[i])
      <4> DEFINE h == f[m(i)].holdings
                 d == dates[i]
      <4>1. \A s \in DOMAIN h : h[s] * u[s][d] = h[s] * bars[s][d]
        <5>1. \A s \in R : d \in Recent(s)
          BY <2>2 DEF Sessions, R
        <5>2. \A s \in DOMAIN h : u[s][d] = bars[s][d]
          BY <1>4, <2>4, <5>1
        <5>. HIDE DEF h, d
        <5>. QED BY <5>2
      <4>. HIDE DEF h, d
      <4>2. [s \in DOMAIN h |-> h[s] * u[s][d]] = [s \in DOMAIN h |-> h[s] * bars[s][d]]
        BY <4>1
      <4>3. ValueOf(h, u, d) = ValueOf(h, bars, d)
        BY <4>2, Zenon DEF ValueOf
      <4>. QED BY <4>3 DEF h, d
    <3>. QED BY <3>1
  <2>9. /\ r.dates = dates /\ r.missing = FALSE
        /\ r.cash = [i \in 1..n |-> states[i].cash]
        /\ r.equity = [i \in 1..n |-> states[i].cash + ValueOf(states[i].holdings, u, dates[i])]
        /\ r.holdings = IF n = 0 THEN <<>> ELSE states[n].holdings
    BY <2>7
  <2>10. \A i \in 1..n : /\ r.cash[i] = f[m(i)].cash
                         /\ r.equity[i] = f[m(i)].cash + ValueOf(f[m(i)].holdings, bars, dates[i])
    BY <2>5, <2>8, <2>9
  <2>11. Len(r.cash) = n /\ Len(r.equity) = n
    <3> DEFINE v == [i \in 1..n |-> states[i].cash]
               w == [i \in 1..n |-> states[i].cash + ValueOf(states[i].holdings, u, dates[i])]
    <3>1. DOMAIN v = 1..n /\ DOMAIN w = 1..n /\ v = [i \in 1..n |-> v[i]] /\ w = [i \in 1..n |-> w[i]]
      OBVIOUS
    <3>2. r.cash = v /\ r.equity = w
      BY <2>9
    <3>. HIDE DEF v, w
    <3>3. Len(v) = n /\ Len(w) = n
      BY <2>2, <3>1
    <3>. QED BY <3>2, <3>3
  <2>12. ASSUME dates # <<>>
         PROVE  /\ Final(dates) = dates[n] /\ n \in 1..n
                /\ Final(r.cash) = f[m(n)].cash /\ r.holdings = f[m(n)].holdings
                /\ Final(r.equity) = f[m(n)].cash + ValueOf(f[m(n)].holdings, bars, dates[n])
    <3>1. n # 0 /\ n \in 1..n
      BY <1>5, <2>2, <2>12
    <3>2. Final(dates) = dates[n] /\ Final(r.cash) = r.cash[n] /\ Final(r.equity) = r.equity[n]
      BY <2>11, Zenon DEF Final, n
    <3>3. r.holdings = states[n].holdings
      BY <2>9, <3>1
    <3>. QED BY <2>5, <2>10, <3>1, <3>2, <3>3
  <2>13. /\ r.missing = FALSE /\ r.dates \in Seq(Int) /\ Ascends(r.dates)
         /\ Range(r.dates) = {d \in Sessions(ts) : d >= ts[1].day}
    BY <1>5, <2>9
  <2>14. \A i \in DOMAIN r.dates :
           LET b == f[TradesBy(ts, r.dates[i])]
           IN /\ TradesBy(ts, r.dates[i]) \in 0..Len(ts)
              /\ DOMAIN b.holdings \subseteq reconstructionSymbols(ts)
              /\ r.cash[i] = b.cash
              /\ r.equity[i] = b.cash + ValueOf(b.holdings, bars, r.dates[i])
    BY <2>2, <2>3, <2>4, <2>9, <2>10 DEF m, R
  <2>15. r.dates # <<>> =>
           LET b == f[TradesBy(ts, Final(r.dates))]
           IN /\ Final(r.cash) = b.cash /\ r.holdings = b.holdings
              /\ Final(r.equity) = b.cash + ValueOf(b.holdings, bars, Final(r.dates))
    BY <2>9, <2>12 DEF m
  <2>. QED BY <2>13, <2>14, <2>15 DEF CurveShows, r
<1>. QED BY <1>6, <1>7


-----------------------------------------------------------------------------
(* The account *)

\* One more trade at the end of a log is applied to the books of the log.
LEMMA ApplyAllAppend ==
  ASSUME NEW ts \in Seq(Executions(Symbols)), NEW t \in Executions(Symbols)
  PROVE  /\ ApplyAll(ts, Opened) \in Books(Symbols)
         /\ ApplyAll(Append(ts, t), Opened) = applyTrade(t, ApplyAll(ts, Opened))
<1> DEFINE us == Append(ts, t)
           n == Len(ts)
<1>1. us \in Seq(Executions(Symbols)) /\ n \in Nat /\ Len(us) = n + 1 /\ us[n + 1] = t
  OBVIOUS
<1>2. SubSeq(us, 0 + 1, n) = ts
  OBVIOUS
<1>. HIDE DEF us
<1>3. PICK f \in [0..Len(us) -> Books(Symbols)] : Replays(f, us)
  BY <1>1, ReplayIs
<1>4. n \in 0..Len(us) /\ n + 1 \in 1..Len(us) /\ 0 \in 0..Len(us) /\ (n + 1) - 1 = n
  BY <1>1
<1>5. f[0] = Opened /\ f[n + 1] = applyTrade(t, f[n])
  <2>1. f[n + 1] = applyTrade(us[n + 1], f[(n + 1) - 1])
    BY <1>3, <1>4 DEF Replays, Along
  <2>. QED BY <1>1, <1>3, <1>4, <2>1 DEF Replays, Along
<1>6. ApplyAll(SubSeq(us, 0 + 1, n), f[0]) = f[n]
  BY <1>3, <1>4 DEF Replays
<1>7. ApplyAll(ts, Opened) = f[n]
  BY <1>2, <1>5, <1>6
<1>8. ApplyAll(us, Opened) = f[n + 1]
  BY <1>1, <1>3 DEF Replays
<1>. QED BY <1>4, <1>5, <1>7, <1>8 DEF us

\* A new account has its opening balance and nothing else.
LEMMA ReportInitInv == ReportInit => ReportInv
<1>. SUFFICES ASSUME ReportInit
              PROVE  ReportInv
  OBVIOUS
<1>1. OpeningCash \in Int
  BY ReconstructionAssumption
<1>2. log = <<>> /\ log \in Seq(Executions(Symbols)) /\ DOMAIN log = {} /\ Len(log) = 0
  BY DEF ReportInit
<1>3. DaysAscend(log)
  BY <1>2 DEF DaysAscend
<1>4. ReportTypeOK
  <2>1. DOMAIN bars = Symbols /\ \A s \in Symbols : DOMAIN bars[s] = {}
    BY DEF ReportInit
  <2>2. held \in [Symbols -> [qty : Nat, cost : Int]]
    BY DEF ReportInit
  <2>. QED BY <1>1, <1>2, <1>3, <2>1, <2>2 DEF ReportInit, ReportTypeOK
<1>5. ApplyAll(log, Opened) = Opened
  <2>1. PICK f \in [0..Len(log) -> Books(Symbols)] : Replays(f, log)
    BY <1>2, ReplayIs
  <2>. QED BY <1>2, <2>1 DEF Replays, Along
<1>6. \A s \in Symbols : held[s].qty = 0
  BY DEF ReportInit
<1>7. AccountIsReplay
  <2>1. Opened.cash = OpeningCash /\ \A s : Quantity(Opened.holdings, s) = 0
    BY OpenedIs
  <2>. QED BY <1>5, <1>6, <2>1 DEF AccountIsReplay, ReportInit
<1>. QED BY <1>4, <1>7 DEF ReportInv

\* A fill moves the account as the trade it logs moves the books.
LEMMA FillInv ==
  ASSUME ReportInv, NEW s \in Symbols, NEW side \in {"buy", "sell"}, NEW u \in Lots,
         NEW p \in Quotes[s], Fill(s, side, u, p)
  PROVE  ReportInv'
<1> DEFINE t == [id |-> Len(log) + 1, day |-> today, symbol |-> s, side |-> side,
                 quantity |-> u, price |-> p,
                 loss |-> side = "sell" /\ p * held[s].qty < held[s].cost]
           d == IF side = "sell" THEN -u ELSE u
           n == Len(log)
           q == held[s].qty
<1>1. /\ u \in Nat /\ u # 0 /\ p \in Nat
      /\ today \in Nat \ {0} /\ log \in Seq(Executions(Symbols)) /\ DaysAscend(log)
      /\ n \in Nat /\ DOMAIN log = 1..n
      /\ \A i \in DOMAIN log : log[i].id = i /\ log[i].day <= today
      /\ \A i \in DOMAIN log : log[i].day \in Int
      /\ cash \in Int /\ held \in [Symbols -> [qty : Nat, cost : Int]] /\ q \in Nat
  BY AnalyticsAssumption, LogIs DEF ReportInv, ReportTypeOK
<1>2. /\ log' = Append(log, t) /\ today' = today /\ bars' = bars
      /\ cash' = cash - d * p
      /\ held' = [held EXCEPT ![s] = [qty |-> held'[s].qty, cost |-> held'[s].cost]]
      /\ held'[s].qty = q + d /\ q + d \in Nat /\ held'[s].cost \in Int
      /\ t.symbol = s /\ t.price = p /\ t.day = today /\ t.id = n + 1
  <2>1. log' = Append(log, t) /\ today' = today /\ bars' = bars
    BY DEF Fill
  <2>2. t.symbol = s /\ t.price = p /\ t.day = today /\ t.id = n + 1
    OBVIOUS
  <2>. HIDE DEF t
  <2>3. u * p \in Int /\ -u \in Int /\ (-u) * p = -(u * p)
    BY <1>1
  <2>4. q \in Nat /\ held[s].cost \in Int
    BY <1>1
  <2>5. CASE side = "buy"
    <3>1. cash' = cash - u * p /\ held' = [held EXCEPT ![s] = [qty |-> @.qty + u, cost |-> @.cost + u * p]]
      BY <2>5 DEF Fill
    <3>2. held'[s].qty = q + u /\ held'[s].cost = held[s].cost + u * p
      BY <1>1, <3>1
    <3>3. d = u
      BY <2>5
    <3>4. held'[s].cost \in Int /\ q + u \in Nat
      BY <1>1, <2>3, <2>4, <3>2, SMTT(30)
    <3>5. held' = [held EXCEPT ![s] = [qty |-> held'[s].qty, cost |-> held'[s].cost]]
      BY <3>1, <3>2
    <3>. QED BY <2>1, <2>2, <3>1, <3>2, <3>3, <3>4, <3>5
  <2>6. CASE side = "sell"
    <3>1. /\ q >= u /\ cash' = cash + u * p
          /\ held' = [held EXCEPT ![s] = [qty |-> @.qty - u, cost |-> @.cost - (@.cost * u) \div @.qty]]
      BY <2>6 DEF Fill
    <3>2. held'[s].qty = q - u /\ held'[s].cost = held[s].cost - (held[s].cost * u) \div q
      BY <1>1, <3>1
    <3>3. d = -u
      BY <2>6
    <3>4. held'[s].cost \in Int
      <4>1. held[s].cost * u \in Int
        BY <1>1, <2>4
      <4>2. q \in Nat \ {0}
        <5>. HIDE DEF q
        <5>. QED BY <1>1, <3>1
      <4>3. \A a \in Int : \A b \in Nat \ {0} : a \div b \in Int
        OBVIOUS
      <4>4. (held[s].cost * u) \div q \in Int
        BY <4>1, <4>2, <4>3
      <4>. QED BY <2>4, <3>2, <4>4
    <3>5. held' = [held EXCEPT ![s] = [qty |-> held'[s].qty, cost |-> held'[s].cost]]
      BY <3>1, <3>2
    <3>6. cash' = cash - d * p
      BY <1>1, <2>3, <3>1, <3>3, SMTT(30)
    <3>7. q - u = q + d /\ q + d \in Nat
      BY <1>1, <3>1, <3>3
    <3>. QED BY <2>1, <2>2, <3>2, <3>4, <3>5, <3>6, <3>7
  <2>. QED BY <2>5, <2>6
<1>3. t \in Executions(Symbols) /\ Delta(t) = d
  <2>1. n + 1 \in Nat /\ t.loss \in BOOLEAN
    BY <1>1
  <2>2. t \in Executions(Symbols)
    BY <1>1, <2>1 DEF Executions
  <2>3. t.side = side /\ t.quantity = u
    OBVIOUS
  <2>. HIDE DEF t
  <2>. QED BY <2>2, <2>3 DEF Delta
<1>. HIDE DEF t
<1>4. /\ log' \in Seq(Executions(Symbols)) /\ Len(log') = n + 1 /\ DOMAIN log' = 1..(n + 1)
      /\ log'[n + 1] = t /\ \A i \in 1..n : log'[i] = log[i]
  BY <1>1, <1>2, <1>3
<1>5. \A i \in DOMAIN log' : log'[i].id = i /\ log'[i].day <= today'
  BY <1>1, <1>2, <1>4, SMTT(30)
<1>6. DaysAscend(log')
  <2>1. ASSUME NEW i \in 1..(n + 1), NEW j \in 1..(n + 1), i < j
        PROVE  log'[i].day <= log'[j].day
    <3>1. CASE j = n + 1
      BY <1>1, <1>2, <1>4, <2>1, <3>1, SMTT(30)
    <3>2. CASE j # n + 1
      <4>1. i \in DOMAIN log /\ j \in DOMAIN log
        BY <1>1, <2>1, <3>2
      <4>2. log[i].day <= log[j].day
        BY <1>1, <2>1, <4>1 DEF DaysAscend
      <4>. QED BY <1>1, <1>4, <4>1, <4>2
    <3>. QED BY <3>1, <3>2
  <2>. QED BY <1>4, <2>1 DEF DaysAscend
<1>7. d \in Int /\ d * p \in Int
  BY <1>1
<1>8. ReportTypeOK'
  <2>1. cash' \in Int
    BY <1>1, <1>2, <1>7
  <2>2. held' \in [Symbols -> [qty : Nat, cost : Int]]
    <3> DEFINE h == held'[s]
    <3>1. h.qty \in Nat /\ h.cost \in Int
      BY <1>2
    <3>2. held' = [held EXCEPT ![s] = [qty |-> h.qty, cost |-> h.cost]]
      BY <1>2
    <3>. HIDE DEF h
    <3>. QED BY <1>1, <3>1, <3>2
  <2>3. /\ DOMAIN bars = Symbols
        /\ \A x \in Symbols : DOMAIN bars[x] \subseteq 1..MaxDay /\ \A e \in DOMAIN bars[x] : bars[x][e] \in Nat
    BY DEF ReportInv, ReportTypeOK
  <2>. QED BY <1>1, <1>2, <1>4, <1>5, <1>6, <2>1, <2>2, <2>3 DEF ReportTypeOK
<1>9. AccountIsReplay'
  <2> DEFINE b == ApplyAll(log, Opened)
             c == applyTrade(t, b)
  <2>1. b \in Books(Symbols) /\ ApplyAll(log', Opened) = c
    BY <1>1, <1>2, <1>3, ApplyAllAppend
  <2>2. /\ cash = b.cash /\ \A x \in Symbols : held[x].qty = Quantity(b.holdings, x)
    BY DEF ReportInv, AccountIsReplay
  <2>. HIDE DEF b
  <2>3. c.cash = b.cash - d * p /\ \A x : Quantity(c.holdings, x) = Quantity(b.holdings, x) + (IF x = s THEN d ELSE 0)
    <3>1. /\ c.cash = b.cash - Delta(t) * t.price
          /\ \A x : Quantity(c.holdings, x) = Quantity(b.holdings, x) + (IF x = t.symbol THEN Delta(t) ELSE 0)
      BY <1>3, <2>1, applyTradeIs
    <3>2. Delta(t) = d /\ t.price = p /\ t.symbol = s
      BY <1>2, <1>3
    <3>. HIDE DEF c, d
    <3>. QED BY <3>1, <3>2
  <2>. HIDE DEF c
  <2>4. ASSUME NEW x \in Symbols
        PROVE  held'[x].qty = Quantity(c.holdings, x)
    <3>1. CASE x = s
      BY <1>2, <2>2, <2>3, <3>1
    <3>2. CASE x # s
      <4>1. held'[x] = held[x]
        BY <1>1, <1>2, <3>2
      <4>2. held[x].qty \in Nat
        BY <1>1
      <4>. QED BY <2>2, <2>3, <3>2, <4>1, <4>2
    <3>. QED BY <3>1, <3>2
  <2>5. cash' = c.cash
    BY <1>2, <2>2, <2>3
  <2>. QED BY <1>4, <2>1, <2>4, <2>5 DEF AccountIsReplay
<1>. QED BY <1>8, <1>9 DEF ReportInv

\* A day ends, and only bars of that day are added.
LEMMA DayEndsInv ==
  ASSUME ReportInv, DayEnds
  PROVE  ReportInv'
<1>1. PICK traded \in SUBSET Symbols : \E close \in [traded -> UNION Range(Closes)] :
        /\ \A s \in traded : close[s] \in Closes[s]
        /\ bars' = [s \in Symbols |->
                     IF s \notin traded THEN bars[s]
                     ELSE [d \in DOMAIN bars[s] \cup {today} |->
                             IF d = today THEN close[s] ELSE bars[s][d]]]
  BY DEF DayEnds
<1>2. PICK close \in [traded -> UNION Range(Closes)] :
        /\ \A s \in traded : close[s] \in Closes[s]
        /\ bars' = [s \in Symbols |->
                     IF s \notin traded THEN bars[s]
                     ELSE [d \in DOMAIN bars[s] \cup {today} |->
                             IF d = today THEN close[s] ELSE bars[s][d]]]
  BY <1>1
<1>3. today \in Nat \ {0} /\ MaxDay \in Nat /\ today < MaxDay /\ today' = today + 1 /\ UNCHANGED <<log, cash, held>>
  BY AnalyticsAssumption DEF ReportInv, ReportTypeOK, DayEnds
<1>4. ASSUME NEW s \in Symbols
      PROVE  DOMAIN bars'[s] \subseteq 1..MaxDay /\ \A d \in DOMAIN bars'[s] : bars'[s][d] \in Nat
  <2>1. DOMAIN bars[s] \subseteq 1..MaxDay /\ \A d \in DOMAIN bars[s] : bars[s][d] \in Nat
    BY DEF ReportInv, ReportTypeOK
  <2>2. CASE s \notin traded
    <3>1. bars'[s] = bars[s]
      BY <1>2, <2>2
    <3>. QED BY <2>1, <3>1
  <2>3. CASE s \in traded
    <3> DEFINE D == DOMAIN bars[s] \cup {today}
               b == [d \in D |-> IF d = today THEN close[s] ELSE bars[s][d]]
    <3>1. bars'[s] = b
      BY <1>2, <2>3
    <3>2. close[s] \in Nat
      BY <1>2, <2>3, AnalyticsAssumption
    <3>3. today \in 1..MaxDay
      BY <1>3
    <3>4. D \subseteq 1..MaxDay /\ DOMAIN b = D
      BY <2>1, <3>3
    <3>5. \A d \in D : b[d] \in Nat
      BY <2>1, <3>2
    <3>. HIDE DEF D, b
    <3>. QED BY <3>1, <3>4, <3>5
  <2>. QED BY <2>2, <2>3
<1>5. DOMAIN bars' = Symbols
  BY <1>2
<1>6. ReportTypeOK'
  <2>1. /\ log \in Seq(Executions(Symbols)) /\ DaysAscend(log)
        /\ \A i \in DOMAIN log : log[i].id = i /\ log[i].day <= today
        /\ cash \in Int /\ held \in [Symbols -> [qty : Nat, cost : Int]]
    BY DEF ReportInv, ReportTypeOK
  <2>2. \A i \in DOMAIN log : log[i].day \in Int
    BY <2>1, LogIs
  <2>3. \A i \in DOMAIN log : log[i].day <= today'
    BY <1>3, <2>1, <2>2
  <2>4. log' = log /\ cash' = cash /\ held' = held /\ today' \in Nat \ {0}
    BY <1>3
  <2>. QED BY <1>4, <1>5, <2>1, <2>3, <2>4 DEF ReportTypeOK, DaysAscend
<1>7. AccountIsReplay'
  <2>1. log' = log /\ cash' = cash /\ held' = held
    BY <1>3
  <2>2. AccountIsReplay
    BY DEF ReportInv
  <2>. QED BY <2>1, <2>2, Zenon DEF AccountIsReplay
<1>. QED BY <1>6, <1>7 DEF ReportInv

\* Every log is in the order of its days and numbered, bars are of days in the bounds,
\* and the account is what its log makes of the opening balance.
THEOREM ReportInvariant == ReportSpec => []ReportInv
<1>1. ReportInit => ReportInv
  BY ReportInitInv
<1>2. ReportInv /\ [ReportNext]_reportVars => ReportInv'
  <2>. SUFFICES ASSUME ReportInv, [ReportNext]_reportVars
                PROVE  ReportInv'
    OBVIOUS
  <2>1. CASE \E s \in Symbols, side \in {"buy", "sell"}, q \in Lots :
               \E p \in Quotes[s] : Fill(s, side, q, p)
    BY <2>1, FillInv
  <2>2. CASE DayEnds
    BY <2>2, DayEndsInv
  <2>3. CASE UNCHANGED reportVars
    <3>1. today' = today /\ bars' = bars /\ log' = log /\ cash' = cash /\ held' = held
      BY <2>3 DEF reportVars
    <3>2. ReportTypeOK'
      BY <3>1 DEF ReportInv, ReportTypeOK, DaysAscend
    <3>3. AccountIsReplay'
      BY <3>1, Zenon DEF ReportInv, AccountIsReplay
    <3>. QED BY <3>2, <3>3 DEF ReportInv
  <2>. QED BY <2>1, <2>2, <2>3 DEF ReportNext
<1>. QED BY <1>1, <1>2, PTL DEF ReportSpec


-----------------------------------------------------------------------------
(* The report *)

\* How a report ends, given its curve and the holdings the guard leaves.
Ending(ts, down, r, holdings) ==
  IF ts = <<>> THEN "no_trades"
  ELSE IF Failing(ts, down) # {} THEN FetchError(ts, down)
  ELSE IF r.missing THEN "missing_close"
  ELSE IF ~Reconciles(r, ts, Live) THEN "unverified"
  ELSE IF LacksClose(ts, r, holdings) THEN "missing_close"
  ELSE "ok"

Sections(ts, r, holdings) ==
  [outcome |-> "ok", curve |-> r, risk |-> ComputeRisk(r, holdings),
   benchmarks |-> ComputeBenchmarking(r),
   overtrading |-> overtrading(ts, r), panicSelling |-> panicSelling(ts, r)]

NoReport(outcome) ==
  [outcome |-> outcome, curve |-> NoCurve, risk |-> ComputeRisk(NoCurve, <<>>),
   benchmarks |-> <<>>, overtrading |-> {}, panicSelling |-> {}]

\* A report by its outcome; the guard rolls a copy, and leaves the curve's holdings.
LEMMA ReportIs ==
  ASSUME NEW ts, NEW down
  PROVE  LET r == Curve(ts)
             report == buildInsights(ts, down)
         IN /\ report.outcome = Ending(ts, down, r, r.holdings)
            /\ report.outcome = "ok" => report = Sections(ts, r, r.holdings)
            /\ report.outcome # "ok" => report = NoReport(report.outcome)
<1> DEFINE r == Curve(ts)
           holdings == HoldingsLeft(r, ts)
           out == Ending(ts, down, r, holdings)
           report == buildInsights(ts, down)
<1>1. report = IF out # "ok" THEN NoReport(out) ELSE Sections(ts, r, holdings)
  BY Zenon DEF buildInsights, Ending, NoReport, Sections
<1>2. NoReport(out).outcome = out /\ Sections(ts, r, holdings).outcome = "ok"
  <2>. HIDE DEF out, r, holdings
  <2>. QED BY DEF NoReport, Sections
<1>3. holdings = r.holdings
  <2>1. projectPastCalendar(r, ts).left = r.holdings
    <3>. HIDE DEF r
    <3>. QED BY DEF projectPastCalendar
  <2>. HIDE DEF r
  <2>. QED BY <2>1 DEF HoldingsLeft
<1>. HIDE DEF report, r, holdings, out
<1>4. report.outcome = out
  BY <1>1, <1>2
<1>5. (out = "ok" => report = Sections(ts, r, holdings)) /\ (out # "ok" => report = NoReport(out))
  BY <1>1
<1>6. out = Ending(ts, down, r, r.holdings)
  BY <1>3 DEF out
<1>. QED BY <1>3, <1>4, <1>5, <1>6 DEF report, r

LEMMA FullReportIs ==
  ASSUME NEW ts, NEW down, buildInsights(ts, down).outcome = "ok"
  PROVE  LET r == Curve(ts)
             report == buildInsights(ts, down)
         IN /\ ts # <<>> /\ report.curve = r /\ report.risk = ComputeRisk(r, r.holdings)
            /\ report.overtrading = overtrading(ts, r) /\ report.panicSelling = panicSelling(ts, r)
<1> DEFINE r == Curve(ts)
           report == buildInsights(ts, down)
<1>1. report = Sections(ts, r, r.holdings) /\ Ending(ts, down, r, r.holdings) = "ok"
  BY ReportIs
<1>. HIDE DEF r, report
<1>2. ts # <<>>
  BY <1>1 DEF Ending
<1>3. /\ report.curve = r /\ report.risk = ComputeRisk(r, r.holdings)
      /\ report.overtrading = overtrading(ts, r) /\ report.panicSelling = panicSelling(ts, r)
  BY <1>1 DEF Sections
<1>. QED BY <1>2, <1>3 DEF r, report

LEMMA ConcernedIs ==
  ASSUME ReportTypeOK
  PROVE  Concerned = reconstructionSymbols(log) /\ Concerned \subseteq Symbols
<1>1. Concerned = reconstructionSymbols(log)
  BY DEF Concerned, Trades, reconstructionSymbols
<1>2. \A i \in DOMAIN log : log[i] \in Executions(Symbols)
  BY LogIs DEF ReportTypeOK
<1>3. \A i \in DOMAIN log : log[i].symbol \in Symbols
  BY <1>2 DEF Executions
<1>. QED BY <1>1, <1>3, AnalyticsAssumption DEF reconstructionSymbols

\* The trades after the last date of the curve lead from its books to the account's.
LEMMA ProjectionEnds ==
  ASSUME ReportTypeOK, NEW ts \in Seq(Executions(Symbols)), ts # <<>>, DaysAscend(ts),
         NEW f, Replays(f, ts), Curve(ts).dates # <<>>
  PROVE  projectPastCalendar(Curve(ts), ts).derived = ApplyAll(ts, Opened)
<1> DEFINE r == Curve(ts)
           d == Final(r.dates)
           m == TradesBy(ts, d)
           L == Len(ts)
           P == {i \in DOMAIN ts : ts[i].day > d}
<1>1. L \in Nat /\ DOMAIN ts = 1..L /\ \A i \in 1..L : ts[i].day \in Int
  BY LogIs
<1>2. CurveShows(r, ts, f)
  BY CurveIs
<1>. HIDE DEF r
<1>3. /\ d \in Int /\ Final(r.cash) = f[m].cash /\ r.holdings = f[m].holdings
  <2>1. r.dates \in Seq(Int) /\ r.dates # <<>>
    BY <1>2 DEF CurveShows, r
  <2>2. d \in Int
    BY <2>1 DEF Final
  <2>. QED BY <1>2, <2>1, <2>2 DEF CurveShows
<1>. HIDE DEF d
<1>4. m \in 0..L /\ \A i \in DOMAIN ts : ts[i].day <= d <=> i <= m
  BY <1>1, <1>3, TradesByIs
<1>. HIDE DEF m
<1>5. P = (m + 1)..L
  <2>1. \A i \in 1..L : ts[i].day > d <=> ~(ts[i].day <= d)
    BY <1>1, <1>3
  <2>2. \A i \in 1..L : ts[i].day > d <=> ~(i <= m)
    BY <1>1, <1>4, <2>1
  <2>3. \A i : i \in (m + 1)..L <=> i \in 1..L /\ ~(i <= m)
    BY <1>1, <1>4
  <2>. QED BY <1>1, <2>2, <2>3
<1>6. Keep(ts, P) = SubSeq(ts, m + 1, L)
  BY <1>1, <1>4, <1>5, KeepEnd
<1>7. [cash |-> Final(r.cash), holdings |-> r.holdings] = f[m]
  <2>1. f[m] \in Books(Symbols)
    BY <1>4 DEF Replays
  <2>2. f[m] = [cash |-> f[m].cash, holdings |-> f[m].holdings]
    BY <2>1, BooksAre
  <2>. QED BY <1>3, <2>2
<1>8. projectPastCalendar(r, ts).derived = ApplyAll(Keep(ts, P), [cash |-> Final(r.cash), holdings |-> r.holdings])
  <2>1. projectPastCalendar(r, ts).derived = RolledForward(r, ts)
    <3>. HIDE DEF r
    <3>. QED BY DEF projectPastCalendar
  <2>. QED BY <2>1 DEF RolledForward, d
<1>. HIDE DEF P
<1>9. ApplyAll(SubSeq(ts, m + 1, L), f[m]) = f[L] /\ ApplyAll(ts, Opened) = f[L]
  <2>1. L \in m..L
    BY <1>1, <1>4
  <2>. QED BY <1>4, <2>1 DEF Replays
<1>. QED BY <1>6, <1>7, <1>8, <1>9 DEF r

\* What the curve derives, rolled forward, is the account, and the guard sees that
\* unless a position is within its tolerance.
LEMMA AccountReconciles ==
  ASSUME ReportInv, log # <<>>, \A s \in Symbols : held[s].qty \notin 1..ToleratedQuantity
  PROVE  Reconciles(Curve(log), log, Live)
<1> DEFINE r == Curve(log)
           b == ApplyAll(log, Opened)
           h == Live.holdings
           positions == {s \in DOMAIN h : h[s] > ToleratedQuantity}
           L == Len(log)
<1>1. log \in Seq(Executions(Symbols)) /\ L \in Nat
  BY LogIs DEF ReportInv, ReportTypeOK
<1>2. PICK f \in [0..L -> Books(Symbols)] : Replays(f, log)
  BY <1>1, ReplayIs
<1>3. b \in Books(Symbols)
  <2>1. L \in 0..L
    BY <1>1
  <2>. QED BY <1>2, <2>1 DEF Replays
<1>4. /\ cash = b.cash /\ \A s \in Symbols : held[s].qty = Quantity(b.holdings, s)
      /\ held \in [Symbols -> [qty : Nat, cost : Int]]
  BY DEF ReportInv, ReportTypeOK, AccountIsReplay
<1>5. CASE r.dates = <<>>
  BY <1>5 DEF Reconciles
<1>6. CASE r.dates # <<>>
  <2>1. projectPastCalendar(r, log).derived = b
    <3>1. ReportTypeOK /\ DaysAscend(log)
      BY DEF ReportInv, ReportTypeOK
    <3>. QED BY <1>1, <1>2, <1>6, <3>1, ProjectionEnds
  <2>2. Live.cash = cash /\ h = [s \in {x \in Symbols : held[x].qty > 0} |-> held[s].qty]
    BY DEF Live
  <2>. HIDE DEF b, h
  <2>3. ToleratedQuantity \in Nat
    BY ReconstructionAssumption
  <2>4. ASSUME NEW s \in Symbols, held[s].qty > 0
        PROVE  held[s].qty > ToleratedQuantity
    <3>1. held[s].qty \in Nat /\ held[s].qty \notin 1..ToleratedQuantity
      BY <1>4
    <3>. QED BY <2>3, <2>4, <3>1
  <2>5. \A s \in Symbols : held[s].qty \in Nat
    BY <1>4
  <2>6. DOMAIN h = {x \in Symbols : held[x].qty > 0} /\ \A s \in DOMAIN h : h[s] = held[s].qty
    BY <2>2
  <2>7. positions = DOMAIN h
    BY <2>4, <2>6
  <2>8. DOMAIN b.holdings = DOMAIN h
    <3>1. DOMAIN b.holdings \in SUBSET Symbols
      BY <1>3, BooksAre
    <3>2. \A s \in Symbols : s \in DOMAIN b.holdings <=> Quantity(b.holdings, s) # 0
      BY <1>3, QuantityIs
    <3>3. \A s \in Symbols : s \in DOMAIN b.holdings <=> held[s].qty # 0
      BY <1>4, <3>2
    <3>4. \A s \in Symbols : held[s].qty # 0 <=> held[s].qty > 0
      BY <2>5
    <3>. QED BY <2>6, <3>1, <3>3, <3>4
  <2>9. \A s \in positions : b.holdings[s] = h[s] /\ h[s] \in Nat
    <3>1. \A s \in DOMAIN b.holdings : b.holdings[s] = Quantity(b.holdings, s)
      BY <1>3, QuantityIs
    <3>. HIDE DEF positions
    <3>. QED BY <1>4, <2>5, <2>6, <2>7, <2>8, <3>1
  <2>10. \A s \in positions : LET gap == b.holdings[s] - h[s]
                              IN gap <= ToleratedQuantity /\ -gap <= ToleratedQuantity
    <3>. HIDE DEF positions
    <3>1. \A s \in positions : b.holdings[s] - h[s] = 0
      BY <2>9
    <3>. QED BY <2>3, <3>1
  <2>11. DOMAIN b.holdings = positions
    BY <2>7, <2>8
  <2>. QED BY <1>4, <2>1, <2>2, <2>10, <2>11, Zenon DEF Reconciles, h
<1>. QED BY <1>5, <1>6

\* The error of a fetch is that of a symbol the report is about.
LEMMA FetchErrorIs ==
  ASSUME ReportTypeOK, NEW down, Failing(log, down) # {}
  PROVE  \/ FetchError(log, down) = "upstream_unavailable" /\ Concerned \cap down # {}
         \/ /\ FetchError(log, down) = "symbol_unavailable"
            /\ \E s \in Concerned : DOMAIN bars[s] = {}
<1> DEFINE F == Failing(log, down)
           ranks == {NameOrder[s] : s \in F}
           c == Ascending(ranks)
           Least(s) == \A x \in F : NameOrder[s] <= NameOrder[x]
           first == CHOOSE s \in F : Least(s)
<1>1. /\ F \subseteq Concerned /\ F \subseteq Symbols
      /\ \A s \in F : s \in down \/ DOMAIN bars[s] = {}
  BY ConcernedIs DEF Failing
<1>2. IsFiniteSet(F) /\ NameOrder \in [Symbols -> Nat]
  BY <1>1, FS_Subset, AnalyticsAssumption
<1>. HIDE DEF F
<1>3. IsFiniteSet(ranks) /\ ranks \in SUBSET Int
  <2>1. IsFiniteSet(ranks)
    BY <1>2, FiniteImage
  <2>2. \A s \in F : NameOrder[s] \in Nat
    BY <1>1, <1>2
  <2>. QED BY <2>1, <2>2
<1>. HIDE DEF ranks
<1>4. /\ Cardinality(ranks) \in Nat /\ c \in [1..Cardinality(ranks) -> ranks]
      /\ \A x \in ranks : Below(ranks, x) + 1 \in 1..Cardinality(ranks) /\ c[Below(ranks, x) + 1] = x
      /\ \A j, k \in 1..Cardinality(ranks) : j < k <=> c[j] < c[k]
  BY <1>3, AscendingIs
<1>5. F # {}
  BY DEF F
<1>6. \E s \in F : Least(s)
  <2> DEFINE n == Cardinality(ranks)
  <2>1. PICK s \in F : TRUE
    BY <1>5
  <2>2. NameOrder[s] \in ranks
    BY DEF ranks
  <2>3. n \in Nat /\ 1 \in 1..n
    BY <1>4, <2>2
  <2>. HIDE DEF n, c
  <2>4. c[1] \in ranks /\ c[1] \in Int
    BY <1>3, <1>4, <2>3 DEF n
  <2>5. ASSUME NEW x \in ranks
        PROVE  c[1] <= x
    <3>1. PICK k \in 1..n : c[k] = x
      BY <1>4 DEF n
    <3>2. 1 = k \/ 1 < k
      BY <2>3
    <3>3. 1 < k => c[1] < c[k]
      BY <1>4, <2>3 DEF n
    <3>. QED BY <1>3, <2>4, <3>1, <3>2, <3>3
  <2>6. PICK t \in F : c[1] = NameOrder[t]
    BY <2>4 DEF ranks
  <2>7. \A x \in F : NameOrder[x] \in ranks
    BY DEF ranks
  <2>8. \A x \in F : NameOrder[t] <= NameOrder[x]
    BY <2>5, <2>6, <2>7
  <2>. QED BY <2>8
<1>7. first \in F
  <2>. HIDE DEF Least
  <2>. QED BY <1>6
<1>8. FetchError(log, down) = IF first \in down THEN "upstream_unavailable" ELSE "symbol_unavailable"
  BY Zenon DEF FetchError, F
<1>. HIDE DEF first
<1>. QED BY <1>1, <1>7, <1>8

\* The dates before a day come first in a curve.
LEMMA SearchIs ==
  ASSUME NEW dates \in Seq(Int), Ascends(dates), NEW day \in Int
  PROVE  /\ Search(day, dates) \in 0..Len(dates)
         /\ \A i \in DOMAIN dates : dates[i] < day <=> i <= Search(day, dates)
<1> DEFINE T == {i \in DOMAIN dates : dates[i] < day}
           n == Len(dates)
<1>1. n \in Nat /\ DOMAIN dates = 1..n /\ \A i \in 1..n : dates[i] \in Int
  OBVIOUS
<1>2. T \in SUBSET (1..n)
  BY <1>1
<1>3. ASSUME NEW i \in T, NEW j \in 1..i
      PROVE  j \in T
  <2>1. i \in 1..n /\ j \in 1..n /\ (j < i \/ j = i)
    BY <1>1
  <2>2. j < i => dates[j] < dates[i]
    BY <1>1, <2>1 DEF Ascends
  <2>. QED BY <1>1, <2>1, <2>2
<1>4. \A i \in DOMAIN dates : dates[i] < day <=> i \in T
  OBVIOUS
<1>5. Search(day, dates) = Cardinality(T)
  BY DEF Search
<1>. HIDE DEF T
<1>6. Cardinality(T) \in 0..n /\ T = 1..Cardinality(T)
  BY <1>1, <1>2, <1>3, FirstPlaces
<1>. QED BY <1>1, <1>4, <1>5, <1>6

\* A close past the curve is lacking only where one is zero.
LEMMA LacksCloseIs ==
  ASSUME ReportTypeOK, log # <<>>, DaysAscend(log), NEW f, Replays(f, log),
         LacksClose(log, Curve(log), Curve(log).holdings)
  PROVE  \E s \in Concerned : \E d \in Recent(s) : bars[s][d] = 0
<1> DEFINE r == Curve(log)
           dates == r.dates
           n == Len(dates)
<1>1. /\ log \in Seq(Executions(Symbols)) /\ MinTradingDays \in Nat /\ MinTradingDays > 0
      /\ \A i \in DOMAIN log : log[i].day \in Int
  BY LogIs, AnalyticsAssumption DEF ReportTypeOK
<1>2. CurveShows(r, log, f)
  BY <1>1, CurveIs
<1>. HIDE DEF r
<1>3. dates \in Seq(Int) /\ Ascends(dates) /\ Range(dates) \subseteq Sessions(log)
  BY <1>2 DEF CurveShows
<1>4. Concerned = reconstructionSymbols(log)
  BY ConcernedIs
<1>5. LacksClose(log, r, r.holdings)
  BY DEF r
<1>6. CASE n >= MinTradingDays /\ \E s \in DOMAIN r.holdings : Final(dates) \notin Recent(s)
  <2>0. dates # <<>>
    <3>1. n # 0
      BY <1>1, <1>3, <1>6
    <3>. QED BY <3>1
  <2>1. n \in DOMAIN dates /\ Final(dates) = dates[n]
    <3>. HIDE DEF dates
    <3>. QED BY <1>3, <2>0 DEF Final
  <2>2. Final(dates) \in Sessions(log)
    BY <1>3, <2>1 DEF Range
  <2>3. DOMAIN r.holdings \subseteq Concerned
    BY <1>2, <1>4, <2>0, <2>1 DEF CurveShows
  <2>. QED BY <1>4, <1>6, <2>2, <2>3 DEF Sessions
<1>7. CASE n >= MinTradingDays /\ \E s \in BenchmarkSymbols : bars[s][dates[1]] = 0
  <2>1. 1 \in DOMAIN dates
    BY <1>1, <1>3, <1>7
  <2>2. dates[1] \in Sessions(log)
    BY <1>3, <2>1 DEF Range
  <2>3. PICK s \in BenchmarkSymbols : bars[s][dates[1]] = 0
    BY <1>7
  <2>4. s \in Concerned
    BY DEF Concerned
  <2>5. dates[1] \in Recent(s)
    BY <1>4, <2>2, <2>4 DEF Sessions
  <2>. QED BY <2>3, <2>4, <2>5
<1>8. CASE \E i \in DOMAIN log :
             /\ Judged(log[i], dates) /\ log[i].loss
             /\ bars[log[i].symbol][dates[Search(log[i].day, dates) - 1]] = 0
  <2>1. PICK i \in DOMAIN log :
             /\ Judged(log[i], dates)
             /\ bars[log[i].symbol][dates[Search(log[i].day, dates) - 1]] = 0
    BY <1>8
  <2> DEFINE k == Search(log[i].day, dates)
  <2>2. k \in 0..n /\ k >= 2
    BY <1>1, <1>3, <2>1, SearchIs DEF Judged
  <2>. HIDE DEF k
  <2>3. k - 1 \in DOMAIN dates
    BY <1>3, <2>2
  <2>4. dates[k - 1] \in Sessions(log)
    BY <1>3, <2>3 DEF Range
  <2>5. log[i].symbol \in Concerned
    BY DEF Concerned, Trades
  <2>6. dates[k - 1] \in Recent(log[i].symbol)
    BY <1>4, <2>4, <2>5 DEF Sessions
  <2>7. bars[log[i].symbol][dates[k - 1]] = 0
    BY <2>1 DEF k
  <2>. QED BY <2>5, <2>6, <2>7
<1>. QED BY <1>5, <1>6, <1>7, <1>8 DEF LacksClose

\* Whatever bars are missing and however far trading is ahead of the closes, an account
\* read in one piece is refused its report only for a symbol without bars or out of
\* reach, for a position within the guard's tolerance, or for a close of zero.
THEOREM RefusalsHaveCause == ReportSpec => []RefusalIsExplained
<1>1. ReportInv => RefusalIsExplained
  <2>. SUFFICES ASSUME ReportInv, NEW down \in SUBSET Symbols
                PROVE  Cause(buildInsights(log, down).outcome, down)
    BY Zenon DEF RefusalIsExplained
  <2> DEFINE r == Curve(log)
             o == buildInsights(log, down).outcome
  <2>1. o = Ending(log, down, r, r.holdings)
    BY ReportIs
  <2>2. log \in Seq(Executions(Symbols)) /\ DaysAscend(log) /\ ReportTypeOK
    BY DEF ReportInv, ReportTypeOK
  <2>3. PICK f \in [0..Len(log) -> Books(Symbols)] : Replays(f, log)
    BY <2>2, ReplayIs
  <2>4. log # <<>> => r.missing = FALSE
    BY <2>2, <2>3, CurveIs DEF CurveShows
  <2>5. log # <<>> /\ (\A s \in Symbols : held[s].qty \notin 1..ToleratedQuantity)
          => Reconciles(r, log, Live)
    BY AccountReconciles
  <2>6. log # <<>> /\ LacksClose(log, r, r.holdings)
          => \E s \in Concerned : \E d \in Recent(s) : bars[s][d] = 0
    BY <2>2, <2>3, LacksCloseIs
  <2>. HIDE DEF r, o
  <2>7. CASE log = <<>>
    <3>1. o = "no_trades"
      BY <2>1, <2>7 DEF Ending
    <3>. QED BY <2>7, <3>1 DEF Cause, o
  <2>8. CASE log # <<>> /\ Failing(log, down) # {}
    <3>1. o = FetchError(log, down)
      BY <2>1, <2>8 DEF Ending
    <3>. QED BY <2>2, <2>8, <3>1, FetchErrorIs DEF Cause, o
  <2>9. CASE log # <<>> /\ Failing(log, down) = {}
    <3>1. o = IF ~Reconciles(r, log, Live) THEN "unverified"
              ELSE IF LacksClose(log, r, r.holdings) THEN "missing_close" ELSE "ok"
      BY <2>1, <2>4, <2>9 DEF Ending
    <3>2. Concerned \cap down = {} /\ \A s \in Concerned : DOMAIN bars[s] # {}
      BY <2>2, <2>9, ConcernedIs DEF Failing
    <3>3. CASE ~Reconciles(r, log, Live)
      BY <2>5, <2>9, <3>1, <3>3 DEF Cause, o
    <3>4. CASE Reconciles(r, log, Live) /\ LacksClose(log, r, r.holdings)
      BY <2>6, <2>9, <3>1, <3>4 DEF Cause, o
    <3>5. CASE Reconciles(r, log, Live) /\ ~LacksClose(log, r, r.holdings)
      BY <3>1, <3>2, <3>5 DEF Cause, o
    <3>. QED BY <3>3, <3>4, <3>5
  <2>. QED BY <2>7, <2>8, <2>9
<1>. QED BY <1>1, ReportInvariant, PTL


-----------------------------------------------------------------------------
(* Evidence *)

\* A trade a rule cites is one of those the rule looked at.
LEMMA OvertradingCites ==
  ASSUME ReportTypeOK, NEW r, NEW j \in DOMAIN log, log[j].id \in overtrading(log, r)
  PROVE  r.dates # <<>> /\ log[j].day <= Final(r.dates)
<1> DEFINE asOf == Final(r.dates)
           start == asOf - OvertradingWindowDays
           window == {i \in DOMAIN log : log[i].day > start /\ log[i].day <= asOf}
<1>1. \A i \in DOMAIN log : log[i].id = i
  BY DEF ReportTypeOK
<1>2. overtrading(log, r) \in {{log[i].id : i \in window}, {}}
  BY Zenon DEF overtrading
<1>3. r.dates = <<>> => overtrading(log, r) = {}
  BY Zenon DEF overtrading
<1>4. log[j].id \in {log[i].id : i \in window}
  <2>. HIDE DEF window
  <2>. QED BY <1>2
<1>5. PICK i \in window : log[j].id = log[i].id
  BY <1>4
<1>6. i \in DOMAIN log
  OBVIOUS
<1>7. i = j
  BY <1>1, <1>5, <1>6
<1>8. r.dates # <<>>
  BY <1>3
<1>. QED BY <1>5, <1>7, <1>8

LEMMA PanicSellingCites ==
  ASSUME ReportTypeOK, NEW r, NEW j \in DOMAIN log, log[j].id \in panicSelling(log, r)
  PROVE  r.dates # <<>> /\ Judged(log[j], r.dates) /\ log[j].loss /\ droppedAcross(log[j], r.dates)
<1> DEFINE sells == {i \in DOMAIN log : Judged(log[i], r.dates)}
           panics == {i \in sells : log[i].loss /\ droppedAcross(log[i], r.dates)}
<1>1. \A i \in DOMAIN log : log[i].id = i
  BY DEF ReportTypeOK
<1>2. panicSelling(log, r) \in {{log[i].id : i \in panics}, {}}
  BY Zenon DEF panicSelling
<1>3. r.dates = <<>> => panicSelling(log, r) = {}
  BY Zenon DEF panicSelling
<1>4. log[j].id \in {log[i].id : i \in panics}
  <2>. HIDE DEF panics
  <2>. QED BY <1>2
<1>5. PICK i \in panics : log[j].id = log[i].id
  BY <1>4
<1>6. i \in DOMAIN log /\ Judged(log[i], r.dates) /\ log[i].loss /\ droppedAcross(log[i], r.dates)
  OBVIOUS
<1>7. i = j
  BY <1>1, <1>5, <1>6
<1>8. r.dates # <<>>
  BY <1>3
<1>. QED BY <1>6, <1>7, <1>8

\* A judged sell has two dates of the curve before it, and none between them or after
\* them.
LEMMA JudgedHasPriors ==
  ASSUME NEW t, t.day \in Int, NEW dates \in Seq(Int), Ascends(dates), Judged(t, dates),
         droppedAcross(t, dates)
  PROVE  \E a, b \in Range(dates) :
           /\ a < b /\ b < t.day
           /\ \A d \in Range(dates) : d < t.day => d <= a \/ d = b
           /\ 100 * bars[t.symbol][b] <= (100 - PanicSellDropPct) * bars[t.symbol][a]
<1> DEFINE k == Search(t.day, dates)
           n == Len(dates)
           a == dates[k - 1]
           b == dates[k]
<1>1. n \in Nat /\ DOMAIN dates = 1..n /\ \A i \in 1..n : dates[i] \in Int
  OBVIOUS
<1>2. k \in 0..n /\ \A i \in DOMAIN dates : dates[i] < t.day <=> i <= k
  BY SearchIs
<1>3. k >= 2
  BY DEF Judged
<1>4. 100 * bars[t.symbol][b] <= (100 - PanicSellDropPct) * bars[t.symbol][a]
  BY Zenon DEF droppedAcross
<1>. HIDE DEF k
<1>5. k \in 1..n /\ k - 1 \in 1..n /\ k - 1 < k /\ k <= k
  BY <1>1, <1>2, <1>3
<1>6. a < b /\ b < t.day /\ a \in Int /\ b \in Int
  BY <1>1, <1>2, <1>5 DEF Ascends
<1>7. a \in Range(dates) /\ b \in Range(dates)
  BY <1>1, <1>5 DEF Range
<1>8. ASSUME NEW d \in Range(dates), d < t.day
      PROVE  d <= a \/ d = b
  <2>1. PICK i \in 1..n : d = dates[i]
    BY <1>1 DEF Range
  <2>2. i <= k
    BY <1>1, <1>2, <1>8, <2>1
  <2>3. i = k \/ i = k - 1 \/ i < k - 1
    BY <1>1, <1>5, <2>2
  <2>4. i < k - 1 => dates[i] < dates[k - 1]
    BY <1>1, <1>5, <2>1 DEF Ascends
  <2>. QED BY <1>1, <1>5, <2>1, <2>3, <2>4
<1>. HIDE DEF a, b
<1>. QED BY <1>4, <1>6, <1>7, <1>8

\* The rules cite nothing the curve does not reach, and a panic sell fell across the
\* two sessions that came last before it.
THEOREM EvidenceIsReached == ReportSpec => []EvidenceIsJudgeable
<1>1. ReportInv => EvidenceIsJudgeable
  <2>. SUFFICES ASSUME ReportInv
                PROVE  EvidenceIsJudgeable
    OBVIOUS
  <2> DEFINE report == buildInsights(log, {})
             r == Curve(log)
             dates == Range(report.curve.dates)
             Reached(t) == \E d \in dates : d >= t.day
             Fell(t) == \E a, b \in dates :
                          /\ a < b /\ b < t.day
                          /\ \A d \in dates : d < t.day => d <= a \/ d = b
                          /\ 100 * bars[t.symbol][b] <= (100 - PanicSellDropPct) * bars[t.symbol][a]
  <2>1. log \in Seq(Executions(Symbols)) /\ DaysAscend(log) /\ ReportTypeOK
    BY DEF ReportInv, ReportTypeOK
  <2>2. ASSUME report.outcome # "ok"
        PROVE  report.overtrading = {} /\ report.panicSelling = {}
    <3>1. report = NoReport(report.outcome)
      BY <2>2, ReportIs
    <3>. HIDE DEF report
    <3>. QED BY <3>1 DEF NoReport
  <2>3. ASSUME report.outcome = "ok", NEW j \in DOMAIN log,
               log[j].id \in report.overtrading \cup report.panicSelling
        PROVE  /\ Reached(log[j])
               /\ log[j].id \in report.panicSelling => /\ log[j].side = "sell" /\ log[j].loss
                                                       /\ Fell(log[j])
    <3>1. /\ report.overtrading = overtrading(log, r) /\ report.panicSelling = panicSelling(log, r)
          /\ report.curve = r /\ log # <<>>
      BY <2>3, FullReportIs
    <3>2. PICK f \in [0..Len(log) -> Books(Symbols)] : Replays(f, log)
      BY <2>1, ReplayIs
    <3>3. r.dates \in Seq(Int) /\ Ascends(r.dates)
      BY <2>1, <3>1, <3>2, CurveIs DEF CurveShows
    <3>4. dates = Range(r.dates)
      BY <3>1
    <3>5. log[j].day \in Int
      BY <2>1, LogIs
    <3>. HIDE DEF r, dates, report
    <3>6. log[j].id \in panicSelling(log, r) =>
            /\ r.dates # <<>> /\ Judged(log[j], r.dates) /\ log[j].loss /\ droppedAcross(log[j], r.dates)
      BY <2>1, PanicSellingCites
    <3>7. r.dates # <<>> /\ log[j].day <= Final(r.dates)
      <4>1. CASE log[j].id \in overtrading(log, r)
        BY <2>1, <4>1, OvertradingCites
      <4>2. CASE log[j].id \in panicSelling(log, r)
        BY <3>6, <4>2 DEF Judged
      <4>. QED BY <2>3, <3>1, <4>1, <4>2
    <3>8. Reached(log[j])
      <4> DEFINE d == Final(r.dates)
      <4>1. d \in Int /\ d \in Range(r.dates)
        <5>1. Len(r.dates) \in DOMAIN r.dates
          BY <3>3, <3>7
        <5>. QED BY <3>3, <5>1 DEF Final, Range
      <4>. HIDE DEF d
      <4>2. log[j].day <= d
        BY <3>7 DEF d
      <4>3. d >= log[j].day
        BY <3>5, <4>1, <4>2
      <4>. QED BY <3>4, <4>1, <4>3
    <3>9. ASSUME log[j].id \in panicSelling(log, r)
          PROVE  log[j].side = "sell" /\ log[j].loss /\ Fell(log[j])
      <4>1. log[j].side = "sell" /\ log[j].loss
        BY <3>6, <3>9 DEF Judged
      <4>2. Fell(log[j])
        BY <3>3, <3>4, <3>5, <3>6, <3>9, JudgedHasPriors
      <4>. QED BY <4>1, <4>2
    <3>. QED BY <3>1, <3>8, <3>9
  <2>4. ASSUME NEW t \in Trades
        PROVE  /\ t.id \in report.overtrading \cup report.panicSelling => Reached(t)
               /\ t.id \in report.panicSelling => t.side = "sell" /\ t.loss /\ Fell(t)
    <3>1. PICK j \in DOMAIN log : t = log[j]
      BY DEF Trades
    <3>. HIDE DEF Reached, Fell, report
    <3>. QED BY <2>2, <2>3, <3>1
  <2>. QED BY <2>4, Zenon DEF EvidenceIsJudgeable, Judgeable, Report
<1>. QED BY <1>1, ReportInvariant, PTL


-----------------------------------------------------------------------------
(* Replay *)

\* The sum of values that are nothing after a place is that of the values up to it,
\* whichever function has it.
LEMMA SumOfFirst ==
  ASSUME NEW values \in Seq(Int), NEW k \in 0..Len(values), NEW g,
         \A i \in 1..Len(values) : i > k => values[i] = 0,
         g[0] = 0, \A i \in 1..k : g[i] = g[i - 1] + values[i]
  PROVE  SumSeq(values) = g[k]
<1> DEFINE n == Len(values)
           G == [i \in 0..n |-> IF i <= k THEN g[i] ELSE g[k]]
<1>1. PICK f \in [0..n -> Int] : Sums(f, values) /\ SumSeq(values) = f[n]
  BY SumSeqIs
<1>2. n \in Nat /\ k \in 0..n
  OBVIOUS
<1>3. f[0] = 0 /\ \A i \in 1..n : f[i] = f[i - 1] + values[i]
  BY <1>1 DEF Sums
<1>4. G[0] = 0 /\ G[n] = g[k]
  BY <1>2
<1>5. ASSUME NEW i \in 1..n, f[i - 1] = G[i - 1]
      PROVE  f[i] = G[i]
  <2>0. i \in 0..n /\ i - 1 \in 0..n
    BY <1>2
  <2>1. i \in 0..n /\ i - 1 \in 0..n /\ f[i - 1] \in Int
    <3>. HIDE DEF n
    <3>. QED BY <2>0
  <2>2. CASE i <= k
    <3>1. i \in 1..k /\ i - 1 <= k
      BY <1>2, <2>2
    <3>2. G[i] = g[i] /\ G[i - 1] = g[i - 1]
      BY <2>1, <2>2, <3>1
    <3>. HIDE DEF G
    <3>. QED BY <1>3, <1>5, <3>1, <3>2
  <2>3. CASE i > k
    <3>1. G[i] = g[k]
      BY <1>2, <2>1, <2>3
    <3>2. G[i - 1] = g[k]
      <4>1. CASE i - 1 <= k
        <5>1. i - 1 = k
          BY <1>2, <2>3, <4>1
        <5>. QED BY <2>1, <5>1
      <4>2. CASE ~(i - 1 <= k)
        BY <2>1, <4>2
      <4>. QED BY <4>1, <4>2
    <3>. HIDE DEF G
    <3>3. values[i] = 0 /\ f[i] = f[i - 1] + values[i]
      BY <1>3, <2>3
    <3>. QED BY <1>5, <2>1, <3>1, <3>2, <3>3
  <2>. QED BY <1>2, <2>2, <2>3
<1>. HIDE DEF G
<1>6. Alike(f, G, n)
  BY <1>2, <1>3, <1>4, <1>5, AgreeAlong DEF Stepwise
<1>7. f[n] = G[n]
  BY <1>2, <1>6 DEF Alike
<1>. QED BY <1>1, <1>4, <1>7

\* The books after the trades up to a day have the signed sums of those trades.
LEMMA BooksAreSums ==
  ASSUME ReportTypeOK, NEW f, Replays(f, log), NEW d \in Int
  PROVE  LET b == f[TradesBy(log, d)]
         IN /\ b \in Books(Symbols) /\ b.cash = OpeningCash - Spent(d)
            /\ \A s \in Symbols : Quantity(b.holdings, s) = Traded(s, d)
<1> DEFINE L == Len(log)
           k == TradesBy(log, d)
           b == f[k]
<1>1. /\ log \in Seq(Executions(Symbols)) /\ DaysAscend(log)
      /\ L \in Nat /\ DOMAIN log = 1..L /\ \A i \in 1..L : log[i] \in Executions(Symbols)
  BY LogIs DEF ReportTypeOK
<1>2. k \in 0..L /\ \A i \in 1..L : log[i].day <= d <=> i <= k
  BY <1>1, TradesByIs
<1>. HIDE DEF k, L
<1>3. /\ \A i \in 0..L : f[i] \in Books(Symbols)
      /\ f[0] = Opened /\ \A i \in 1..L : f[i] = applyTrade(log[i], f[i - 1])
  BY DEF Replays, Along, L
<1>4. ASSUME NEW i \in 1..L
      PROVE  /\ Delta(log[i]) \in Int /\ Delta(log[i]) * log[i].price \in Int
             /\ f[i].cash \in Int /\ f[i - 1].cash \in Int
             /\ f[i].cash = f[i - 1].cash - Delta(log[i]) * log[i].price
             /\ \A s : /\ Quantity(f[i].holdings, s)
                            = Quantity(f[i - 1].holdings, s) + (IF s = log[i].symbol THEN Delta(log[i]) ELSE 0)
                       /\ Quantity(f[i - 1].holdings, s) \in Int
  <2> DEFINE t == log[i]
             a == f[i - 1]
  <2>1. i - 1 \in 0..L /\ i \in 0..L
    BY <1>1
  <2>2. t \in Executions(Symbols) /\ a \in Books(Symbols) /\ f[i] \in Books(Symbols) /\ f[i] = applyTrade(t, a)
    BY <1>1, <1>3, <2>1
  <2>. HIDE DEF t, a
  <2>3. /\ Delta(t) \in Int /\ t.price \in Int
        /\ applyTrade(t, a).cash = a.cash - Delta(t) * t.price
        /\ \A s : Quantity(applyTrade(t, a).holdings, s)
                    = Quantity(a.holdings, s) + (IF s = t.symbol THEN Delta(t) ELSE 0)
    BY <2>2, applyTradeIs
  <2>4. Delta(t) * t.price \in Int
    BY <2>3
  <2>5. a.cash \in Int /\ f[i].cash \in Int
    BY <2>2, BooksAre
  <2>6. \A s : Quantity(a.holdings, s) \in Int
    BY <2>2, QuantityIs
  <2>. QED BY <2>2, <2>3, <2>4, <2>5, <2>6 DEF t, a
<1>5. Opened.cash = OpeningCash /\ OpeningCash \in Int /\ \A s : Quantity(Opened.holdings, s) = 0
  BY OpenedIs, ReconstructionAssumption
<1>6. b.cash = OpeningCash - Spent(d)
  <2> DEFINE values == [i \in DOMAIN log |-> IF log[i].day <= d THEN Delta(log[i]) * log[i].price ELSE 0]
             g == [i \in 0..L |-> OpeningCash - f[i].cash]
  <2>1. \A i \in 1..L : values[i] \in Int /\ values[i] = (IF i <= k THEN Delta(log[i]) * log[i].price ELSE 0)
    BY <1>1, <1>2, <1>4
  <2>2. values \in [1..L -> Int]
    BY <1>1, <2>1
  <2>3. Spent(d) = SumSeq(values)
    BY DEF Spent
  <2>. HIDE DEF values
  <2>4. values \in Seq(Int) /\ Len(values) = L
    BY <1>1, <2>2
  <2>5. g[0] = 0 /\ g[k] = OpeningCash - b.cash
    BY <1>1, <1>2, <1>3, <1>5
  <2>6. \A i \in 1..k : g[i] = g[i - 1] + values[i]
    <3>1. ASSUME NEW i \in 1..k
          PROVE  g[i] = g[i - 1] + values[i]
      <4>1. i \in 1..L /\ i \in 0..L /\ i - 1 \in 0..L /\ i <= k
        BY <1>1, <1>2
      <4>2. g[i] = OpeningCash - f[i].cash /\ g[i - 1] = OpeningCash - f[i - 1].cash
        BY <4>1
      <4>3. values[i] = Delta(log[i]) * log[i].price
        BY <2>1, <4>1
      <4> DEFINE v == Delta(log[i]) * log[i].price
                 x == f[i - 1].cash
      <4>4. v \in Int /\ x \in Int /\ f[i].cash = x - v
        BY <1>4, <4>1
      <4>. HIDE DEF g, v, x
      <4>5. g[i] = OpeningCash - (x - v) /\ g[i - 1] = OpeningCash - x /\ values[i] = v
        BY <4>2, <4>3, <4>4 DEF x, v
      <4>. QED BY <1>5, <4>4, <4>5
    <3>. QED BY <3>1
  <2>. HIDE DEF g
  <2>7. SumSeq(values) = g[k]
    <3>1. \A i \in 1..L : i > k => values[i] = 0
      <4>1. \A i \in 1..L : i > k => ~(i <= k)
        BY <1>1, <1>2
      <4>. QED BY <2>1, <4>1
    <3>. QED BY <1>2, <2>4, <2>5, <2>6, <3>1, SumOfFirst
  <2>8. b.cash \in Int
    BY <1>2, <1>3, BooksAre
  <2>. HIDE DEF b
  <2>. QED BY <1>5, <2>3, <2>5, <2>7, <2>8
<1>7. ASSUME NEW s \in Symbols
      PROVE  Quantity(b.holdings, s) = Traded(s, d)
  <2> DEFINE values == [i \in DOMAIN log |->
                          IF log[i].symbol = s /\ log[i].day <= d THEN Delta(log[i]) ELSE 0]
             g == [i \in 0..L |-> Quantity(f[i].holdings, s)]
  <2>1. \A i \in 1..L : values[i] \in Int /\ values[i] = (IF log[i].symbol = s /\ i <= k THEN Delta(log[i]) ELSE 0)
    BY <1>1, <1>2, <1>4
  <2>2. values \in [1..L -> Int]
    BY <1>1, <2>1
  <2>3. Traded(s, d) = SumSeq(values)
    BY DEF Traded
  <2>. HIDE DEF values
  <2>4. values \in Seq(Int) /\ Len(values) = L
    BY <1>1, <2>2
  <2>5. g[0] = 0 /\ g[k] = Quantity(b.holdings, s)
    BY <1>1, <1>2, <1>3, <1>5
  <2>6. \A i \in 1..k : g[i] = g[i - 1] + values[i]
    <3>1. ASSUME NEW i \in 1..k
          PROVE  g[i] = g[i - 1] + values[i]
      <4>1. i \in 1..L /\ i \in 0..L /\ i - 1 \in 0..L /\ i <= k
        BY <1>1, <1>2
      <4>2. g[i] = Quantity(f[i].holdings, s) /\ g[i - 1] = Quantity(f[i - 1].holdings, s)
        BY <4>1
      <4>3. values[i] = (IF s = log[i].symbol THEN Delta(log[i]) ELSE 0)
        BY <2>1, <4>1
      <4>. HIDE DEF g
      <4>. QED BY <1>4, <4>1, <4>2, <4>3
    <3>. QED BY <3>1
  <2>. HIDE DEF g
  <2>7. SumSeq(values) = g[k]
    <3>1. \A i \in 1..L : i > k => values[i] = 0
      <4>1. \A i \in 1..L : i > k => ~(i <= k)
        BY <1>1, <1>2
      <4>. QED BY <2>1, <4>1
    <3>. QED BY <1>2, <2>4, <2>5, <2>6, <3>1, SumOfFirst
  <2>. QED BY <2>3, <2>5, <2>7
<1>. QED BY <1>2, <1>3, <1>6, <1>7 DEF k, L

\* The curve is the one the log and the closes define.
THEOREM CurveReplaysLog == ReportSpec => []CurveIsReplay
<1>1. ReportInv => CurveIsReplay
  <2>. SUFFICES ASSUME ReportInv, Report.outcome = "ok"
                PROVE  IsReplay(Report.curve)
    BY Zenon DEF CurveIsReplay
  <2> DEFINE r == Curve(log)
             L == Len(log)
  <2>1. /\ log \in Seq(Executions(Symbols)) /\ DaysAscend(log) /\ ReportTypeOK
        /\ L \in Nat /\ DOMAIN log = 1..L /\ \A i \in 1..L : log[i].day \in Int
    BY LogIs DEF ReportInv, ReportTypeOK
  <2>2. log # <<>> /\ Report.curve = r
    BY FullReportIs DEF Report
  <2>3. PICK f \in [0..L -> Books(Symbols)] : Replays(f, log)
    BY <2>1, ReplayIs
  <2>4. CurveShows(r, log, f)
    BY <2>1, <2>2, <2>3, CurveIs
  <2>. HIDE DEF r
  <2>5. Range(r.dates) = {d \in 1..MaxDay : /\ \E t \in Trades : t.day <= d
                                           /\ \A s \in Concerned : d \in Recent(s)}
    <3>1. Concerned = reconstructionSymbols(log)
      BY <2>1, ConcernedIs
    <3>2. MaxDay \in Int /\ 1 \in 1..L /\ log[1].day \in Int
      BY <2>1, <2>2, AnalyticsAssumption
    <3>3. ASSUME NEW d \in 1..MaxDay
          PROVE  (\E t \in Trades : t.day <= d) <=> d >= log[1].day
      <4>1. d \in Int
        BY <3>2
      <4>2. log[1] \in Trades
        BY <2>1, <3>2 DEF Trades
      <4>3. ASSUME NEW t \in Trades, t.day <= d
            PROVE  log[1].day <= d
        <5>1. PICK i \in 1..L : t = log[i]
          BY <2>1 DEF Trades
        <5>2. 1 = i \/ log[1].day <= log[i].day
          BY <2>1, <3>2 DEF DaysAscend
        <5>. QED BY <2>1, <3>2, <4>1, <4>3, <5>1, <5>2
      <4>. QED BY <3>2, <4>1, <4>2, <4>3
    <3>4. Range(r.dates) = {d \in Sessions(log) : d >= log[1].day}
      BY <2>4 DEF CurveShows
    <3>. QED BY <3>1, <3>3, <3>4 DEF Sessions
  <2>6. ASSUME NEW i \in DOMAIN r.dates
        PROVE  LET d == r.dates[i]
                   owned == {s \in Symbols : Traded(s, d) # 0}
               IN r.equity[i] = OpeningCash - Spent(d)
                                  + SumFunction([s \in owned |-> Traded(s, d) * bars[s][d]])
    <3> DEFINE d == r.dates[i]
               b == f[TradesBy(log, d)]
               h == b.holdings
               owned == {s \in Symbols : Traded(s, d) # 0}
    <3>1. d \in Int
      <4>1. r.dates \in Seq(Int)
        BY <2>4 DEF CurveShows
      <4>. QED BY <4>1
    <3>2. r.equity[i] = b.cash + ValueOf(h, bars, d)
      BY <2>4, Zenon DEF CurveShows
    <3>. HIDE DEF d
    <3>3. b \in Books(Symbols) /\ b.cash = OpeningCash - Spent(d) /\ \A s \in Symbols : Quantity(h, s) = Traded(s, d)
      BY <2>1, <2>3, <3>1, BooksAreSums
    <3>. HIDE DEF b
    <3>4. DOMAIN h \in SUBSET Symbols
      BY <3>3, BooksAre
    <3>5. \A s \in Symbols : /\ s \in DOMAIN h <=> Traded(s, d) # 0
                             /\ s \in DOMAIN h => h[s] = Traded(s, d)
      BY <3>3, QuantityIs
    <3>. HIDE DEF h
    <3>6. owned = DOMAIN h
      BY <3>4, <3>5
    <3>7. [s \in owned |-> Traded(s, d) * bars[s][d]] = [s \in DOMAIN h |-> h[s] * bars[s][d]]
      <4>1. \A s \in DOMAIN h : Traded(s, d) * bars[s][d] = h[s] * bars[s][d]
        BY <3>4, <3>5
      <4>. HIDE DEF owned
      <4>. QED BY <3>6, <4>1
    <3>8. SumFunction([s \in owned |-> Traded(s, d) * bars[s][d]]) = ValueOf(h, bars, d)
      <4>. HIDE DEF owned
      <4>. QED BY <3>7, Zenon DEF ValueOf
    <3>9. r.equity[i] = OpeningCash - Spent(d) + SumFunction([s \in owned |-> Traded(s, d) * bars[s][d]])
      <4>. HIDE DEF owned
      <4>. QED BY <3>2, <3>3, <3>8
    <3>. QED BY <3>9, Zenon DEF d
  <2>. QED BY <2>2, <2>5, <2>6, Zenon DEF IsReplay
<1>. QED BY <1>1, ReportInvariant, PTL


\* The risk section weighs the books of the trades up to the curve's last date.
THEOREM RiskIsAsOf == ReportSpec => []RiskDescribesAsOf
<1>1. ReportInv => RiskDescribesAsOf
  <2>. SUFFICES ASSUME ReportInv
                PROVE  DescribesAsOf(Report.risk, Report.curve.dates)
    BY Zenon DEF RiskDescribesAsOf
  <2> DEFINE r == Curve(log)
             d == Final(r.dates)
             risk == Report.risk
             owned == {x \in Symbols : Traded(x, d) # 0}
  <2>1. log \in Seq(Executions(Symbols)) /\ DaysAscend(log) /\ ReportTypeOK
    BY DEF ReportInv, ReportTypeOK
  <2>2. MinTradingDays \in Nat /\ MinTradingDays > 0
    BY AnalyticsAssumption
  <2>3. CASE Report.outcome # "ok"
    <3>1. Report = NoReport(Report.outcome)
      BY <2>3, ReportIs DEF Report
    <3>2. risk = ComputeRisk(NoCurve, <<>>)
      <4>1. \A o : NoReport(o).risk = ComputeRisk(NoCurve, <<>>)
        BY DEF NoReport
      <4>. QED BY <3>1, <4>1
    <3>3. Len(NoCurve.dates) = 0
      BY DEF NoCurve
    <3>4. ComputeRisk(NoCurve, <<>>).state = "insufficient_data"
      BY <2>2, <3>3 DEF ComputeRisk
    <3>. QED BY <3>2, <3>4 DEF DescribesAsOf
  <2>4. CASE Report.outcome = "ok"
    <3>1. log # <<>> /\ Report.curve = r /\ risk = ComputeRisk(r, r.holdings)
      BY <2>4, FullReportIs DEF Report
    <3>2. PICK f \in [0..Len(log) -> Books(Symbols)] : Replays(f, log)
      BY <2>1, ReplayIs
    <3>3. CurveShows(r, log, f)
      BY <2>1, <3>1, <3>2, CurveIs
    <3>. HIDE DEF r, risk
    <3>4. CASE Len(r.dates) < MinTradingDays
      <4>1. risk.state = "insufficient_data"
        BY <3>1, <3>4 DEF ComputeRisk
      <4>. QED BY <4>1 DEF DescribesAsOf, risk
    <3>5. CASE ~(Len(r.dates) < MinTradingDays)
      <4> DEFINE b == f[TradesBy(log, d)]
                 h == r.holdings
                 v == [s \in DOMAIN h |-> h[s] * bars[s][d]]
      <4>1. risk = [state |-> "ok", positions |-> v, cash |-> Final(r.cash), equity |-> Final(r.equity)]
        BY <3>1, <3>5, Zenon DEF ComputeRisk
      <4>2. r.dates # <<>> /\ r.dates \in Seq(Int)
        BY <2>2, <3>3, <3>5 DEF CurveShows
      <4>3. Final(r.cash) = b.cash /\ h = b.holdings /\ Final(r.equity) = b.cash + ValueOf(h, bars, d)
        BY <3>3, <4>2, Zenon DEF CurveShows
      <4>4. d \in Int
        BY <4>2 DEF Final
      <4>5. ValueOf(h, bars, d) = SumFunction(v)
        BY Zenon DEF ValueOf
      <4>. HIDE DEF d, b, h, v
      <4>6. b \in Books(Symbols) /\ b.cash = OpeningCash - Spent(d) /\ \A s \in Symbols : Quantity(h, s) = Traded(s, d)
        BY <2>1, <3>2, <4>3, <4>4, BooksAreSums DEF b
      <4>7. DOMAIN h \in SUBSET Symbols
        BY <4>3, <4>6, BooksAre
      <4>8. \A s \in Symbols : /\ s \in DOMAIN h <=> Traded(s, d) # 0
                               /\ s \in DOMAIN h => h[s] = Traded(s, d)
        BY <4>3, <4>6, QuantityIs
      <4>9. owned = DOMAIN h
        BY <4>7, <4>8
      <4>10. v = [s \in owned |-> Traded(s, d) * bars[s][d]]
        <5>1. \A s \in DOMAIN h : Traded(s, d) * bars[s][d] = h[s] * bars[s][d]
          BY <4>7, <4>8
        <5>. HIDE DEF owned
        <5>. QED BY <4>9, <5>1 DEF v
      <4>11. /\ risk.positions = v /\ risk.cash = b.cash /\ risk.equity = b.cash + SumFunction(v)
        BY <4>1, <4>3, <4>5
      <4>12. Report.curve.dates = r.dates
        BY <3>1
      <4>13. /\ risk.positions = [s \in owned |-> Traded(s, d) * bars[s][d]]
             /\ risk.cash = OpeningCash - Spent(d)
             /\ risk.cash + SumFunction(risk.positions) = risk.equity
        BY <4>6, <4>10, <4>11, Zenon
      <4>. QED BY <4>12, <4>13, Zenon DEF DescribesAsOf, risk, d
    <3>. QED BY <3>4, <3>5
  <2>. QED BY <2>3, <2>4
<1>. QED BY <1>1, ReportInvariant, PTL


-----------------------------------------------------------------------------
(* Two trades of a day, exchanged *)

\* Where a place is when a place and the next one are exchanged.
Other(i, k) == IF k = i THEN i + 1 ELSE IF k = i + 1 THEN i ELSE k

\* A sequence with two neighbours exchanged.
Exchanged(us, ts, i) ==
  /\ Len(us) = Len(ts) /\ i \in 1..(Len(ts) - 1)
  /\ \A k \in 1..Len(ts) : us[k] = ts[Other(i, k)]

LEMMA OtherIs ==
  ASSUME NEW n \in Nat, NEW i \in 1..(n - 1), NEW k \in 1..n
  PROVE  Other(i, k) \in 1..n /\ Other(i, Other(i, k)) = k
BY DEF Other

LEMMA ExchangedIs ==
  ASSUME NEW V, NEW ts \in Seq(V), NEW i \in 1..(Len(ts) - 1), NEW us,
         us = [ts EXCEPT ![i] = ts[i + 1], ![i + 1] = ts[i]]
  PROVE  us \in Seq(V) /\ Exchanged(us, ts, i)
<1> DEFINE n == Len(ts)
<1>1. n \in Nat /\ DOMAIN ts = 1..n /\ ts \in [1..n -> V] /\ i \in 1..n /\ i + 1 \in 1..n /\ i # i + 1
  OBVIOUS
<1>2. us \in [1..n -> V]
  BY <1>1
<1>3. us \in Seq(V) /\ Len(us) = n
  BY <1>1, <1>2
<1>4. \A k \in 1..n : us[k] = ts[Other(i, k)]
  BY <1>1 DEF Other
<1>. QED BY <1>3, <1>4 DEF Exchanged

\* Their sum is the same.
LEMMA ExchangedSum ==
  ASSUME NEW v \in Seq(Int), NEW w \in Seq(Int), NEW i, Exchanged(w, v, i)
  PROVE  SumSeq(w) = SumSeq(v)
<1> DEFINE n == Len(v)
<1>1. /\ n \in Nat /\ Len(w) = n /\ i \in 1..(n - 1) /\ i \in 1..n /\ i + 1 \in 1..n /\ i - 1 \in 0..n
      /\ \A k \in 1..n : w[k] = v[Other(i, k)] /\ v[k] \in Int
  BY DEF Exchanged
<1>2. PICK f \in [0..n -> Int] : Sums(f, v) /\ SumSeq(v) = f[n]
  BY SumSeqIs
<1>3. f[0] = 0 /\ \A k \in 1..n : f[k] = f[k - 1] + v[k]
  BY <1>2 DEF Sums
<1> DEFINE a == f[i - 1]
           g == [k \in 0..n |-> IF k = i THEN a + v[i + 1] ELSE f[k]]
<1>4. a \in Int /\ v[i] \in Int /\ v[i + 1] \in Int
  BY <1>1
<1>5. w[i] = v[i + 1] /\ w[i + 1] = v[i] /\ \A k \in 1..n : k # i /\ k # i + 1 => w[k] = v[k]
  BY <1>1 DEF Other
<1>6. f[i] = a + v[i] /\ f[i + 1] = f[i] + v[i + 1]
  BY <1>1, <1>3
<1>. HIDE DEF a, n
<1>7. g[0] = 0 /\ g[n] = f[n]
  BY <1>1, <1>3
<1>8. \A k \in 1..n : g[k] = g[k - 1] + w[k]
  <2>1. ASSUME NEW k \in 1..n
        PROVE  g[k] = g[k - 1] + w[k]
    <3>1. k \in 0..n /\ k - 1 \in 0..n
      BY <1>1
    <3>2. CASE k = i
      <4>1. g[k] = a + v[i + 1] /\ g[k - 1] = f[i - 1]
        BY <1>1, <3>1, <3>2
      <4>. QED BY <1>5, <3>2, <4>1 DEF a
    <3>3. CASE k = i + 1
      <4>1. g[k] = f[i + 1] /\ g[k - 1] = a + v[i + 1]
        BY <1>1, <3>1, <3>3
      <4>. HIDE DEF g
      <4>. QED BY <1>4, <1>5, <1>6, <3>3, <4>1, SMTT(30)
    <3>4. CASE k # i /\ k # i + 1
      <4>1. k - 1 # i
        BY <1>1, <3>4
      <4>2. g[k] = f[k] /\ g[k - 1] = f[k - 1]
        BY <3>1, <3>4, <4>1
      <4>. HIDE DEF g
      <4>. QED BY <1>3, <1>5, <3>4, <4>2
    <3>. QED BY <3>2, <3>3, <3>4
  <2>. QED BY <2>1
<1>. HIDE DEF g
<1>9. SumSeq(w) = g[n]
  <2>1. n \in 0..Len(w) /\ \A k \in 1..Len(w) : k > n => w[k] = 0
    BY <1>1
  <2>. QED BY <1>7, <1>8, <2>1, SumOfFirst
<1>. QED BY <1>2, <1>7, <1>9

\* Places chosen by what is at them are as many.
LEMMA ExchangedPlaces ==
  ASSUME NEW n \in Nat, NEW i \in 1..(n - 1), NEW A \in SUBSET (1..n), NEW B \in SUBSET (1..n),
         \A k \in 1..n : k \in B <=> Other(i, k) \in A
  PROVE  Cardinality(B) = Cardinality(A)
<1> DEFINE f == [k \in 1..n |-> Other(i, k)]
<1>1. \A k \in 1..n : Other(i, k) \in 1..n /\ Other(i, Other(i, k)) = k
  BY OtherIs
<1>2. A = {Other(i, k) : k \in B}
  <2>1. \A k \in B : Other(i, k) \in A
    OBVIOUS
  <2>2. \A k \in A : Other(i, k) \in B /\ k = Other(i, Other(i, k))
    BY <1>1
  <2>. QED BY <2>1, <2>2
<1>3. B = {Other(i, k) : k \in A}
  <2>1. \A k \in A : Other(i, k) \in B
    BY <1>1
  <2>2. \A k \in B : Other(i, k) \in A /\ k = Other(i, Other(i, k))
    BY <1>1
  <2>. QED BY <2>1, <2>2
<1>4. A = {f[k] : k \in B} /\ B = {f[k] : k \in A}
  <2>1. \A k \in 1..n : f[k] = Other(i, k)
    OBVIOUS
  <2>. HIDE DEF f
  <2>2. {f[k] : k \in B} = {Other(i, k) : k \in B} /\ {f[k] : k \in A} = {Other(i, k) : k \in A}
    BY <2>1
  <2>. QED BY <1>2, <1>3, <2>2
<1>. HIDE DEF f
<1>5. IsFiniteSet(A) /\ IsFiniteSet(B)
  <2>1. IsFiniteSet(1..n)
    BY FS_Interval
  <2>. QED BY <2>1, FS_Subset
<1>6. Cardinality(A) \in Nat /\ Cardinality(B) \in Nat /\ Cardinality({f[k] : k \in B}) <= Cardinality(B)
  BY <1>5, FiniteImage
<1>7. Cardinality({f[k] : k \in A}) <= Cardinality(A)
  BY <1>5, FiniteImage
<1>8. Cardinality(A) <= Cardinality(B) /\ Cardinality(B) <= Cardinality(A)
  BY <1>4, <1>6, <1>7
<1>. QED BY <1>6, <1>8

\* The logs whose reports are compared.
SameDay(us, ts, i) ==
  /\ ts \in Seq(Executions(Symbols)) /\ us \in Seq(Executions(Symbols)) /\ ts # <<>> /\ us # <<>>
  /\ Exchanged(us, ts, i) /\ DaysAscend(ts) /\ DaysAscend(us)
  /\ ts[i].day = ts[i + 1].day /\ \A k \in 1..Len(ts) : us[k].day = ts[k].day

LEMMA SameDayIs ==
  ASSUME NEW ts \in Seq(Executions(Symbols)), DaysAscend(ts), NEW i \in 1..(Len(ts) - 1), NEW us,
         us = [ts EXCEPT ![i] = ts[i + 1], ![i + 1] = ts[i]], ts[i].day = ts[i + 1].day
  PROVE  SameDay(us, ts, i)
<1>1. us \in Seq(Executions(Symbols)) /\ Exchanged(us, ts, i)
  BY ExchangedIs
<1>2. Len(ts) \in Nat /\ Len(ts) # 0 /\ Len(us) = Len(ts) /\ DOMAIN us = 1..Len(ts) /\ DOMAIN ts = 1..Len(ts)
  BY <1>1, LogIs DEF Exchanged
<1>3. \A k \in 1..Len(ts) : us[k].day = ts[k].day
  BY <1>1, <1>2 DEF Exchanged, Other
<1>4. DaysAscend(us)
  BY <1>2, <1>3 DEF DaysAscend
<1>5. ts # <<>> /\ us # <<>>
  BY <1>2
<1>. QED BY <1>1, <1>3, <1>4, <1>5 DEF SameDay

\* As many trades up to a day, and never only the first of the two.
LEMMA SameDayCounts ==
  ASSUME NEW ts, NEW us, NEW i, SameDay(us, ts, i), NEW d \in Int
  PROVE  TradesBy(us, d) = TradesBy(ts, d) /\ TradesBy(ts, d) \in 0..Len(ts) /\ TradesBy(ts, d) # i
<1>1. /\ ts \in Seq(Executions(Symbols)) /\ us \in Seq(Executions(Symbols)) /\ DaysAscend(ts)
      /\ Len(us) = Len(ts) /\ i \in 1..(Len(ts) - 1) /\ ts[i].day = ts[i + 1].day
      /\ \A k \in 1..Len(ts) : us[k].day = ts[k].day
  BY DEF SameDay, Exchanged
<1>2. Len(ts) \in Nat /\ DOMAIN ts = 1..Len(ts) /\ DOMAIN us = 1..Len(ts)
  BY <1>1, LogIs
<1>3. {k \in DOMAIN us : us[k].day <= d} = {k \in DOMAIN ts : ts[k].day <= d}
  BY <1>1, <1>2
<1>4. TradesBy(us, d) = TradesBy(ts, d)
  BY <1>3, Zenon DEF TradesBy
<1>5. TradesBy(ts, d) \in 0..Len(ts) /\ \A k \in DOMAIN ts : ts[k].day <= d <=> k <= TradesBy(ts, d)
  BY <1>1, TradesByIs
<1>6. i \in DOMAIN ts /\ i + 1 \in DOMAIN ts
  BY <1>1, <1>2
<1>7. i <= TradesBy(ts, d) <=> i + 1 <= TradesBy(ts, d)
  BY <1>1, <1>5, <1>6
<1>. QED BY <1>1, <1>2, <1>4, <1>5, <1>7

\* The books differ only between the two.
LEMMA SameDayBooks ==
  ASSUME NEW ts, NEW us, NEW i, SameDay(us, ts, i), NEW f, Replays(f, ts)
  PROVE  \E g : Replays(g, us) /\ \A k \in 0..Len(ts) : k # i => g[k] = f[k]
<1> DEFINE n == Len(ts)
           B == Books(Symbols)
           t == ts[i]
           u == ts[i + 1]
           a == f[i - 1]
           g == [k \in 0..n |-> IF k = i THEN applyTrade(u, a) ELSE f[k]]
<1>1. /\ ts \in Seq(Executions(Symbols)) /\ us \in Seq(Executions(Symbols))
      /\ Len(us) = n /\ i \in 1..(n - 1) /\ \A k \in 1..n : us[k] = ts[Other(i, k)]
  BY DEF SameDay, Exchanged
<1>2. n \in Nat /\ i \in 1..n /\ i + 1 \in 1..n /\ i - 1 \in 0..n
  BY <1>1, LogIs
<1>3. us[i] = u /\ us[i + 1] = t /\ \A k \in 1..n : k # i /\ k # i + 1 => us[k] = ts[k]
  BY <1>1, <1>2 DEF Other
<1>4. f \in [0..n -> B] /\ f[0] = Opened /\ \A k \in 1..n : f[k] = applyTrade(ts[k], f[k - 1])
  BY DEF Replays, Along
<1>5. t \in Executions(Symbols) /\ u \in Executions(Symbols) /\ a \in B
  BY <1>1, <1>2, <1>4, LogIs
<1>6. f[i] = applyTrade(t, a) /\ f[i + 1] = applyTrade(u, f[i])
  BY <1>1, <1>2, <1>4
<1>. HIDE DEF n, B, t, u, a
<1>7. applyTrade(u, a) \in B /\ applyTrade(t, applyTrade(u, a)) = f[i + 1]
  BY <1>5, <1>6, applyTradeIs, TradesCommute DEF B
<1>8. g \in [0..n -> B] /\ g[0] = Opened
  BY <1>2, <1>4, <1>7
<1>9. \A k \in 0..n : k # i => g[k] = f[k]
  OBVIOUS
<1>10. g[i] = applyTrade(u, a)
  BY <1>2
<1>. HIDE DEF g
<1>11. ASSUME NEW k \in 1..n
       PROVE  g[k] = applyTrade(us[k], g[k - 1])
  <2>1. k \in 0..n /\ k - 1 \in 0..n
    BY <1>2
  <2>2. CASE k = i
    <3>1. g[k - 1] = a
      BY <1>2, <1>9, <2>1, <2>2 DEF a
    <3>. QED BY <1>3, <1>10, <2>2, <3>1
  <2>3. CASE k = i + 1
    <3>1. g[k] = f[i + 1] /\ g[k - 1] = applyTrade(u, a)
      BY <1>2, <1>9, <1>10, <2>1, <2>3
    <3>. QED BY <1>3, <1>7, <2>3, <3>1
  <2>4. CASE k # i /\ k # i + 1
    <3>1. k - 1 # i
      BY <1>2, <2>4
    <3>2. g[k] = f[k] /\ g[k - 1] = f[k - 1]
      BY <1>9, <2>1, <2>4, <3>1
    <3>. QED BY <1>3, <1>4, <2>4, <3>2
  <2>. QED BY <2>2, <2>3, <2>4
<1>12. Replays(g, us)
  <2>1. Along(g, us, Opened)
    BY <1>1, <1>8, <1>11 DEF Along
  <2>. QED BY <1>1, <1>8, <2>1, AlongReplays DEF B
<1>. QED BY <1>9, <1>12 DEF n


\* The same symbols are fetched.
LEMMA SameDaySymbols ==
  ASSUME NEW ts, NEW us, NEW i, SameDay(us, ts, i)
  PROVE  reconstructionSymbols(us) = reconstructionSymbols(ts)
<1>1. /\ ts \in Seq(Executions(Symbols)) /\ us \in Seq(Executions(Symbols))
      /\ Len(us) = Len(ts) /\ i \in 1..(Len(ts) - 1) /\ \A k \in 1..Len(ts) : us[k] = ts[Other(i, k)]
  BY DEF SameDay, Exchanged
<1>2. Len(ts) \in Nat /\ DOMAIN ts = 1..Len(ts) /\ DOMAIN us = 1..Len(ts)
  BY <1>1, LogIs
<1>3. \A k \in 1..Len(ts) : Other(i, k) \in 1..Len(ts) /\ Other(i, Other(i, k)) = k
  BY <1>1, <1>2, OtherIs
<1>4. {us[k].symbol : k \in DOMAIN us} = {ts[k].symbol : k \in DOMAIN ts}
  <2>1. \A k \in 1..Len(ts) : us[k].symbol = ts[Other(i, k)].symbol /\ us[Other(i, k)].symbol = ts[k].symbol
    BY <1>1, <1>3
  <2>. QED BY <1>2, <1>3, <2>1
<1>. QED BY <1>4, Zenon DEF reconstructionSymbols

\* The same closes are lacking.
LEMMA SameDayLacks ==
  ASSUME NEW ts, NEW us, NEW i, SameDay(us, ts, i), NEW r, NEW holdings
  PROVE  LacksClose(us, r, holdings) <=> LacksClose(ts, r, holdings)
<1> DEFINE Lacks(t) == /\ Judged(t, r.dates) /\ t.loss
                       /\ bars[t.symbol][r.dates[Search(t.day, r.dates) - 1]] = 0
<1>1. /\ ts \in Seq(Executions(Symbols)) /\ us \in Seq(Executions(Symbols))
      /\ Len(us) = Len(ts) /\ i \in 1..(Len(ts) - 1) /\ \A k \in 1..Len(ts) : us[k] = ts[Other(i, k)]
  BY DEF SameDay, Exchanged
<1>2. Len(ts) \in Nat /\ DOMAIN ts = 1..Len(ts) /\ DOMAIN us = 1..Len(ts)
  BY <1>1, LogIs
<1>3. \A k \in 1..Len(ts) : Other(i, k) \in 1..Len(ts) /\ Other(i, Other(i, k)) = k
  BY <1>1, <1>2, OtherIs
<1>4. (\E k \in DOMAIN us : Lacks(us[k])) <=> (\E k \in DOMAIN ts : Lacks(ts[k]))
  <2>1. \A k \in 1..Len(ts) : us[k] = ts[Other(i, k)] /\ us[Other(i, k)] = ts[k]
    BY <1>1, <1>3
  <2>. HIDE DEF Lacks
  <2>. QED BY <1>2, <1>3, <2>1
<1>. QED BY <1>4, Zenon DEF LacksClose

\* The curve is the same.
LEMMA SameDayCurve ==
  ASSUME ReportTypeOK, NEW ts, NEW us, NEW i, SameDay(us, ts, i)
  PROVE  Curve(us) = Curve(ts)
<1> DEFINE u == Used(ts)
           c == Calendar(u)
           dates == Keep(c, {k \in DOMAIN c : c[k] >= ts[1].day})
           n == Len(dates)
<1>1. /\ ts \in Seq(Executions(Symbols)) /\ us \in Seq(Executions(Symbols)) /\ ts # <<>> /\ us # <<>>
      /\ DaysAscend(ts) /\ DaysAscend(us)
      /\ Len(us) = Len(ts) /\ i \in 1..(Len(ts) - 1) /\ \A k \in 1..Len(ts) : us[k] = ts[Other(i, k)]
      /\ \A k \in 1..Len(ts) : us[k].day = ts[k].day
  BY DEF SameDay, Exchanged
<1>2. /\ Len(ts) \in Nat /\ DOMAIN ts = 1..Len(ts) /\ DOMAIN us = 1..Len(ts) /\ 1 \in 1..Len(ts)
      /\ ts[1].day \in Int /\ us[1].day = ts[1].day
  <2>1. Len(ts) \in Nat /\ DOMAIN ts = 1..Len(ts) /\ DOMAIN us = 1..Len(ts)
    BY <1>1, LogIs
  <2>2. 1 \in 1..Len(ts)
    BY <1>1, <2>1
  <2>. QED BY <1>1, <2>1, <2>2, LogIs
<1>3. reconstructionSymbols(us) = reconstructionSymbols(ts)
  BY SameDaySymbols
<1>4. Used(us) = u
  BY <1>3, Zenon DEF Used
<1>5. Curve(ts) = Reconstruct(ts, u, c) /\ Curve(us) = Reconstruct(us, u, c)
  BY <1>4, Zenon DEF Curve
<1>6. c \in Seq(Int) /\ Ascends(c)
  BY <1>1, CalendarIs
<1>. HIDE DEF u, c
<1>7. CASE c = <<>>
  <2>1. Reconstruct(ts, u, c) = NoCurve /\ Reconstruct(us, u, c) = NoCurve
    BY <1>7, Zenon DEF Reconstruct
  <2>. QED BY <1>5, <2>1
<1>8. CASE c # <<>>
  <2>1. PICK f \in [0..Len(ts) -> Books(Symbols)] : Replays(f, ts)
    BY <1>1, ReplayIs
  <2>2. PICK g : Replays(g, us) /\ \A k \in 0..Len(ts) : k # i => g[k] = f[k]
    BY <2>1, SameDayBooks
  <2>3. Reconstruct(ts, u, c) = Drawn([j \in 1..n |-> f[TradesBy(ts, dates[j])]], u, dates)
    <3>1. ts \in Seq(Executions(Symbols)) /\ ts # <<>> /\ DaysAscend(ts)
      BY <1>1
    <3>2. LET e == Keep(c, {k \in DOMAIN c : c[k] >= ts[1].day})
          IN Reconstruct(ts, u, c) = Drawn([j \in 1..Len(e) |-> f[TradesBy(ts, e[j])]], u, e)
      BY <1>6, <1>8, <2>1, <3>1, ReconstructIs, Zenon
    <3>. QED BY <3>2, Zenon
  <2>4. Reconstruct(us, u, c) = Drawn([j \in 1..n |-> g[TradesBy(us, dates[j])]], u, dates)
    <3>1. us \in Seq(Executions(Symbols)) /\ us # <<>> /\ DaysAscend(us)
      BY <1>1
    <3>0. Replays(g, us)
      BY <2>2
    <3>2. LET e == Keep(c, {k \in DOMAIN c : c[k] >= us[1].day})
          IN Reconstruct(us, u, c) = Drawn([j \in 1..Len(e) |-> g[TradesBy(us, e[j])]], u, e)
      BY <1>6, <1>8, <3>0, <3>1, ReconstructIs, Zenon
    <3>3. {k \in DOMAIN c : c[k] >= us[1].day} = {k \in DOMAIN c : c[k] >= ts[1].day}
      BY <1>2
    <3>4. Keep(c, {k \in DOMAIN c : c[k] >= us[1].day}) = dates
      BY <3>3, Zenon
    <3>. QED BY <3>2, <3>4, Zenon
  <2>5. n \in Nat /\ \A j \in 1..n : dates[j] \in Int
    <3>1. dates \in Seq(Int)
      BY <1>2, <1>6, DatesAre
    <3>. HIDE DEF dates
    <3>. QED BY <3>1
  <2>. HIDE DEF dates
  <2>6. \A j \in 1..n : g[TradesBy(us, dates[j])] = f[TradesBy(ts, dates[j])]
    <3>1. ASSUME NEW j \in 1..n
          PROVE  g[TradesBy(us, dates[j])] = f[TradesBy(ts, dates[j])]
      <4> DEFINE d == dates[j]
      <4>1. d \in Int
        BY <2>5
      <4>. HIDE DEF d
      <4>2. TradesBy(us, d) = TradesBy(ts, d) /\ TradesBy(ts, d) \in 0..Len(ts) /\ TradesBy(ts, d) # i
        BY <4>1, SameDayCounts
      <4>3. g[TradesBy(us, d)] = f[TradesBy(ts, d)]
        BY <2>2, <4>2
      <4>. QED BY <4>3 DEF d
    <3>. QED BY <3>1
  <2>7. [j \in 1..n |-> g[TradesBy(us, dates[j])]] = [j \in 1..n |-> f[TradesBy(ts, dates[j])]]
    BY <2>6
  <2>. QED BY <1>5, <2>3, <2>4, <2>7
<1>. QED BY <1>7, <1>8

\* So is the verdict of the guard.
LEMMA SameDayReconciles ==
  ASSUME ReportTypeOK, NEW ts, NEW us, NEW i, SameDay(us, ts, i), NEW live
  PROVE  Reconciles(Curve(ts), us, live) <=> Reconciles(Curve(ts), ts, live)
<1> DEFINE r == Curve(ts)
<1>1. CASE r.dates = <<>>
  BY <1>1 DEF Reconciles
<1>2. CASE r.dates # <<>>
  <2>1. /\ ts \in Seq(Executions(Symbols)) /\ us \in Seq(Executions(Symbols)) /\ ts # <<>> /\ us # <<>>
        /\ DaysAscend(ts) /\ DaysAscend(us) /\ Len(us) = Len(ts) /\ i \in 1..(Len(ts) - 1)
    BY DEF SameDay, Exchanged
  <2>2. PICK f \in [0..Len(ts) -> Books(Symbols)] : Replays(f, ts)
    BY <2>1, ReplayIs
  <2>3. PICK g : Replays(g, us) /\ \A k \in 0..Len(ts) : k # i => g[k] = f[k]
    BY <2>2, SameDayBooks
  <2>4. projectPastCalendar(r, ts).derived = ApplyAll(ts, Opened)
    BY <1>2, <2>1, <2>2, ProjectionEnds
  <2>5. projectPastCalendar(r, us).derived = ApplyAll(us, Opened)
    <3>1. Curve(us) = r
      BY SameDayCurve
    <3>2. projectPastCalendar(Curve(us), us).derived = ApplyAll(us, Opened)
      BY <1>2, <2>1, <2>3, <3>1, ProjectionEnds
    <3>. QED BY <3>1, <3>2
  <2>6. ApplyAll(ts, Opened) = f[Len(ts)] /\ ApplyAll(us, Opened) = g[Len(ts)]
    BY <2>1, <2>2, <2>3 DEF Replays
  <2>7. Len(ts) \in 0..Len(ts) /\ Len(ts) # i
    BY <2>1, LogIs
  <2>8. projectPastCalendar(r, us).derived = projectPastCalendar(r, ts).derived
    BY <2>3, <2>4, <2>5, <2>6, <2>7
  <2>. HIDE DEF r
  <2>9. Reconciles(r, us, live) <=> Reconciles(r, ts, live)
    BY <2>8 DEF Reconciles
  <2>. QED BY <2>9 DEF r
<1>. QED BY <1>1, <1>2

\* The rules cite the same trades.
LEMMA SameDayOvertrading ==
  ASSUME NEW ts, NEW us, NEW i, SameDay(us, ts, i), NEW r
  PROVE  overtrading(us, r) = overtrading(ts, r)
<1> DEFINE n == Len(ts)
           asOf == Final(r.dates)
           start == asOf - OvertradingWindowDays
           Window(x) == {k \in DOMAIN x : x[k].day > start /\ x[k].day <= asOf}
           Values(x) == [k \in DOMAIN x |-> IF k \in Window(x) THEN x[k].quantity * x[k].price ELSE 0]
           Ids(x) == {x[k].id : k \in Window(x)}
           days == {k \in DOMAIN r.dates : r.dates[k] > start}
           sum == SumFunction([k \in days |-> r.equity[k]])
           Out(W, T, I) ==
             IF r.dates # <<>> /\ (/\ W # {} /\ days # {} /\ sum # 0
                                   /\ T * Cardinality(days) > OvertradingTurnoverRatio * sum)
             THEN I ELSE {}
<1>1. /\ ts \in Seq(Executions(Symbols)) /\ us \in Seq(Executions(Symbols))
      /\ Exchanged(us, ts, i) /\ Len(us) = n /\ i \in 1..(n - 1)
      /\ \A k \in 1..n : us[k] = ts[Other(i, k)] /\ us[k].day = ts[k].day
  BY DEF SameDay, Exchanged
<1>2. /\ n \in Nat /\ DOMAIN ts = 1..n /\ DOMAIN us = 1..n
      /\ \A k \in 1..n : ts[k] \in Executions(Symbols) /\ us[k] \in Executions(Symbols)
  BY <1>1, LogIs
<1>3. /\ overtrading(ts, r) = Out(Window(ts), SumSeq(Values(ts)), Ids(ts))
      /\ overtrading(us, r) = Out(Window(us), SumSeq(Values(us)), Ids(us))
  BY Zenon DEF overtrading
<1>4. \A k \in 1..n : Other(i, k) \in 1..n /\ Other(i, Other(i, k)) = k
  BY <1>1, <1>2, OtherIs
<1>5. Window(us) = Window(ts)
  BY <1>1, <1>2
<1> DEFINE W == Window(ts)
<1>6. W \in SUBSET (1..n) /\ \A k \in 1..n : k \in W <=> Other(i, k) \in W
  <2>1. \A k \in 1..n : ts[Other(i, k)].day = ts[k].day
    BY <1>1
  <2>. QED BY <1>2, <1>4, <2>1
<1>. HIDE DEF Out, start, asOf
<1>7. Ids(us) = Ids(ts)
  <2>1. Ids(us) = {us[k].id : k \in W} /\ Ids(ts) = {ts[k].id : k \in W}
    BY <1>5
  <2>. HIDE DEF W, Ids
  <2>2. \A k \in W : us[k].id = ts[Other(i, k)].id
    BY <1>1, <1>6
  <2>3. \A k \in W : Other(i, k) \in W /\ ts[k].id = us[Other(i, k)].id
    BY <1>1, <1>4, <1>6
  <2>. QED BY <2>1, <2>2, <2>3
<1>8. SumSeq(Values(us)) = SumSeq(Values(ts))
  <2> DEFINE v == [k \in 1..n |-> IF k \in W THEN ts[k].quantity * ts[k].price ELSE 0]
             w == [k \in 1..n |-> IF k \in W THEN us[k].quantity * us[k].price ELSE 0]
  <2>1. Values(ts) = v /\ Values(us) = w
    BY <1>2, <1>5
  <2>2. \A t \in Executions(Symbols) : t.quantity * t.price \in Int
    <3>1. \A t \in Executions(Symbols) : t.quantity \in Int /\ t.price \in Int
      BY DEF Executions
    <3>. QED BY <3>1
  <2>. HIDE DEF Values, W
  <2>3. v \in [1..n -> Int] /\ w \in [1..n -> Int]
    BY <1>2, <2>2
  <2>4. \A k \in 1..n : w[k] = v[Other(i, k)]
    BY <1>1, <1>4, <1>6
  <2>. HIDE DEF v, w
  <2>5. v \in Seq(Int) /\ w \in Seq(Int) /\ Len(v) = n /\ Len(w) = n
    BY <1>2, <2>3
  <2>6. Exchanged(w, v, i)
    BY <1>1, <2>4, <2>5 DEF Exchanged
  <2>. QED BY <2>1, <2>5, <2>6, ExchangedSum
<1>. HIDE DEF Window, Values, Ids
<1>. QED BY <1>3, <1>5, <1>7, <1>8

LEMMA SameDayPanicSelling ==
  ASSUME NEW ts, NEW us, NEW i, SameDay(us, ts, i), NEW r
  PROVE  panicSelling(us, r) = panicSelling(ts, r)
<1> DEFINE n == Len(ts)
           Sells(x) == {k \in DOMAIN x : Judged(x[k], r.dates)}
           Panics(x) == {k \in Sells(x) : x[k].loss /\ droppedAcross(x[k], r.dates)}
           Ids(x) == {x[k].id : k \in Panics(x)}
           Out(p, s, I) ==
             IF r.dates = <<>> THEN {}
             ELSE IF p # 0 /\ (p >= PanicSellMinOccurrences \/ 100 * p >= PanicSellMinSharePct * s)
                  THEN I ELSE {}
<1>1. /\ ts \in Seq(Executions(Symbols)) /\ us \in Seq(Executions(Symbols))
      /\ Len(us) = n /\ i \in 1..(n - 1) /\ \A k \in 1..n : us[k] = ts[Other(i, k)]
  BY DEF SameDay, Exchanged
<1>2. n \in Nat /\ DOMAIN ts = 1..n /\ DOMAIN us = 1..n
  BY <1>1, LogIs
<1>3. /\ panicSelling(ts, r) = Out(Cardinality(Panics(ts)), Cardinality(Sells(ts)), Ids(ts))
      /\ panicSelling(us, r) = Out(Cardinality(Panics(us)), Cardinality(Sells(us)), Ids(us))
  BY Zenon DEF panicSelling
<1>4. \A k \in 1..n : Other(i, k) \in 1..n /\ Other(i, Other(i, k)) = k
  BY <1>1, <1>2, OtherIs
<1>. HIDE DEF Out
<1>5. \A k \in 1..n : k \in Sells(us) <=> Other(i, k) \in Sells(ts)
  BY <1>1, <1>2, <1>4
<1>6. \A k \in 1..n : k \in Panics(us) <=> Other(i, k) \in Panics(ts)
  BY <1>1, <1>2, <1>4
<1>7. /\ Sells(ts) \in SUBSET (1..n) /\ Sells(us) \in SUBSET (1..n)
      /\ Panics(ts) \in SUBSET (1..n) /\ Panics(us) \in SUBSET (1..n)
  BY <1>2
<1>8. Ids(us) = {us[k].id : k \in Panics(us)} /\ Ids(ts) = {ts[k].id : k \in Panics(ts)}
  OBVIOUS
<1>. HIDE DEF Sells, Panics, Ids
<1>9. Cardinality(Sells(us)) = Cardinality(Sells(ts))
  <2> DEFINE A == Sells(ts)
             B == Sells(us)
  <2>1. n \in Nat /\ i \in 1..(n - 1) /\ A \in SUBSET (1..n) /\ B \in SUBSET (1..n)
    BY <1>1, <1>2, <1>7
  <2>2. \A k \in 1..n : k \in B <=> Other(i, k) \in A
    BY <1>5
  <2>. HIDE DEF A, B, n
  <2>3. Cardinality(B) = Cardinality(A)
    BY <2>1, <2>2, ExchangedPlaces
  <2>. QED BY <2>3 DEF A, B
<1>10. Cardinality(Panics(us)) = Cardinality(Panics(ts))
  <2> DEFINE A == Panics(ts)
             B == Panics(us)
  <2>1. n \in Nat /\ i \in 1..(n - 1) /\ A \in SUBSET (1..n) /\ B \in SUBSET (1..n)
    BY <1>1, <1>2, <1>7
  <2>2. \A k \in 1..n : k \in B <=> Other(i, k) \in A
    BY <1>6
  <2>. HIDE DEF A, B, n
  <2>3. Cardinality(B) = Cardinality(A)
    BY <2>1, <2>2, ExchangedPlaces
  <2>. QED BY <2>3 DEF A, B
<1>11. Ids(us) = Ids(ts)
  <2>1. \A k \in Panics(us) : us[k].id = ts[Other(i, k)].id /\ Other(i, k) \in Panics(ts)
    BY <1>1, <1>6, <1>7
  <2>2. \A k \in Panics(ts) : Other(i, k) \in Panics(us) /\ k = Other(i, Other(i, k))
    BY <1>4, <1>6, <1>7
  <2>. QED BY <1>8, <2>1, <2>2
<1>. QED BY <1>3, <1>9, <1>10, <1>11

\* Whatever order two trades of one day are listed in, the report is the same.
THEOREM ReportIgnoresSameDayOrder == ReportSpec => []SameDayOrderIrrelevant
<1>1. ReportInv => SameDayOrderIrrelevant
  <2>. SUFFICES ASSUME ReportInv, NEW i \in 1..(Len(log) - 1), log[i].day = log[i + 1].day
                PROVE  buildInsights([log EXCEPT ![i] = log[i + 1], ![i + 1] = log[i]], {}) = Report
    BY DEF SameDayOrderIrrelevant
  <2> DEFINE us == [log EXCEPT ![i] = log[i + 1], ![i + 1] = log[i]]
             r == Curve(log)
             h == r.holdings
             a == buildInsights(us, {})
             b == buildInsights(log, {})
  <2>1. ReportTypeOK /\ log \in Seq(Executions(Symbols)) /\ DaysAscend(log)
    BY DEF ReportInv, ReportTypeOK
  <2>2. SameDay(us, log, i)
    BY <2>1, SameDayIs
  <2>. HIDE DEF us
  <2>3. log # <<>> /\ us # <<>>
    BY <2>2 DEF SameDay
  <2>4. Curve(us) = r
    BY <2>1, <2>2, SameDayCurve
  <2>5. Reconciles(r, us, Live) <=> Reconciles(r, log, Live)
    BY <2>1, <2>2, SameDayReconciles
  <2>6. overtrading(us, r) = overtrading(log, r) /\ panicSelling(us, r) = panicSelling(log, r)
    BY <2>2, SameDayOvertrading, SameDayPanicSelling
  <2>7. Failing(us, {}) = Failing(log, {}) /\ FetchError(us, {}) = FetchError(log, {})
    <3>1. reconstructionSymbols(us) = reconstructionSymbols(log)
      BY <2>2, SameDaySymbols
    <3>2. Failing(us, {}) = Failing(log, {})
      BY <3>1, Zenon DEF Failing
    <3>. QED BY <3>2, Zenon DEF FetchError
  <2>8. LacksClose(us, r, h) <=> LacksClose(log, r, h)
    BY <2>2, SameDayLacks
  <2>9. Ending(us, {}, r, h) = Ending(log, {}, r, h)
    <3>. HIDE DEF r, h
    <3>. QED BY <2>3, <2>5, <2>7, <2>8 DEF Ending
  <2>10. /\ a.outcome = Ending(us, {}, r, h)
         /\ a.outcome = "ok" => a = Sections(us, r, h)
         /\ a.outcome # "ok" => a = NoReport(a.outcome)
    BY <2>4, ReportIs
  <2>11. /\ b.outcome = Ending(log, {}, r, h)
         /\ b.outcome = "ok" => b = Sections(log, r, h)
         /\ b.outcome # "ok" => b = NoReport(b.outcome)
    BY ReportIs
  <2>12. Sections(us, r, h) = Sections(log, r, h)
    <3>. HIDE DEF r, h
    <3>. QED BY <2>6, Zenon DEF Sections
  <2>. HIDE DEF r, h, a, b
  <2>13. a = b
    BY <2>9, <2>10, <2>11, <2>12
  <2>. QED BY <2>13 DEF a, b, us, Report
<1>. QED BY <1>1, ReportInvariant, PTL
==============================================================================
