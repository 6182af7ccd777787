-------------------------- MODULE RebalancingProofs --------------------------
(***************************************************************************)
(* The money of an evaluation, for any account, number of assets, prices,  *)
(* precisions and fees: the buys leave the cash target alone, what is sent *)
(* can be taken, no buy takes its asset past its target, and a sell takes  *)
(* it there, but for less than one step of volume.                         *)
(***************************************************************************)
EXTENDS Inputs, Sums

(***************************************************************************)
(* Arithmetic.                                                             *)
(***************************************************************************)
\* Products of natural numbers, one fact at a time.
LEMMA Products ==
  /\ \A a, b \in Nat : a * b \in Nat
  /\ \A a, b \in Int : a * b \in Int
  /\ \A a, b \in Int, c \in Nat : a <= b => a * c <= b * c
  /\ \A a, b \in Int, c \in Nat \ {0} : a * c <= b * c => a <= b
  /\ \A a, b \in Int, c \in Nat \ {0} : a * c < b * c => a < b
<1>1. \A a, b \in Nat : a * b \in Nat
  OBVIOUS
<1>2. \A a, b \in Int : a * b \in Int
  OBVIOUS
<1>3. ASSUME NEW a \in Int, NEW b \in Int, NEW c \in Nat, a <= b PROVE a * c <= b * c
  <2>1. (b - a) \in Nat /\ (b - a) * c \in Nat
    BY <1>1, <1>3
  <2>2. b * c = (a * c) + ((b - a) * c)
    OBVIOUS
  <2>3. a * c \in Int /\ b * c \in Int
    OBVIOUS
  <2> QED
    BY <2>1, <2>2, <2>3
<1>4. ASSUME NEW a \in Int, NEW b \in Int, NEW c \in Nat \ {0}, b < a PROVE b * c < a * c
  <2>1. b + 1 <= a
    BY <1>4
  <2>2. (b + 1) * c <= a * c
    BY <1>3, <2>1
  <2>3. (b + 1) * c = (b * c) + c
    OBVIOUS
  <2>4. b * c \in Int /\ a * c \in Int
    OBVIOUS
  <2> QED
    BY <2>2, <2>3, <2>4
<1>5. ASSUME NEW a \in Int, NEW b \in Int, NEW c \in Nat \ {0}, a * c <= b * c PROVE a <= b
  <2>1. a * c \in Int /\ b * c \in Int
    OBVIOUS
  <2> QED
    BY <1>4, <1>5, <2>1
<1>6. ASSUME NEW a \in Int, NEW b \in Int, NEW c \in Nat \ {0}, a * c < b * c PROVE a < b
  <2>1. a * c \in Int /\ b * c \in Int
    OBVIOUS
  <2> QED
    BY <1>3, <1>6, <2>1
<1> QED
  BY <1>1, <1>2, <1>3, <1>5, <1>6

\* Integer division.
LEMMA Division ==
  ASSUME NEW n \in Nat, NEW d \in Nat \ {0}
  PROVE  /\ n \div d \in Nat
         /\ (n \div d) * d <= n /\ n < ((n \div d) * d) + d
         /\ \A k \in Nat : k * d <= n => k <= n \div d
<1> DEFINE q == n \div d
<1>1. n = (d * q) + (n % d) /\ (n % d) \in 0..(d - 1) /\ q \in Nat
  OBVIOUS
<1>2. d * q \in Nat /\ q * d = d * q /\ (q + 1) * d = (q * d) + d
  BY <1>1
<1> HIDE DEF q
<1>3. q * d <= n /\ n < (q * d) + d
  BY <1>1, <1>2
<1>4. ASSUME NEW k \in Nat, k * d <= n PROVE k <= q
  <2>1. k * d < (q + 1) * d
    BY <1>2, <1>3, <1>4
  <2>2. k < q + 1
    BY <1>1, <2>1, Products
  <2> QED
    BY <1>1, <2>2
<1> QED
  BY <1>1, <1>3, <1>4 DEF q

\* quantize toward zero: within one step below the amount n / d, and no
\* multiple of the step that fits is lost.
LEMMA RoundedDown ==
  ASSUME NEW n \in Int, NEW d \in Nat \ {0}, NEW step \in Nat \ {0}
  PROVE  LET r == Sizing!RoundDown(n, d, step)
         IN  /\ r \in Int
             /\ n <= 0 => r <= 0
             /\ n >= 0 => /\ r \in Nat /\ r * d <= n /\ n < (r + step) * d
                          /\ \A k \in Nat : k * step * d <= n => k * step <= r
<1> DEFINE e == d * step
<1>0. e \in Nat \ {0}
  BY Products
<1>1. CASE n >= 0
  <2> DEFINE q == n \div e
             r == q * step
  <2>1. n \in Nat
    BY <1>1
  <2>2. q \in Nat /\ q * e <= n /\ n < (q * e) + e /\ \A k \in Nat : k * e <= n => k <= q
    BY <1>0, <2>1, Division
  <2> HIDE DEF q
  <2>3. r \in Nat /\ r * d = q * e /\ (r + step) * d = (q * e) + e
    BY <2>2
  <2>4. ASSUME NEW k \in Nat, k * step * d <= n PROVE k * step <= r
    <3>1. k * step * d = k * e
      OBVIOUS
    <3>2. k <= q
      BY <2>2, <2>4, <3>1
    <3> QED
      BY <2>2, <3>2, Products
  <2>5. Sizing!RoundDown(n, d, step) = r
    BY <1>1 DEF Sizing!RoundDown, q
  <2>6. n <= 0 => r <= 0
    <3> SUFFICES ASSUME n <= 0 PROVE r <= 0
      OBVIOUS
    <3>1. r * d <= 0 * d
      BY <2>1, <2>2, <2>3
    <3> QED
      BY <2>3, <3>1, Products
  <2> HIDE DEF e, r
  <2> QED
    BY <2>2, <2>3, <2>4, <2>5, <2>6
<1>2. CASE n < 0
  <2> DEFINE q == (-n) \div e
  <2>1. -n \in Nat
    BY <1>2
  <2>2. q \in Nat
    BY <1>0, <2>1, Division
  <2> HIDE DEF q
  <2>3. q * step \in Nat
    BY <2>2, Products
  <2>4. Sizing!RoundDown(n, d, step) = -(q * step)
    BY <1>2 DEF Sizing!RoundDown, q
  <2> QED
    BY <1>2, <2>3, <2>4
<1> QED
  BY <1>1, <1>2

\* quantize away from zero, of what is not negative.
LEMMA RoundedUp ==
  ASSUME NEW n \in Nat, NEW step \in Nat \ {0}
  PROVE  Sizing!RoundUp(n, step) \in Nat /\ n <= Sizing!RoundUp(n, step)
<1> DEFINE m == n + step - 1
           q == m \div step
<1>1. m \in Nat
  OBVIOUS
<1> HIDE DEF m
<1>2. q \in Nat /\ m < (q * step) + step
  BY <1>1, Division
<1> HIDE DEF q
<1>3. q * step \in Nat
  BY <1>2, Products
<1>4. Sizing!RoundUp(n, step) = q * step
  BY DEF Sizing!RoundUp, q, m
<1> QED
  BY <1>2, <1>3, <1>4 DEF m

\* The largest and the least of two numbers.
LEMMA OfTwo ==
  ASSUME NEW a \in Int, NEW b \in Int
  PROVE  /\ Sizing!Max({a, b}) = IF a >= b THEN a ELSE b
         /\ Sizing!Min({a, b}) = IF a <= b THEN a ELSE b
<1>1. Sizing!Max({a, b}) = IF a >= b THEN a ELSE b
  BY DEF Sizing!Max
<1>2. Sizing!Min({a, b}) = IF a <= b THEN a ELSE b
  BY DEF Sizing!Min
<1> QED
  BY <1>1, <1>2

\* A number that three others do not exceed is at least their largest.
LEMMA OfThree ==
  ASSUME NEW a \in Int, NEW b \in Int, NEW c \in Int, NEW n \in Int, n >= a, n >= b, n >= c
  PROVE  n >= Sizing!Max({a, b, c}) /\ Sizing!Max({a, b, c}) \in Int
<1>1. \E x \in {a, b, c} : \A y \in {a, b, c} : x >= y
  OBVIOUS
<1>2. Sizing!Max({a, b, c}) \in {a, b, c}
  BY <1>1 DEF Sizing!Max
<1> QED
  BY <1>2
-----------------------------------------------------------------------------
(***************************************************************************)
(* Valuation, drift and allocation.                                        *)
(***************************************************************************)
Assets == Sizing!Assets

\* The account is one of those allowed, and Kraken gave every price.
Priced == \A a \in Assets : account.prices[a] # None

\* The least that the cash may fall to, times Hundred.
CashFloor == Sizing!Min({Hundred * account.cash, Sizing!managed_value * Sizing!cash_target_pct})

\* Rebalancing counts, and sums, as Sums does.
LEMMA SizingCounts == \A S : Sizing!Cardinality(S) = Cardinality(S)
BY DEF Sizing!Cardinality, Cardinality

LEMMA SizingSums == \A f, S : Sizing!SumFunctionOnSet(f, S) = SumFunctionOnSet(f, S)
BY DEF Sizing!SumFunctionOnSet, Sizing!FoldFunctionOnSet, Sizing!MapThenFoldSet,
   SumFunctionOnSet, FoldFunctionOnSet, MapThenFoldSet

\* The constants, one by one.
LEMMA SizingConstants ==
  /\ NAssets \in Nat \ {0} /\ Hundred \in Nat \ {0} /\ CostStep \in Nat \ {0}
  /\ FiatStep \in Nat \ {0} /\ VolumeStep \in Nat \ {0} /\ OrderMin \in Nat \ {0}
  /\ CostMin \in Nat \ {0} /\ OrderMin % VolumeStep = 0
  /\ Moves \subseteq Int /\ Fees \subseteq Nat
  /\ IsFiniteSet(Assets) /\ Assets \subseteq Nat
<1>1. IsFiniteSet(1..NAssets)
  BY InputsConstants, FS_Interval DEF Sizing!RebalancingConstants
<1> QED
  BY <1>1, InputsConstants DEF Sizing!RebalancingConstants, Assets, Sizing!Assets

\* What is known of an account.
LEMMA AccountType ==
  ASSUME account \in Accounts
  PROVE  /\ account \in Sizing!Account /\ account.cash \in Nat /\ account.floor \in Nat
         /\ account.policy \in {"prorata", "reduce_drift", "rebalance"}
         /\ \A a \in Assets : /\ account.targets[a] \in 0..Hundred
                              /\ account.prices[a] \in Nat \cup {None}
                              /\ Sizing!amount_of(a) \in Nat
                              /\ Sizing!amount_of(a)
                                   = account.balances[a].spot + account.balances[a].rewards
         /\ Sizing!total_pct \in 0..Hundred
         /\ Sizing!cash_target_pct \in Nat /\ Sizing!cash_target_pct = Hundred - Sizing!total_pct
<1>1. /\ account \in Sizing!Account
      /\ Sizing!SumFunctionOnSet(account.targets, Sizing!Assets) <= Hundred
  BY InputsConstants DEF Sizing!RebalancingConstants
<1>2. /\ account.cash \in Nat /\ account.floor \in Nat
      /\ account.policy \in {"prorata", "reduce_drift", "rebalance"}
      /\ account.targets \in [Assets -> 0..Hundred]
      /\ account.prices \in [Assets -> Nat \cup {None}]
      /\ account.balances \in [Assets -> Sizing!Balance]
  BY <1>1 DEF Sizing!Account, Assets
<1>3. ASSUME NEW a \in Assets
      PROVE  /\ Sizing!amount_of(a) \in Nat
             /\ Sizing!amount_of(a) = account.balances[a].spot + account.balances[a].rewards
  BY <1>2 DEF Sizing!amount_of, Sizing!tradable_amount, Sizing!Balance
<1>4. Sizing!total_pct = SumFunctionOnSet(account.targets, Assets)
  <2>1. [a \in Assets |-> account.targets[a]] = account.targets
    BY <1>2
  <2>2. Sizing!total_pct = SumFunctionOnSet([a \in Assets |-> account.targets[a]], Assets)
    BY SizingSums DEF Sizing!total_pct, Sizing!Sum, Assets
  <2> QED
    BY <2>1, <2>2
<1>5. Sizing!total_pct \in Nat
  <2>1. \A a \in Assets : account.targets[a] \in Nat
    BY <1>2, SizingConstants
  <2> QED
    BY <1>4, <2>1, SizingConstants, SumIsAnInteger
<1>6. Sizing!total_pct <= Hundred
  BY <1>1, <1>4, SizingSums DEF Assets
<1>7. Sizing!cash_target_pct = Hundred - Sizing!total_pct
  BY DEF Sizing!cash_target_pct
<1> QED
  BY <1>1, <1>2, <1>3, <1>5, <1>6, <1>7, SizingConstants

\* Values, drifts and the free cash are whole numbers in the units chosen; an
\* asset is never further above its target than all of it.
LEMMA Valuation ==
  ASSUME account \in Accounts, Priced
  PROVE  /\ Sizing!managed_value \in Nat /\ Sizing!investable_cash \in Nat
         /\ Sizing!managed_value
              = SumFunctionOnSet([a \in Assets |-> Sizing!asset_value(a)], Assets) + account.cash
         /\ \A a \in Assets :
              /\ account.prices[a] \in Nat
              /\ Sizing!asset_value(a) = Sizing!amount_of(a) * account.prices[a]
              /\ Sizing!asset_value(a) \in Nat
              /\ Sizing!delta(a) \in Int /\ Sizing!shortfall(a) \in Nat
              /\ Sizing!delta(a) = (Sizing!managed_value * account.targets[a])
                                     - (Hundred * Sizing!asset_value(a))
              /\ -Sizing!delta(a) <= Hundred * Sizing!asset_value(a)
<1>1. ASSUME NEW a \in Assets
      PROVE  /\ account.prices[a] \in Nat /\ Sizing!asset_value(a) \in Nat
             /\ Sizing!asset_value(a) = Sizing!amount_of(a) * account.prices[a]
  BY AccountType, Products DEF Priced, Sizing!asset_value
<1>2. /\ Sizing!managed_value
           = SumFunctionOnSet([a \in Assets |-> Sizing!asset_value(a)], Assets) + account.cash
      /\ Sizing!managed_value \in Nat
  <2> DEFINE v == [a \in Assets |-> Sizing!asset_value(a)]
  <2>1. \A a \in Assets : v[a] \in Nat /\ v[a] \in Int
    BY <1>1
  <2> HIDE DEF v
  <2>2. SumFunctionOnSet(v, Assets) \in Nat
    BY <2>1, SizingConstants, SumIsAnInteger
  <2>3. Sizing!managed_value = SumFunctionOnSet(v, Assets) + account.cash
    BY SizingSums DEF Sizing!managed_value, Sizing!Sum, Assets, v
  <2> QED
    BY <2>2, <2>3, AccountType DEF v
<1>3. ASSUME NEW a \in Assets
      PROVE  /\ Sizing!delta(a) \in Int /\ Sizing!shortfall(a) \in Nat
             /\ Sizing!delta(a) = (Sizing!managed_value * account.targets[a])
                                    - (Hundred * Sizing!asset_value(a))
             /\ -Sizing!delta(a) <= Hundred * Sizing!asset_value(a)
  <2>1. /\ Sizing!managed_value * account.targets[a] \in Nat
        /\ Hundred * Sizing!asset_value(a) \in Nat
    BY <1>1, <1>2, AccountType, SizingConstants, Products
  <2>2. Sizing!delta(a) = (Sizing!managed_value * account.targets[a])
                            - (Hundred * Sizing!asset_value(a))
    BY DEF Sizing!delta
  <2> QED
    BY <2>1, <2>2 DEF Sizing!shortfall, Sizing!AtLeastZero
<1>4. Sizing!investable_cash \in Nat
  <2>1. Hundred * account.cash \in Nat /\ Sizing!managed_value * Sizing!cash_target_pct \in Nat
    BY <1>2, AccountType, SizingConstants, Products
  <2> QED
    BY <2>1 DEF Sizing!investable_cash, Sizing!AtLeastZero
<1> QED
  BY <1>1, <1>2, <1>3, <1>4

\* The shortfalls add up to the free cash or more: drifts add up to exactly the
\* cash above its target.
LEMMA ShortfallsCover ==
  ASSUME account \in Accounts, Priced
  PROVE  Sizing!investable_cash
           <= SumFunctionOnSet([a \in Assets |-> Sizing!shortfall(a)], Assets)
<1> DEFINE v == [a \in Assets |-> Sizing!asset_value(a)]
           w == [a \in Assets |-> account.targets[a]]
           d == [a \in Assets |-> Sizing!delta(a)]
           s == [a \in Assets |-> Sizing!shortfall(a)]
           M == Sizing!managed_value
           T == Sizing!total_pct
<1>1. \A a \in Assets : /\ v[a] \in Int /\ w[a] \in Int /\ d[a] \in Int /\ s[a] \in Nat
                        /\ s[a] \in Int /\ d[a] <= s[a]
                        /\ d[a] = (M * w[a]) + ((-Hundred) * v[a])
  <2> SUFFICES ASSUME NEW a \in Assets
               PROVE  /\ v[a] \in Int /\ w[a] \in Int /\ d[a] \in Int /\ s[a] \in Nat
                      /\ s[a] \in Int /\ d[a] <= s[a]
                      /\ d[a] = (M * w[a]) + ((-Hundred) * v[a])
    OBVIOUS
  <2>1. /\ Sizing!asset_value(a) \in Nat /\ account.targets[a] \in Int /\ Sizing!delta(a) \in Int
        /\ Sizing!shortfall(a) \in Nat /\ Sizing!delta(a) <= Sizing!shortfall(a)
    BY Valuation, AccountType DEF Sizing!shortfall, Sizing!AtLeastZero
  <2>2. Sizing!delta(a) = (M * account.targets[a]) + ((-Hundred) * Sizing!asset_value(a))
    BY Valuation, AccountType, SizingConstants, <2>1
  <2> QED
    BY <2>1, <2>2
<1>2. /\ M \in Nat /\ T \in Int /\ M = SumFunctionOnSet(v, Assets) + account.cash
      /\ T = SumFunctionOnSet(w, Assets)
  BY Valuation, AccountType, SizingConstants, SizingSums DEF Sizing!total_pct, Sizing!Sum, Assets
<1>3. /\ account.cash \in Nat /\ Hundred \in Nat /\ Sizing!cash_target_pct = Hundred - T
      /\ IsFiniteSet(Assets)
  BY AccountType, SizingConstants
<1>4. Sizing!investable_cash = Sizing!AtLeastZero((Hundred * account.cash) - (M * Sizing!cash_target_pct))
  BY DEF Sizing!investable_cash
<1> HIDE DEF v, w, d, s, M, T
<1>5. SumFunctionOnSet(d, Assets)
        = (M * SumFunctionOnSet(w, Assets)) + ((-Hundred) * SumFunctionOnSet(v, Assets))
  <2>1. -Hundred \in Int /\ M \in Int
    BY <1>2, <1>3
  <2> QED
    BY <1>1, <1>3, <2>1, SumIsLinear
<1>6. SumFunctionOnSet(v, Assets) \in Int
  BY <1>1, <1>3, SumIsAnInteger
<1>7. SumFunctionOnSet(d, Assets) = (Hundred * account.cash) - (M * (Hundred - T))
  <2> DEFINE V == SumFunctionOnSet(v, Assets)
  <2>1. SumFunctionOnSet(d, Assets) = (M * T) + ((-Hundred) * V) /\ V = M - account.cash /\ V \in Int
    BY <1>2, <1>3, <1>5, <1>6
  <2> HIDE DEF V
  <2> QED
    BY <1>2, <1>3, <2>1
<1>8. SumFunctionOnSet(d, Assets) <= SumFunctionOnSet(s, Assets)
  BY <1>1, <1>3, SumIsMonotone
<1>9. SumFunctionOnSet(s, Assets) \in Nat /\ SumFunctionOnSet(d, Assets) \in Int
  BY <1>1, <1>3, SumIsAnInteger
<1>10. Sizing!investable_cash <= SumFunctionOnSet(s, Assets)
  BY <1>3, <1>4, <1>7, <1>8, <1>9 DEF Sizing!AtLeastZero
<1> QED
  BY <1>10 DEF s

Whole == Sizing!Max({1, Sizing!total_pct})

\* What reconcile allots to an asset: a sale is what it drifts above its target,
\* and, unless the targets alone decide, a purchase is no more than its shortfall.
LEMMA Allotted ==
  ASSUME account \in Accounts, Priced, NEW a \in Assets
  PROVE  /\ Whole \in Nat \ {0} /\ Sizing!Scale = Hundred * Whole /\ Sizing!Scale \in Nat \ {0}
         /\ Sizing!amount_fiat(a) \in Int
         /\ Sizing!amount_fiat(a) < 0 => Sizing!amount_fiat(a) = Sizing!delta(a) * Whole
         /\ Sizing!amount_fiat(a) > 0 /\ account.policy # "prorata" =>
              Sizing!amount_fiat(a) <= Sizing!delta(a) * Whole
<1>1. Whole \in Nat \ {0} /\ Sizing!Scale = Hundred * Whole /\ Sizing!Scale \in Nat \ {0}
  <2>1. Whole \in Nat \ {0}
    BY AccountType, OfTwo DEF Whole
  <2>2. Sizing!Scale = Hundred * Whole
    BY DEF Sizing!Scale, Whole
  <2> QED
    BY <2>1, <2>2, SizingConstants, Products
<1>2. /\ Sizing!delta(a) \in Int /\ Sizing!shortfall(a) \in Nat /\ account.targets[a] \in Nat
      /\ Sizing!investable_cash \in Nat
  BY AccountType, Valuation, SizingConstants
<1>3. \A n \in Nat : Sizing!allocate_prorata(n, a) \in Nat /\ Sizing!allocate_prorata(0, a) = 0
  BY <1>2, Products DEF Sizing!allocate_prorata
<1>4. CASE account.policy = "prorata"
  <2>1. Sizing!amount_fiat(a) = Sizing!allocate_prorata(Sizing!investable_cash, a)
    BY <1>4, Zenon DEF Sizing!amount_fiat
  <2> QED
    BY <1>1, <1>2, <1>3, <1>4, <2>1
<1>5. CASE account.policy = "reduce_drift"
  <2> DEFINE B == {b \in Assets : Sizing!Before(b, a)}
             s == [b \in B |-> Sizing!shortfall(b)]
             before == SumFunctionOnSet(s, B)
             rest == Sizing!AtLeastZero(Sizing!investable_cash - before)
  <2>1. Sizing!amount_fiat(a) = Sizing!allocate_reduce_drift(a)
    BY <1>5, Zenon DEF Sizing!amount_fiat
  <2>2. before \in Nat
    <3>1. IsFiniteSet(B) /\ \A b \in B : s[b] \in Nat /\ s[b] \in Int
      BY SizingConstants, Valuation, FS_Subset
    <3> HIDE DEF B, s
    <3> QED
      BY <3>1, SumIsAnInteger
  <2>3. Sizing!taken(a) = Sizing!Min({Sizing!shortfall(a), rest})
    BY SizingSums DEF Sizing!taken, Sizing!Sum, Assets
  <2> HIDE DEF before
  <2>4. rest \in Nat
    BY <1>2, <2>2 DEF Sizing!AtLeastZero
  <2> HIDE DEF rest
  <2>5. Sizing!taken(a) \in Nat /\ Sizing!taken(a) <= Sizing!shortfall(a)
    <3>1. Sizing!shortfall(a) \in Int /\ rest \in Int
      BY <1>2, <2>4
    <3>2. Sizing!Min({Sizing!shortfall(a), rest})
            = IF Sizing!shortfall(a) <= rest THEN Sizing!shortfall(a) ELSE rest
      BY <3>1, OfTwo
    <3> QED
      BY <1>2, <2>3, <2>4, <3>2
  <2>6. Sizing!AtLeastZero(Sizing!investable_cash - Sizing!Sum(Sizing!shortfall, Assets)) = 0
    <3> DEFINE S == SumFunctionOnSet([b \in Assets |-> Sizing!shortfall(b)], Assets)
    <3>1. Sizing!Sum(Sizing!shortfall, Assets) = S
      BY SizingSums DEF Sizing!Sum
    <3>2. S \in Nat
      <4> DEFINE f == [b \in Assets |-> Sizing!shortfall(b)]
      <4>1. \A b \in Assets : f[b] \in Nat /\ f[b] \in Int
        BY Valuation
      <4> HIDE DEF f
      <4>2. SumFunctionOnSet(f, Assets) \in Nat
        BY <4>1, SizingConstants, SumIsAnInteger
      <4> QED
        BY <4>2 DEF f
    <3>3. Sizing!investable_cash <= S
      BY ShortfallsCover
    <3> HIDE DEF S
    <3> QED
      BY <1>2, <3>1, <3>2, <3>3 DEF Sizing!AtLeastZero
  <2>7. Sizing!allocate_reduce_drift(a) = Sizing!taken(a) * Whole
    <3>1. Sizing!taken(a) * Whole \in Nat
      BY <1>1, <2>5, Products
    <3>2. Sizing!allocate_reduce_drift(a)
            = (Sizing!taken(a) * Whole)
                + Sizing!allocate_prorata(
                    Sizing!AtLeastZero(Sizing!investable_cash - Sizing!Sum(Sizing!shortfall, Assets)), a)
      BY DEF Sizing!allocate_reduce_drift, Whole, Assets
    <3> QED
      BY <1>3, <2>6, <3>1, <3>2
  <2>8. Sizing!amount_fiat(a) \in Nat
    BY <1>1, <2>1, <2>5, <2>7, Products
  <2>9. ASSUME Sizing!amount_fiat(a) > 0 PROVE Sizing!amount_fiat(a) <= Sizing!delta(a) * Whole
    <3>1. Sizing!taken(a) > 0
      BY <1>1, <2>1, <2>5, <2>7, <2>9
    <3>2. Sizing!shortfall(a) = Sizing!delta(a)
      BY <1>2, <2>5, <3>1 DEF Sizing!shortfall, Sizing!AtLeastZero
    <3> QED
      BY <1>1, <1>2, <2>1, <2>5, <2>7, <3>2, Products
  <2> QED
    BY <1>1, <2>8, <2>9
<1>6. CASE account.policy = "rebalance"
  <2>1. Sizing!amount_fiat(a) = IF Sizing!DriftsFar(a) THEN Sizing!delta(a) * Whole ELSE 0
    BY <1>6, Zenon DEF Sizing!amount_fiat, Whole
  <2>2. Sizing!delta(a) * Whole \in Int
    BY <1>1, <1>2, Products
  <2> QED
    BY <1>1, <2>1, <2>2
<1> QED
  BY <1>4, <1>5, <1>6, AccountType
-----------------------------------------------------------------------------
(***************************************************************************)
(* The legs of a plan.                                                     *)
(***************************************************************************)
\* A leg that is to be sent is above the minimums of its pair and the user's
\* floor; a sell's volume above ordermin, and with one more step worth more than its
\* amount, and it meets its target; a buy within its asset's shortfall.
MeetsTarget(a, volume) ==
  /\ Hundred * (volume * account.prices[a]) <= -Sizing!delta(a)
  /\ -Sizing!delta(a) < Hundred * ((volume + VolumeStep) * account.prices[a])

LegInv(l) ==
  /\ l \in Sizing!Leg
  /\ ~l.note =>
       /\ account.prices[l.asset] \in Nat
       /\ l.amount >= l.minimum
       /\ l.minimum >= CostMin /\ l.minimum >= OrderMin * account.prices[l.asset]
       /\ l.minimum >= account.floor
       /\ l.side = "sell" => /\ l.volume >= OrderMin /\ MeetsTarget(l.asset, l.volume)
                             /\ l.amount < (l.volume + VolumeStep) * account.prices[l.asset]
       /\ l.side = "buy" /\ account.policy # "prorata" =>
            Hundred * l.amount <= Sizing!delta(l.asset)

\* What is sold: never more than there is, or than leads to the target, and all but
\* a step of it; when the amount is above ordermin, so is the volume.
LEMMA SoldVolume ==
  ASSUME account \in Accounts, Priced, NEW a \in Assets, Sizing!amount_fiat(a) < 0
  PROVE  /\ Sizing!Sold(a) \in Nat /\ Sizing!Sold(a) <= Sizing!amount_of(a)
         /\ MeetsTarget(a, Sizing!Sold(a))
         /\ OrderMin * account.prices[a]
              <= Sizing!round_cost(-Sizing!amount_fiat(a), Sizing!Scale)
            => Sizing!Sold(a) >= OrderMin
<1> DEFINE n == -Sizing!amount_fiat(a)
           p == account.prices[a]
           S == Sizing!Scale
           c == Sizing!amount_of(a)
           D == -Sizing!delta(a)
           V == Sizing!asset_value(a)
<1>1. /\ n \in Nat \ {0} /\ S \in Nat \ {0} /\ S = Hundred * Whole /\ Whole \in Nat \ {0}
      /\ n = D * Whole /\ p \in Nat /\ c \in Nat /\ D \in Int /\ V = c * p /\ V \in Nat
      /\ D <= Hundred * V /\ (account.targets[a] = 0 => D = Hundred * V)
  <2>1. /\ Sizing!delta(a) \in Int /\ Sizing!amount_fiat(a) = Sizing!delta(a) * Whole
        /\ Sizing!amount_fiat(a) \in Int /\ Whole \in Nat
    BY Allotted, Valuation
  <2>2. (-Sizing!delta(a)) * Whole = -(Sizing!delta(a) * Whole)
    BY <2>1
  <2>3. account.targets[a] = 0 => -Sizing!delta(a) = Hundred * Sizing!asset_value(a)
    <3>1. /\ Sizing!delta(a) = (Sizing!managed_value * account.targets[a])
                                - (Hundred * Sizing!asset_value(a))
          /\ Sizing!managed_value \in Nat /\ Hundred * Sizing!asset_value(a) \in Int
      BY Valuation, SizingConstants, Products
    <3>2. Sizing!managed_value * 0 = 0
      BY <3>1
    <3> QED
      BY <3>1, <3>2
  <2> QED
    BY <2>1, <2>2, <2>3, Allotted, Valuation, AccountType
<1> HIDE DEF n, p, S, c, D, V
<1>2. n <= c * (S * p)
  <2>1. D * Whole <= (Hundred * V) * Whole
    BY <1>1, SizingConstants, Products
  <2>2. (Hundred * V) * Whole = c * (S * p)
    BY <1>1, SizingConstants
  <2> QED
    BY <1>1, <2>1, <2>2
<1>3. p \in Nat \ {0} /\ S * p \in Nat \ {0}
  <2>1. p # 0
    <3> SUFFICES ASSUME p = 0 PROVE FALSE
      OBVIOUS
    <3>1. c * (S * 0) = 0
      BY <1>1
    <3>2. n <= 0
      BY <1>2, <3>1
    <3> QED
      BY <1>1, <3>2
  <2> QED
    BY <1>1, <2>1, Products
<1> DEFINE whole == Sizing!round_volume(c)
           fit == Sizing!volume_from_fiat(n, S, p)
<1>4. /\ whole \in Nat /\ whole <= c /\ c < whole + VolumeStep
      /\ \A k \in Nat : k * VolumeStep <= c => k * VolumeStep <= whole
  <2>1. c \in Int /\ c >= 0 /\ 1 \in Nat \ {0} /\ VolumeStep \in Nat \ {0}
    BY <1>1, SizingConstants
  <2>2. /\ whole \in Nat /\ whole * 1 <= c /\ c < (whole + VolumeStep) * 1
        /\ \A k \in Nat : k * VolumeStep * 1 <= c => k * VolumeStep <= whole
    BY <2>1, RoundedDown DEF Sizing!round_volume
  <2>3. \A k \in Nat : k * VolumeStep * 1 = k * VolumeStep
    BY SizingConstants
  <2> HIDE DEF whole
  <2>4. whole * 1 = whole /\ (whole + VolumeStep) * 1 = whole + VolumeStep
    BY <2>1, <2>2
  <2> QED
    BY <2>2, <2>3, <2>4
<1>5. /\ fit \in Nat /\ fit * (S * p) <= n /\ n < (fit + VolumeStep) * (S * p)
      /\ \A k \in Nat : k * VolumeStep * (S * p) <= n => k * VolumeStep <= fit
  <2>1. n \in Int /\ n >= 0 /\ VolumeStep \in Nat \ {0}
    BY <1>1, SizingConstants
  <2> QED
    BY <1>3, <2>1, RoundedDown DEF Sizing!volume_from_fiat
<1>6. Sizing!Sold(a) = IF account.targets[a] = 0 THEN whole ELSE Sizing!Min({fit, whole})
  BY DEF Sizing!Sold, n, S, p, c
<1> HIDE DEF whole, fit
<1>7. Sizing!Min({fit, whole}) = IF fit <= whole THEN fit ELSE whole
  <2>1. fit \in Int /\ whole \in Int
    BY <1>4, <1>5
  <2> QED
    BY <2>1, OfTwo
<1>8. Sizing!Sold(a) \in Nat /\ Sizing!Sold(a) <= c
  BY <1>1, <1>4, <1>5, <1>6, <1>7
<1>9. ASSUME OrderMin * p <= Sizing!round_cost(n, S) PROVE Sizing!Sold(a) >= OrderMin
  <2> DEFINE r == Sizing!round_cost(n, S)
  <2>1. r \in Nat /\ r * S <= n
    <3>1. n \in Int /\ n >= 0
      BY <1>1
    <3> QED
      BY <1>1, <3>1, SizingConstants, RoundedDown DEF Sizing!round_cost
  <2> HIDE DEF r
  <2>2. (OrderMin * p) * S <= r * S
    <3>1. OrderMin * p \in Int
      BY <1>3, SizingConstants
    <3> QED
      BY <1>1, <1>9, <2>1, <3>1, Products DEF r
  <2>3. OrderMin * (S * p) <= n
    <3>1. (OrderMin * p) * S = OrderMin * (S * p)
      BY <1>1, <1>3, SizingConstants
    <3>2. OrderMin * (S * p) \in Int /\ r * S \in Int
      BY <1>1, <1>3, <2>1, SizingConstants
    <3> QED
      BY <1>1, <2>1, <2>2, <3>1, <3>2
  <2>4. OrderMin <= c
    <3>1. OrderMin * (S * p) \in Int /\ c * (S * p) \in Int
      BY <1>1, <1>3, SizingConstants
    <3>2. OrderMin * (S * p) <= c * (S * p)
      BY <1>1, <1>2, <2>3, <3>1
    <3> QED
      BY <1>1, <1>3, <3>2, SizingConstants, Products
  <2>5. PICK j \in Nat : j * VolumeStep = OrderMin
    <3> DEFINE q == OrderMin \div VolumeStep
    <3>1. OrderMin = (VolumeStep * q) + (OrderMin % VolumeStep) /\ q \in Nat
      BY SizingConstants
    <3> HIDE DEF q
    <3>2. q * VolumeStep = OrderMin
      BY <3>1, SizingConstants
    <3> QED
      BY <3>1, <3>2
  <2>6. OrderMin <= whole
    BY <1>4, <2>4, <2>5
  <2>7. OrderMin <= fit
    BY <1>5, <2>3, <2>5
  <2> QED
    BY <1>4, <1>5, <1>6, <1>7, <2>6, <2>7, SizingConstants
<1>10. \A v \in Nat : /\ v * (S * p) = (Hundred * (v * p)) * Whole
                     /\ Hundred * (v * p) \in Int /\ v * (S * p) \in Int
  BY <1>1, <1>3, SizingConstants
<1>11. ASSUME NEW v \in Nat
       PROVE  /\ v * (S * p) <= n => Hundred * (v * p) <= D
              /\ n < v * (S * p) => D < Hundred * (v * p)
  <2> DEFINE x == Hundred * (v * p)
  <2>1. v * (S * p) = x * Whole /\ x \in Int
    BY <1>10
  <2> HIDE DEF x
  <2>2. (x * Whole <= D * Whole => x <= D) /\ (D * Whole < x * Whole => D < x)
    BY <1>1, <2>1, Products
  <2> QED
    BY <1>1, <2>1, <2>2 DEF x
<1>12. fit + VolumeStep \in Nat /\ whole + VolumeStep \in Nat
  BY <1>4, <1>5, SizingConstants
<1>13. Hundred * (fit * p) <= D /\ D < Hundred * ((fit + VolumeStep) * p)
  <2>1. Hundred * (fit * p) <= D
    <3>1. fit * (S * p) <= n => Hundred * (fit * p) <= D
      BY <1>5, <1>11
    <3> QED
      BY <1>5, <3>1
  <2>2. D < Hundred * ((fit + VolumeStep) * p)
    <3> DEFINE w == fit + VolumeStep
    <3>1. w \in Nat /\ n < w * (S * p)
      BY <1>5, <1>12
    <3> HIDE DEF w
    <3>2. n < w * (S * p) => D < Hundred * (w * p)
      BY <1>11, <3>1
    <3> QED
      BY <3>1, <3>2 DEF w
  <2> QED
    BY <2>1, <2>2
<1>14. D < Hundred * ((whole + VolumeStep) * p)
  <2>1. c * (S * p) < (whole + VolumeStep) * (S * p)
    <3>1. (c + 1) * (S * p) <= (whole + VolumeStep) * (S * p)
      <4>1. c + 1 <= whole + VolumeStep /\ c + 1 \in Int
        BY <1>1, <1>4, <1>12
      <4> QED
        BY <1>3, <1>12, <4>1, Products
    <3>2. (c + 1) * (S * p) = (c * (S * p)) + (S * p)
      BY <1>1, <1>3
    <3> QED
      BY <1>1, <1>3, <1>10, <1>12, <3>1, <3>2
  <2>2. n < (whole + VolumeStep) * (S * p)
    BY <1>1, <1>2, <1>10, <1>12, <2>1
  <2> DEFINE w == whole + VolumeStep
  <2>3. w \in Nat /\ n < w * (S * p)
    BY <1>12, <2>2
  <2> HIDE DEF w
  <2>4. n < w * (S * p) => D < Hundred * (w * p)
    BY <1>11, <2>3
  <2> QED
    BY <2>3, <2>4 DEF w
<1>15. ASSUME NEW v \in Nat, v <= c, account.targets[a] = 0 PROVE Hundred * (v * p) <= D
  <2>1. v * p <= c * p /\ v * p \in Nat /\ c * p \in Nat
    BY <1>1, <1>15, Products
  <2>2. (v * p) * Hundred <= (c * p) * Hundred
    BY <2>1, SizingConstants, Products
  <2>3. D = (c * p) * Hundred /\ Hundred * (v * p) = (v * p) * Hundred
    BY <1>1, <1>15, <2>1, SizingConstants
  <2> QED
    BY <2>2, <2>3
<1>16. ASSUME NEW v \in Nat, v <= fit PROVE Hundred * (v * p) <= D
  <2>1. v * (S * p) <= fit * (S * p)
    BY <1>3, <1>5, <1>16, Products
  <2>2. v * (S * p) <= n
    BY <1>1, <1>5, <1>10, <2>1
  <2>3. v * (S * p) <= n => Hundred * (v * p) <= D
    BY <1>11
  <2> QED
    BY <2>2, <2>3
<1>17. /\ Hundred * (Sizing!Sold(a) * p) <= D
       /\ D < Hundred * ((Sizing!Sold(a) + VolumeStep) * p)
  <2>1. CASE account.targets[a] = 0
    BY <1>4, <1>6, <1>14, <1>15, <2>1
  <2>2. CASE account.targets[a] # 0 /\ fit <= whole
    BY <1>6, <1>7, <1>13, <2>2
  <2>3. CASE account.targets[a] # 0 /\ ~(fit <= whole)
    <3>1. whole <= fit /\ Sizing!Sold(a) = whole
      BY <1>4, <1>5, <1>6, <1>7, <2>3
    <3> QED
      BY <1>4, <1>14, <1>16, <3>1
  <2> QED
    BY <2>1, <2>2, <2>3
<1>18. MeetsTarget(a, Sizing!Sold(a))
  BY <1>17 DEF MeetsTarget, D, p
<1> QED
  BY <1>8, <1>9, <1>18 DEF n, S, p, c

\* The plan of one asset.
LEMMA PlannedLeg ==
  ASSUME account \in Accounts, Priced, NEW a \in Assets, Sizing!amount_fiat(a) # 0
  PROVE  LET l == Sizing!PlannedLeg(a)
         IN  /\ LegInv(l) /\ l.asset = a
             /\ l.side = IF Sizing!amount_fiat(a) > 0 THEN "buy" ELSE "sell"
             /\ l.volume <= Sizing!amount_of(a)
<1> DEFINE x == Sizing!amount_fiat(a)
           p == account.prices[a]
           trades == a \in account.tradable
           side == IF x > 0 THEN "buy" ELSE "sell"
           amount == Sizing!round_cost(Sizing!Abs(x), Sizing!Scale)
           minimum == Sizing!Max({Sizing!minimum_fiat(p), account.floor})
           sold == IF side = "sell" /\ trades THEN Sizing!Sold(a) ELSE 0
           l == [asset |-> a, side |-> side, amount |-> amount,
                 minimum |-> IF trades THEN minimum ELSE 0,
                 note |-> ~trades \/ amount < minimum, volume |-> sold]
<1>1. Sizing!PlannedLeg(a) = l
  BY DEF Sizing!PlannedLeg
<1>2. /\ x \in Int /\ x # 0 /\ p \in Nat /\ Sizing!amount_of(a) \in Nat /\ account.floor \in Nat
      /\ Sizing!Scale \in Nat \ {0} /\ Sizing!delta(a) \in Int
      /\ Whole \in Nat \ {0} /\ Sizing!Scale = Hundred * Whole
      /\ x > 0 /\ account.policy # "prorata" => x <= Sizing!delta(a) * Whole
  BY Allotted, Valuation, AccountType
<1>3. amount \in Nat /\ amount * Sizing!Scale <= Sizing!Abs(x) /\ Sizing!Abs(x) \in Nat
  <2>1. Sizing!Abs(x) \in Nat
    BY <1>2 DEF Sizing!Abs
  <2>2. Sizing!Abs(x) \in Int /\ Sizing!Abs(x) >= 0
    BY <2>1
  <2> QED
    BY <1>2, <2>1, <2>2, SizingConstants, RoundedDown DEF Sizing!round_cost
<1>4. minimum \in Nat /\ minimum >= CostMin /\ minimum >= OrderMin * p /\ minimum >= account.floor
  <2>1. OrderMin * p \in Nat
    BY <1>2, SizingConstants, Products
  <2>2. /\ Sizing!minimum_fiat(p) \in Nat /\ Sizing!minimum_fiat(p) >= CostMin
        /\ Sizing!minimum_fiat(p) >= OrderMin * p
    BY <2>1, SizingConstants, OfTwo DEF Sizing!minimum_fiat
  <2> QED
    BY <1>2, <2>1, <2>2, SizingConstants, OfTwo
<1>5. side \in {"buy", "sell"} /\ (side = "sell" <=> x < 0) /\ (side = "buy" <=> x > 0)
  BY <1>2
<1>6. sold \in Nat /\ sold <= Sizing!amount_of(a)
  BY <1>2, <1>5, SoldVolume
<1>7. ASSUME trades, ~(amount < minimum), side = "sell"
      PROVE  /\ sold >= OrderMin /\ MeetsTarget(a, sold)
             /\ amount < (sold + VolumeStep) * p
  <2>1. x < 0 /\ Sizing!Abs(x) = -x
    BY <1>2, <1>5, <1>7 DEF Sizing!Abs
  <2>2. OrderMin * p \in Int /\ OrderMin * p <= amount
    BY <1>2, <1>3, <1>4, <1>7, SizingConstants
  <2>3. Sizing!Sold(a) >= OrderMin /\ MeetsTarget(a, Sizing!Sold(a))
    BY <2>1, <2>2, SoldVolume
  <2>4. sold = Sizing!Sold(a) /\ x = Sizing!delta(a) * Whole
    BY <1>7, <2>1, Allotted
  <2>5. -Sizing!delta(a) < Hundred * ((sold + VolumeStep) * p)
    BY <2>3, <2>4 DEF MeetsTarget
  <2> DEFINE D == -Sizing!delta(a)
             v == (sold + VolumeStep) * p
  <2>6. amount * Sizing!Scale <= -x /\ -x = D * Whole /\ D \in Int
    BY <1>2, <1>3, <2>1, <2>4
  <2>7. v \in Int
    BY <1>2, <1>6, SizingConstants, Products
  <2> HIDE DEF amount, x, v, D
  <2>8. (Hundred * amount) * Whole = amount * Sizing!Scale
    BY <1>2, <1>3, SizingConstants
  <2>9. (Hundred * amount) * Whole \in Int /\ D * Whole \in Int /\ Hundred * amount \in Int
    BY <1>2, <1>3, <2>6, SizingConstants
  <2>10. Hundred * amount <= D
    <3>1. (Hundred * amount) * Whole <= D * Whole
      BY <2>6, <2>8, <2>9
    <3> QED
      BY <1>2, <2>6, <2>9, <3>1, Products
  <2>11. Hundred * amount < Hundred * v
    BY <2>5, <2>6, <2>7, <2>9, <2>10, SizingConstants DEF D, v
  <2>12. amount < v
    BY <1>3, <2>7, <2>11, SizingConstants, Products
  <2> QED
    BY <2>3, <2>4, <2>12 DEF v
<1>8. ASSUME side = "buy", account.policy # "prorata" PROVE Hundred * amount <= Sizing!delta(a)
  <2>1. x <= Sizing!delta(a) * Whole /\ Sizing!Abs(x) = x
    BY <1>2, <1>5, <1>8 DEF Sizing!Abs
  <2> HIDE DEF amount, x
  <2>2. (Hundred * amount) * Whole = amount * Sizing!Scale
    BY <1>2, <1>3, SizingConstants
  <2>3. /\ (Hundred * amount) * Whole \in Int /\ Sizing!delta(a) * Whole \in Int
        /\ Hundred * amount \in Int
    BY <1>2, <1>3, SizingConstants
  <2>4. (Hundred * amount) * Whole <= Sizing!delta(a) * Whole
    BY <1>2, <1>3, <2>1, <2>2, <2>3
  <2> QED
    BY <1>2, <2>3, <2>4, Products
<1> HIDE DEF x, p, side, amount, minimum, sold
<1>9. /\ l.asset = a /\ l.side = side /\ l.amount = amount /\ l.volume = sold
      /\ l.minimum = (IF trades THEN minimum ELSE 0) /\ l.note = (~trades \/ amount < minimum)
  OBVIOUS
<1>10. l \in Sizing!Leg
  BY <1>3, <1>4, <1>5, <1>6 DEF Sizing!Leg, Assets
<1> HIDE DEF l
<1>11. LegInv(l)
  <2> SUFFICES ASSUME ~l.note
               PROVE  /\ p \in Nat /\ l.amount >= l.minimum
                      /\ l.minimum >= CostMin /\ l.minimum >= OrderMin * p
                      /\ l.minimum >= account.floor
                      /\ l.side = "sell" => /\ l.volume >= OrderMin /\ MeetsTarget(a, l.volume)
                                            /\ l.amount < (l.volume + VolumeStep) * p
                      /\ l.side = "buy" /\ account.policy # "prorata" =>
                           Hundred * l.amount <= Sizing!delta(a)
    BY <1>9, <1>10 DEF LegInv, p
  <2>1. trades /\ ~(amount < minimum) /\ l.minimum = minimum
    BY <1>9
  <2>2. amount >= minimum
    BY <1>3, <1>4, <2>1
  <2> HIDE DEF trades
  <2>3. l.side = "sell" => /\ l.volume >= OrderMin /\ MeetsTarget(a, l.volume)
                           /\ l.amount < (l.volume + VolumeStep) * p
    BY <1>7, <1>9, <2>1
  <2>4. l.side = "buy" /\ account.policy # "prorata" => Hundred * l.amount <= Sizing!delta(a)
    BY <1>8, <1>9
  <2> QED
    BY <1>2, <1>4, <1>9, <2>1, <2>2, <2>3, <2>4
<1> QED
  BY <1>1, <1>6, <1>9, <1>11 DEF side, x
-----------------------------------------------------------------------------
(***************************************************************************)
(* The invariant.                                                          *)
(***************************************************************************)
\* What the legs of a set that will be sent ask for.
AskedOf(legs) == SumFunctionOnSet([l \in Sizing!Sendable(legs) |-> l.amount], Sizing!Sendable(legs))

\* Before the plan nothing has moved; and there is no plan without every price.
ReadInv ==
  /\ pc = "read" => /\ sells = {} /\ buys = {} /\ sent = {} /\ cash = account.cash
                    /\ held = [a \in Assets |-> Sizing!amount_of(a)]
  /\ pc \in {"sells", "buys"} => Priced

\* What is still to be sold is there; an asset has one leg.
HeldInv ==
  /\ \A a \in Assets : held[a] >= 0
  /\ \A l \in sells : l.volume <= held[l.asset]
  /\ \A k, l \in sells : k.asset = l.asset => k = l
  /\ pc = "sells" => \A k, l \in buys : k.asset = l.asset => k = l

\* The cash covers its target and what the buys may still spend: the budget while
\* the sells are sent, and what the buys ask for once they are shrunk to it.
MoneyInv ==
  Priced =>
    /\ CashFloor <= Hundred * cash
    /\ pc = "sells" => CashFloor <= (Hundred * cash) - budget
    /\ pc = "buys" => CashFloor <= (Hundred * cash) - (Hundred * AskedOf(buys))

SizingInv ==
  /\ Sizing!TypeOK /\ account \in Accounts
  /\ IsFiniteSet(sells) /\ IsFiniteSet(buys)
  /\ \A l \in sells \cup buys \cup sent : LegInv(l)
  /\ \A l \in sent : ~l.note
  /\ ReadInv /\ HeldInv /\ MoneyInv

LEMMA FloorType ==
  ASSUME account \in Accounts, Priced
  PROVE  /\ CashFloor \in Int /\ CashFloor <= Hundred * account.cash
         /\ CashFloor <= (Hundred * account.cash) - Sizing!investable_cash
<1> DEFINE x == Hundred * account.cash
           y == Sizing!managed_value * Sizing!cash_target_pct
<1>1. x \in Int /\ y \in Int
  BY AccountType, Valuation, SizingConstants, Products
<1>2. Sizing!investable_cash = Sizing!AtLeastZero(x - y)
  BY DEF Sizing!investable_cash
<1> HIDE DEF x, y
<1>3. Sizing!Min({x, y}) = IF x <= y THEN x ELSE y
  BY <1>1, OfTwo
<1>4. CashFloor = Sizing!Min({x, y})
  BY DEF CashFloor, x, y
<1>5. CashFloor \in Int /\ CashFloor <= x /\ CashFloor <= x - Sizing!investable_cash
  BY <1>1, <1>2, <1>3, <1>4 DEF Sizing!AtLeastZero
<1> QED
  BY <1>5 DEF x

\* The settings and the reading of an evaluation do not change while it runs.
LEMMA AccountStays ==
  ASSUME account' = account
  PROVE  /\ Priced' = Priced /\ CashFloor' = CashFloor
         /\ \A l : LegInv(l)' = LegInv(l)
         /\ \A a : Sizing!amount_of(a)' = Sizing!amount_of(a)
<1>1. /\ Sizing!managed_value' = Sizing!managed_value
      /\ Sizing!cash_target_pct' = Sizing!cash_target_pct
      /\ \A a : Sizing!delta(a)' = Sizing!delta(a)
      /\ \A a : Sizing!amount_of(a)' = Sizing!amount_of(a)
  BY DEF Sizing!managed_value, Sizing!cash_target_pct, Sizing!total_pct, Sizing!delta,
     Sizing!asset_value, Sizing!amount_of, Sizing!tradable_amount, Sizing!Sum
<1>2. Priced' = Priced /\ CashFloor' = CashFloor
  BY <1>1 DEF Priced, CashFloor
<1>3. \A l : LegInv(l)' = LegInv(l)
  BY <1>1 DEF LegInv, MeetsTarget
<1> QED
  BY <1>1, <1>2, <1>3

\* The next leg is one of the legs.
LEMMA FirstLeg ==
  ASSUME NEW legs, legs # {}, \A l \in legs : l \in Sizing!Leg
  PROVE  Sizing!First(legs) \in legs
<1> DEFINE f == [l \in legs |-> l.asset]
<1>1. f \in [legs -> Nat]
  BY SizingConstants DEF Sizing!Leg, Assets
<1>2. \E l \in legs : \A k \in legs : f[l] <= f[k]
  BY <1>1, LeastRank
<1>3. \E l \in legs : \A k \in legs : l.asset <= k.asset
  BY <1>2
<1> QED
  BY <1>3 DEF Sizing!First

\* A leg that will be sent asks for something.
LEMMA LegAsks ==
  ASSUME NEW l, LegInv(l), ~l.note
  PROVE  l.amount \in Nat \ {0} /\ l.minimum \in Nat \ {0} /\ l.asset \in Assets
BY SizingConstants DEF LegInv, Sizing!Leg, Assets

\* What a set of legs asks for, and without one of them.
LEMMA AskedWithout ==
  ASSUME NEW legs, IsFiniteSet(legs), \A l \in legs : LegInv(l)
  PROVE  /\ AskedOf(legs) \in Nat
         /\ \A l \in legs : /\ AskedOf(legs \ {l}) \in Nat
                            /\ AskedOf(legs \ {l}) <= AskedOf(legs)
                            /\ ~l.note => AskedOf(legs) = l.amount + AskedOf(legs \ {l})
<1>1. ASSUME NEW S \in SUBSET legs
      PROVE  IsFiniteSet(Sizing!Sendable(S)) /\ AskedOf(S) \in Nat
  <2> DEFINE R == Sizing!Sendable(S)
             f == [l \in R |-> l.amount]
  <2>1. IsFiniteSet(R) /\ \A l \in R : f[l] \in Nat /\ f[l] \in Int
    <3>1. R \subseteq legs /\ \A l \in R : LegInv(l) /\ ~l.note
      BY DEF Sizing!Sendable
    <3> QED
      BY <3>1, FS_Subset, LegAsks
  <2>2. AskedOf(S) = SumFunctionOnSet(f, R)
    BY DEF AskedOf
  <2> HIDE DEF R, f
  <2>3. SumFunctionOnSet(f, R) \in Nat
    BY <2>1, SumIsAnInteger
  <2> QED
    BY <2>1, <2>2, <2>3 DEF R
<1>2. ASSUME NEW l \in legs, l.note PROVE AskedOf(legs \ {l}) = AskedOf(legs)
  <2>1. Sizing!Sendable(legs \ {l}) = Sizing!Sendable(legs)
    BY <1>2 DEF Sizing!Sendable
  <2> QED
    BY <2>1 DEF AskedOf
<1>3. ASSUME NEW l \in legs, ~l.note PROVE AskedOf(legs) = l.amount + AskedOf(legs \ {l})
  <2> DEFINE R == Sizing!Sendable(legs)
             Q == Sizing!Sendable(legs \ {l})
             f == [j \in R |-> j.amount]
             g == [j \in Q |-> j.amount]
  <2>1. Q = R \ {l} /\ l \in R
    BY <1>3 DEF Sizing!Sendable
  <2>2. IsFiniteSet(R) /\ \A j \in R : f[j] \in Int
    <3>1. \A j \in R : LegInv(j) /\ ~j.note
      BY DEF Sizing!Sendable
    <3>2. IsFiniteSet(R)
      BY <1>1
    <3> QED
      BY <3>1, <3>2, LegAsks
  <2>3. f[l] = l.amount /\ \A j \in Q : f[j] = g[j]
    BY <2>1
  <2>4. AskedOf(legs) = SumFunctionOnSet(f, R) /\ AskedOf(legs \ {l}) = SumFunctionOnSet(g, Q)
    BY DEF AskedOf
  <2> HIDE DEF R, Q, f, g
  <2>5. SumFunctionOnSet(f, R) = f[l] + SumFunctionOnSet(f, Q)
    BY <2>1, <2>2, SumOfOne
  <2>6. IsFiniteSet(Q) /\ \A j \in Q : f[j] \in Int
    BY <2>1, <2>2, FS_Subset
  <2>7. SumFunctionOnSet(f, Q) = SumFunctionOnSet(g, Q)
    BY <2>3, <2>6, SumOfTheSame
  <2> QED
    BY <2>3, <2>4, <2>5, <2>7
<1>4. ASSUME NEW l \in legs
      PROVE  AskedOf(legs \ {l}) \in Nat /\ AskedOf(legs \ {l}) <= AskedOf(legs)
  <2>1. AskedOf(legs \ {l}) \in Nat /\ AskedOf(legs) \in Nat
    BY <1>1
  <2>2. ~l.note => l.amount \in Nat
    BY LegAsks
  <2> QED
    BY <1>2, <1>3, <2>1, <2>2
<1> QED
  BY <1>1, <1>3, <1>4
-----------------------------------------------------------------------------
(***************************************************************************)
(* The steps.                                                              *)
(***************************************************************************)
LEMMA SizingInit ==
  ASSUME Sizing!Init
  PROVE  SizingInv
<1>1. account \in Accounts
  BY DEF Sizing!Init
<1>2. held = [a \in Assets |-> Sizing!amount_of(a)]
  <2>1. held = [a \in Assets |-> account.balances[a].spot + account.balances[a].rewards]
    BY DEF Sizing!Init, Assets
  <2> QED
    BY <1>1, <2>1, AccountType
<1>3. held \in [Assets -> Int] /\ \A a \in Assets : held[a] >= 0
  BY <1>1, <1>2, AccountType
<1>4. cash \in Int /\ cash = account.cash
  BY <1>1, AccountType DEF Sizing!Init
<1>5. Sizing!TypeOK
  <2>1. account \in Sizing!Account
    BY <1>1, AccountType
  <2>2. stopped \in BOOLEAN
    BY DEF Sizing!Init
  <2> QED
    BY <1>3, <1>4, <2>1, <2>2 DEF Sizing!Init, Sizing!TypeOK, Assets
<1>6. IsFiniteSet({})
  BY FS_EmptySet
<1>7. MoneyInv
  BY <1>1, <1>4, FloorType DEF MoneyInv, Sizing!Init
<1> QED
  BY <1>1, <1>2, <1>3, <1>4, <1>5, <1>6, <1>7 DEF Sizing!Init, SizingInv, ReadInv, HeldInv

\* The plan: the sells are held, each once, and the budget is the free cash.
LEMMA PlanStep ==
  ASSUME SizingInv, Sizing!_plan
  PROVE  SizingInv'
<1> DEFINE D == {b \in Assets : Sizing!amount_fiat(b) # 0}
           f == [a \in D |-> Sizing!PlannedLeg(a)]
           legs == ImageOf(f, D)
<1>1. /\ account \in Accounts /\ Priced /\ account' = account /\ held' = held /\ cash' = cash
      /\ sent' = sent /\ stopped' = stopped /\ pc = "read" /\ pc' = "sells"
      /\ budget' = Sizing!investable_cash
      /\ sells' = {l \in legs : l.side = "sell"} /\ buys' = {l \in legs : l.side = "buy"}
  BY DEF SizingInv, Sizing!_plan, Priced, Assets, ImageOf
<1>2. /\ sent = {} /\ cash = account.cash /\ held = [a \in Assets |-> Sizing!amount_of(a)]
  BY <1>1 DEF SizingInv, ReadInv
<1>3. \A a \in D : LegInv(f[a]) /\ f[a].asset = a /\ f[a].volume <= held[a] /\ f[a] \in Sizing!Leg
  BY <1>1, <1>2, PlannedLeg DEF LegInv
<1>4. IsFiniteSet(D)
  BY SizingConstants, FS_Subset
<1> HIDE DEF f, D
<1>5. IsFiniteSet(legs)
  BY <1>4, ImageIsFinite
<1>6. /\ \A l \in legs : LegInv(l) /\ l \in Sizing!Leg /\ l.volume <= held[l.asset]
      /\ \A k, l \in legs : k.asset = l.asset => k = l
  BY <1>3 DEF ImageOf
<1> HIDE DEF legs
<1>7. IsFiniteSet(sells') /\ IsFiniteSet(buys')
  BY <1>1, <1>5, FS_Subset
<1>8. \A l \in sells' \cup buys' \cup sent' : LegInv(l)'
  BY <1>1, <1>2, <1>6, AccountStays
<1>9. Sizing!TypeOK'
  <2>1. budget' \in Int
    BY <1>1, Valuation
  <2>2. \A l \in sells' \cup buys' \cup sent' : l \in Sizing!Leg
    BY <1>1, <1>2, <1>6
  <2> QED
    BY <1>1, <2>1, <2>2 DEF SizingInv, Sizing!TypeOK
<1>10. HeldInv'
  <2>1. \A a \in Assets : held'[a] >= 0
    BY <1>1 DEF SizingInv, HeldInv
  <2>2. \A l \in sells' : l.volume <= held'[l.asset]
    BY <1>1, <1>6
  <2>3. /\ \A k, l \in sells' : k.asset = l.asset => k = l
        /\ \A k, l \in buys' : k.asset = l.asset => k = l
    BY <1>1, <1>6
  <2> QED
    BY <2>1, <2>2, <2>3 DEF HeldInv
<1>11. MoneyInv'
  <2>1. CashFloor' = CashFloor
    BY <1>1, AccountStays
  <2>2. CashFloor <= Hundred * cash' /\ CashFloor <= (Hundred * cash') - budget'
    BY <1>1, <1>2, FloorType
  <2> QED
    BY <1>1, <2>1, <2>2 DEF MoneyInv
<1> QED
  BY <1>1, <1>7, <1>8, <1>9, <1>10, <1>11, AccountStays DEF SizingInv, ReadInv

\* A sell that is over, skipped or sent: what is left is as before.
LEMMA SellLeaves ==
  ASSUME SizingInv, pc = "sells", sells # {}
  PROVE  LET l == Sizing!First(sells)
         IN  /\ l \in sells /\ LegInv(l) /\ l \in Sizing!Leg /\ l.asset \in Assets
             /\ l.volume \in Nat /\ l.volume <= held[l.asset]
             /\ IsFiniteSet(sells \ {l})
             /\ \A k \in sells \ {l} : k.asset # l.asset
<1> DEFINE l == Sizing!First(sells)
<1>1. \A k \in sells : k \in Sizing!Leg
  BY DEF SizingInv, Sizing!TypeOK
<1>2. l \in sells
  BY <1>1, FirstLeg
<1> HIDE DEF l
<1>3. LegInv(l) /\ l \in Sizing!Leg /\ l.asset \in Assets /\ l.volume \in Nat
  BY <1>1, <1>2 DEF SizingInv, Sizing!Leg, Assets
<1>4. IsFiniteSet(sells \ {l})
  BY FS_RemoveElement DEF SizingInv
<1>5. l.volume <= held[l.asset] /\ \A k \in sells \ {l} : k.asset # l.asset
  BY <1>2 DEF SizingInv, HeldInv
<1> QED
  BY <1>2, <1>3, <1>4, <1>5 DEF l

LEMMA SkipSellStep ==
  ASSUME SizingInv, Sizing!SkipSell \/ Sizing!SellNotExecuted
  PROVE  SizingInv'
<1> DEFINE l == Sizing!First(sells)
<1>1. /\ account' = account /\ held' = held /\ cash' = cash /\ budget' = budget /\ buys' = buys
      /\ pc = "sells" /\ pc' = "sells" /\ sells # {} /\ sells' = sells \ {l}
      /\ sent' = sent \/ (~l.note /\ sent' = sent \cup {l})
      /\ stopped' \in BOOLEAN
  BY DEF SizingInv, Sizing!TypeOK, Sizing!SkipSell, Sizing!SellNotExecuted, Sizing!SendSell
<1>2. l \in sells /\ LegInv(l) /\ l \in Sizing!Leg /\ IsFiniteSet(sells \ {l})
  BY <1>1, SellLeaves
<1> HIDE DEF l
<1>3. \A k \in sells' \cup buys' \cup sent' : LegInv(k)'
  BY <1>1, <1>2, AccountStays DEF SizingInv
<1>4. Sizing!TypeOK'
  BY <1>1, <1>2 DEF SizingInv, Sizing!TypeOK
<1>5. HeldInv'
  BY <1>1 DEF SizingInv, HeldInv
<1>6. MoneyInv'
  BY <1>1, AccountStays DEF SizingInv, MoneyInv
<1> QED
  BY <1>1, <1>2, <1>3, <1>4, <1>5, <1>6, AccountStays DEF SizingInv, ReadInv

\* What Kraken's ledger adds is no less than what the budget is given.
LEMMA Credited ==
  ASSUME NEW cost \in Nat, NEW fee \in Nat,
         NEW gain \in Sizing!Entries(cost), NEW charge \in Sizing!Entries(fee)
  PROVE  /\ gain \in Nat /\ charge \in Nat /\ Sizing!credited(cost, fee) \in Int
         /\ Sizing!credited(cost, fee) <= gain - charge
<1> DEFINE down(n) == Sizing!RoundDown(n, 1, FiatStep)
           up(n) == Sizing!RoundUp(n, FiatStep)
<1>1. ASSUME NEW n \in Nat PROVE down(n) \in Nat /\ up(n) \in Nat /\ down(n) <= up(n)
  <2>1. n \in Int /\ n >= 0 /\ 1 \in Nat \ {0} /\ FiatStep \in Nat \ {0}
    BY SizingConstants
  <2>2. down(n) \in Nat /\ down(n) * 1 <= n
    BY <2>1, RoundedDown
  <2>3. up(n) \in Nat /\ n <= up(n)
    BY <2>1, RoundedUp
  <2> HIDE DEF down, up
  <2> QED
    BY <2>2, <2>3
<1>2. /\ gain \in {down(cost), up(cost)} /\ charge \in {down(fee), up(fee)}
      /\ Sizing!credited(cost, fee) = down(cost) - up(fee)
  BY DEF Sizing!Entries, Sizing!credited
<1> HIDE DEF down, up
<1> QED
  BY <1>1, <1>2

LEMMA SellExecutedStep ==
  ASSUME SizingInv, Sizing!SellExecuted
  PROVE  SizingInv'
<1> DEFINE l == Sizing!First(sells)
           a == l.asset
<1>1. /\ account' = account /\ buys' = buys /\ pc = "sells" /\ pc' = "sells" /\ sells # {}
      /\ sells' = sells \ {l} /\ ~l.note /\ sent' = sent \cup {l}
  BY DEF Sizing!SellExecuted, Sizing!SendSell
<1>2. PICK volume \in {l.volume, VolumeStep}, move \in Moves, fee \in Fees :
        LET cost == Sizing!round_cost(volume * (account.prices[a] + move), 1)
        IN  /\ volume <= l.volume /\ fee <= cost
            /\ held' = [held EXCEPT ![a] = @ - volume]
            /\ \E gain \in Sizing!Entries(cost), charge \in Sizing!Entries(fee) :
                 gain >= charge /\ cash' = cash + gain - charge
            /\ \/ budget' = budget + Hundred * Sizing!credited(cost, fee) /\ stopped' = stopped
               \/ budget' = budget /\ stopped' \in BOOLEAN
  BY DEF Sizing!SellExecuted
<1> DEFINE cost == Sizing!round_cost(volume * (account.prices[a] + move), 1)
<1>3. /\ l \in sells /\ LegInv(l) /\ l \in Sizing!Leg /\ a \in Assets /\ l.volume \in Nat
      /\ l.volume <= held[a] /\ IsFiniteSet(sells \ {l})
      /\ \A k \in sells \ {l} : k.asset # a
  BY <1>1, SellLeaves
<1>4. volume \in Nat /\ held \in [Assets -> Int] /\ budget \in Int /\ cash \in Int
  BY <1>3, SizingConstants DEF SizingInv, Sizing!TypeOK, Assets
<1>5. cost \in Nat /\ fee \in Nat
  <2>1. account.prices[a] \in Nat /\ move \in Int /\ fee \in Nat
    BY <1>1, <1>3, SizingConstants DEF LegInv
  <2>2. volume * (account.prices[a] + move) \in Int
    BY <1>4, <2>1
  <2>3. cost \in Int
    <3> DEFINE n == volume * (account.prices[a] + move)
    <3>1. n \in Int /\ CostStep \in Nat \ {0} /\ 1 \in Nat \ {0}
      BY <2>2, SizingConstants
    <3> HIDE DEF n
    <3>2. Sizing!RoundDown(n, 1, CostStep) \in Int
      BY <3>1, RoundedDown
    <3> QED
      BY <3>2 DEF n, Sizing!round_cost
  <2> QED
    BY <1>2, <2>1, <2>3
<1> HIDE DEF cost
<1>6. /\ volume <= l.volume /\ held' = [held EXCEPT ![a] = @ - volume]
      /\ \E gain \in Sizing!Entries(cost), charge \in Sizing!Entries(fee) :
           gain >= charge /\ cash' = cash + gain - charge
      /\ \/ budget' = budget + Hundred * Sizing!credited(cost, fee) /\ stopped' = stopped
         \/ budget' = budget /\ stopped' \in BOOLEAN
  BY <1>2 DEF cost
<1>7. PICK gain \in Sizing!Entries(cost), charge \in Sizing!Entries(fee) :
        gain >= charge /\ cash' = cash + gain - charge
  BY <1>6
<1> DEFINE new == Sizing!credited(cost, fee)
<1>8. gain \in Nat /\ charge \in Nat /\ new \in Int /\ new <= gain - charge
  BY <1>5, Credited
<1> HIDE DEF new
<1>9. /\ cash' \in Int /\ cash' >= cash /\ budget' \in Int /\ stopped' \in BOOLEAN
      /\ budget' - budget <= Hundred * (cash' - cash)
  <2>0. cash' \in Int /\ cash' - cash = gain - charge /\ gain >= charge
    BY <1>4, <1>7, <1>8
  <2>1. CASE budget' = budget + Hundred * new /\ stopped' = stopped
    <3>1. Hundred * new <= Hundred * (cash' - cash)
      <4> DEFINE gap == cash' - cash
      <4>0. gap = gain - charge
        BY <2>0
      <4>1. gap \in Int /\ new \in Int /\ new <= gap
        <5> HIDE DEF gap
        <5> QED
          BY <1>8, <4>0
      <4>2. Hundred \in Nat
        BY SizingConstants
      <4> HIDE DEF gap
      <4>3. new * Hundred <= gap * Hundred
        BY <4>1, <4>2, Products
      <4>4. new * Hundred = Hundred * new /\ gap * Hundred = Hundred * gap
        BY <4>1, <4>2
      <4> QED
        BY <4>3, <4>4 DEF gap
    <3>2. Hundred * new \in Int
      BY <1>8, SizingConstants
    <3> QED
      BY <1>4, <1>7, <1>8, <2>0, <2>1, <3>1, <3>2 DEF SizingInv, Sizing!TypeOK
  <2>2. CASE budget' = budget /\ stopped' \in BOOLEAN
    BY <1>4, <1>7, <1>8, <2>0, <2>2, SizingConstants
  <2> QED
    BY <1>6, <2>1, <2>2 DEF new
<1> HIDE DEF l
<1>10. \A k \in sells' \cup buys' \cup sent' : LegInv(k)'
  BY <1>1, <1>3, AccountStays DEF SizingInv
<1>11. held' \in [Assets -> Int] /\ \A b \in Assets : held'[b] = IF b = a THEN held[a] - volume ELSE held[b]
  BY <1>3, <1>4, <1>6
<1>12. Sizing!TypeOK'
  BY <1>1, <1>3, <1>9, <1>11 DEF SizingInv, Sizing!TypeOK, Assets
<1>13. HeldInv'
  <2>1. \A b \in Assets : held'[b] >= 0
    BY <1>3, <1>4, <1>6, <1>11 DEF SizingInv, HeldInv
  <2>2. \A k \in sells' : k.asset \in Assets /\ k.asset # a
    BY <1>1, <1>3 DEF SizingInv, Sizing!TypeOK, Sizing!Leg, Assets
  <2>3. \A k \in sells' : k.volume <= held'[k.asset]
    BY <1>1, <1>11, <2>2 DEF SizingInv, HeldInv
  <2>4. /\ \A j, k \in sells' : j.asset = k.asset => j = k
        /\ \A j, k \in buys' : j.asset = k.asset => j = k
    BY <1>1 DEF SizingInv, HeldInv
  <2> QED
    BY <2>1, <2>3, <2>4 DEF HeldInv
<1>14. MoneyInv'
  <2> SUFFICES ASSUME Priced
               PROVE  CashFloor <= Hundred * cash' /\ CashFloor <= (Hundred * cash') - budget'
    BY <1>1, AccountStays DEF MoneyInv
  <2>1. /\ CashFloor \in Int /\ CashFloor <= Hundred * cash
        /\ CashFloor <= (Hundred * cash) - budget
    BY <1>1, FloorType DEF SizingInv, MoneyInv
  <2>2. Hundred \in Nat \ {0}
    BY SizingConstants
  <2>3. /\ Hundred * cash \in Int /\ Hundred * cash' \in Int
        /\ Hundred * (cash' - cash) = (Hundred * cash') - (Hundred * cash)
    BY <1>4, <1>9, <2>2
  <2>4. Hundred * (cash' - cash) \in Nat
    <3> DEFINE old == cash
               next == cash'
    <3>1. old \in Int /\ next \in Int /\ next >= old
      BY <1>4, <1>9
    <3> HIDE DEF old, next
    <3>2. next - old \in Nat
      BY <3>1
    <3>3. Hundred * (next - old) \in Nat
      BY <2>2, <3>2, Products
    <3> QED
      BY <3>3 DEF old, next
  <2> QED
    BY <1>4, <1>9, <2>1, <2>3, <2>4
<1> QED
  BY <1>1, <1>3, <1>10, <1>12, <1>13, <1>14, AccountStays DEF SizingInv, ReadInv

\* What the buys ask for, as _within counts it.
LEMMA AskedByBuys ==
  ASSUME SizingInv
  PROVE  Sizing!asked = AskedOf(buys) /\ Sizing!asked \in Nat
<1>1. Sizing!asked = AskedOf(buys)
  BY SizingSums DEF Sizing!asked, Sizing!Sum, AskedOf
<1>2. AskedOf(buys) \in Nat
  BY AskedWithout DEF SizingInv
<1> QED
  BY <1>1, <1>2

\* A shrunk buy: smaller than it was, within its share of the budget and less than
\* two steps below it, and nothing when there is no budget.
LEMMA ShrunkLeg ==
  ASSUME NEW l, LegInv(l), ~l.note, budget \in Int, Sizing!asked \in Nat \ {0},
         Hundred * Sizing!asked > budget, NEW m \in Sizing!Shrunk(l)
  PROVE  /\ m \in Int /\ m <= l.amount
         /\ budget < 0 => m <= 0
         /\ budget >= 0 =>
              /\ m * (Hundred * Sizing!asked) <= l.amount * budget
              /\ l.amount * budget < (m + (2 * CostStep)) * (Hundred * Sizing!asked)
<1> DEFINE d == Hundred * Sizing!asked
           n == l.amount * budget
           e == Sizing!RoundDown(n, d, CostStep)
<1>1. l.amount \in Nat \ {0} /\ CostStep \in Nat \ {0} /\ Hundred \in Nat \ {0}
  BY LegAsks, SizingConstants
<1>2. d \in Nat \ {0} /\ n \in Int /\ d > budget
  BY <1>1, Products
<1>3. m \in {e, e - CostStep}
  BY DEF Sizing!Shrunk, Sizing!round_cost
<1> HIDE DEF d, n
<1>4. e \in Int /\ (n <= 0 => e <= 0) /\ (n >= 0 => e \in Nat /\ e * d <= n /\ n < (e + CostStep) * d)
  BY <1>1, <1>2, RoundedDown
<1> HIDE DEF e
<1>5. m \in Int /\ m <= e /\ e + CostStep <= m + (2 * CostStep)
  BY <1>1, <1>3, <1>4
<1>6. CASE budget < 0
  <2>1. n <= 0
    <3>1. budget * l.amount <= 0 * l.amount
      BY <1>1, <1>6, Products
    <3>2. n = budget * l.amount /\ 0 * l.amount = 0 /\ n \in Int
      BY <1>1, <1>2 DEF n
    <3> QED
      BY <3>1, <3>2
  <2> QED
    BY <1>1, <1>4, <1>5, <1>6, <2>1
<1>7. CASE budget >= 0
  <2>1. n >= 0
    BY <1>1, <1>7, Products DEF n
  <2>2. m * d <= e * d
    BY <1>2, <1>4, <1>5, Products
  <2>3. m * d \in Int /\ e * d \in Int
    BY <1>2, <1>4, <1>5
  <2>4. m * d <= n
    BY <1>2, <1>4, <2>1, <2>2, <2>3
  <2>5. n <= l.amount * d
    <3>1. budget * l.amount <= d * l.amount
      BY <1>1, <1>2, Products
    <3>2. n = budget * l.amount /\ l.amount * d = d * l.amount
      BY <1>1, <1>2 DEF n
    <3> QED
      BY <3>1, <3>2
  <2>6. m * d <= l.amount * d
    <3>1. l.amount * d \in Int
      BY <1>1, <1>2
    <3> QED
      BY <1>2, <2>3, <2>4, <2>5, <3>1
  <2>7. m <= l.amount
    BY <1>1, <1>2, <1>5, <2>6, Products
  <2>8. n < (m + (2 * CostStep)) * d
    <3> DEFINE x == e + CostStep
               y == m + (2 * CostStep)
    <3>1. x \in Int /\ y \in Int /\ x <= y
      BY <1>1, <1>4, <1>5
    <3>2. n < x * d
      BY <1>4, <2>1
    <3> HIDE DEF x, y
    <3>3. x * d <= y * d /\ x * d \in Int /\ y * d \in Int
      BY <1>2, <3>1, Products
    <3>4. n < y * d
      BY <1>2, <3>2, <3>3
    <3> QED
      BY <3>4 DEF y
  <2> QED
    BY <1>5, <1>7, <2>4, <2>7, <2>8 DEF d, n
<1> QED
  BY <1>6, <1>7

\* The leg with its smaller amount.
LEMMA FittedLeg ==
  ASSUME SizingInv, Priced, NEW l, LegInv(l), ~l.note, l.side = "buy", Sizing!asked \in Nat \ {0},
         Hundred * Sizing!asked > budget, NEW m \in Sizing!Shrunk(l)
  PROVE  LET k == Sizing!Fitted(l, m)
         IN  /\ LegInv(k) /\ k.side = "buy" /\ k.amount = m
             /\ ~k.note => /\ m \in Nat /\ budget >= 0
                           /\ m * (Hundred * Sizing!asked) <= l.amount * budget
<1> DEFINE k == Sizing!Fitted(l, m)
<1>1. l \in Sizing!Leg
  BY DEF LegInv
<1>2. /\ k.asset = l.asset /\ k.side = "buy" /\ k.amount = m /\ k.minimum = l.minimum
      /\ k.volume = l.volume /\ k.note = (m < l.minimum)
  BY <1>1 DEF Sizing!Fitted, Sizing!Leg
<1>3. /\ m \in Int /\ m <= l.amount
      /\ budget < 0 => m <= 0
      /\ budget >= 0 => m * (Hundred * Sizing!asked) <= l.amount * budget
  BY ShrunkLeg DEF SizingInv, Sizing!TypeOK
<1>4. k \in Sizing!Leg
  <2> DEFINE note == m < l.minimum
  <2>1. note \in BOOLEAN
    OBVIOUS
  <2>2. k = [l EXCEPT !.amount = m, !.note = note]
    BY DEF Sizing!Fitted
  <2> HIDE DEF note, k
  <2> QED
    BY <1>1, <1>3, <2>1, <2>2 DEF Sizing!Leg
<1>5. l.minimum \in Nat \ {0} /\ l.amount \in Nat \ {0} /\ Hundred \in Nat /\ budget \in Int
  BY LegAsks, SizingConstants DEF SizingInv, Sizing!TypeOK
<1> HIDE DEF k
<1>6. ASSUME ~k.note
      PROVE  /\ m >= l.minimum /\ m \in Nat /\ budget >= 0
             /\ m * (Hundred * Sizing!asked) <= l.amount * budget
  <2>1. m >= l.minimum
    <3>1. ~(m < l.minimum)
      BY <1>2, <1>6, Zenon
    <3> QED
      BY <1>3, <1>5, <3>1
  <2>2. m \in Nat /\ m > 0
    BY <1>3, <1>5, <2>1
  <2>3. budget >= 0
    BY <1>3, <1>5, <2>2
  <2> QED
    BY <1>3, <2>1, <2>2, <2>3
<1>7. ASSUME ~k.note, account.policy # "prorata" PROVE Hundred * m <= Sizing!delta(l.asset)
  <2>1. m * Hundred <= l.amount * Hundred
    BY <1>3, <1>5, Products
  <2>2. Hundred * l.amount <= Sizing!delta(l.asset)
    BY <1>7 DEF LegInv
  <2>3. Sizing!delta(l.asset) \in Int
    BY <1>7, LegAsks, Valuation DEF SizingInv
  <2>4. /\ m * Hundred = Hundred * m /\ l.amount * Hundred = Hundred * l.amount
        /\ Hundred * m \in Int /\ Hundred * l.amount \in Int
    BY <1>3, <1>5
  <2> QED
    BY <2>1, <2>2, <2>3, <2>4
<1>8. LegInv(k)
  BY <1>2, <1>4, <1>6, <1>7 DEF LegInv
<1> QED
  BY <1>2, <1>6, <1>8 DEF k

\* Shrunk to the budget: of the legs that are still above their minimum, each
\* asks for its share or less, so together they ask for the budget or less.
LEMMA ShrunkBuys ==
  ASSUME SizingInv, Priced, Sizing!asked \in Nat \ {0}, Hundred * Sizing!asked > budget,
         NEW fit, \A l \in Sizing!Sendable(buys) : fit[l] \in Sizing!Shrunk(l),
         NEW new, new = (buys \ Sizing!Sendable(buys))
                          \cup {Sizing!Fitted(l, fit[l]) : l \in Sizing!Sendable(buys)}
  PROVE  /\ IsFiniteSet(new) /\ \A l \in new : LegInv(l) /\ l.side = "buy"
         /\ AskedOf(new) \in Nat
         /\ budget >= 0 => Hundred * AskedOf(new) <= budget
         /\ budget < 0 => AskedOf(new) = 0
<1> DEFINE R == Sizing!Sendable(buys)
           A == Sizing!asked
           h == [l \in R |-> Sizing!Fitted(l, fit[l])]
           K == {l \in R : ~h[l].note}
<1>1. /\ R \subseteq buys /\ IsFiniteSet(buys) /\ IsFiniteSet(R)
      /\ \A l \in R : LegInv(l) /\ ~l.note /\ l.side = "buy" /\ l.amount \in Nat
      /\ \A l \in buys : LegInv(l) /\ l.side = "buy"
  <2>1. R \subseteq buys /\ \A l \in R : ~l.note
    BY DEF Sizing!Sendable
  <2>2. IsFiniteSet(buys) /\ \A l \in buys : LegInv(l) /\ l.side = "buy"
    BY DEF SizingInv, Sizing!TypeOK
  <2> QED
    BY <2>1, <2>2, FS_Subset, LegAsks
<1>2. \A l \in R : /\ LegInv(h[l]) /\ h[l].side = "buy" /\ h[l].amount = fit[l]
                   /\ ~h[l].note => /\ fit[l] \in Nat /\ budget >= 0
                                    /\ fit[l] * (Hundred * A) <= l.amount * budget
  <2> SUFFICES ASSUME NEW l \in R
               PROVE  LET k == Sizing!Fitted(l, fit[l])
                      IN  /\ LegInv(k) /\ k.side = "buy" /\ k.amount = fit[l]
                          /\ ~k.note => /\ fit[l] \in Nat /\ budget >= 0
                                        /\ fit[l] * (Hundred * A) <= l.amount * budget
    OBVIOUS
  <2>1. LegInv(l) /\ ~l.note /\ l.side = "buy" /\ fit[l] \in Sizing!Shrunk(l)
    BY <1>1
  <2> QED
    BY <2>1, FittedLeg
<1>3. new = (buys \ R) \cup ImageOf(h, R)
  BY DEF ImageOf
<1>4. IsFiniteSet(new)
  <2>1. IsFiniteSet(ImageOf(h, R)) /\ IsFiniteSet(buys \ R)
    BY <1>1, ImageIsFinite, FS_Subset
  <2> QED
    BY <1>3, <2>1, FS_Union
<1>5. \A l \in new : LegInv(l) /\ l.side = "buy"
  <2> HIDE DEF h, R
  <2> QED
    BY <1>1, <1>2, <1>3 DEF ImageOf
<1>6. AskedOf(new) \in Nat
  BY <1>4, <1>5, AskedWithout
<1>7. Sizing!Sendable(new) = ImageOf(h, K)
  <2>1. \A l \in buys \ R : l.note
    BY DEF Sizing!Sendable
  <2>2. Sizing!Sendable(new) = {k \in new : ~k.note}
    BY DEF Sizing!Sendable
  <2> HIDE DEF h, R
  <2> QED
    BY <1>3, <2>1, <2>2 DEF ImageOf
<1> DEFINE f == [k \in ImageOf(h, K) |-> k.amount]
           g == [l \in K |-> fit[l]]
           e == [l \in R |-> l.amount]
<1>8. AskedOf(new) = SumFunctionOnSet(f, ImageOf(h, K))
  BY <1>7 DEF AskedOf
<1>9. A = SumFunctionOnSet(e, R) /\ A \in Nat \ {0} /\ budget \in Int /\ Hundred \in Nat \ {0}
  BY AskedByBuys, SizingConstants DEF AskedOf, SizingInv, Sizing!TypeOK
<1>10. K \in SUBSET R /\ IsFiniteSet(K)
  BY <1>1, FS_Subset
<1>11. \A l \in K : /\ f[h[l]] \in Nat /\ g[l] = f[h[l]] /\ g[l] \in Nat /\ g[l] \in Int
                    /\ e[l] \in Nat /\ e[l] \in Int /\ budget >= 0
                    /\ g[l] * (Hundred * A) <= e[l] * budget
  <2> SUFFICES ASSUME NEW l \in K
               PROVE  /\ f[h[l]] \in Nat /\ g[l] = f[h[l]] /\ g[l] \in Nat /\ g[l] \in Int
                      /\ e[l] \in Nat /\ e[l] \in Int /\ budget >= 0
                      /\ g[l] * (Hundred * A) <= e[l] * budget
    OBVIOUS
  <2>1. l \in R /\ ~h[l].note /\ h[l] \in ImageOf(h, K)
    BY DEF ImageOf
  <2>2. /\ h[l].amount = fit[l] /\ fit[l] \in Nat /\ budget >= 0 /\ l.amount \in Nat
        /\ fit[l] * (Hundred * A) <= l.amount * budget
    BY <1>1, <1>2, <2>1
  <2>3. f[h[l]] = fit[l] /\ g[l] = fit[l] /\ e[l] = l.amount
    <3> HIDE DEF h, K, R
    <3> QED
      BY <2>1, <2>2 DEF K
  <2> HIDE DEF f, g, e, h, K, R, A
  <2> QED
    BY <2>2, <2>3
<1>12. \A l \in R : e[l] \in Nat /\ e[l] \in Int
  BY <1>1
<1> HIDE DEF f, g, e, h, K, R, A
<1>13. ASSUME budget < 0 PROVE AskedOf(new) = 0
  <2>1. K = {}
    BY <1>9, <1>11, <1>13
  <2>2. ImageOf(h, K) = {}
    BY <2>1 DEF ImageOf
  <2> QED
    BY <1>8, <2>2, SumOfNone
<1>14. ASSUME budget >= 0 PROVE Hundred * AskedOf(new) <= budget
  <2> DEFINE X == SumFunctionOnSet(f, ImageOf(h, K))
             G == SumFunctionOnSet(g, K)
             E == SumFunctionOnSet(e, K)
             c == Hundred * A
             u == [l \in K |-> (c * g[l]) + (0 * g[l])]
             v == [l \in K |-> (budget * e[l]) + (0 * e[l])]
  <2>1. X <= G
    BY <1>10, <1>11, SumOfImage
  <2>2. G \in Int /\ E \in Int
    BY <1>10, <1>11, SumIsAnInteger
  <2>3. E <= A
    <3>1. E <= SumFunctionOnSet(e, R)
      BY <1>1, <1>10, <1>12, SumOfPart
    <3> QED
      BY <1>9, <3>1
  <2>4. c \in Nat \ {0} /\ c \in Int /\ 0 \in Int
    BY <1>9, Products
  <2> HIDE DEF c
  <2>5. \A l \in K : u[l] = (c * g[l]) + (0 * g[l]) /\ v[l] = (budget * e[l]) + (0 * e[l])
    OBVIOUS
  <2>6. \A l \in K : u[l] \in Int /\ v[l] \in Int /\ u[l] <= v[l]
    <3> SUFFICES ASSUME NEW l \in K PROVE u[l] \in Int /\ v[l] \in Int /\ u[l] <= v[l]
      OBVIOUS
    <3>1. g[l] \in Int /\ e[l] \in Int /\ g[l] * c <= e[l] * budget
      BY <1>11 DEF c
    <3>2. u[l] = g[l] * c /\ v[l] = e[l] * budget
      BY <1>9, <2>4, <2>5, <3>1
    <3>3. g[l] * c \in Int /\ e[l] * budget \in Int
      BY <1>9, <2>4, <3>1
    <3> QED
      BY <3>1, <3>2, <3>3
  <2> HIDE DEF u, v
  <2>7. SumFunctionOnSet(u, K) = (c * G) + (0 * G)
    <3>1. \A l \in K : g[l] \in Int /\ g[l] \in Int /\ u[l] = (c * g[l]) + (0 * g[l])
      BY <1>11, <2>5
    <3>2. IsFiniteSet(K) /\ c \in Int /\ 0 \in Int
      BY <1>10, <2>4
    <3> QED
      BY <3>1, <3>2, SumIsLinear
  <2>8. SumFunctionOnSet(v, K) = (budget * E) + (0 * E)
    <3>1. \A l \in K : e[l] \in Int /\ e[l] \in Int /\ v[l] = (budget * e[l]) + (0 * e[l])
      BY <1>11, <2>5
    <3>2. IsFiniteSet(K) /\ budget \in Int /\ 0 \in Int
      BY <1>9, <1>10
    <3> QED
      BY <3>1, <3>2, SumIsLinear
  <2>9. SumFunctionOnSet(u, K) <= SumFunctionOnSet(v, K)
    BY <1>10, <2>6, SumIsMonotone
  <2> HIDE DEF X, G, E
  <2>10. X \in Nat
    BY <1>6, <1>8 DEF X
  <2>11. c * G <= budget * E
    <3>1. (c * G) + (0 * G) = c * G /\ (budget * E) + (0 * E) = budget * E
      BY <1>9, <2>2, <2>4
    <3> QED
      BY <2>7, <2>8, <2>9, <3>1 DEF G, E
  <2>12. X * c <= G * c
    BY <2>1, <2>2, <2>4, <2>10, Products
  <2>13. E * budget <= A * budget
    <3>1. budget \in Nat
      BY <1>9, <1>14
    <3> QED
      BY <1>9, <2>2, <2>3, <3>1, Products
  <2>14. (Hundred * X) * A <= budget * A
    <3>1. (Hundred * X) * A = X * c /\ G * c = c * G /\ E * budget = budget * E
          /\ A * budget = budget * A
      BY <1>9, <2>2, <2>10 DEF c
    <3>2. X * c \in Int /\ c * G \in Int /\ budget * E \in Int /\ budget * A \in Int
      BY <1>9, <2>2, <2>4, <2>10
    <3> QED
      BY <2>11, <2>12, <2>13, <3>1, <3>2
  <2>15. Hundred * X \in Int
    BY <1>9, <2>10
  <2>16. Hundred * X <= budget
    BY <1>9, <2>14, <2>15, Products
  <2> QED
    BY <1>8, <2>16 DEF X
<1> QED
  BY <1>4, <1>5, <1>6, <1>13, <1>14

LEMMA WithinStep ==
  ASSUME SizingInv, Sizing!_within
  PROVE  SizingInv'
<1>1. /\ account' = account /\ held' = held /\ cash' = cash /\ budget' = budget /\ sells' = sells
      /\ sent' = sent /\ stopped' = stopped /\ pc = "sells" /\ pc' \in {"buys", "error"}
  BY DEF Sizing!_within
<1>2. Priced /\ CashFloor \in Int /\ cash \in Int /\ budget \in Int /\ Hundred \in Nat
  BY <1>1, FloorType, SizingConstants DEF SizingInv, ReadInv, Sizing!TypeOK
<1>3. /\ CashFloor <= Hundred * cash /\ CashFloor <= (Hundred * cash) - budget
      /\ Hundred * cash \in Int
  BY <1>1, <1>2 DEF SizingInv, MoneyInv
<1>4. ASSUME IsFiniteSet(buys'), \A l \in buys' : LegInv(l) /\ l.side = "buy",
             pc' = "buys" => CashFloor <= (Hundred * cash) - (Hundred * AskedOf(buys'))
      PROVE  SizingInv'
  <2>1. \A l \in sells' \cup buys' \cup sent' : LegInv(l)'
    BY <1>1, <1>4, AccountStays DEF SizingInv
  <2>2. Sizing!TypeOK'
    <3>1. \A l \in buys' : l \in Sizing!Leg
      BY <1>4 DEF LegInv
    <3> QED
      BY <1>1, <1>4, <3>1 DEF SizingInv, Sizing!TypeOK
  <2>3. HeldInv'
    BY <1>1 DEF SizingInv, HeldInv
  <2>4. MoneyInv'
    <3>1. CashFloor' = CashFloor
      BY <1>1, AccountStays
    <3>2. AskedOf(buys)' = AskedOf(buys')
      BY DEF AskedOf, Sizing!Sendable
    <3> QED
      BY <1>1, <1>3, <1>4, <3>1, <3>2 DEF MoneyInv
  <2> QED
    BY <1>1, <1>2, <1>4, <2>1, <2>2, <2>3, <2>4, AccountStays DEF SizingInv, ReadInv
<1>5. IsFiniteSet(buys) /\ \A l \in buys : LegInv(l) /\ l.side = "buy"
  BY DEF SizingInv, Sizing!TypeOK
<1>6. Sizing!asked = AskedOf(buys) /\ Sizing!asked \in Nat
  BY AskedByBuys
<1>7. CASE Hundred * Sizing!asked <= budget /\ buys' = buys
  <2>1. Hundred * AskedOf(buys') \in Int /\ Hundred * AskedOf(buys') <= budget
    BY <1>2, <1>6, <1>7
  <2>2. CashFloor <= (Hundred * cash) - (Hundred * AskedOf(buys'))
    BY <1>2, <1>3, <2>1
  <2> QED
    BY <1>4, <1>5, <1>7, <2>2
<1>8. CASE /\ Hundred * Sizing!asked > budget /\ Sizing!asked > 0
           /\ \E fit \in [Sizing!Sendable(buys) ->
                            UNION {Sizing!Shrunk(l) : l \in Sizing!Sendable(buys)}] :
                /\ \A l \in Sizing!Sendable(buys) : fit[l] \in Sizing!Shrunk(l)
                /\ buys' = (buys \ Sizing!Sendable(buys))
                             \cup {Sizing!Fitted(l, fit[l]) : l \in Sizing!Sendable(buys)}
  <2>1. PICK fit \in [Sizing!Sendable(buys) ->
                        UNION {Sizing!Shrunk(l) : l \in Sizing!Sendable(buys)}] :
          /\ \A l \in Sizing!Sendable(buys) : fit[l] \in Sizing!Shrunk(l)
          /\ buys' = (buys \ Sizing!Sendable(buys))
                       \cup {Sizing!Fitted(l, fit[l]) : l \in Sizing!Sendable(buys)}
    BY <1>8
  <2>2. Sizing!asked \in Nat \ {0} /\ Hundred * Sizing!asked > budget
    BY <1>6, <1>8
  <2>3. /\ IsFiniteSet(buys') /\ \A l \in buys' : LegInv(l) /\ l.side = "buy"
        /\ AskedOf(buys') \in Nat
        /\ budget >= 0 => Hundred * AskedOf(buys') <= budget
        /\ budget < 0 => AskedOf(buys') = 0
    <3> DEFINE R == Sizing!Sendable(buys)
               new == (buys \ R) \cup {Sizing!Fitted(l, fit[l]) : l \in R}
    <3>1. /\ IsFiniteSet(new) /\ \A l \in new : LegInv(l) /\ l.side = "buy"
          /\ AskedOf(new) \in Nat
          /\ budget >= 0 => Hundred * AskedOf(new) <= budget
          /\ budget < 0 => AskedOf(new) = 0
      <4>1. \A l \in R : fit[l] \in Sizing!Shrunk(l)
        BY <2>1
      <4> QED
        BY <1>2, <2>2, <4>1, ShrunkBuys
    <3>2. buys' = new
      BY <2>1
    <3> HIDE DEF new
    <3> QED
      BY <3>1, <3>2
  <2>4. CashFloor <= (Hundred * cash) - (Hundred * AskedOf(buys'))
    <3>1. Hundred * AskedOf(buys') \in Int /\ (AskedOf(buys') = 0 => Hundred * AskedOf(buys') = 0)
      BY <1>2, <2>3
    <3> QED
      BY <1>2, <1>3, <2>3, <3>1
  <2> QED
    BY <1>4, <2>3, <2>4
<1>9. CASE buys' = buys /\ pc' = "error"
  BY <1>4, <1>5, <1>9
<1> QED
  BY <1>7, <1>8, <1>9 DEF Sizing!_within

\* A buy that is skipped, or sent and spends its amount or nothing.
LEMMA BuyStep ==
  ASSUME SizingInv, Sizing!SkipBuy \/ Sizing!SendBuy
  PROVE  SizingInv'
<1> DEFINE l == Sizing!First(buys)
<1>1. /\ account' = account /\ held' = held /\ budget' = budget /\ sells' = sells
      /\ pc = "buys" /\ pc' = "buys" /\ buys # {} /\ buys' = buys \ {l}
      /\ sent' = sent \/ (~l.note /\ sent' = sent \cup {l})
      /\ stopped' \in BOOLEAN
      /\ cash' = cash \/ (~l.note /\ cash' = cash - l.amount)
  BY DEF SizingInv, Sizing!TypeOK, Sizing!SkipBuy, Sizing!SendBuy
<1>2. IsFiniteSet(buys) /\ \A k \in buys : LegInv(k) /\ k \in Sizing!Leg
  BY DEF SizingInv, Sizing!TypeOK
<1>3. l \in buys /\ LegInv(l) /\ l \in Sizing!Leg
  BY <1>1, <1>2, FirstLeg
<1> HIDE DEF l
<1>4. IsFiniteSet(buys \ {l})
  BY <1>2, FS_RemoveElement
<1>5. cash \in Int /\ cash' \in Int /\ Hundred \in Nat /\ l.amount \in Int
  BY <1>1, <1>3, SizingConstants DEF SizingInv, Sizing!TypeOK, Sizing!Leg
<1>6. \A k \in sells' \cup buys' \cup sent' : LegInv(k)'
  BY <1>1, <1>3, AccountStays DEF SizingInv
<1>7. Sizing!TypeOK'
  BY <1>1, <1>3, <1>5 DEF SizingInv, Sizing!TypeOK
<1>8. HeldInv'
  BY <1>1 DEF SizingInv, HeldInv
<1>9. MoneyInv'
  <2> DEFINE P == Hundred * AskedOf(buys)
             Q == Hundred * AskedOf(buys \ {l})
             z == Hundred * l.amount
  <2>1. /\ Priced /\ CashFloor \in Int /\ CashFloor <= (Hundred * cash) - P
        /\ CashFloor' = CashFloor
    BY <1>1, AccountStays, FloorType DEF SizingInv, ReadInv, MoneyInv
  <2>2. AskedOf(buys)' = AskedOf(buys \ {l})
    BY <1>1 DEF AskedOf, Sizing!Sendable
  <2>3. /\ AskedOf(buys) \in Nat /\ AskedOf(buys \ {l}) \in Nat
        /\ AskedOf(buys \ {l}) <= AskedOf(buys)
        /\ ~l.note => AskedOf(buys) = l.amount + AskedOf(buys \ {l})
    BY <1>2, <1>3, AskedWithout
  <2>4. P \in Nat /\ Q \in Nat /\ Q <= P /\ z \in Int /\ (~l.note => P = z + Q)
    <3> DEFINE p == AskedOf(buys)
               q == AskedOf(buys \ {l})
    <3>1. p \in Nat /\ q \in Nat /\ q <= p /\ (~l.note => p = l.amount + q)
      BY <2>3
    <3> HIDE DEF p, q
    <3>2. q * Hundred <= p * Hundred
      BY <1>5, <3>1, Products
    <3>3. /\ q * Hundred = Hundred * q /\ p * Hundred = Hundred * p
          /\ Hundred * q \in Nat /\ Hundred * p \in Nat /\ Hundred * l.amount \in Int
      BY <1>5, <3>1, Products
    <3>4. Hundred * (l.amount + q) = (Hundred * l.amount) + (Hundred * q)
      BY <1>5, <3>1
    <3> QED
      BY <3>1, <3>2, <3>3, <3>4 DEF p, q
  <2> HIDE DEF P, Q
  <2>5. Hundred * cash \in Int
    BY <1>5
  <2>6. CASE cash' = cash
    <3>1. CashFloor <= Hundred * cash' /\ CashFloor <= (Hundred * cash') - Q
      BY <2>1, <2>4, <2>5, <2>6
    <3> QED
      BY <1>1, <2>1, <2>2, <3>1 DEF MoneyInv, Q
  <2>7. CASE ~l.note /\ cash' = cash - l.amount
    <3>1. Hundred * cash' = (Hundred * cash) - z
      BY <1>5, <2>7
    <3> HIDE DEF z
    <3>2. CashFloor <= Hundred * cash' /\ CashFloor <= (Hundred * cash') - Q
      BY <2>1, <2>4, <2>5, <2>7, <3>1
    <3> QED
      BY <1>1, <2>1, <2>2, <3>2 DEF MoneyInv, Q
  <2> QED
    BY <1>1, <2>6, <2>7
<1> QED
  BY <1>1, <1>4, <1>6, <1>7, <1>8, <1>9, AccountStays DEF SizingInv, ReadInv

LEMMA SizingStep ==
  ASSUME SizingInv, [Sizing!Next]_(Sizing!vars)
  PROVE  SizingInv'
<1>1. CASE Sizing!Ends \/ Sizing!Done \/ UNCHANGED Sizing!vars
  <2>1. /\ account' = account /\ held' = held /\ budget' = budget /\ sells' = sells
        /\ buys' = buys /\ sent' = sent /\ stopped' = stopped /\ cash' = cash
        /\ pc' \in {pc, "done"}
    BY <1>1 DEF Sizing!Ends, Sizing!Done, Sizing!vars
  <2>2. AskedOf(buys)' = AskedOf(buys)
    BY <2>1 DEF AskedOf, Sizing!Sendable
  <2>3. \A l \in sells' \cup buys' \cup sent' : LegInv(l)'
    BY <2>1, AccountStays DEF SizingInv
  <2>4. Sizing!TypeOK'
    BY <2>1 DEF SizingInv, Sizing!TypeOK
  <2>5. HeldInv'
    BY <2>1 DEF SizingInv, HeldInv
  <2>6. MoneyInv'
    BY <2>1, <2>2, AccountStays DEF SizingInv, MoneyInv
  <2>7. ReadInv'
    <3>1. [a \in Assets |-> Sizing!amount_of(a)]' = [a \in Assets |-> Sizing!amount_of(a)]
      BY <2>1, AccountStays DEF Assets, Sizing!Assets
    <3> QED
      BY <2>1, <3>1, AccountStays DEF SizingInv, ReadInv
  <2> QED
    BY <2>1, <2>3, <2>4, <2>5, <2>6, <2>7 DEF SizingInv
<1>2. CASE Sizing!_plan
  BY <1>2, PlanStep
<1>3. CASE Sizing!SkipSell \/ Sizing!SellNotExecuted
  BY <1>3, SkipSellStep
<1>4. CASE Sizing!SellExecuted
  BY <1>4, SellExecutedStep
<1>5. CASE Sizing!_within
  BY <1>5, WithinStep
<1>6. CASE Sizing!SkipBuy \/ Sizing!SendBuy
  BY <1>6, BuyStep
<1> QED
  BY <1>1, <1>2, <1>3, <1>4, <1>5, <1>6 DEF Sizing!Next

\* Shrinking leaves less than two steps of each buy unspent.
LEMMA ShrunkBuysUse ==
  ASSUME SizingInv, Priced, pc = "sells", budget >= 0,
         Sizing!asked \in Nat \ {0}, Hundred * Sizing!asked > budget,
         NEW fit, \A l \in Sizing!Sendable(buys) : fit[l] \in Sizing!Shrunk(l),
         NEW new, new = (buys \ Sizing!Sendable(buys))
                          \cup {Sizing!Fitted(l, fit[l]) : l \in Sizing!Sendable(buys)},
         NEW N, N = {l \in new : ~l.note \/ l \notin buys}
  PROVE  Hundred * (SumFunctionOnSet([l \in N |-> l.amount], N)
                      + (2 * CostStep * Cardinality(new))) > budget
<1> DEFINE R == Sizing!Sendable(buys)
           A == Sizing!asked
           h == [l \in R |-> Sizing!Fitted(l, fit[l])]
           C == 2 * CostStep
           c == Hundred * A
<1>1. /\ R \subseteq buys /\ IsFiniteSet(R)
      /\ \A l \in R : LegInv(l) /\ ~l.note /\ l.side = "buy" /\ l.amount \in Nat
      /\ \A j, k \in R : j.asset = k.asset => j = k
      /\ \A j, k \in buys : j.asset = k.asset => j = k
  <2>1. R \subseteq buys /\ \A l \in R : ~l.note
    BY DEF Sizing!Sendable
  <2>2. /\ IsFiniteSet(buys) /\ \A l \in buys : LegInv(l) /\ l.side = "buy"
        /\ \A j, k \in buys : j.asset = k.asset => j = k
    BY DEF SizingInv, Sizing!TypeOK, HeldInv
  <2> QED
    BY <2>1, <2>2, FS_Subset, LegAsks
<1>2. /\ Hundred \in Nat \ {0} /\ A \in Nat \ {0} /\ budget \in Nat /\ C \in Nat /\ c \in Nat \ {0}
  BY SizingConstants, Products DEF SizingInv, Sizing!TypeOK
<1>3. \A l \in R : /\ fit[l] \in Int /\ h[l].amount = fit[l] /\ h[l].asset = l.asset
                   /\ l.amount * budget < (fit[l] + C) * c
  <2> SUFFICES ASSUME NEW l \in R
               PROVE  LET k == Sizing!Fitted(l, fit[l])
                      IN  /\ fit[l] \in Int /\ k.amount = fit[l] /\ k.asset = l.asset
                          /\ l.amount * budget < (fit[l] + C) * c
    OBVIOUS
  <2>1. LegInv(l) /\ ~l.note /\ fit[l] \in Sizing!Shrunk(l) /\ l \in Sizing!Leg /\ budget \in Int
    BY <1>1, <1>2 DEF LegInv
  <2>2. fit[l] \in Int /\ l.amount * budget < (fit[l] + C) * c
    BY <2>1, ShrunkLeg
  <2>3. Sizing!Fitted(l, fit[l]).amount = fit[l] /\ Sizing!Fitted(l, fit[l]).asset = l.asset
    BY <2>1 DEF Sizing!Fitted, Sizing!Leg
  <2> QED
    BY <2>2, <2>3
<1>4. N = ImageOf(h, R)
  <2>1. new = (buys \ R) \cup ImageOf(h, R) /\ \A l \in buys \ R : l.note
    BY DEF ImageOf, Sizing!Sendable
  <2>2. ASSUME NEW l \in R PROVE h[l] \notin buys \/ ~h[l].note
    BY <1>1, <1>3, <2>2
  <2> HIDE DEF h, R
  <2> QED
    BY <2>1, <2>2 DEF ImageOf
<1>5. IsFiniteSet(new) /\ IsFiniteSet(N) /\ N \subseteq new
  <2>1. IsFiniteSet(new)
    BY ShrunkBuys
  <2> QED
    BY <2>1, FS_Subset
<1>6. Cardinality(N) \in Nat /\ Cardinality(new) \in Nat /\ Cardinality(N) <= Cardinality(new)
  BY <1>5, FS_Subset, FS_CardinalityType
<1> DEFINE f == [k \in N |-> k.amount]
           o == [k \in N |-> C]
           t == [k \in N |-> (1 * f[k]) + (1 * o[k])]
           g == [l \in R |-> t[h[l]]]
           e == [l \in R |-> l.amount]
           u == [l \in R |-> (budget * e[l]) + (0 * e[l])]
           v == [l \in R |-> (c * g[l]) + (0 * g[l])]
<1>7. A = SumFunctionOnSet(e, R)
  BY AskedByBuys DEF AskedOf
<1>8. R # {}
  BY <1>2, <1>7, SumOfNone
<1>9. \A k \in N : f[k] \in Int /\ o[k] = C /\ o[k] \in Int /\ t[k] = (1 * f[k]) + (1 * o[k])
  <2>1. \A k \in N : k.amount \in Int
    BY <1>3, <1>4 DEF ImageOf
  <2> QED
    BY <1>2, <2>1
<1>10. \A k \in N : t[k] = k.amount + C
  <2> SUFFICES ASSUME NEW k \in N PROVE t[k] = k.amount + C
    OBVIOUS
  <2>1. f[k] \in Int /\ f[k] = k.amount /\ o[k] = C /\ t[k] = (1 * f[k]) + (1 * o[k])
    BY <1>9
  <2> HIDE DEF f, o, t, C
  <2> QED
    BY <1>2, <2>1
<1>11. \A l \in R : h[l] \in N
  BY <1>4 DEF ImageOf
<1>12. \A l \in R : /\ g[l] = t[h[l]] /\ t[h[l]] \in Int /\ g[l] = fit[l] + C /\ g[l] \in Int
                    /\ e[l] \in Int
                    /\ u[l] = (budget * e[l]) + (0 * e[l]) /\ v[l] = (c * g[l]) + (0 * g[l])
                    /\ e[l] * budget < g[l] * c
  <2> SUFFICES ASSUME NEW l \in R
               PROVE  /\ g[l] = t[h[l]] /\ t[h[l]] \in Int /\ g[l] = fit[l] + C /\ g[l] \in Int
                      /\ e[l] \in Int
                      /\ u[l] = (budget * e[l]) + (0 * e[l]) /\ v[l] = (c * g[l]) + (0 * g[l])
                      /\ e[l] * budget < g[l] * c
    OBVIOUS
  <2>1. /\ g[l] = t[h[l]] /\ u[l] = (budget * e[l]) + (0 * e[l])
        /\ v[l] = (c * g[l]) + (0 * g[l]) /\ e[l] = l.amount
    <3> HIDE DEF t, h, c, R
    <3> QED
      OBVIOUS
  <2>2. t[h[l]] = fit[l] + C
    <3> HIDE DEF t, h, R, C
    <3> QED
      BY <1>3, <1>10, <1>11
  <2>3. fit[l] \in Int /\ l.amount \in Nat /\ l.amount * budget < (fit[l] + C) * c
    BY <1>1, <1>3
  <2> HIDE DEF t, h, R, C, c, g, e, u, v
  <2> QED
    BY <1>2, <2>1, <2>2, <2>3
<1>13. \A j, k \in R : h[j] = h[k] => j = k
  <2> HIDE DEF h, R
  <2> QED
    BY <1>1, <1>3
<1> HIDE DEF R, A, h, C, c, f, o, t, g, e, u, v
<1> DEFINE F == SumFunctionOnSet(f, N)
           G == SumFunctionOnSet(g, R)
           n == Cardinality(N)
<1>14. SumFunctionOnSet(t, N) = (1 * F) + (1 * SumFunctionOnSet(o, N))
  <2>1. 1 \in Int
    OBVIOUS
  <2> QED
    BY <1>5, <1>9, <2>1, SumIsLinear
<1>15. SumFunctionOnSet(o, N) = C * n
  <2>1. C \in Int
    BY <1>2
  <2> QED
    BY <1>5, <1>9, <2>1, SumOfEqual
<1>16. SumFunctionOnSet(t, N) = G
  <2>1. IsFiniteSet(R) /\ \A l \in R : t[h[l]] \in Int /\ g[l] = t[h[l]]
    BY <1>1, <1>12
  <2>2. SumFunctionOnSet(t, ImageOf(h, R)) = G
    BY <1>13, <2>1, SumOfRenamed
  <2> QED
    BY <1>4, <2>2
<1>17. SumFunctionOnSet(u, R) = (budget * A) + (0 * A) /\ SumFunctionOnSet(v, R) = (c * G) + (0 * G)
  <2>1. c \in Int /\ budget \in Int /\ 0 \in Int
    BY <1>2
  <2>2. SumFunctionOnSet(u, R) = (budget * A) + (0 * A)
    BY <1>1, <1>7, <1>12, <2>1, SumIsLinear
  <2>3. SumFunctionOnSet(v, R) = (c * G) + (0 * G)
    BY <1>1, <1>12, <2>1, SumIsLinear
  <2> QED
    BY <2>2, <2>3
<1>18. \A l \in R : u[l] \in Int /\ v[l] \in Int /\ u[l] < v[l]
  <2> SUFFICES ASSUME NEW l \in R PROVE u[l] \in Int /\ v[l] \in Int /\ u[l] < v[l]
    OBVIOUS
  <2>1. e[l] \in Int /\ g[l] \in Int /\ e[l] * budget < g[l] * c
    BY <1>12
  <2>2. u[l] = e[l] * budget /\ v[l] = g[l] * c
    BY <1>2, <1>12, <2>1
  <2>3. e[l] * budget \in Int /\ g[l] * c \in Int
    BY <1>2, <2>1
  <2> QED
    BY <2>1, <2>2, <2>3
<1>19. SumFunctionOnSet(u, R) < SumFunctionOnSet(v, R)
  BY <1>1, <1>8, <1>18, SumIsStrict
<1>20. F \in Int /\ G \in Int
  BY <1>1, <1>5, <1>9, <1>12, SumIsAnInteger
<1> HIDE DEF F, G, n
<1>21. n \in Nat /\ n <= Cardinality(new) /\ Cardinality(new) \in Nat
  BY <1>6 DEF n
<1>22. G = F + (C * n)
  <2>1. C * n \in Int
    BY <1>2, <1>21
  <2> QED
    BY <1>14, <1>15, <1>16, <1>20, <2>1 DEF G, F
<1>23. budget < Hundred * G
  <2>1. budget * A < (Hundred * G) * A
    <3>1. (budget * A) + (0 * A) = budget * A /\ (c * G) + (0 * G) = (Hundred * G) * A
      BY <1>2, <1>20 DEF c
    <3> QED
      BY <1>17, <1>19, <3>1
  <2>2. Hundred * G \in Int /\ budget \in Int
    BY <1>2, <1>20
  <2> QED
    BY <1>2, <2>1, <2>2, Products
<1>24. G <= F + (C * Cardinality(new))
  <2> DEFINE k == Cardinality(new)
  <2>1. k \in Nat /\ n <= k
    BY <1>21
  <2> HIDE DEF k
  <2>2. n * C <= k * C
    BY <1>2, <1>21, <2>1, Products
  <2>3. n * C = C * n /\ k * C = C * k /\ C * n \in Int /\ C * k \in Int
    BY <1>2, <1>21, <2>1
  <2>4. G <= F + (C * k)
    BY <1>20, <1>22, <2>2, <2>3
  <2> QED
    BY <2>4 DEF k
<1>25. budget < Hundred * (F + (C * Cardinality(new)))
  <2> DEFINE x == F + (C * Cardinality(new))
  <2>1. x \in Int
    BY <1>2, <1>20, <1>21
  <2>2. G <= x
    BY <1>24
  <2> HIDE DEF x
  <2>3. G * Hundred <= x * Hundred
    BY <1>2, <1>20, <2>1, <2>2, Products
  <2>4. /\ G * Hundred = Hundred * G /\ x * Hundred = Hundred * x
        /\ Hundred * G \in Int /\ Hundred * x \in Int
    BY <1>2, <1>20, <2>1
  <2>5. budget < Hundred * x
    BY <1>2, <1>23, <2>3, <2>4
  <2> QED
    BY <2>5 DEF x
<1>26. F = SumFunctionOnSet([l \in N |-> l.amount], N)
  BY DEF F, f
<1>27. Hundred * (F + (C * Cardinality(new))) > budget
  <2> DEFINE x == Hundred * (F + (C * Cardinality(new)))
  <2>1. x \in Int
    BY <1>2, <1>20, <1>21
  <2>2. budget < x
    BY <1>25
  <2> HIDE DEF x
  <2>3. x > budget
    BY <1>2, <2>1, <2>2
  <2> QED
    BY <2>3 DEF x
<1> QED
  BY <1>26, <1>27 DEF C

LEMMA SizingInvariant == Spec => [](part = "sizing" => SizingInv)
<1>1. Init => (part = "sizing" => SizingInv)
  BY SizingInit DEF Init
<1>2. (part = "sizing" => SizingInv) /\ [Next]_vars => (part = "sizing" => SizingInv)'
  <2> SUFFICES ASSUME SizingInv, part = "sizing", [Next]_vars PROVE SizingInv'
    BY DEF Next, vars
  <2>1. [Sizing!Next]_(Sizing!vars)
    BY DEF Next, vars, sizing, Sizing!vars
  <2> QED
    BY <2>1, SizingStep
<1> QED
  BY <1>1, <1>2, PTL DEF Spec
-----------------------------------------------------------------------------
\* credited and _within: whatever Kraken refuses, loses, fills in part or at
\* another price, and however its ledger rounds, the cash never falls below its
\* target, or below where it was if that was less.
THEOREM CashStaysAboveTarget == Spec => []CashTargetKept
<1>1. (part = "sizing" => SizingInv) => CashTargetKept
  <2> SUFFICES ASSUME part = "sizing", SizingInv, Priced
               PROVE  Hundred * cash >= CashFloor
    BY DEF CashTargetKept, Sizing!CashTargetKept, Priced, CashFloor, Assets
  <2>1. CashFloor \in Int /\ CashFloor <= Hundred * cash /\ cash \in Int /\ Hundred \in Nat
    BY FloorType, SizingConstants DEF SizingInv, MoneyInv, Sizing!TypeOK
  <2> QED
    BY <2>1
<1> QED
  BY <1>1, SizingInvariant, PTL

\* _plan and _within: no sell asks for more than is held; a buy is at or above the
\* minimums of its pair and the user's floor, shrunk or not; a sell's volume is at or
\* above ordermin, and its worth, once rounded, less than one step of volume under
\* those minimums.
THEOREM SentOrdersMeetMinimums == Spec => []MinimumsMetToAStep
<1>1. (part = "sizing" => SizingInv) => MinimumsMetToAStep
  <2> SUFFICES ASSUME SizingInv PROVE Sizing!MinimumsMetToAStep
    BY DEF MinimumsMetToAStep
  <2>1. \A a \in Assets : held[a] >= 0
    BY DEF SizingInv, HeldInv
  <2>2. ASSUME NEW l \in sent
        PROVE  /\ l.side = "buy" => l.amount >= Sizing!Least(l.asset)
               /\ l.side = "sell" =>
                    /\ l.volume >= OrderMin
                    /\ (l.volume + VolumeStep) * account.prices[l.asset] > Sizing!Least(l.asset)
    <3> DEFINE p == account.prices[l.asset]
               m == OrderMin * p
               v == (l.volume + VolumeStep) * p
               least == Sizing!Max({CostMin, m, account.floor})
    <3>1. /\ p \in Nat /\ l.amount >= l.minimum
          /\ l.minimum >= CostMin /\ l.minimum >= m /\ l.minimum >= account.floor
          /\ l.side = "sell" => l.volume >= OrderMin /\ l.amount < v
          /\ LegInv(l) /\ ~l.note
      BY <2>2 DEF SizingInv, LegInv
    <3>2. l.amount \in Nat /\ l.minimum \in Nat /\ l.volume \in Nat
      BY <3>1, LegAsks DEF LegInv, Sizing!Leg
    <3>3. m \in Int /\ CostMin \in Int /\ account.floor \in Int /\ v \in Int
      <4>1. account.floor \in Nat
        BY AccountType DEF SizingInv
      <4> QED
        BY <3>1, <3>2, <4>1, SizingConstants, Products
    <3>4. Sizing!Least(l.asset) = least
      BY DEF Sizing!Least
    <3> HIDE DEF m, v
    <3>5. l.amount \in Int /\ l.amount >= CostMin /\ l.amount >= m /\ l.amount >= account.floor
      BY <3>1, <3>2, <3>3
    <3>6. l.amount >= least /\ least \in Int
      BY <3>3, <3>5, OfThree
    <3> HIDE DEF least
    <3> QED
      BY <3>1, <3>2, <3>3, <3>4, <3>6 DEF v
  <2> QED
    BY <2>1, <2>2 DEF Sizing!MinimumsMetToAStep, Assets
<1> QED
  BY <1>1, SizingInvariant, PTL

\* reconcile, _plan and _within: outside pro rata no buy that is sent takes its
\* asset past its target; and a sell takes it to its target and not below, but for
\* less than one step of volume, whatever the rounding of its amount, its volume
\* and the balance.
THEOREM OrdersDoNotOvershoot == Spec => []NoOrderOvershoots
<1>1. (part = "sizing" => SizingInv) => NoOrderOvershoots
  BY DEF NoOrderOvershoots, Sizing!NoOrderOvershoots, SizingInv, LegInv, MeetsTarget
<1> QED
  BY <1>1, SizingInvariant, PTL

\* _within: when the buys are shrunk, less than two steps of each stay unspent.
THEOREM BudgetIsSpent == Spec => BudgetIsUsed
<1>1. (part = "sizing" => SizingInv) /\ [Next]_vars => [part = "sizing" => Sizing!BudgetIsUsed]_vars
  <2> SUFFICES ASSUME SizingInv, part = "sizing", [Next]_vars,
                      pc = "sells", pc' = "buys", buys' # buys, budget >= 0
               PROVE  Sizing!BudgetIsUsed
    BY DEF Sizing!BudgetIsUsed
  <2>1. Sizing!_within
    BY DEF Next, vars, sizing, Sizing!Next, Sizing!Ends, Sizing!_plan, Sizing!SkipSell,
       Sizing!SellNotExecuted, Sizing!SellExecuted, Sizing!SkipBuy, Sizing!SendBuy, Sizing!Done
  <2>2. /\ Hundred * Sizing!asked > budget /\ Sizing!asked > 0
        /\ \E fit \in [Sizing!Sendable(buys) ->
                         UNION {Sizing!Shrunk(l) : l \in Sizing!Sendable(buys)}] :
             /\ \A l \in Sizing!Sendable(buys) : fit[l] \in Sizing!Shrunk(l)
             /\ buys' = (buys \ Sizing!Sendable(buys))
                          \cup {Sizing!Fitted(l, fit[l]) : l \in Sizing!Sendable(buys)}
    BY <2>1 DEF Sizing!_within
  <2>3. PICK fit :
          /\ \A l \in Sizing!Sendable(buys) : fit[l] \in Sizing!Shrunk(l)
          /\ buys' = (buys \ Sizing!Sendable(buys))
                       \cup {Sizing!Fitted(l, fit[l]) : l \in Sizing!Sendable(buys)}
    BY <2>2
  <2>4. Sizing!asked \in Nat \ {0} /\ Priced
    BY <2>2, AskedByBuys DEF SizingInv, ReadInv
  <2> DEFINE new == (buys \ Sizing!Sendable(buys))
                      \cup {Sizing!Fitted(l, fit[l]) : l \in Sizing!Sendable(buys)}
             N == {l \in new : ~l.note \/ l \notin buys}
  <2>5. Hundred * (SumFunctionOnSet([l \in N |-> l.amount], N)
                     + (2 * CostStep * Cardinality(new))) > budget
    BY <2>2, <2>3, <2>4, ShrunkBuysUse
  <2>6. new = buys'
    BY <2>3
  <2> HIDE DEF new
  <2> QED
    BY <2>5, <2>6, SizingSums, SizingCounts DEF Sizing!BudgetIsUsed, Sizing!Sum
<1> QED
  BY <1>1, SizingInvariant, PTL DEF BudgetIsUsed, Spec
=============================================================================
