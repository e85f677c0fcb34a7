--------------------------- MODULE FeeSplitProofs ---------------------------
(***************************************************************************)
(* What the fee arithmetic guarantees for every amount, every pair of      *)
(* rates, every denominator and every integer width.                       *)
(***************************************************************************)
EXTENDS FeeSplit, TLAPS

\* Rounding up by adding d - 1 before an integer division.
LEMMA CeilDiv ==
    ASSUME NEW n \in Nat, NEW d \in Nat \ {0}
    PROVE  /\ (n + (d - 1)) \div d \in Nat
           /\ ((n + (d - 1)) \div d) * d >= n
           /\ ((n + (d - 1)) \div d) * d < n + d
  OBVIOUS

\* A product of naturals is a natural (stated once: the provers only do
\* linear arithmetic reliably).
LEMMA NatProduct == ASSUME NEW a \in Nat, NEW b \in Nat PROVE a * b \in Nat
  OBVIOUS

\* A product of integers is an integer.
LEMMA IntProduct == ASSUME NEW a \in Int, NEW b \in Int PROVE a * b \in Int
  OBVIOUS

\* Bps::calculate_fee_ceil is total up to overflow: it yields an integer or
\* reports that the numerator does not fit.
LEMMA FeeCeilType ==
    ASSUME NEW bps \in Nat, NEW amount \in Int
    PROVE  calculate_fee_ceil(bps, amount) \in Int \cup {None}
<1> DEFINE x == amount * bps + (BPS_DENOMINATOR - 1)
<1>1. amount * bps \in Int
  BY IntProduct
<1>2. x \in Int
  BY <1>1, FeeAssumption
<1>3. ASSUME NEW y \in Int PROVE TruncDiv(y, BPS_DENOMINATOR) \in Int
  BY <1>3, FeeAssumption DEF TruncDiv
<1>4. TruncDiv(x, BPS_DENOMINATOR) \in Int
  BY <1>2, <1>3
<1> QED
  BY <1>4 DEF calculate_fee_ceil

\* Bps::calculate_fee_ceil rounds up and never by a whole unit: the fee
\* covers the exact fraction and is less than one unit above it.
THEOREM FeeCeilBounds ==
    ASSUME NEW bps \in Nat, NEW amount \in Nat, calculate_fee_ceil(bps, amount) # None
    PROVE  LET fee == calculate_fee_ceil(bps, amount)
           IN /\ fee \in Nat
              /\ fee * BPS_DENOMINATOR >= amount * bps
              /\ fee * BPS_DENOMINATOR < amount * bps + BPS_DENOMINATOR
<1> DEFINE n == amount * bps
<1>1. n \in Nat
  BY NatProduct
<1>2. BPS_DENOMINATOR \in Nat \ {0}
  BY FeeAssumption
<1>3. calculate_fee_ceil(bps, amount) = TruncDiv(n + (BPS_DENOMINATOR - 1), BPS_DENOMINATOR)
  BY DEF calculate_fee_ceil
<1>4. TruncDiv(n + (BPS_DENOMINATOR - 1), BPS_DENOMINATOR)
         = (n + (BPS_DENOMINATOR - 1)) \div BPS_DENOMINATOR
  <2> HIDE DEF n
  <2> QED BY <1>1, <1>2 DEF TruncDiv
<1> HIDE DEF n
<1>5. /\ (n + (BPS_DENOMINATOR - 1)) \div BPS_DENOMINATOR \in Nat
      /\ ((n + (BPS_DENOMINATOR - 1)) \div BPS_DENOMINATOR) * BPS_DENOMINATOR >= n
      /\ ((n + (BPS_DENOMINATOR - 1)) \div BPS_DENOMINATOR) * BPS_DENOMINATOR
            < n + BPS_DENOMINATOR
  BY <1>1, <1>2, CeilDiv
<1> QED
  BY <1>3, <1>4, <1>5 DEF n

\* clamp_fee_legs conserves value (issue #988): whatever the two fees are, the
\* legs are non-negative and add up to the gross, a negative gross being zero.
LEMMA ClampConserves ==
    ASSUME NEW gross \in Int, NEW platform \in Int, NEW network \in Int
    PROVE  LET s == clamp_fee_legs(gross, platform, network)
           IN /\ s.platform_fee_amount \in Nat
              /\ s.network_fee_amount \in Nat
              /\ s.merchant_payout_amount \in Nat
              /\ s.platform_fee_amount + s.network_fee_amount + s.merchant_payout_amount
                    = MaxOf(gross, 0)
  BY DEF clamp_fee_legs, Clamp, MaxOf

\* calculate_split conserves value for every amount and every pair of rates,
\* also rates above the denominator.
THEOREM SplitConserves ==
    ASSUME NEW amount \in Int, NEW rule, rule.platform_fee_bps \in Nat,
           rule.network_fee_bps \in Nat, calculate_split(amount, rule) # None
    PROVE  LET s == calculate_split(amount, rule)
           IN /\ s.platform_fee_amount \in Nat
              /\ s.network_fee_amount \in Nat
              /\ s.merchant_payout_amount \in Nat
              /\ s.platform_fee_amount + s.network_fee_amount + s.merchant_payout_amount
                    = MaxOf(amount, 0)
<1> DEFINE p == calculate_fee_ceil(rule.platform_fee_bps, amount)
           n == calculate_fee_ceil(rule.network_fee_bps, amount)
<1>1. p \in Int \cup {None} /\ n \in Int \cup {None}
  BY FeeCeilType
<1>2. p # None /\ n # None /\ calculate_split(amount, rule) = clamp_fee_legs(amount, p, n)
  BY DEF calculate_split
<1> HIDE DEF p, n
<1> QED
  BY <1>1, <1>2, ClampConserves

-----------------------------------------------------------------------------
(* Monotonicity, least ceilings and subadditivity.                          *)

\* Products of naturals are monotone, and a factor cancels.
LEMMA ProductMonotone ==
    ASSUME NEW a \in Nat, NEW b \in Nat, NEW c \in Nat, a <= b
    PROVE  a * c <= b * c /\ c * a <= c * b
  OBVIOUS

LEMMA ProductCancel ==
    ASSUME NEW a \in Int, NEW b \in Nat, NEW d \in Nat \ {0}, a * d < b * d
    PROVE  a < b
<1>1. ASSUME a >= b PROVE FALSE
  <2>1. a \in Nat
    BY <1>1
  <2> QED
    BY <1>1, <2>1, ProductMonotone
<1> QED
  BY <1>1

\* A numerator that fits for a rate fits for every smaller one, provided the
\* rounding constant itself fits.
LEMMA SmallerRateFits ==
    ASSUME NEW amount \in Int, NEW b \in Nat, NEW c \in Nat, b <= c,
           BPS_DENOMINATOR <= I128_MAX, numerator_fits(amount, c)
    PROVE  numerator_fits(amount, b)
<1> DEFINE x == amount * b
           y == amount * c
<1>1. x \in Int /\ y \in Int
  BY IntProduct
<1>2. CASE amount \in Nat
  <2>1. 0 <= x /\ x <= y
    BY <1>2, NatProduct, ProductMonotone
  <2> HIDE DEF x, y
  <2>2. x \in I128 /\ x + (BPS_DENOMINATOR - 1) \in I128
    <3>1. y \in I128 /\ y + (BPS_DENOMINATOR - 1) \in I128
      BY DEF numerator_fits, y
    <3> QED
      BY <1>1, <2>1, <3>1, FeeAssumption DEF I128
  <2> QED
    BY <2>2 DEF numerator_fits, x
<1>3. CASE -amount \in Nat
  <2>1. y <= x /\ x <= 0
    <3> DEFINE k == -amount
    <3>1. k \in Nat /\ amount = -k
      BY <1>3
    <3>2. k * b <= k * c /\ k * b \in Nat /\ k * c \in Nat
      BY <3>1, NatProduct, ProductMonotone
    <3>3. x = -(k * b) /\ y = -(k * c)
      OBVIOUS
    <3> QED
      BY <3>2, <3>3
  <2> HIDE DEF x, y
  <2>2. x \in I128 /\ x + (BPS_DENOMINATOR - 1) \in I128
    <3>1. y \in I128 /\ y + (BPS_DENOMINATOR - 1) \in I128
      BY DEF numerator_fits, y
    <3> QED
      BY <1>1, <2>1, <3>1, FeeAssumption DEF I128
  <2> QED
    BY <2>2 DEF numerator_fits, x
<1> QED
  BY <1>2, <1>3

\* A numerator that fits for an amount fits for every smaller one.
LEMMA SmallerAmountFits ==
    ASSUME NEW a \in Nat, NEW amount \in Nat, a <= amount, NEW bps \in Nat,
           numerator_fits(amount, bps)
    PROVE  numerator_fits(a, bps)
<1> DEFINE x == a * bps
           y == amount * bps
<1>1. x \in Nat /\ y \in Nat /\ x <= y
  BY NatProduct, ProductMonotone
<1>2. y \in I128 /\ y + (BPS_DENOMINATOR - 1) \in I128
  BY DEF numerator_fits
<1> HIDE DEF x, y
<1>3. x \in I128 /\ x + (BPS_DENOMINATOR - 1) \in I128
  BY <1>1, <1>2, FeeAssumption DEF I128
<1> QED
  BY <1>3 DEF numerator_fits, x

\* Bps::calculate_fee_ceil is the least whole number of units that covers the
\* exact fee, and the only one.
THEOREM FeeIsLeastCeiling ==
    ASSUME NEW bps \in Nat, NEW amount \in Nat, calculate_fee_ceil(bps, amount) # None,
           NEW k \in Nat
    PROVE  k = calculate_fee_ceil(bps, amount) <=>
              /\ k * BPS_DENOMINATOR >= amount * bps
              /\ \A j \in 0..(k - 1) : j * BPS_DENOMINATOR < amount * bps
<1> DEFINE fee == calculate_fee_ceil(bps, amount)
           n == amount * bps
<1>1. /\ fee \in Nat
      /\ fee * BPS_DENOMINATOR >= n
      /\ fee * BPS_DENOMINATOR < n + BPS_DENOMINATOR
  BY FeeCeilBounds
<1>2. n \in Nat /\ BPS_DENOMINATOR \in Nat \ {0}
  BY NatProduct, FeeAssumption
<1> HIDE DEF fee, n
<1>3. ASSUME NEW j \in 0..(fee - 1) PROVE j * BPS_DENOMINATOR < n
  <2>1. j \in Nat /\ j + 1 \in Nat /\ j + 1 <= fee
    BY <1>1
  <2>2. (j + 1) * BPS_DENOMINATOR <= fee * BPS_DENOMINATOR
    BY <1>1, <1>2, <2>1, ProductMonotone
  <2>3. (j + 1) * BPS_DENOMINATOR = j * BPS_DENOMINATOR + BPS_DENOMINATOR
    BY <1>2, <2>1
  <2>4. j * BPS_DENOMINATOR \in Nat /\ fee * BPS_DENOMINATOR \in Nat
    BY <1>1, <1>2, <2>1, NatProduct
  <2> QED
    BY <1>1, <1>2, <2>2, <2>3, <2>4
<1>4. ASSUME k * BPS_DENOMINATOR >= n, \A j \in 0..(k - 1) : j * BPS_DENOMINATOR < n
      PROVE  k = fee
  <2>1. k * BPS_DENOMINATOR \in Nat /\ fee * BPS_DENOMINATOR \in Nat
    BY <1>1, <1>2, NatProduct
  <2>2. ~(k < fee)
    BY <1>1, <1>2, <1>3, <1>4, <2>1
  <2>3. ~(fee < k)
    BY <1>1, <1>2, <1>4, <2>1
  <2> QED
    BY <1>1, <2>2, <2>3
<1>5. k = fee <=> /\ k * BPS_DENOMINATOR >= n
                  /\ \A j \in 0..(k - 1) : j * BPS_DENOMINATOR < n
  BY <1>1, <1>3, <1>4
<1> QED
  BY <1>5 DEF fee, n

\* The fee is at most the exact numerator, and at most the amount when the
\* rate is at most the whole.
LEMMA FeeAtMost ==
    ASSUME NEW bps \in Nat, NEW amount \in Nat, calculate_fee_ceil(bps, amount) # None
    PROVE  /\ calculate_fee_ceil(bps, amount) <= amount * bps
           /\ bps <= BPS_DENOMINATOR => calculate_fee_ceil(bps, amount) <= amount
<1> DEFINE fee == calculate_fee_ceil(bps, amount)
           n == amount * bps
           D == BPS_DENOMINATOR
<1>1. fee \in Nat /\ fee * D < n + D
  BY FeeCeilBounds
<1>2. n \in Nat /\ D \in Nat \ {0}
  BY NatProduct, FeeAssumption
<1>3. \A m \in Nat : (m + 1) * D = m * D + D /\ m * D \in Nat
  <2> SUFFICES ASSUME NEW m \in Nat PROVE (m + 1) * D = m * D + D /\ m * D \in Nat
    OBVIOUS
  <2> QED
    BY <1>2, NatProduct
<1>4. bps <= D => n <= amount * D
  BY <1>2, ProductMonotone
<1>5. n <= n * D
  <2>1. 1 \in Nat /\ 1 <= D /\ n * 1 = n
    BY <1>2
  <2> QED
    BY <1>2, <2>1, ProductMonotone
<1> HIDE DEF fee, n, D
<1>6. ASSUME NEW m \in Nat, n <= m * D PROVE fee <= m
  <2>1. fee * D < (m + 1) * D
    <3>1. fee * D \in Nat
      BY <1>1, <1>3
    <3> QED
      BY <1>1, <1>2, <1>3, <1>6, <3>1
  <2>2. fee < m + 1
    BY <1>1, <1>2, <2>1, ProductCancel
  <2> QED
    BY <1>1, <2>2
<1>7. fee <= n /\ (bps <= D => fee <= amount)
  BY <1>2, <1>4, <1>5, <1>6
<1> QED
  BY <1>7 DEF fee, n, D

\* Rounding up each part of an amount never charges less than rounding up the
\* whole.
THEOREM FeeSubadditive ==
    ASSUME NEW bps \in Nat, NEW a \in Nat, NEW b \in Nat,
           calculate_fee_ceil(bps, a) # None, calculate_fee_ceil(bps, b) # None,
           calculate_fee_ceil(bps, a + b) # None
    PROVE  calculate_fee_ceil(bps, a + b)
              <= calculate_fee_ceil(bps, a) + calculate_fee_ceil(bps, b)
<1> DEFINE f == calculate_fee_ceil(bps, a)
           g == calculate_fee_ceil(bps, b)
           h == calculate_fee_ceil(bps, a + b)
           D == BPS_DENOMINATOR
<1>1. f \in Nat /\ f * D >= a * bps
  BY FeeCeilBounds
<1>2. g \in Nat /\ g * D >= b * bps
  BY FeeCeilBounds
<1>3. h \in Nat /\ h * D < (a + b) * bps + D
  <2>1. a + b \in Nat
    OBVIOUS
  <2> QED
    BY <2>1, FeeCeilBounds
<1>4. (a + b) * bps = a * bps + b * bps /\ a * bps \in Nat /\ b * bps \in Nat
  BY NatProduct
<1>5. D \in Nat \ {0}
  BY FeeAssumption
<1> HIDE DEF f, g, h, D
<1>6. (f + g + 1) * D = f * D + g * D + D /\ f * D \in Nat /\ g * D \in Nat /\ h * D \in Nat
  BY <1>1, <1>2, <1>3, <1>5, NatProduct
<1>7. h * D < (f + g + 1) * D
  BY <1>1, <1>2, <1>3, <1>4, <1>5, <1>6
<1>8. h < f + g + 1
  BY <1>1, <1>2, <1>3, <1>5, <1>7, ProductCancel
<1>9. h <= f + g
  BY <1>1, <1>2, <1>3, <1>8
<1> QED
  BY <1>9 DEF f, g, h

-----------------------------------------------------------------------------
(* The split.                                                               *)

\* The legs of a split of a non-negative amount: the platform leg is served
\* first, the network leg gets at most the rest.
LEMMA SplitLegs ==
    ASSUME NEW amount \in Nat, NEW rule, rule.platform_fee_bps \in Nat,
           rule.network_fee_bps \in Nat, calculate_split(amount, rule) # None
    PROVE  LET s == calculate_split(amount, rule)
               p == calculate_fee_ceil(rule.platform_fee_bps, amount)
               n == calculate_fee_ceil(rule.network_fee_bps, amount)
           IN /\ p # None /\ n # None /\ p \in Nat /\ n \in Nat
              /\ s.platform_fee_amount = MinOf(p, amount)
              /\ s.network_fee_amount = MinOf(n, amount - MinOf(p, amount))
              /\ s.merchant_payout_amount
                    = amount - s.platform_fee_amount - s.network_fee_amount
<1> DEFINE p == calculate_fee_ceil(rule.platform_fee_bps, amount)
           n == calculate_fee_ceil(rule.network_fee_bps, amount)
<1>1. p # None /\ n # None /\ calculate_split(amount, rule) = clamp_fee_legs(amount, p, n)
  BY DEF calculate_split
<1>2. p \in Nat /\ n \in Nat
  BY <1>1, FeeCeilBounds
<1> HIDE DEF p, n
<1>3. LET s == clamp_fee_legs(amount, p, n)
      IN /\ s.platform_fee_amount = MinOf(p, amount)
         /\ s.network_fee_amount = MinOf(n, amount - MinOf(p, amount))
         /\ s.merchant_payout_amount = amount - s.platform_fee_amount - s.network_fee_amount
  BY <1>2 DEF clamp_fee_legs, Clamp, MaxOf, MinOf
<1> QED
  BY <1>1, <1>2, <1>3 DEF p, n

\* AmountOverflow is raised exactly when the combined numerator leaves i128:
\* the guard on the combined rate implies the one on the larger rate and both
\* single legs.
THEOREM SplitOverflow ==
    ASSUME NEW amount \in Int, NEW rule, rule.platform_fee_bps \in Nat,
           rule.network_fee_bps \in Nat, BPS_DENOMINATOR <= I128_MAX,
           rule.platform_fee_bps + rule.network_fee_bps <= I128_MAX,
           None \notin [platform_fee_amount: Int, network_fee_amount: Int,
                        merchant_payout_amount: Int]
    PROVE  calculate_split(amount, rule) # None
              <=> numerator_fits(amount, rule.platform_fee_bps + rule.network_fee_bps)
<1> DEFINE b == rule.platform_fee_bps
           c == rule.network_fee_bps
           sum == b + c
           p == calculate_fee_ceil(b, amount)
           n == calculate_fee_ceil(c, amount)
<1>1. /\ sum \in Nat /\ sum \in I128 /\ MaxOf(b, c) \in Nat
      /\ b <= sum /\ c <= sum /\ MaxOf(b, c) <= sum
  BY FeeAssumption DEF I128, MaxOf
<1>2. calculate_split(amount, rule) # None => numerator_fits(amount, sum)
  BY <1>1 DEF calculate_split, rates_fit
<1>3. ASSUME numerator_fits(amount, sum) PROVE calculate_split(amount, rule) # None
  <2>1. /\ numerator_fits(amount, MaxOf(b, c)) /\ numerator_fits(amount, b)
        /\ numerator_fits(amount, c)
    BY <1>1, <1>3, SmallerRateFits
  <2>2. rates_fit(amount, rule)
    BY <1>1, <1>3, <2>1 DEF rates_fit
  <2>3. p \in Int /\ n \in Int
    <3>1. p # None /\ n # None
      <4>1. amount * b + (BPS_DENOMINATOR - 1) \in Int /\ amount * c + (BPS_DENOMINATOR - 1) \in Int
        BY IntProduct, FeeAssumption
      <4>2. \A y \in Int : TruncDiv(y, BPS_DENOMINATOR) \in Int
        BY FeeAssumption DEF TruncDiv
      <4> QED
        BY <2>1, <4>1, <4>2, FeeAssumption DEF calculate_fee_ceil
    <3> QED
      BY <3>1, FeeCeilType
  <2>4. calculate_split(amount, rule) = clamp_fee_legs(amount, p, n)
    BY <2>2, <2>3, FeeAssumption DEF calculate_split
  <2> HIDE DEF p, n
  <2>5. clamp_fee_legs(amount, p, n) \in [platform_fee_amount: Int, network_fee_amount: Int,
                                          merchant_payout_amount: Int]
    BY <2>3 DEF clamp_fee_legs, Clamp, MaxOf
  <2> QED
    BY <2>4, <2>5
<1> QED
  BY <1>2, <1>3

\* Dividing a payment never saves fees when the rates together are at most
\* the whole: not on the platform leg, and not on both legs together when
\* both merchants' parts come to something.
THEOREM SplitSubadditive ==
    ASSUME NEW a \in Nat, NEW b \in Nat, NEW rule, rule.platform_fee_bps \in Nat,
           rule.network_fee_bps \in Nat,
           rule.platform_fee_bps + rule.network_fee_bps <= BPS_DENOMINATOR,
           calculate_split(a, rule) # None, calculate_split(b, rule) # None,
           calculate_split(a + b, rule) # None
    PROVE  LET s == calculate_split(a, rule)
               t == calculate_split(b, rule)
               u == calculate_split(a + b, rule)
           IN /\ s.platform_fee_amount + t.platform_fee_amount >= u.platform_fee_amount
              /\ s.merchant_payout_amount > 0 /\ t.merchant_payout_amount > 0 =>
                    s.merchant_payout_amount + t.merchant_payout_amount
                       <= u.merchant_payout_amount
<1> DEFINE P(x) == calculate_fee_ceil(rule.platform_fee_bps, x)
           N(x) == calculate_fee_ceil(rule.network_fee_bps, x)
           S(x) == calculate_split(x, rule)
<1>1. rule.platform_fee_bps <= BPS_DENOMINATOR /\ a + b \in Nat
  BY FeeAssumption
<1>2. ASSUME NEW x \in Nat, S(x) # None
      PROVE  /\ P(x) \in Nat /\ N(x) \in Nat /\ P(x) # None /\ N(x) # None /\ P(x) <= x
             /\ S(x).platform_fee_amount = P(x)
             /\ S(x).merchant_payout_amount >= x - P(x) - N(x)
             /\ S(x).merchant_payout_amount \in Int
             /\ S(x).merchant_payout_amount > 0 =>
                   S(x).merchant_payout_amount = x - P(x) - N(x)
  <2>1. /\ P(x) # None /\ N(x) # None /\ P(x) \in Nat /\ N(x) \in Nat
        /\ S(x).platform_fee_amount = MinOf(P(x), x)
        /\ S(x).network_fee_amount = MinOf(N(x), x - MinOf(P(x), x))
        /\ S(x).merchant_payout_amount = x - S(x).platform_fee_amount - S(x).network_fee_amount
    BY <1>2, SplitLegs
  <2>2. P(x) <= x
    BY <1>1, <1>2, <2>1, FeeAtMost
  <2> HIDE DEF P, N, S
  <2> QED
    BY <1>2, <2>1, <2>2 DEF MinOf
<1>3. P(a + b) <= P(a) + P(b) /\ N(a + b) <= N(a) + N(b)
  BY <1>1, <1>2, FeeSubadditive
<1>4. /\ S(a).platform_fee_amount + S(b).platform_fee_amount >= S(a + b).platform_fee_amount
      /\ S(a).merchant_payout_amount > 0 /\ S(b).merchant_payout_amount > 0 =>
            S(a).merchant_payout_amount + S(b).merchant_payout_amount
               <= S(a + b).merchant_payout_amount
  <2>1. S(a) # None /\ S(b) # None /\ S(a + b) # None
    OBVIOUS
  <2> HIDE DEF P, N, S
  <2> QED
    BY <1>1, <1>2, <1>3, <2>1
<1> QED
  BY <1>4

\* Multiplication distributes (stated once, for the same reason as NatProduct).
LEMMA Distributes ==
    ASSUME NEW a \in Int, NEW b \in Int, NEW c \in Int, NEW d \in Int
    PROVE  /\ a * (b - c - d) = a * b - a * c - a * d
           /\ (b - c - d) * a = b * a - c * a - d * a
           /\ (b + 2) * a = b * a + 2 * a
  OBVIOUS

\* What rounding costs the merchant, for every amount and every pair of rates
\* that together do not exceed the whole payment: the payout is at most the
\* exact share and less than two units below it, one unit for each ceiling, and
\* the clamp cuts the network leg by at most one unit.
THEOREM PayoutRounding ==
    ASSUME NEW amount \in Nat, NEW rule, rule.platform_fee_bps \in Nat,
           rule.network_fee_bps \in Nat,
           rule.platform_fee_bps + rule.network_fee_bps <= BPS_DENOMINATOR,
           calculate_split(amount, rule) # None
    PROVE  LET s == calculate_split(amount, rule)
               exact == amount * (BPS_DENOMINATOR - rule.platform_fee_bps - rule.network_fee_bps)
           IN /\ s.merchant_payout_amount * BPS_DENOMINATOR <= exact
              /\ exact < (s.merchant_payout_amount + 2) * BPS_DENOMINATOR
              /\ s.platform_fee_amount = calculate_fee_ceil(rule.platform_fee_bps, amount)
              /\ calculate_fee_ceil(rule.network_fee_bps, amount) - s.network_fee_amount \in {0, 1}
<1> DEFINE b == rule.platform_fee_bps
           c == rule.network_fee_bps
           D == BPS_DENOMINATOR
           p == calculate_fee_ceil(b, amount)
           n == calculate_fee_ceil(c, amount)
           s == calculate_split(amount, rule)
           x == amount * b
           y == amount * c
           z == amount * D
           net == s.network_fee_amount
           payout == s.merchant_payout_amount
<1>1. D \in Nat \ {0} /\ b \in Nat /\ c \in Nat /\ b <= D /\ c <= D /\ D - b - c \in Nat
  BY FeeAssumption
<1>2. /\ p # None /\ n # None /\ p \in Nat /\ n \in Nat
      /\ s.platform_fee_amount = MinOf(p, amount)
      /\ net = MinOf(n, amount - MinOf(p, amount))
      /\ payout = amount - s.platform_fee_amount - net
  BY SplitLegs
<1>3. p <= amount
  BY <1>1, <1>2, FeeAtMost
<1>4. s.platform_fee_amount = p /\ net \in {n, amount - p} /\ net <= n /\ net <= amount - p
  BY <1>2, <1>3 DEF MinOf
<1>5. /\ p * D >= x /\ p * D < x + D
      /\ n * D >= y /\ n * D < y + D
  BY <1>1, <1>2, FeeCeilBounds
<1>6. x \in Nat /\ y \in Nat /\ z \in Nat /\ p * D \in Nat /\ n * D \in Nat
  BY <1>1, <1>2, NatProduct
<1>7. amount * (D - b - c) = z - x - y
  BY <1>1, Distributes
<1>8. z - x - y >= 0
  BY <1>1, <1>7, NatProduct
<1>9. (amount - p - n) * D = z - p * D - n * D
  BY <1>1, <1>2, Distributes
<1>10. payout \in Nat /\ (payout = amount - p - n \/ (payout = 0 /\ amount - p - n < 0))
  BY <1>2, <1>3, <1>4
<1>11. payout * D <= z - x - y
  <2>1. CASE payout = amount - p - n
    BY <1>5, <1>6, <1>9, <2>1
  <2>2. CASE payout = 0
    BY <1>1, <1>8, <2>2
  <2> QED
    BY <1>10, <2>1, <2>2
<1>12. (payout + 2) * D = payout * D + 2 * D
  BY <1>1, <1>10, Distributes
<1>13. z - x - y < (amount - p - n) * D + 2 * D
  BY <1>1, <1>5, <1>6, <1>9
<1>14. (amount - p - n) * D <= payout * D /\ payout * D \in Nat
  <2>1. payout * D \in Nat
    BY <1>1, <1>10, NatProduct
  <2>2. CASE payout = amount - p - n
    BY <2>1, <2>2
  <2>3. CASE amount - p - n < 0
    <3>1. (p + n - amount) * D \in Nat
      BY <1>1, <1>2, <2>3, NatProduct
    <3>2. (amount - p - n) * D = -((p + n - amount) * D)
      BY <1>1, <1>2
    <3> QED
      BY <2>1, <3>1, <3>2
  <2> QED
    BY <1>10, <2>2, <2>3
<1> DEFINE k == amount - p - n
<1>15. k \in Int /\ k * D \in Int /\ (k + 2) * D = k * D + 2 * D
  BY <1>1, <1>2, IntProduct
<1>16. z - x - y < (payout + 2) * D
  <2> HIDE DEF x, y, z, k, payout
  <2> QED
    BY <1>1, <1>6, <1>12, <1>13, <1>14, <1>15 DEF k
<1>17. n - net \in {0, 1}
  <2>1. 0 < (k + 2) * D
    BY <1>1, <1>6, <1>8, <1>13, <1>15
  <2>2. ASSUME k + 2 <= 0 PROVE FALSE
    <3> DEFINE j == -(k + 2)
    <3>1. j \in Nat /\ j * D \in Nat
      BY <1>1, <1>15, <2>2, NatProduct
    <3>2. (k + 2) * D = -(j * D)
      BY <1>1, <1>15
    <3> QED
      BY <2>1, <3>1, <3>2
  <2> QED
    BY <1>2, <1>4, <1>15, <2>2
<1> QED
  BY <1>4, <1>7, <1>11, <1>16, <1>17

\* A larger payment never carries a smaller fee.
THEOREM FeeMonotone ==
    ASSUME NEW bps \in Nat, NEW a \in Nat, NEW b \in Nat, a <= b,
           calculate_fee_ceil(bps, a) # None, calculate_fee_ceil(bps, b) # None
    PROVE  calculate_fee_ceil(bps, a) <= calculate_fee_ceil(bps, b)
<1> DEFINE f == calculate_fee_ceil(bps, a)
           g == calculate_fee_ceil(bps, b)
           D == BPS_DENOMINATOR
<1>1. D \in Nat \ {0}
  BY FeeAssumption
<1>2. f \in Nat /\ f * D < a * bps + D /\ g \in Nat /\ g * D >= b * bps
  BY FeeCeilBounds
<1>3. a * bps \in Nat /\ b * bps \in Nat /\ a * bps <= b * bps /\ f * D \in Nat /\ g * D \in Nat
  BY <1>1, <1>2, NatProduct, ProductMonotone
<1>4. (g + 1) * D = g * D + D /\ g + 1 \in Nat
  BY <1>1, <1>2
<1>5. f * D < (g + 1) * D
  BY <1>1, <1>2, <1>3, <1>4
<1>6. f < g + 1
  BY <1>1, <1>2, <1>4, <1>5, ProductCancel
<1> QED
  BY <1>2, <1>6
=============================================================================
