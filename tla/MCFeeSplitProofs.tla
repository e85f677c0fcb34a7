-------------------------- MODULE MCFeeSplitProofs --------------------------
(***************************************************************************)
(* The properties of the fee_split run, for every width of the integers,   *)
(* every denominator and every bound on the rates.                         *)
(***************************************************************************)
EXTENDS MCFeeSplit, FeeSplitProofs

\* The input is in range, and the split is the one of the input.
Computed == /\ amount \in I128 /\ rule \in Rules
            /\ split \in {Pending, calculate_split(amount, rule)}

\* The call computes the split of its own input.
LEMMA ComputedCorrect == Spec => []Computed
<1>1. Init => Computed
  BY DEF Init, Computed
<1>2. Computed /\ [Compute]_vars => Computed'
  <2> SUFFICES ASSUME Computed, [Compute]_vars PROVE Computed'
    OBVIOUS
  <2>1. UNCHANGED <<amount, rule>> /\ split' \in {split, calculate_split(amount, rule)}
    BY DEF Compute, vars
  <2>2. calculate_split(amount, rule)' = calculate_split(amount, rule)
    BY <2>1 DEF calculate_split, rates_fit, calculate_fee_ceil, numerator_fits, clamp_fee_legs
  <2> QED
    BY <2>1, <2>2 DEF Computed
<1> QED
  BY <1>1, <1>2, PTL DEF Spec

\* What is known of the input and of a finished split.
LEMMA Input ==
    ASSUME Computed
    PROVE  /\ amount \in Int /\ rule.platform_fee_bps \in Nat /\ rule.network_fee_bps \in Nat
           /\ rule.platform_fee_bps + rule.network_fee_bps <= I128_MAX
           /\ Done => split = calculate_split(amount, rule) /\ calculate_split(amount, rule) # None
  BY RatesAssumption, FeeAssumption DEF Computed, Rules, I128, Done

\* Value conservation of the split, also for rates above the whole and for
\* negative amounts.
THEOREM LegsConserveGrossCorrect == Spec => []LegsConserveGross
<1>1. ASSUME Computed PROVE LegsConserveGross
  <2>1. SUFFICES ASSUME Done
                 PROVE  /\ split.platform_fee_amount \in Nat
                        /\ split.network_fee_amount \in Nat
                        /\ split.merchant_payout_amount \in Nat
                        /\ split.platform_fee_amount + split.network_fee_amount
                              + split.merchant_payout_amount = MaxOf(amount, 0)
    BY DEF LegsConserveGross
  <2>2. /\ amount \in Int /\ rule.platform_fee_bps \in Nat /\ rule.network_fee_bps \in Nat
        /\ split = calculate_split(amount, rule) /\ calculate_split(amount, rule) # None
    BY <1>1, <2>1, Input
  <2> QED
    BY <2>2, SplitConserves
<1> QED
  BY <1>1, ComputedCorrect, PTL

\* The reference ceiling is what Bps::calculate_fee_ceil returns.
LEMMA RefCeilIsFee ==
    ASSUME NEW bps \in Nat, amount \in Nat, calculate_fee_ceil(bps, amount) # None
    PROVE  RefCeil(bps) = calculate_fee_ceil(bps, amount)
<1> DEFINE fee == calculate_fee_ceil(bps, amount)
           Least(k) == /\ k * BPS_DENOMINATOR >= amount * bps
                       /\ \A j \in 0..(k - 1) : j * BPS_DENOMINATOR < amount * bps
<1>1. fee \in Nat /\ fee <= amount * bps /\ amount * bps \in Nat
  BY FeeCeilBounds, FeeAtMost, NatProduct
<1>2. \A k \in Nat : k = fee <=> Least(k)
  BY FeeIsLeastCeiling
<1>3. RefCeil(bps) = CHOOSE k \in 0..(amount * bps) : Least(k)
  BY DEF RefCeil
<1> HIDE DEF fee, Least
<1>4. fee \in 0..(amount * bps) /\ \A k \in 0..(amount * bps) : Least(k) <=> k = fee
  BY <1>1, <1>2
<1>5. (CHOOSE k \in 0..(amount * bps) : Least(k)) = fee
  BY <1>4
<1> QED
  BY <1>3, <1>5 DEF fee

\* The fee legs are the exact ceilings, clamped platform first.
THEOREM FeesAreCeilingsCorrect == Spec => []FeesAreCeilings
<1>1. ASSUME Computed PROVE FeesAreCeilings
  <2>1. SUFFICES ASSUME Done, amount >= 0
                 PROVE  /\ split.platform_fee_amount = RefPlatform
                        /\ split.network_fee_amount
                              = MinOf(RefCeil(rule.network_fee_bps), amount - RefPlatform)
    BY DEF FeesAreCeilings
  <2>2. /\ amount \in Nat /\ rule.platform_fee_bps \in Nat /\ rule.network_fee_bps \in Nat
        /\ split = calculate_split(amount, rule) /\ calculate_split(amount, rule) # None
    BY <1>1, <2>1, Input
  <2> DEFINE p == calculate_fee_ceil(rule.platform_fee_bps, amount)
             n == calculate_fee_ceil(rule.network_fee_bps, amount)
  <2>3. /\ p # None /\ n # None
        /\ split.platform_fee_amount = MinOf(p, amount)
        /\ split.network_fee_amount = MinOf(n, amount - MinOf(p, amount))
    BY <2>2, SplitLegs
  <2>4. p = RefCeil(rule.platform_fee_bps) /\ n = RefCeil(rule.network_fee_bps)
    BY <2>2, <2>3, RefCeilIsFee
  <2> QED
    BY <2>3, <2>4 DEF RefPlatform
<1> QED
  BY <1>1, ComputedCorrect, PTL

\* AmountOverflow is exact.
THEOREM OverflowIsExactCorrect == Spec => []OverflowIsExact
<1>1. ASSUME Computed PROVE OverflowIsExact
  <2>1. SUFFICES ASSUME split # Pending
                 PROVE  split = None <=> ~numerator_fits(amount, rule.platform_fee_bps
                                                                    + rule.network_fee_bps)
    BY DEF OverflowIsExact
  <2>2. split = calculate_split(amount, rule)
    BY <1>1, <2>1 DEF Computed
  <2>3. /\ amount \in Int /\ rule.platform_fee_bps \in Nat /\ rule.network_fee_bps \in Nat
        /\ rule.platform_fee_bps + rule.network_fee_bps <= I128_MAX
    BY <1>1, Input
  <2>4. calculate_split(amount, rule) # None
           <=> numerator_fits(amount, rule.platform_fee_bps + rule.network_fee_bps)
    BY <2>3, SplitOverflow, RatesAssumption DEF Split
  <2> QED
    BY <2>2, <2>4
<1> QED
  BY <1>1, ComputedCorrect, PTL

\* Dividing a payment in two never saves fees.
THEOREM SplittingNeverSavesFeesCorrect == Spec => []SplittingNeverSavesFees
<1>1. ASSUME Computed PROVE SplittingNeverSavesFees
  <2> DEFINE sum == rule.platform_fee_bps + rule.network_fee_bps
             S(x) == calculate_split(x, rule)
  <2>1. SUFFICES ASSUME Done, amount > 1, sum <= BPS_DENOMINATOR, NEW a \in 1..(amount - 1)
                 PROVE  /\ S(a).platform_fee_amount + S(amount - a).platform_fee_amount
                              >= split.platform_fee_amount
                        /\ S(a).merchant_payout_amount > 0
                              /\ S(amount - a).merchant_payout_amount > 0 =>
                              S(a).merchant_payout_amount + S(amount - a).merchant_payout_amount
                                 <= split.merchant_payout_amount
    BY DEF SplittingNeverSavesFees
  <2>2. /\ amount \in Nat /\ rule.platform_fee_bps \in Nat /\ rule.network_fee_bps \in Nat
        /\ sum \in Nat /\ sum <= I128_MAX
        /\ split = S(amount) /\ S(amount) # None
    BY <1>1, <2>1, Input
  <2>3. a \in Nat /\ amount - a \in Nat /\ a + (amount - a) = amount
        /\ a <= amount /\ amount - a <= amount
    BY <2>1, <2>2
  <2>4. numerator_fits(amount, sum)
    BY <2>2, SplitOverflow, RatesAssumption DEF Split
  <2>5. numerator_fits(a, sum) /\ numerator_fits(amount - a, sum)
    BY <2>2, <2>3, <2>4, SmallerAmountFits
  <2>6. S(a) # None /\ S(amount - a) # None
    BY <2>2, <2>3, <2>5, SplitOverflow, RatesAssumption DEF Split
  <2> QED
    BY <2>1, <2>2, <2>3, <2>6, SplitSubadditive
<1> QED
  BY <1>1, ComputedCorrect, PTL
=============================================================================
