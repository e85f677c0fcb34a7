----------------------------- MODULE MCFeeSplit -----------------------------
(***************************************************************************)
(* Exhaustive check of FeeSplit over a scaled i128: every amount of the    *)
(* width and every pair of rates up to MaxBps (above BPS_DENOMINATOR, since*)
(* governance answers are not range-checked by the settlement contract).   *)
(* A state is one call: the input is chosen, then the split is computed.   *)
(***************************************************************************)
EXTENDS FeeSplit

CONSTANTS MaxBps,   \* largest rate tried
          Pending   \* model value: the split is not computed yet

Split == [platform_fee_amount: Int, network_fee_amount: Int, merchant_payout_amount: Int]

\* The rates are u32 values, so two of them add up well within an i128, and so
\* does the denominator.
ASSUME RatesAssumption ==
    /\ MaxBps \in Nat /\ 2 * MaxBps <= I128_MAX
    /\ BPS_DENOMINATOR <= I128_MAX
    /\ None \notin Split

VARIABLES amount, rule, split

vars == <<amount, rule, split>>

Rules == [platform_fee_bps: 0..MaxBps, network_fee_bps: 0..MaxBps]

Init == /\ amount \in I128
        /\ rule \in Rules
        /\ split = Pending

Compute == /\ split = Pending
           /\ split' = calculate_split(amount, rule)
           /\ UNCHANGED <<amount, rule>>

Spec == Init /\ [][Compute]_vars

-----------------------------------------------------------------------------
Done == split \notin {Pending, None}

\* The reference definition: the least whole number of units that covers the
\* exact fee amount * bps / BPS_DENOMINATOR.
RefCeil(bps) == CHOOSE k \in 0..(amount * bps) :
                   /\ k * BPS_DENOMINATOR >= amount * bps
                   /\ \A j \in 0..(k - 1) : j * BPS_DENOMINATOR < amount * bps

RefPlatform == MinOf(RefCeil(rule.platform_fee_bps), amount)

\* Value conservation (issue #988): whatever the amount and the rates, the
\* three legs are non-negative and add up to the gross, a negative gross
\* counting as zero.
LegsConserveGross ==
    Done => /\ split.platform_fee_amount >= 0
            /\ split.network_fee_amount >= 0
            /\ split.merchant_payout_amount >= 0
            /\ split.platform_fee_amount + split.network_fee_amount
                  + split.merchant_payout_amount = MaxOf(amount, 0)

\* The fee legs are the mathematical ceilings of the two rates, the platform
\* leg being served before the network leg when the gross does not cover both
\* (issue #683).  The code computes them by adding denominator - 1 and dividing.
FeesAreCeilings ==
    Done /\ amount >= 0 =>
        /\ split.platform_fee_amount = RefPlatform
        /\ split.network_fee_amount = MinOf(RefCeil(rule.network_fee_bps), amount - RefPlatform)

\* AmountOverflow is raised exactly when the exact numerator of the combined
\* rate leaves i128 (issue #989): no split that fits is refused, none that
\* overflows gets through, and the later unwrap of a single leg never fires.
OverflowIsExact ==
    split # Pending =>
        (split = None <=> ~numerator_fits(amount, rule.platform_fee_bps + rule.network_fee_bps))

\* Dividing a payment in two never saves fees: the platform leg is subadditive
\* in the gross, and so is the whole fee when each part is large enough for
\* its merchant to receive something (below that size the network leg of a
\* part is clamped, and splitting does save fees).
SplittingNeverSavesFees ==
    Done /\ amount > 1 /\ rule.platform_fee_bps + rule.network_fee_bps <= BPS_DENOMINATOR =>
        \A a \in 1..(amount - 1) :
            LET s == calculate_split(a, rule)
                t == calculate_split(amount - a, rule)
            IN /\ s.platform_fee_amount + t.platform_fee_amount >= split.platform_fee_amount
               /\ s.merchant_payout_amount > 0 /\ t.merchant_payout_amount > 0 =>
                     s.merchant_payout_amount + t.merchant_payout_amount
                        <= split.merchant_payout_amount
=============================================================================
