------------------------------ MODULE FeeSplit ------------------------------
(***************************************************************************)
(* The basis-point arithmetic of a payment: Bps::calculate_fee_ceil of     *)
(* bettapay_common/src/types.rs, and clamp_fee_legs and calculate_split of *)
(* settlement_contract/src/payments.rs.                                    *)
(*                                                                         *)
(* Amounts are Rust i128 values: every checked_* operation whose exact     *)
(* result leaves the range I128 yields None.  The width is the constant    *)
(* I128_MAX, so that TLC can reach the overflow boundary on a small        *)
(* instance while the theorems hold for every width.                       *)
(***************************************************************************)
EXTENDS Integers

CONSTANTS BPS_DENOMINATOR,  \* 10 000 in the code
          I128_MAX,         \* 2^127 - 1 in the code
          None              \* Rust's None; here also the AmountOverflow panic

ASSUME FeeAssumption ==
    /\ BPS_DENOMINATOR \in Nat \ {0}
    /\ I128_MAX \in Nat
    /\ None \notin Int

I128 == (-I128_MAX - 1) .. I128_MAX

MaxOf(a, b) == IF a >= b THEN a ELSE b
MinOf(a, b) == IF a <= b THEN a ELSE b

\* i128::clamp and i128's division, which truncates towards zero.
Clamp(x, lo, hi) == IF x < lo THEN lo ELSE IF x > hi THEN hi ELSE x
TruncDiv(n, d) == IF n >= 0 THEN n \div d ELSE -((-n) \div d)

-----------------------------------------------------------------------------
\* amount.checked_mul(bps)?.checked_add(denom - 1)? succeeds.
numerator_fits(amount, bps) ==
    /\ amount * bps \in I128
    /\ amount * bps + (BPS_DENOMINATOR - 1) \in I128

Mut_fee_floor(bps, amount) ==
    IF numerator_fits(amount, bps) THEN TruncDiv(amount * bps, BPS_DENOMINATOR) ELSE None

calculate_fee_ceil(bps, amount) ==
    IF numerator_fits(amount, bps)
    THEN TruncDiv(amount * bps + (BPS_DENOMINATOR - 1), BPS_DENOMINATOR)
    ELSE None

Mut_network_unclamped(gross, platform, network) ==
    LET g == MaxOf(gross, 0)
        p == Clamp(platform, 0, g)
        n == Clamp(network, 0, g)
    IN [platform_fee_amount |-> p, network_fee_amount |-> n, merchant_payout_amount |-> g - p - n]

\* The platform leg is clamped to the gross first, the network leg takes at
\* most what is left, the merchant gets the remainder.
clamp_fee_legs(gross, platform, network) ==
    LET g == MaxOf(gross, 0)
        p == Clamp(platform, 0, g)
        n == Clamp(network, 0, g - p)
    IN [platform_fee_amount |-> p, network_fee_amount |-> n, merchant_payout_amount |-> g - p - n]

Mut_rate_unguarded(amount, rule) == TRUE

\* The two up-front AmountOverflow guards of calculate_split: the larger rate
\* and the combined rate (which saturates at i128::MAX).
rates_fit(amount, rule) ==
    LET sum == rule.platform_fee_bps + rule.network_fee_bps
    IN /\ numerator_fits(amount, MaxOf(rule.platform_fee_bps, rule.network_fee_bps))
       /\ numerator_fits(amount, IF sum \in I128 THEN sum ELSE I128_MAX)

\* None stands for the AmountOverflow panic.
calculate_split(amount, rule) ==
    LET p == calculate_fee_ceil(rule.platform_fee_bps, amount)
        n == calculate_fee_ceil(rule.network_fee_bps, amount)
    IN IF rates_fit(amount, rule) /\ p # None /\ n # None
       THEN clamp_fee_legs(amount, p, n)
       ELSE None
=============================================================================
