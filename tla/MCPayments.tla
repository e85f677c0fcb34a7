---------------------------- MODULE MCPayments -----------------------------
(***************************************************************************)
(* Payments: the rule in force comes from the merchant, the default,       *)
(* governance, its cached answer or the bootstrap rule, while governance   *)
(* fails and recovers, references are reused and pruned, the merchant      *)
(* leaves and returns, and the record counter reaches its width.           *)
(***************************************************************************)
EXTENDS Settlement

CONSTANTS zero, alice, shop, gov1, h1, w0, r0, r1, r2, r3

MCAddress == {zero, alice, shop, gov1}

Rate(p, n) == [platform_fee_bps |-> p, network_fee_bps |-> n,
               settlement_delay_ledger |-> 0, auto_settle |-> FALSE]
Bootstrap == Rate(100, 50)
MCRules == {Rate(250, 5)}

MCHash(op) == h1
MCSigners == {<<alice>>, <<>>, <<alice, alice>>}
MCAdmins == {<<alice>>}
MCRefBatches == {<<r1, r2>>, <<r1, r1>>, <<r1, r2, r3>>}
MCAmounts == {-3, 99, 101, 180}
MCLosses == {{alice}}

Answer(fee, bypass, min) == [fee |-> fee, bypass |-> bypass, min |-> min]
\* Rates that together exceed the whole payment, and a negative minimum: any
\* contract can be installed as governance (validate_governance only refuses
\* the zero address), and what it answers is not range-checked here.
Greedy == [platform_fee_bps |-> 9000, network_fee_bps |-> 2500]
MCReplies == {Answer(Greedy, FALSE, None), Answer(Trap, FALSE, None),
              Answer(Malformed, FALSE, 100), Answer(Malformed, TRUE, -5)}
=============================================================================
