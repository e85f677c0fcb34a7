----------------------------- MODULE MCBettaPay -----------------------------
(***************************************************************************)
(* Both contracts under one admin, a second governance address without a   *)
(* configuration, outages of either, rules over and under the ceiling, one *)
(* of them through the queue, and configurations and parameters the        *)
(* governance contract must refuse.                                        *)
(***************************************************************************)
EXTENDS BettaPay

CONSTANTS zero, alice, shop, gov1, gov2, h1, w0, r0, r1

MCAddress == {zero, alice, shop, gov1, gov2}

Rate(p, n) == [platform_fee_bps |-> p, network_fee_bps |-> n,
               settlement_delay_ledger |-> 0, auto_settle |-> FALSE]
Bootstrap == Rate(10, 5)
MCRules == {Rate(20, 20)}
MCOps == {[tag |-> "SetSettlementRule", merchant |-> shop, rule |-> Rate(20, 20)]}

MCHash(op) == h1
MCSigners == {<<alice>>}
MCAdmins == {<<alice>>}
MCAmounts == {-2, 3}

Config(p, n) == [platform_fee_bps |-> p, network_fee_bps |-> n]
Low == Config(15, 15)
High == Config(60, 40)
MCFees == {Low, High, Config(60, 50)}
MCValues == {-2, 1}

\* The answers within the bounds both contracts share.
MCReplies == [fee: {None, Low, High}, bypass: BOOLEAN, min: {None, 1}] \cup {Outage}
=============================================================================
