----------------------------- MODULE MCClaims ------------------------------
(* One small instance on which every statement of SettlementClaims fails.   *)
EXTENDS SettlementClaims

CONSTANTS zero, alice, bob, shop, gov1, h1, w0, r0, r1

MCAddress == {zero, alice, bob, shop, gov1}

Repoint == [tag |-> "UpdateGovernance", governance |-> bob]
MCOps == {Repoint}
MCHash(op) == h1

MCSigners == {<<alice>>, <<alice, bob>>}
MCAdmins == {<<alice>>, <<alice, bob>>}
MCRefBatches == {<<r1>>}
MCRule == [platform_fee_bps |-> 100, network_fee_bps |-> 50,
           settlement_delay_ledger |-> 0, auto_settle |-> FALSE]

Answer(fee) == [fee |-> fee, bypass |-> FALSE, min |-> None]
Cheap == [platform_fee_bps |-> 30, network_fee_bps |-> 30]
MCReplies == {Answer(Cheap), Answer(Trap)}
=============================================================================
