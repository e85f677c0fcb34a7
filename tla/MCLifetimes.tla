---------------------------- MODULE MCLifetimes ----------------------------
(***************************************************************************)
(* Entry lifetimes of one merchant: it registers, gets and loses a rule,   *)
(* is paid, read, pruned, unregistered, directly and through the timelock, *)
(* while ledgers pass, keys are lost and archived entries are restored.    *)
(***************************************************************************)
EXTENDS Lifetimes

CONSTANTS zero, alice, shop, gov1, h1, w0, r0, r1

MCAddress == {zero, alice, shop, gov1}

MCRule == [platform_fee_bps |-> 100, network_fee_bps |-> 50,
           settlement_delay_ledger |-> 0, auto_settle |-> FALSE]

MCOps == {[tag |-> "RegisterMerchant", merchant |-> shop],
          [tag |-> "UnregisterMerchant", merchant |-> shop],
          [tag |-> "SetSettlementRule", merchant |-> shop, rule |-> MCRule],
          [tag |-> "ClearSettlementRule", merchant |-> shop],
          [tag |-> "TransferAdmin", admins |-> <<alice>>, threshold |-> 1],
          [tag |-> "UpdateGovernance", governance |-> gov1]}
MCRules == {MCRule}
MCHash(op) == h1
MCBatches == {<<op>> : op \in MCOps}

MCSigners == {<<alice>>, <<>>}
MCAdmins == {<<alice>>}
MCRefBatches == {<<r1, r1>>}
MCLosses == {{alice, shop}}
=============================================================================
