---------------------------- MODULE MCRegistry -----------------------------
(***************************************************************************)
(* The merchant registry and the settlement rules, changed directly and    *)
(* through the timelock, while the admin set moves (to an address that is a*)
(* merchant, too), the admin's key is lost and governance answers          *)
(* differently.  Every kind of operation is queued.                        *)
(***************************************************************************)
EXTENDS SettlementRefinement

CONSTANTS zero, alice, shop, gov1, h1, h2, w0, w1, r0

MCAddress == {zero, alice, shop, gov1}

Rate(p, n, d) == [platform_fee_bps |-> p, network_fee_bps |-> n,
                  settlement_delay_ledger |-> d, auto_settle |-> FALSE]
Bootstrap == Rate(10, 5, 0)
Good      == Rate(40, 20, 1)
Unbounded == {Rate(60, 50, 0), Rate(70, 5, 0), Rate(4, 20, 0), Rate(20, 20, 2)}
MCRules   == {Good} \cup Unbounded

Register   == [tag |-> "RegisterMerchant", merchant |-> shop]
Unregister == [tag |-> "UnregisterMerchant", merchant |-> shop]
SetRule    == [tag |-> "SetSettlementRule", merchant |-> shop, rule |-> Good]
BadRule    == [tag |-> "SetSettlementRule", merchant |-> shop, rule |-> Rate(60, 50, 0)]
LongDelay  == [tag |-> "SetSettlementRule", merchant |-> shop, rule |-> Rate(20, 20, 2)]
ClearRule  == [tag |-> "ClearSettlementRule", merchant |-> shop]
SetDefault == [tag |-> "SetDefaultRule", rule |-> Good]
Upgrade    == [tag |-> "Upgrade", wasm |-> w1]
ToShop     == [tag |-> "TransferAdmin", admins |-> <<shop>>, threshold |-> 1]
Cancel     == [tag |-> "CancelRecovery"]
Repoint    == [tag |-> "UpdateGovernance", governance |-> alice]

MCOps == {Register, Unregister, SetRule, BadRule, LongDelay, ClearRule, SetDefault, Upgrade,
          ToShop, Cancel, Repoint}

\* Two slots for eleven operations: most pairs collide.
MCHash(op) == IF op \in {Register, ClearRule, SetDefault, ToShop} THEN h1 ELSE h2

MCSigners == {<<alice>>, <<shop>>}
MCAdmins == {<<alice>>, <<shop>>}

Answer(fee, bypass) == [fee |-> fee, bypass |-> bypass, min |-> None]
Cheap == [platform_fee_bps |-> 30, network_fee_bps |-> 30]
MCReplies == {Answer(Malformed, FALSE), Answer(Cheap, FALSE)}
=============================================================================
