----------------------------- MODULE MCReader ------------------------------
(***************************************************************************)
(* Four references read in pages of two: full pages only, so the walk ends *)
(* with an empty page.  Nothing is on record under r4 any more.            *)
(***************************************************************************)
EXTENDS PaymentReader

CONSTANTS zero, alice, shop, gov1, h1, w0, r0, r1, r2, r3, r4

MCAddress == {zero, alice, shop, gov1}
MCRule == [platform_fee_bps |-> 100, network_fee_bps |-> 50,
           settlement_delay_ledger |-> 0, auto_settle |-> FALSE]
MCHash(op) == h1
MCSigners == {<<alice>>, <<>>}
MCAdmins == {<<alice>>}
MCRefBatches == {<<r1, r2>>}
MCLosses == {{shop}}
MCWanted == <<r1, r2, r3, r4>>
=============================================================================
