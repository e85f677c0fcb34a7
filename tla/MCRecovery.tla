---------------------------- MODULE MCRecovery -----------------------------
(***************************************************************************)
(* Recovery must finish: keys are lost one after another, the contract may *)
(* be paused for good, a CancelRecovery may be queued, and the recovery    *)
(* address may change its mind.                                            *)
(***************************************************************************)
EXTENDS Settlement

CONSTANTS zero, alice, rescue, vault, gov1, h1, h2, w0, r0

MCAddress == {zero, alice, rescue, vault, gov1}

Cancel  == [tag |-> "CancelRecovery"]
Repoint == [tag |-> "UpdateGovernance", governance |-> vault]
MCOps == {Cancel, Repoint}
MCHash(op) == IF op = Cancel THEN h1 ELSE h2

MCSigners == {<<alice>>, <<rescue>>}
MCAdmins == {<<alice>>}
MCLosses == {{alice}, {rescue}}
MCRule == [platform_fee_bps |-> 100, network_fee_bps |-> 50,
           settlement_delay_ledger |-> 0, auto_settle |-> FALSE]
=============================================================================
