------------------------------ MODULE MCAdmin ------------------------------
(***************************************************************************)
(* The administrative side of the settlement contract: multisig, recovery, *)
(* pause and the timelock queue, with two admins that may lose their keys  *)
(* and two queued operations whose hashes collide.                         *)
(***************************************************************************)
EXTENDS Settlement

CONSTANTS zero, alice, bob, rescue, gov1, h1, h2, w0, w1, r0

MCAddress == {zero, alice, bob, rescue, gov1}

Cancel   == [tag |-> "CancelRecovery"]
Transfer == [tag |-> "TransferAdmin", admins |-> <<rescue>>, threshold |-> 1]
Repoint  == [tag |-> "UpdateGovernance", governance |-> bob]
TooBig   == [tag |-> "TransferAdmin", admins |-> <<alice, bob>>, threshold |-> 2]
BadQuorum == [tag |-> "TransferAdmin", admins |-> <<bob>>, threshold |-> 2]

\* Transfer and Repoint share a slot.
MCHash(op) == IF op = Cancel THEN h1 ELSE h2

MCOps == {Cancel, Transfer, Repoint, TooBig, BadQuorum}
MCOversized == {TooBig}
MCBatches == {<<Transfer, Cancel, Transfer>>, <<Repoint, Repoint>>}
MCSigners == {<<alice>>, <<alice, bob>>, <<alice, alice>>, <<rescue>>}
MCAdmins == {<<alice, bob>>, <<alice, alice>>, <<zero>>}
MCLosses == {{bob}, {alice, bob}}
MCRule == [platform_fee_bps |-> 100, network_fee_bps |-> 50,
           settlement_delay_ledger |-> 0, auto_settle |-> FALSE]
Answering == [fee |-> None, bypass |-> FALSE, min |-> None]
MCReplies == {Answering, [Answering EXCEPT !.fee = Trap]}
=============================================================================
