------------------------ MODULE SettlementRefinement ------------------------
(***************************************************************************)
(* The settlement contract implements ChangeControl.                       *)
(***************************************************************************)
EXTENDS Settlement

\* The slots of the queue, without their hashes.
pendingOps == {[op |-> queue[h].operation_xdr, due |-> queue[h].execute_at] :
                  h \in {k \in HASH : queue[k] # None}}

ASSUME RecoveryNone == None \notin [target: Address, due: Nat]

recoveryUnderWay ==
    IF pendingRecovery = None THEN None
    ELSE [target |-> pendingRecovery.new_admin, due |-> pendingRecovery.execute_after]

\* What the admins control.  The payments and the cached governance rule are
\* not theirs, and the pause flag is the abstract halted.
worldState == [admins |-> admins, threshold |-> threshold, governance |-> governance,
               recoveryAddress |-> recoveryAddress, schemaVersion |-> schemaVersion,
               wasm |-> wasm, merchants |-> merchants, archived |-> archived,
               rules |-> rules, defaultRule |-> defaultRule]

Install(a, w) == [w EXCEPT !.admins = <<a>>, !.threshold = 1]

\* The whole effect of each operation.
outcome(op, w) ==
    CASE op.tag = "UpdateGovernance" -> [w EXCEPT !.governance = op.governance]
      [] op.tag = "CancelRecovery" -> w
      [] op.tag = "TransferAdmin" -> [w EXCEPT !.admins = op.admins, !.threshold = op.threshold]
      [] op.tag = "Upgrade" -> [w EXCEPT !.wasm = op.wasm]
      [] op.tag = "RegisterMerchant" ->
            [w EXCEPT !.merchants = @ \cup {op.merchant}, !.archived = @ \ {op.merchant}]
      [] op.tag = "UnregisterMerchant" ->
            [w EXCEPT !.merchants = @ \ {op.merchant}, !.archived = @ \cup {op.merchant},
                      !.rules = [@ EXCEPT ![op.merchant] = None]]
      [] op.tag = "SetSettlementRule" -> [w EXCEPT !.rules = [@ EXCEPT ![op.merchant] = op.rule]]
      [] op.tag = "ClearSettlementRule" -> [w EXCEPT !.rules = [@ EXCEPT ![op.merchant] = None]]
      [] op.tag = "SetDefaultRule" -> [w EXCEPT !.defaultRule = op.rule]

C == INSTANCE ChangeControl WITH
        Op <- OpInputs,
        Exempt <- {op \in OpInputs : op.tag = "CancelRecovery"},
        Target <- NewAdmins,
        MinDelay <- MIN_TIMELOCK, MaxDelay <- MAX_TIMELOCK, RecoveryDelay <- RECOVERY_DELAY,
        NoRecovery <- None, Outcome <- outcome, Installed <- Install,
        pending <- pendingOps, recovery <- recoveryUnderWay, halted <- paused,
        quorum <- ~QuorumLost, clock <- now, world <- worldState

\* However the entry points interleave, the admin-controlled state changes
\* only as ChangeControl allows: directly by a quorum, by a due announcement
\* with exactly its outcome and once, or by a recovery that is due.
ChangeControlled == C!Spec

\* A slot holds an operation with the slot's hash (issue #570).
SlotsKeyed == \A h \in HASH : queue[h] # None => Hash(queue[h].operation_xdr) = h
=============================================================================
