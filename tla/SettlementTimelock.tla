------------------------- MODULE SettlementTimelock -------------------------
(***************************************************************************)
(* The timelock queue of settlement_contract/src/admin.rs: schedule,       *)
(* execute with its nine operation arms, dry_run, cancel and cancel_all.   *)
(*                                                                         *)
(* A slot is indexed by the hash of the operation, so two operations whose *)
(* hashes collide compete for one slot (issue #570): the constant Hash may *)
(* collide.                                                                *)
(***************************************************************************)
EXTENDS SettlementAdmin, SettlementMerchant

notQueueVars == <<adminVars, configVars, pendingRecovery, registryVars, ruleVars, payVars,
                  envVars>>

Queued(op) == queue[Hash(op)] # None

Mut_hash_is_proof(op) == Queued(op)

\* The slot of op's hash is taken, and byte for byte by op.
slot_holds(op) == Queued(op) /\ queue[Hash(op)].operation_xdr = op

-----------------------------------------------------------------------------
\* Bounds checked when an operation is scheduled (issues #810, #811).
schedulable(op) ==
    /\ op.tag = "TransferAdmin" => op.threshold # 0 /\ op.threshold <= Len(op.admins)
    /\ op.tag = "SetSettlementRule" =>
          op.rule.settlement_delay_ledger <= MAX_SETTLEMENT_DELAY_LEDGER
    /\ op \notin Oversized

Mut_any_delay(execute_in) == execute_in # 0 /\ execute_in <= MAX_TIMELOCK

delay_allowed(execute_in) ==
    /\ execute_in # 0
    /\ execute_in >= MIN_TIMELOCK
    /\ execute_in <= MAX_TIMELOCK

\* An occupied slot refuses both a duplicate and a colliding operation.
schedule(signers, op, execute_in) ==
    /\ assert_admin_and_not_paused(signers)
    /\ delay_allowed(execute_in)
    /\ schedulable(op)
    /\ assert_governance_reachable
    /\ ~Queued(op)
    /\ now + execute_in <= U64_MAX
    /\ queue' = [queue EXCEPT ![Hash(op)] = [operation_xdr |-> op,
                                             execute_at |-> now + execute_in]]
    /\ increment_pending_operation_count
    /\ UNCHANGED notQueueVars

Mut_slot_kept(op) == UNCHANGED queue /\ decrement_pending_operation_count(1)

consume_scheduled_operation(op) ==
    /\ queue' = [queue EXCEPT ![Hash(op)] = None]
    /\ decrement_pending_operation_count(1)

Mut_veto_missing(op) == TRUE

\* The recovery veto (issue #501).
not_vetoed(op) == pendingRecovery = None \/ op.tag = "CancelRecovery"

\* The readiness checks of execute; dry_run is exactly this check.
validate_scheduled_execution(op) ==
    /\ assert_not_paused
    /\ slot_holds(op)
    /\ now >= queue[Hash(op)].execute_at
    /\ not_vetoed(op)

dry_run(op) == validate_scheduled_execution(op) /\ UNCHANGED vars

-----------------------------------------------------------------------------
(* The operation arms.  They leave queueVars and envVars to execute.        *)

_update_governance(g) ==
    /\ assert_not_paused
    /\ validate_governance(g)
    /\ governance' = g
    /\ UNCHANGED <<adminVars, recoveryAddress, paused, schemaVersion, wasm, pendingRecovery,
                   registryVars, ruleVars, payVars>>

_cancel_recovery ==
    /\ pendingRecovery # None
    /\ pendingRecovery' = None
    /\ UNCHANGED <<adminVars, configVars, registryVars, ruleVars, payVars>>

\* Unlike transfer_admin, re-installing the current set is accepted.
_transfer_admin(new_admins, t) ==
    /\ admins # <<>>
    /\ not_merchants(new_admins)
    /\ write_admins(new_admins, t)
    /\ UNCHANGED <<configVars, pendingRecovery, registryVars, ruleVars, payVars>>

_upgrade(hash) ==
    /\ hash # ZeroWasm
    /\ assert_not_paused
    /\ validate_upgrade(hash)
    /\ wasm' = hash
    /\ UNCHANGED <<adminVars, governance, recoveryAddress, paused, schemaVersion,
                   pendingRecovery, registryVars, ruleVars, payVars>>

\* No consent of the merchant is asked for (issue #809).
_register_merchant(m) == assert_not_paused /\ add_merchant(m)
_unregister_merchant(m) == assert_not_paused /\ remove_merchant(m)
_set_settlement_rule(m, rule) == assert_not_paused /\ store_rule(m, rule)
_clear_settlement_rule(m) == assert_not_paused /\ remove_rule(m)
_set_default_rule(rule) == assert_not_paused /\ store_default_rule(rule)

run_operation(op) ==
    \/ op.tag = "UpdateGovernance" /\ _update_governance(op.governance)
    \/ op.tag = "CancelRecovery" /\ _cancel_recovery
    \/ op.tag = "TransferAdmin" /\ _transfer_admin(op.admins, op.threshold)
    \/ op.tag = "Upgrade" /\ _upgrade(op.wasm)
    \/ op.tag = "RegisterMerchant" /\ _register_merchant(op.merchant)
    \/ op.tag = "UnregisterMerchant" /\ _unregister_merchant(op.merchant)
    \/ op.tag = "SetSettlementRule" /\ _set_settlement_rule(op.merchant, op.rule)
    \/ op.tag = "ClearSettlementRule" /\ _clear_settlement_rule(op.merchant)
    \/ op.tag = "SetDefaultRule" /\ _set_default_rule(op.rule)

\* Permissionless.  An arm that panics reverts the consumption with it, so
\* its operation stays queued.
execute(op) ==
    /\ validate_scheduled_execution(op)
    /\ consume_scheduled_operation(op)
    /\ run_operation(op)
    /\ UNCHANGED envVars

-----------------------------------------------------------------------------
cancel(signers, op) ==
    /\ verify_admin_auth(signers, threshold)
    /\ assert_not_paused
    /\ slot_holds(op)
    /\ consume_scheduled_operation(op)
    /\ UNCHANGED notQueueVars

Mut_count_batch(signers, ops) ==
    /\ verify_admin_auth(signers, threshold)
    /\ assert_not_paused
    /\ Len(ops) <= MAX_CANCEL_ALL_BATCH
    /\ queue' = [h \in HASH |-> IF \E i \in DOMAIN ops : slot_holds(ops[i]) /\ Hash(ops[i]) = h
                                THEN None ELSE queue[h]]
    /\ decrement_pending_operation_count(Len(ops))
    /\ UNCHANGED notQueueVars

\* Entries that are not queued, are another operation's slot or repeat an
\* earlier entry are skipped, and the counter drops once per removed slot.
cancel_all(signers, ops) ==
    LET removed == {Hash(ops[i]) : i \in {j \in DOMAIN ops : slot_holds(ops[j])}}
    IN /\ verify_admin_auth(signers, threshold)
       /\ assert_not_paused
       /\ Len(ops) <= MAX_CANCEL_ALL_BATCH
       /\ queue' = [h \in HASH |-> IF h \in removed THEN None ELSE queue[h]]
       /\ decrement_pending_operation_count(Cardinality(removed))
       /\ UNCHANGED notQueueVars
=============================================================================
