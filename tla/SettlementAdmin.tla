-------------------------- MODULE SettlementAdmin --------------------------
(***************************************************************************)
(* The direct administrative entry points of                               *)
(* settlement_contract/src/admin.rs: init, the multisig admin set, the     *)
(* recovery flow, pause, upgrade and migrate.  The timelocked variants are *)
(* in SettlementTimelock.                                                  *)
(***************************************************************************)
EXTENDS SettlementStorage

validate_upgrade(hash) == hash \in Compatible

\* The in-progress marker Initializing is set and removed by the same
\* invocation, and the deployer address is stored but never read again.
init(deployer, new_admins, t, g, r) ==
    /\ admins = <<>>
    /\ require_auth(deployer)
    /\ validate_governance(g)
    /\ validate_nonzero_address(r)
    /\ \A i \in DOMAIN new_admins : require_auth(new_admins[i])
    /\ write_admins(new_admins, t)
    /\ governance' = g
    /\ recoveryAddress' = r
    /\ schemaVersion' = CURRENT_SCHEMA_VERSION
    /\ UNCHANGED <<paused, wasm, pendingRecovery, queueVars, registryVars, ruleVars,
                   payVars, envVars>>

update_governance(signers, g) ==
    /\ assert_admin_and_not_paused(signers)
    /\ validate_governance(g)
    /\ governance' = g
    /\ UNCHANGED <<adminVars, recoveryAddress, paused, schemaVersion, wasm, pendingRecovery,
                   queueVars, registryVars, ruleVars, payVars, envVars>>

-----------------------------------------------------------------------------
(* Admin recovery.  None of these steps is gated by the pause flag.         *)

Mut_initiate_unchecked(new_admin) ==
    /\ recoveryAddress # None
    /\ require_auth(recoveryAddress)
    /\ validate_nonzero_address(new_admin)
    /\ pendingRecovery = None
    /\ pendingRecovery' = [new_admin |-> new_admin,
                           execute_after |-> now + RECOVERY_DELAY,
                           initiated_by |-> recoveryAddress]
    /\ UNCHANGED <<adminVars, configVars, queueVars, registryVars, ruleVars, payVars, envVars>>

initiate_recovery(new_admin) ==
    /\ recoveryAddress # None
    /\ require_auth(recoveryAddress)
    /\ validate_nonzero_address(new_admin)
    /\ pendingRecovery = None
    /\ now + RECOVERY_DELAY <= U64_MAX
    /\ pendingRecovery' = [new_admin |-> new_admin,
                           execute_after |-> now + RECOVERY_DELAY,
                           initiated_by |-> recoveryAddress]
    /\ UNCHANGED <<adminVars, configVars, queueVars, registryVars, ruleVars, payVars, envVars>>

Mut_cancel_unauthenticated(signers) ==
    /\ pendingRecovery # None
    /\ signers = <<pendingRecovery.initiated_by>> \/ verify_admin_auth(signers, threshold)
    /\ pendingRecovery' = None
    /\ UNCHANGED <<adminVars, configVars, queueVars, registryVars, ruleVars, payVars, envVars>>

\* The initiator alone, or the admin quorum (issue #560).
cancel_recovery(signers) ==
    /\ pendingRecovery # None
    /\ IF signers = <<pendingRecovery.initiated_by>>
       THEN require_auth(pendingRecovery.initiated_by)
       ELSE verify_admin_auth(signers, threshold)
    /\ pendingRecovery' = None
    /\ UNCHANGED <<adminVars, configVars, queueVars, registryVars, ruleVars, payVars, envVars>>

update_recovery_address(signers, r) ==
    /\ verify_admin_auth(signers, threshold)
    /\ validate_nonzero_address(r)
    /\ recoveryAddress' = r
    /\ UNCHANGED <<adminVars, governance, paused, schemaVersion, wasm, pendingRecovery,
                   queueVars, registryVars, ruleVars, payVars, envVars>>

Mut_recovery_pause_gated ==
    /\ assert_not_paused
    /\ pendingRecovery # None
    /\ now >= pendingRecovery.execute_after
    /\ write_admins(<<pendingRecovery.new_admin>>, 1)
    /\ pendingRecovery' = None
    /\ UNCHANGED <<configVars, queueVars, registryVars, ruleVars, payVars, envVars>>

\* Permissionless, and without the admin/merchant exclusivity check of
\* transfer_admin.
execute_recovery ==
    /\ pendingRecovery # None
    /\ now >= pendingRecovery.execute_after
    /\ write_admins(<<pendingRecovery.new_admin>>, 1)
    /\ pendingRecovery' = None
    /\ UNCHANGED <<configVars, queueVars, registryVars, ruleVars, payVars, envVars>>

-----------------------------------------------------------------------------
(* The admin set.  Neither step is gated by the pause flag.                 *)

Mut_no_exclusivity(new_admins) == TRUE

\* No new admin is a registered merchant (issue #692).
not_merchants(new_admins) == Range(new_admins) \cap merchants = {}

transfer_admin(signers, new_admins, t) ==
    /\ verify_admin_auth(signers, threshold)
    /\ <<new_admins, t>> # <<admins, threshold>>
    /\ not_merchants(new_admins)
    /\ write_admins(new_admins, t)
    /\ UNCHANGED <<configVars, pendingRecovery, queueVars, registryVars, ruleVars, payVars,
                   envVars>>

\* One signature more than the threshold in force is required.
change_threshold(signers, t) ==
    /\ t # 0 /\ t <= Len(admins)
    /\ t # threshold
    /\ verify_admin_auth(signers, threshold + 1)
    /\ threshold' = t
    /\ UNCHANGED <<admins, configVars, pendingRecovery, queueVars, registryVars, ruleVars,
                   payVars, envVars>>

-----------------------------------------------------------------------------
\* After the swap the model keeps running the same code: a build that answers
\* the interface probe is taken to behave like this one.
upgrade(signers, hash) ==
    /\ verify_admin_auth(signers, threshold)
    /\ validate_upgrade(hash)
    /\ wasm' = hash
    /\ UNCHANGED <<adminVars, governance, recoveryAddress, paused, schemaVersion,
                   pendingRecovery, queueVars, registryVars, ruleVars, payVars, envVars>>

set_paused(p) ==
    /\ paused' = p
    /\ UNCHANGED <<adminVars, governance, recoveryAddress, schemaVersion, wasm,
                   pendingRecovery, queueVars, registryVars, ruleVars, payVars, envVars>>

pause(signers, reason) ==
    /\ verify_admin_auth(signers, threshold)
    /\ ~paused
    /\ reason <= MAX_PAUSE_REASON
    /\ set_paused(TRUE)

unpause(signers) ==
    /\ verify_admin_auth(signers, threshold)
    /\ paused
    /\ set_paused(FALSE)

\* Advances the stored version to the current one; no step converts any
\* record yet.
run_migrations == schemaVersion' = MaxOf(schemaVersion, CURRENT_SCHEMA_VERSION)

migrate(signers) ==
    /\ verify_admin_auth(signers, threshold)
    /\ assert_not_paused
    /\ run_migrations
    /\ UNCHANGED <<adminVars, governance, recoveryAddress, paused, wasm, pendingRecovery,
                   queueVars, registryVars, ruleVars, payVars, envVars>>
=============================================================================
