-------------------------- MODULE SettlementProofs --------------------------
(***************************************************************************)
(* Proofs about the settlement contract, for every value of the constants. *)
(***************************************************************************)
EXTENDS Settlement, FeeSplitProofs, FiniteSetTheorems

-----------------------------------------------------------------------------
(* Types.                                                                   *)

\* Each part of the type invariant survives a step that leaves its variables
\* alone.  The admin set.
LEMMA AdminStable == ASSUME AdminType, UNCHANGED adminVars PROVE AdminType'
  BY DEF AdminType, adminVars

\* The configuration.
LEMMA ConfigStable == ASSUME ConfigType, UNCHANGED configVars PROVE ConfigType'
  BY DEF ConfigType, configVars

\* The pending recovery.
LEMMA RecoveryStable == ASSUME RecoveryType, UNCHANGED pendingRecovery PROVE RecoveryType'
  BY DEF RecoveryType

\* The timelock queue.
LEMMA QueueStable == ASSUME QueueType, UNCHANGED queueVars PROVE QueueType'
  BY DEF QueueType, queueVars

\* The merchant registry.
LEMMA RegistryStable == ASSUME RegistryType, UNCHANGED registryVars PROVE RegistryType'
  BY DEF RegistryType, registryVars

\* The rules and the governance cache.
LEMMA RuleStable == ASSUME RuleType, UNCHANGED ruleVars PROVE RuleType'
  BY DEF RuleType, ruleVars

\* The payments.
LEMMA PayStable == ASSUME PayType, UNCHANGED payVars PROVE PayType'
  BY DEF PayType, payVars

\* The environment.
LEMMA EnvStable == ASSUME EnvType, UNCHANGED envVars PROVE EnvType'
  BY DEF EnvType, envVars

\* A freshly deployed contract is well typed.
LEMMA InitType == Init => TypeOK
<1> SUFFICES ASSUME Init PROVE TypeOK
  OBVIOUS
<1> USE StorageAssumption DEF Init
<1>1. AdminType /\ RecoveryType /\ RegistryType
  BY DEF AdminType, RecoveryType, RegistryType
<1>2. ConfigType
  BY DEF ConfigType
<1>3. QueueType
  BY DEF QueueType
<1>4. RuleType /\ PayType
  BY DEF RuleType, PayType
<1>5. EnvType
  BY DEF EnvType, GovReply
<1> QED
  BY <1>1, <1>2, <1>3, <1>4, <1>5 DEF TypeOK

\* What the fee source chain resolves to is a rule, and what it caches is one.
LEMMA GovRuleType ==
    ASSUME NEW cfg \in GovFeeConfig PROVE gov_rule(cfg) \in SettlementRule
  BY DEF gov_rule, GovFeeConfig, SettlementRule

\* An answer that is neither a failure nor absent is a fee config.
LEMMA GovernanceAnswer ==
    ASSUME ConfigType, EnvType, governance_consulted
    PROVE  gov_reply.fee \in GovFeeConfig \cup {None, Trap, Malformed}
  BY DEF ConfigType, EnvType, governance_consulted, gov_reply, GovReply

\* read_governance_fee_rule caches rules only.
LEMMA CacheType ==
    ASSUME ConfigType, EnvType, RuleType, read_governance_fee_rule
    PROVE  cachedGovRule' \in SettlementRule \cup {None}
  BY GovRuleType, GovernanceAnswer DEF read_governance_fee_rule, RuleType

\* So does the fallback chain that ends in it,
LEMMA FallbackCacheType ==
    ASSUME ConfigType, EnvType, RuleType, read_fallback_rule
    PROVE  cachedGovRule' \in SettlementRule \cup {None}
  BY CacheType DEF read_fallback_rule, RuleType

\* and the chain that starts at the merchant's own rule.
LEMMA RuleCacheType ==
    ASSUME ConfigType, EnvType, RuleType, NEW m, read_rule_or_default(m)
    PROVE  cachedGovRule' \in SettlementRule \cup {None}
  BY FallbackCacheType DEF read_rule_or_default, RuleType

\* The rule in force for a merchant is always a rule.
LEMMA EffectiveRuleType ==
    ASSUME ConfigType, EnvType, RuleType, NEW m \in Address, read_rule_or_default(m)
    PROVE  effective_rule(m) \in SettlementRule
<1>1. CASE rules[m] # None
  BY <1>1 DEF effective_rule, RuleType
<1>2. CASE rules[m] = None /\ defaultRule # None
  BY <1>2 DEF effective_rule, effective_fallback_rule, RuleType
<1>3. CASE rules[m] = None /\ defaultRule = None
  <2>1. governance_fee_rule \in SettlementRule \cup {None}
    BY <1>3, GovRuleType, GovernanceAnswer
    DEF governance_fee_rule, RuleType, read_rule_or_default, read_fallback_rule,
        read_governance_fee_rule
  <2> QED
    BY <1>3, <2>1, StorageAssumption DEF effective_rule, effective_fallback_rule
<1> QED
  BY <1>1, <1>2, <1>3

\* The fields of an operation, by its tag.
LEMMA OperationFields ==
    ASSUME NEW op \in OpInputs
    PROVE  /\ Hash(op) \in HASH
           /\ op.tag = "UpdateGovernance" => op.governance \in Address
           /\ op.tag = "TransferAdmin" => op.admins \in Seq(Address) /\ op.threshold \in Nat
           /\ op.tag = "Upgrade" => op.wasm \in WASM
           /\ op.tag \in {"RegisterMerchant", "UnregisterMerchant", "ClearSettlementRule",
                          "SetSettlementRule"} => op.merchant \in Address
           /\ op.tag \in {"SetSettlementRule", "SetDefaultRule"} => op.rule \in SettlementRule
<1>1. op \in Operation /\ Hash(op) \in HASH
  BY InputAssumption
<1> QED
  BY <1>1 DEF Operation

\* Every part of the state that a step leaves alone keeps its type.
LEMMA TypeStable ==
    ASSUME TypeOK
    PROVE  /\ UNCHANGED adminVars => AdminType'
           /\ UNCHANGED configVars => ConfigType'
           /\ UNCHANGED pendingRecovery => RecoveryType'
           /\ UNCHANGED queueVars => QueueType'
           /\ UNCHANGED registryVars => RegistryType'
           /\ UNCHANGED ruleVars => RuleType'
           /\ UNCHANGED payVars => PayType'
           /\ UNCHANGED envVars => EnvType'
  BY AdminStable, ConfigStable, RecoveryStable, QueueStable, RegistryStable, RuleStable,
     PayStable, EnvStable DEF TypeOK

\* write_admins stores a list of addresses and a number.
LEMMA WriteAdminsType ==
    ASSUME NEW new_admins \in Seq(Address), NEW t \in Nat, write_admins(new_admins, t)
    PROVE  AdminType'
  BY DEF write_admins, AdminType

\* The direct administrative entry points preserve the types.
LEMMA AdminStepType == ASSUME TypeOK, AdminStep PROVE TypeOK'
<1> USE InputAssumption, StorageAssumption
<1>1. ASSUME NEW new_admins \in AdminVecs, NEW t \in Thresholds, NEW g \in GovInputs,
             NEW r \in RecoveryInputs, NEW deployer \in Address, init(deployer, new_admins, t, g, r)
      PROVE  TypeOK'
  <2>1. AdminType'
    BY <1>1, WriteAdminsType DEF init
  <2>2. ConfigType'
    BY <1>1 DEF init, TypeOK, ConfigType
  <2> QED
    BY <1>1, <2>1, <2>2, TypeStable DEF init, TypeOK
<1>2. ASSUME NEW s \in SignerVecs, NEW g \in GovInputs, update_governance(s, g)
      PROVE  TypeOK'
  <2>1. ConfigType'
    BY <1>2 DEF update_governance, TypeOK, ConfigType
  <2> QED
    BY <1>2, <2>1, TypeStable DEF update_governance, TypeOK
<1>3. ASSUME NEW s \in SignerVecs, NEW r \in RecoveryInputs, update_recovery_address(s, r)
      PROVE  TypeOK'
  <2>1. ConfigType'
    BY <1>3 DEF update_recovery_address, TypeOK, ConfigType
  <2> QED
    BY <1>3, <2>1, TypeStable DEF update_recovery_address, TypeOK
<1>4. ASSUME NEW s \in SignerVecs, NEW new_admins \in AdminVecs, NEW t \in Thresholds,
             transfer_admin(s, new_admins, t)
      PROVE  TypeOK'
  <2>1. AdminType'
    BY <1>4, WriteAdminsType DEF transfer_admin
  <2> QED
    BY <1>4, <2>1, TypeStable DEF transfer_admin, TypeOK
<1>5. ASSUME NEW s \in SignerVecs, NEW t \in Thresholds, change_threshold(s, t)
      PROVE  TypeOK'
  <2>1. AdminType'
    BY <1>5 DEF change_threshold, TypeOK, AdminType
  <2> QED
    BY <1>5, <2>1, TypeStable DEF change_threshold, TypeOK
<1>6. ASSUME NEW s \in SignerVecs, NEW w \in WasmInputs, upgrade(s, w)
      PROVE  TypeOK'
  <2>1. ConfigType'
    BY <1>6 DEF upgrade, TypeOK, ConfigType
  <2> QED
    BY <1>6, <2>1, TypeStable DEF upgrade, TypeOK
<1>7. ASSUME NEW p \in BOOLEAN, set_paused(p)
      PROVE  TypeOK'
  <2>1. ConfigType'
    BY <1>7 DEF set_paused, TypeOK, ConfigType
  <2> QED
    BY <1>7, <2>1, TypeStable DEF set_paused, TypeOK
<1>8. ASSUME NEW s \in SignerVecs, migrate(s)
      PROVE  TypeOK'
  <2>1. ConfigType'
    BY <1>8 DEF migrate, run_migrations, TypeOK, ConfigType, MaxOf
  <2> QED
    BY <1>8, <2>1, TypeStable DEF migrate, TypeOK
<1> QED
  BY <1>1, <1>2, <1>3, <1>4, <1>5, <1>6, <1>7, <1>8 DEF AdminStep, pause, unpause

\* The recovery steps preserve the types: execute_after is checked to fit u64.
LEMMA RecoveryStepType == ASSUME TypeOK, RecoveryStep PROVE TypeOK'
<1> USE InputAssumption, StorageAssumption
<1>1. ASSUME NEW a \in NewAdmins, initiate_recovery(a) PROVE TypeOK'
  <2>1. RecoveryType'
    BY <1>1 DEF initiate_recovery, TypeOK, ConfigType, EnvType, RecoveryType, PendingRecovery
  <2> QED
    BY <1>1, <2>1, TypeStable DEF initiate_recovery, TypeOK
<1>2. ASSUME NEW s \in SignerVecs, cancel_recovery(s) PROVE TypeOK'
  <2>1. RecoveryType'
    BY <1>2 DEF cancel_recovery, RecoveryType
  <2> QED
    BY <1>2, <2>1, TypeStable DEF cancel_recovery, TypeOK
<1>3. ASSUME execute_recovery PROVE TypeOK'
  <2>1. RecoveryType'
    BY <1>3 DEF execute_recovery, RecoveryType
  <2>2. <<pendingRecovery.new_admin>> \in Seq(Address)
    BY <1>3 DEF execute_recovery, TypeOK, RecoveryType, PendingRecovery
  <2>3. AdminType'
    BY <1>3, <2>2, WriteAdminsType DEF execute_recovery
  <2> QED
    BY <1>3, <2>1, <2>3, TypeStable DEF execute_recovery, TypeOK
<1> QED
  BY <1>1, <1>2, <1>3 DEF RecoveryStep

\* The registry and rule writes that the direct entry points and the
\* timelocked arms share.
LEMMA AddMerchantType ==
    ASSUME TypeOK, NEW m \in Address, add_merchant(m)
    PROVE  AdminType' /\ ConfigType' /\ RecoveryType' /\ RegistryType' /\ RuleType' /\ PayType'
<1>1. RegistryType'
  BY DEF add_merchant, TypeOK, RegistryType
<1> QED
  BY <1>1, TypeStable DEF add_merchant

\* Unregistering, with the governance read of its event.
LEMMA RemoveMerchantType ==
    ASSUME TypeOK, NEW m \in Address, remove_merchant(m)
    PROVE  AdminType' /\ ConfigType' /\ RecoveryType' /\ RegistryType' /\ RuleType' /\ PayType'
<1>1. RegistryType'
  BY DEF remove_merchant, TypeOK, RegistryType
<1>2. cachedGovRule' \in SettlementRule \cup {None}
  BY FallbackCacheType DEF remove_merchant, TypeOK, RuleType
<1>3. RuleType'
  BY <1>2 DEF remove_merchant, TypeOK, RuleType
<1> QED
  BY <1>1, <1>3, TypeStable DEF remove_merchant

\* Setting a merchant's rule.
LEMMA StoreRuleType ==
    ASSUME TypeOK, NEW m \in Address, NEW rule \in SettlementRule, store_rule(m, rule)
    PROVE  AdminType' /\ ConfigType' /\ RecoveryType' /\ RegistryType' /\ RuleType' /\ PayType'
<1>1. cachedGovRule' \in SettlementRule \cup {None}
  BY RuleCacheType DEF store_rule, TypeOK
<1>2. RuleType'
  BY <1>1 DEF store_rule, TypeOK, RuleType
<1> QED
  BY <1>2, TypeStable DEF store_rule

\* Clearing a merchant's rule.
LEMMA RemoveRuleType ==
    ASSUME TypeOK, NEW m \in Address, remove_rule(m)
    PROVE  AdminType' /\ ConfigType' /\ RecoveryType' /\ RegistryType' /\ RuleType' /\ PayType'
<1>1. cachedGovRule' \in SettlementRule \cup {None}
  BY FallbackCacheType DEF remove_rule, TypeOK
<1>2. RuleType'
  BY <1>1 DEF remove_rule, TypeOK, RuleType
<1> QED
  BY <1>2, TypeStable DEF remove_rule

\* Setting the default rule.
LEMMA StoreDefaultRuleType ==
    ASSUME TypeOK, NEW rule \in SettlementRule, store_default_rule(rule)
    PROVE  AdminType' /\ ConfigType' /\ RecoveryType' /\ RegistryType' /\ RuleType' /\ PayType'
<1>1. RuleType'
  BY DEF store_default_rule, TypeOK, RuleType
<1> QED
  BY <1>1, TypeStable DEF store_default_rule

\* The entry points of merchant.rs and settlement.rs preserve the types.
LEMMA MerchantStepType == ASSUME TypeOK, MerchantStep \/ DefaultRuleStep PROVE TypeOK'
<1> USE InputAssumption
<1>1. ASSUME NEW m \in MerchantInputs, get_effective_rule(m) PROVE TypeOK'
  <2>1. cachedGovRule' \in SettlementRule \cup {None}
    BY <1>1, RuleCacheType DEF get_effective_rule, TypeOK
  <2>2. RuleType'
    BY <1>1, <2>1 DEF get_effective_rule, TypeOK, RuleType
  <2> QED
    BY <1>1, <2>2, TypeStable DEF get_effective_rule, TypeOK
<1>2. ASSUME NEW s \in SignerVecs, NEW m \in MerchantInputs, register_merchant(s, m)
      PROVE  TypeOK'
  BY <1>2, AddMerchantType, TypeStable DEF register_merchant, TypeOK
<1>3. ASSUME NEW s \in SignerVecs, NEW m \in MerchantInputs, unregister_merchant(s, m)
      PROVE  TypeOK'
  BY <1>3, RemoveMerchantType, TypeStable DEF unregister_merchant, TypeOK
<1>4. ASSUME NEW s \in SignerVecs, NEW m \in MerchantInputs, clear_settlement_rule(s, m)
      PROVE  TypeOK'
  BY <1>4, RemoveRuleType, TypeStable DEF clear_settlement_rule, TypeOK
<1>5. ASSUME NEW s \in SignerVecs, NEW m \in MerchantInputs, NEW rule \in RuleInputs,
             set_settlement_rule(s, m, rule)
      PROVE  TypeOK'
  BY <1>5, StoreRuleType, TypeStable DEF set_settlement_rule, TypeOK
<1>6. ASSUME NEW s \in SignerVecs, NEW rule \in RuleInputs, set_default_rule(s, rule)
      PROVE  TypeOK'
  BY <1>6, StoreDefaultRuleType, TypeStable DEF set_default_rule, TypeOK
<1> QED
  BY <1>1, <1>2, <1>3, <1>4, <1>5, <1>6 DEF MerchantStep, DefaultRuleStep

\* Consuming a slot keeps the queue and its counter well typed.
LEMMA ConsumeType ==
    ASSUME TypeOK, NEW op \in OpInputs, consume_scheduled_operation(op)
    PROVE  QueueType'
<1>1. Hash(op) \in HASH
  BY OperationFields
<1> QED
  BY <1>1, StorageAssumption
  DEF consume_scheduled_operation, decrement_pending_operation_count, SaturatingSub, TypeOK,
      QueueType

\* So does every arm of execute for what it writes.
LEMMA RunOperationType ==
    ASSUME TypeOK, NEW op \in OpInputs, run_operation(op)
    PROVE  AdminType' /\ ConfigType' /\ RecoveryType' /\ RegistryType' /\ RuleType' /\ PayType'
<1> USE OperationFields, TypeStable
<1>1. CASE op.tag = "UpdateGovernance" /\ _update_governance(op.governance)
  <2>1. ConfigType'
    BY <1>1 DEF _update_governance, TypeOK, ConfigType
  <2> QED
    BY <1>1, <2>1 DEF _update_governance
<1>2. CASE op.tag = "CancelRecovery" /\ _cancel_recovery
  BY <1>2 DEF _cancel_recovery, RecoveryType
<1>3. CASE op.tag = "TransferAdmin" /\ _transfer_admin(op.admins, op.threshold)
  BY <1>3, WriteAdminsType DEF _transfer_admin
<1>4. CASE op.tag = "Upgrade" /\ _upgrade(op.wasm)
  <2>1. ConfigType'
    BY <1>4 DEF _upgrade, TypeOK, ConfigType
  <2> QED
    BY <1>4, <2>1 DEF _upgrade
<1>5. CASE op.tag = "RegisterMerchant" /\ _register_merchant(op.merchant)
  BY <1>5, AddMerchantType DEF _register_merchant
<1>6. CASE op.tag = "UnregisterMerchant" /\ _unregister_merchant(op.merchant)
  BY <1>6, RemoveMerchantType DEF _unregister_merchant
<1>7. CASE op.tag = "SetSettlementRule" /\ _set_settlement_rule(op.merchant, op.rule)
  BY <1>7, StoreRuleType DEF _set_settlement_rule
<1>8. CASE op.tag = "ClearSettlementRule" /\ _clear_settlement_rule(op.merchant)
  BY <1>8, RemoveRuleType DEF _clear_settlement_rule
<1>9. CASE op.tag = "SetDefaultRule" /\ _set_default_rule(op.rule)
  BY <1>9, StoreDefaultRuleType DEF _set_default_rule
<1> QED
  BY <1>1, <1>2, <1>3, <1>4, <1>5, <1>6, <1>7, <1>8, <1>9 DEF run_operation

\* The timelock steps preserve the types: execute_at is checked to fit u64.
LEMMA QueueStepType == ASSUME TypeOK, QueueStep PROVE TypeOK'
<1> USE InputAssumption, StorageAssumption
<1>1. ASSUME NEW op \in OpInputs, execute(op) PROVE TypeOK'
  BY <1>1, ConsumeType, RunOperationType, TypeStable DEF execute, TypeOK
<1>2. ASSUME NEW op \in OpInputs, dry_run(op) PROVE TypeOK'
  BY <1>2, TypeStable DEF dry_run, vars, TypeOK
<1>3. ASSUME NEW op \in OpInputs, NEW s \in SignerVecs, cancel(s, op) PROVE TypeOK'
  BY <1>3, ConsumeType, TypeStable DEF cancel, notQueueVars, TypeOK
<1>4. ASSUME NEW op \in OpInputs, NEW s \in SignerVecs, NEW d \in Delays, schedule(s, op, d)
      PROVE  TypeOK'
  <2> DEFINE slot == [operation_xdr |-> op, execute_at |-> now + d]
  <2>1. slot \in ScheduledOp /\ slot.execute_at <= U64_MAX
    BY <1>4 DEF schedule, ScheduledOp, TypeOK, EnvType
  <2>2. opCount' \in 0..U32_MAX
    BY <1>4 DEF schedule, increment_pending_operation_count, SaturatingInc, TypeOK, QueueType
  <2>3. queue' = [queue EXCEPT ![Hash(op)] = slot]
    BY <1>4 DEF schedule
  <2> HIDE DEF slot
  <2>4. QueueType'
    BY <2>1, <2>2, <2>3, OperationFields DEF TypeOK, QueueType
  <2> QED
    BY <1>4, <2>4, TypeStable DEF schedule, notQueueVars, TypeOK
<1>5. ASSUME NEW s \in SignerVecs, NEW ops \in OpBatches, cancel_all(s, ops) PROVE TypeOK'
  <2> DEFINE removed == {Hash(ops[i]) : i \in {j \in DOMAIN ops : slot_holds(ops[j])}}
  <2>1. queue' = [h \in HASH |-> IF h \in removed THEN None ELSE queue[h]]
    BY <1>5 DEF cancel_all
  <2>2. decrement_pending_operation_count(Cardinality(removed))
    BY <1>5 DEF cancel_all
  <2>3. removed \subseteq HASH
    BY OperationFields
  <2> HIDE DEF removed
  <2>4. Cardinality(removed) \in Nat
    BY <2>3, FS_Subset, FS_CardinalityType
  <2>5. QueueType'
    BY <2>1, <2>2, <2>4
    DEF decrement_pending_operation_count, SaturatingSub, TypeOK, QueueType
  <2> QED
    BY <1>5, <2>5, TypeStable DEF cancel_all, notQueueVars, TypeOK
<1> QED
  BY <1>1, <1>2, <1>3, <1>4, <1>5 DEF QueueStep

\* A split that does not overflow makes a well-typed payment record.
LEMMA PaymentRecordType ==
    ASSUME NEW a \in Int, NEW rule \in SettlementRule, EnvType,
           calculate_split(a, rule) # None
    PROVE  payment_record(a, rule) \in PaymentRecord
<1>1. /\ rule.platform_fee_bps \in Nat /\ rule.network_fee_bps \in Nat
      /\ rule.settlement_delay_ledger \in Nat /\ rule.auto_settle \in BOOLEAN
  BY DEF SettlementRule
<1>2. /\ calculate_split(a, rule).platform_fee_amount \in Nat
      /\ calculate_split(a, rule).network_fee_amount \in Nat
      /\ calculate_split(a, rule).merchant_payout_amount \in Nat
  BY <1>1, SplitConserves
<1> QED
  BY <1>1, <1>2, StorageAssumption DEF payment_record, PaymentRecord, EnvType

\* The steps of payments.rs preserve the types: the counter is checked to fit u32.
LEMMA PaymentStepType == ASSUME TypeOK, PaymentStep PROVE TypeOK'
<1> USE InputAssumption, StorageAssumption
<1>1. ASSUME NEW m \in MerchantInputs, NEW a \in Amounts, calculate_fee_split(m, a)
      PROVE  TypeOK'
  <2>1. cachedGovRule' \in SettlementRule \cup {None}
    BY <1>1, RuleCacheType DEF calculate_fee_split, TypeOK
  <2>2. RuleType'
    BY <1>1, <2>1 DEF calculate_fee_split, notPayVars, TypeOK, RuleType
  <2> QED
    BY <1>1, <2>2, TypeStable DEF calculate_fee_split, notPayVars, TypeOK
<1>2. ASSUME NEW m \in MerchantInputs, NEW a \in Amounts, NEW r \in RefInputs,
             store_payment_reference(m, r, a)
      PROVE  TypeOK'
  <2> DEFINE record == payment_record(a, effective_rule(m))
  <2>1. cachedGovRule' \in SettlementRule \cup {None}
    BY <1>2, RuleCacheType DEF store_payment_reference, TypeOK
  <2>2. RuleType'
    BY <1>2, <2>1 DEF store_payment_reference, notPayVars, TypeOK, RuleType
  <2>3. effective_rule(m) \in SettlementRule
    BY <1>2, EffectiveRuleType DEF store_payment_reference, TypeOK
  <2>4. record \in PaymentRecord
    BY <1>2, <2>3, PaymentRecordType DEF store_payment_reference, TypeOK
  <2>5. payments' = [payments EXCEPT ![m][r] = record] /\ increment_payment_count(m)
    BY <1>2 DEF store_payment_reference
  <2> HIDE DEF record
  <2>6. PayType'
    BY <2>4, <2>5 DEF increment_payment_count, TypeOK, PayType
  <2> QED
    BY <1>2, <2>2, <2>6, TypeStable DEF store_payment_reference, notPayVars, TypeOK
<1>3. ASSUME NEW s \in SignerVecs, NEW m \in MerchantInputs, NEW r \in RefInputs,
             prune_payment(s, m, r)
      PROVE  TypeOK'
  <2>1. PayType'
    BY <1>3 DEF prune_payment, decrement_payment_count, SaturatingSub, TypeOK, PayType
  <2> QED
    BY <1>3, <2>1, TypeStable DEF prune_payment, notPayVars, ruleVars, TypeOK
<1>4. ASSUME NEW s \in SignerVecs, NEW m \in MerchantInputs, NEW refs \in RefBatches,
             prune_payments(s, m, refs)
      PROVE  TypeOK'
  <2> DEFINE removed == {r \in Range(refs) : payments[m][r] # None}
  <2>1. removed \subseteq REF
    BY DEF Range
  <2>2. Cardinality(removed) \in Nat
    BY <2>1, FS_Subset, FS_CardinalityType
  <2>3. decrement_payment_count(m, Cardinality(removed))
    BY <1>4 DEF prune_payments
  <2> HIDE DEF removed
  <2>4. payCount' \in [Address -> 0..U32_MAX]
    BY <2>2, <2>3 DEF decrement_payment_count, SaturatingSub, TypeOK, PayType
  <2>5. payments' \in [Address -> [REF -> PaymentRecord \cup {None}]]
    BY <1>4 DEF prune_payments, TypeOK, PayType
  <2>6. PayType'
    BY <2>4, <2>5 DEF PayType
  <2> QED
    BY <1>4, <2>6, TypeStable DEF prune_payments, notPayVars, ruleVars, TypeOK
<1> QED
  BY <1>1, <1>2, <1>3, <1>4 DEF PaymentStep

\* The clock, governance and lost keys preserve the types.
LEMMA EnvironmentStepType == ASSUME TypeOK, EnvironmentStep PROVE TypeOK'
<1> USE InputAssumption, StorageAssumption
<1>1. EnvType'
  BY DEF EnvironmentStep, Tick, GovernanceChanges, LoseKeys, TypeOK, EnvType
<1>2. UNCHANGED contractVars
  BY DEF EnvironmentStep, Tick, GovernanceChanges, LoseKeys
<1> QED
  BY <1>1, <1>2, TypeStable DEF contractVars, TypeOK

\* TypeOK is inductive.
LEMMA NextType == ASSUME TypeOK, [Next]_vars PROVE TypeOK'
<1>1. CASE Next
  BY <1>1, AdminStepType, RecoveryStepType, QueueStepType, MerchantStepType, PaymentStepType,
     EnvironmentStepType DEF Next
<1>2. CASE UNCHANGED vars
  BY <1>2, TypeStable DEF vars, TypeOK
<1> QED
  BY <1>1, <1>2

\* Type correctness: in particular no timestamp and no counter leaves its
\* machine width.
THEOREM TypeCorrect == Spec => []TypeOK
<1> QED
  BY InitType, NextType, PTL DEF Spec

-----------------------------------------------------------------------------
(* The admin set and recovery.                                              *)

\* Everything AdminSetValid reads; the clock may only advance.
adminView == <<admins, threshold, governance, recoveryAddress, pendingRecovery>>

\* AdminSetValid depends on adminView, on the clock, and before init on the queue.
LEMMA AdminSetStable ==
    ASSUME TypeOK, TypeOK', AdminSetValid, UNCHANGED adminView, now' >= now,
           Initialised \/ UNCHANGED queueVars
    PROVE  AdminSetValid'
<1>1. now \in Nat /\ now' \in Nat
  BY StorageAssumption DEF TypeOK, EnvType
<1>2. pendingRecovery # None => pendingRecovery.execute_after \in Nat
  BY DEF TypeOK, RecoveryType, PendingRecovery
<1> QED
  BY <1>1, <1>2, StorageAssumption DEF AdminSetValid, Initialised, adminView, queueVars

\* write_admins installs a usable set, or the call panics.
LEMMA WrittenAdmins ==
    ASSUME NEW new_admins \in Seq(Address), NEW t \in Nat, write_admins(new_admins, t)
    PROVE  /\ Initialised'
           /\ threshold' \in 1..Len(admins')
           /\ Distinct(admins)'
           /\ ZeroAddress \notin Range(admins')
<1>1. admins' = new_admins /\ threshold' = t /\ validate_admins_and_threshold(new_admins, t)
  BY DEF write_admins
<1>2. ZeroAddress \notin Range(new_admins)
  BY <1>1 DEF validate_admins_and_threshold, validate_nonzero_address, Range
<1>3. t \in 1..Len(new_admins)
  BY <1>1 DEF validate_admins_and_threshold
<1> QED
  BY <1>1, <1>2, <1>3 DEF Initialised, validate_admins_and_threshold, Distinct

\* The direct administrative entry points keep the administration usable.
LEMMA AdminStepSet == ASSUME TypeOK, TypeOK', AdminSetValid, AdminStep PROVE AdminSetValid'
<1> USE InputAssumption, StorageAssumption, NoneAssumption
<1>1. ASSUME NEW new_admins \in AdminVecs, NEW t \in Thresholds, NEW g \in GovInputs,
             NEW r \in RecoveryInputs, NEW deployer \in Address, init(deployer, new_admins, t, g, r)
      PROVE  AdminSetValid'
  <2>1. /\ Initialised' /\ threshold' \in 1..Len(admins') /\ Distinct(admins)'
        /\ ZeroAddress \notin Range(admins')
    BY <1>1, WrittenAdmins DEF init
  <2>2. governance' \notin {None, ZeroAddress} /\ recoveryAddress' \notin {None, ZeroAddress}
    BY <1>1 DEF init, validate_governance, validate_nonzero_address
  <2>3. pendingRecovery' = None
    BY <1>1 DEF init, AdminSetValid, Initialised
  <2> QED
    BY <2>1, <2>2, <2>3 DEF AdminSetValid
<1>2. ASSUME NEW s \in SignerVecs, NEW g \in GovInputs, update_governance(s, g)
      PROVE  AdminSetValid'
  BY <1>2 DEF update_governance, assert_admin_and_not_paused, verify_admin_auth, adminVars,
              envVars, validate_governance, validate_nonzero_address, AdminSetValid,
              Initialised, Distinct
<1>3. ASSUME NEW s \in SignerVecs, NEW r \in RecoveryInputs, update_recovery_address(s, r)
      PROVE  AdminSetValid'
  BY <1>3 DEF update_recovery_address, verify_admin_auth, adminVars, envVars,
              validate_nonzero_address, AdminSetValid, Initialised, Distinct
<1>4. ASSUME NEW s \in SignerVecs, NEW new_admins \in AdminVecs, NEW t \in Thresholds,
             transfer_admin(s, new_admins, t)
      PROVE  AdminSetValid'
  <2>1. /\ Initialised' /\ threshold' \in 1..Len(admins') /\ Distinct(admins)'
        /\ ZeroAddress \notin Range(admins')
    BY <1>4, WrittenAdmins DEF transfer_admin
  <2>2. Initialised /\ UNCHANGED <<governance, recoveryAddress, pendingRecovery, now>>
    BY <1>4 DEF transfer_admin, verify_admin_auth, Initialised, configVars, envVars
  <2> QED
    BY <2>1, <2>2 DEF AdminSetValid
<1>5. ASSUME NEW s \in SignerVecs, NEW t \in Thresholds, change_threshold(s, t)
      PROVE  AdminSetValid'
  <2>1. t \in 1..Len(admins)
    BY <1>5 DEF change_threshold, TypeOK, AdminType
  <2> QED
    BY <1>5, <2>1 DEF change_threshold, verify_admin_auth, configVars, envVars, AdminSetValid,
                      Initialised, Distinct
<1>6. ASSUME NEW s \in SignerVecs, NEW w \in WasmInputs, upgrade(s, w)
      PROVE  AdminSetValid'
  BY <1>6, AdminSetStable DEF upgrade, adminVars, envVars, adminView, TypeOK, EnvType
<1>7. ASSUME NEW p, set_paused(p)
      PROVE  AdminSetValid'
  BY <1>7, AdminSetStable DEF set_paused, adminVars, envVars, adminView, TypeOK, EnvType
<1>8. ASSUME NEW s \in SignerVecs, migrate(s)
      PROVE  AdminSetValid'
  BY <1>8, AdminSetStable DEF migrate, adminVars, envVars, adminView, TypeOK, EnvType
<1> QED
  BY <1>1, <1>2, <1>3, <1>4, <1>5, <1>6, <1>7, <1>8 DEF AdminStep, pause, unpause

\* So do the recovery steps,
LEMMA RecoveryStepSet ==
    ASSUME TypeOK, TypeOK', AdminSetValid, RecoveryStep PROVE AdminSetValid'
<1> USE InputAssumption, StorageAssumption, NoneAssumption
<1>1. ASSUME NEW a \in NewAdmins, initiate_recovery(a) PROVE AdminSetValid'
  <2>1. Initialised
    BY <1>1 DEF initiate_recovery, AdminSetValid
  <2>2. pendingRecovery'.new_admin # ZeroAddress
        /\ pendingRecovery'.execute_after <= now' + RECOVERY_DELAY
    BY <1>1 DEF initiate_recovery, validate_nonzero_address, envVars, TypeOK, EnvType
  <2> QED
    BY <1>1, <2>1, <2>2 DEF initiate_recovery, adminVars, configVars, AdminSetValid,
                            Initialised, Distinct
<1>2. ASSUME NEW s \in SignerVecs, cancel_recovery(s) PROVE AdminSetValid'
  BY <1>2 DEF cancel_recovery, adminVars, configVars, AdminSetValid, Initialised, Distinct
<1>3. ASSUME execute_recovery PROVE AdminSetValid'
  <2>1. pendingRecovery.new_admin \in Address /\ Initialised
    BY <1>3 DEF execute_recovery, TypeOK, RecoveryType, PendingRecovery, AdminSetValid
  <2>2. <<pendingRecovery.new_admin>> \in Seq(Address)
    BY <2>1
  <2>3. /\ Initialised' /\ threshold' \in 1..Len(admins') /\ Distinct(admins)'
        /\ ZeroAddress \notin Range(admins')
    BY <1>3, <2>2, WrittenAdmins DEF execute_recovery
  <2> QED
    BY <1>3, <2>1, <2>3 DEF execute_recovery, configVars, AdminSetValid
<1> QED
  BY <1>1, <1>2, <1>3 DEF RecoveryStep

\* Registry and rule writes leave the administration alone.
LEMMA RegistryWritesView ==
    /\ \A m : add_merchant(m) \/ remove_merchant(m) \/ remove_rule(m) => UNCHANGED adminView
    /\ \A m, rule : store_rule(m, rule) => UNCHANGED adminView
    /\ \A rule : store_default_rule(rule) => UNCHANGED adminView
  BY DEF add_merchant, remove_merchant, store_rule, remove_rule, store_default_rule, adminVars,
         configVars, adminView

\* and neither the registry nor the payments touch it.
LEMMA MerchantStepView ==
    ASSUME MerchantStep \/ DefaultRuleStep \/ PaymentStep
    PROVE  UNCHANGED <<adminView, queueVars, envVars>>
<1>1. ASSUME MerchantStep \/ DefaultRuleStep PROVE UNCHANGED <<adminView, queueVars, envVars>>
  BY <1>1, RegistryWritesView
  DEF MerchantStep, DefaultRuleStep, get_effective_rule, register_merchant,
      unregister_merchant, clear_settlement_rule, set_settlement_rule, set_default_rule,
      adminVars, configVars, adminView
<1>2. ASSUME PaymentStep PROVE UNCHANGED notPayVars
  BY <1>2 DEF PaymentStep, calculate_fee_split, store_payment_reference, prune_payment,
              prune_payments
<1> QED
  BY <1>1, <1>2 DEF notPayVars, adminVars, configVars, adminView

\* An executed operation keeps the administration usable.
LEMMA ExecuteSet ==
    ASSUME TypeOK, TypeOK', AdminSetValid, NEW op \in OpInputs, execute(op)
    PROVE  AdminSetValid'
<1> USE OperationFields
<1>1. run_operation(op) /\ UNCHANGED envVars
  BY DEF execute
<1>2. /\ now' = now /\ now \in Nat
      /\ Initialised
  BY <1>1, StorageAssumption
  DEF execute, validate_scheduled_execution, slot_holds, Queued, envVars, TypeOK, EnvType,
      AdminSetValid
<1>3. CASE UNCHANGED adminView
  BY <1>2, <1>3, AdminSetStable
<1>4. CASE op.tag = "UpdateGovernance" /\ _update_governance(op.governance)
  BY <1>2, <1>4, NoneAssumption
  DEF _update_governance, adminVars, validate_governance, validate_nonzero_address,
      AdminSetValid, Initialised, Distinct
<1>5. CASE op.tag = "CancelRecovery" /\ _cancel_recovery
  BY <1>2, <1>5 DEF _cancel_recovery, adminVars, configVars, AdminSetValid, Initialised, Distinct
<1>6. CASE op.tag = "TransferAdmin" /\ _transfer_admin(op.admins, op.threshold)
  <2>1. /\ Initialised' /\ threshold' \in 1..Len(admins') /\ Distinct(admins)'
        /\ ZeroAddress \notin Range(admins')
    BY <1>6, WrittenAdmins DEF _transfer_admin
  <2>2. Initialised /\ UNCHANGED <<governance, recoveryAddress, pendingRecovery>>
    BY <1>6 DEF _transfer_admin, Initialised, configVars
  <2> QED
    BY <1>2, <2>1, <2>2 DEF AdminSetValid
<1>7. CASE op.tag = "Upgrade" /\ _upgrade(op.wasm)
  BY <1>3, <1>7 DEF _upgrade, adminVars, adminView
<1> QED
  BY <1>1, <1>3, <1>4, <1>5, <1>6, <1>7, RegistryWritesView
  DEF run_operation, _register_merchant, _unregister_merchant, _set_settlement_rule,
      _clear_settlement_rule, _set_default_rule

\* So does every other step of the timelock.
LEMMA QueueStepSet ==
    ASSUME TypeOK, TypeOK', AdminSetValid, QueueStep PROVE AdminSetValid'
<1>1. now \in Nat
  BY StorageAssumption DEF TypeOK, EnvType
<1>2. ASSUME NEW op \in OpInputs, dry_run(op) PROVE AdminSetValid'
  BY <1>1, <1>2, AdminSetStable
  DEF dry_run, vars, adminVars, configVars, envVars, adminView
<1>3. ASSUME NEW op \in OpInputs, NEW s \in SignerVecs,
             cancel(s, op) \/ \E d \in Delays : schedule(s, op, d)
      PROVE  AdminSetValid'
  BY <1>1, <1>3, AdminSetStable
  DEF cancel, schedule, assert_admin_and_not_paused, verify_admin_auth, Initialised,
      notQueueVars, adminVars, configVars, envVars, adminView
<1>4. ASSUME NEW s \in SignerVecs, NEW ops \in OpBatches, cancel_all(s, ops)
      PROVE  AdminSetValid'
  BY <1>1, <1>4, AdminSetStable
  DEF cancel_all, verify_admin_auth, Initialised, notQueueVars, adminVars, configVars, envVars,
      adminView
<1> QED
  BY <1>2, <1>3, <1>4, ExecuteSet DEF QueueStep

\* AdminSetValid is inductive, given the types.
LEMMA NextSet == ASSUME TypeOK, TypeOK', AdminSetValid, [Next]_vars PROVE AdminSetValid'
<1>1. now \in Nat
  BY StorageAssumption DEF TypeOK, EnvType
<1>2. CASE MerchantStep \/ DefaultRuleStep \/ PaymentStep
  BY <1>1, <1>2, MerchantStepView, AdminSetStable DEF envVars
<1>3. CASE EnvironmentStep
  BY <1>1, <1>3, AdminSetStable
  DEF EnvironmentStep, Tick, GovernanceChanges, LoseKeys, contractVars, adminVars, configVars,
      adminView
<1>4. CASE UNCHANGED vars
  BY <1>1, <1>4, AdminSetStable DEF vars, adminVars, configVars, envVars, adminView
<1> QED
  BY <1>2, <1>3, <1>4, AdminStepSet, RecoveryStepSet, QueueStepSet DEF Next

\* Every reachable state has a usable administration, for every admin list,
\* threshold, operation and delay the entry points can be given.
THEOREM AdminSetCorrect == Spec => []AdminSetValid
<1>1. Init => AdminSetValid
  BY DEF Init, AdminSetValid, Initialised
<1> QED
  BY <1>1, InitType, NextType, NextSet, PTL DEF Spec

-----------------------------------------------------------------------------
(* The queue.                                                               *)

\* The only ways a step touches the queue: schedule fills one free slot,
\* execute and cancel free one taken slot, cancel_all frees several.
Fills(op, d) == /\ ~Queued(op)
                /\ delay_allowed(d)
                /\ queue' = [queue EXCEPT ![Hash(op)] = [operation_xdr |-> op,
                                                         execute_at |-> now + d]]
                /\ opCount' = SaturatingInc(opCount)

Frees(removed) == /\ \A h \in removed : queue[h] # None
                  /\ queue' = [h \in HASH |-> IF h \in removed THEN None ELSE queue[h]]
                  /\ opCount' = SaturatingSub(opCount, Cardinality(removed))

\* Consuming a slot that is occupied frees exactly that slot.
LEMMA ConsumeFrees ==
    ASSUME TypeOK, NEW op \in OpInputs, Queued(op), consume_scheduled_operation(op)
    PROVE  Frees({Hash(op)})
<1>1. Hash(op) \in HASH
  BY OperationFields
<1>2. Cardinality({Hash(op)}) = 1
  BY FS_Singleton
<1>3. queue' = [h \in HASH |-> IF h \in {Hash(op)} THEN None ELSE queue[h]]
  BY <1>1 DEF consume_scheduled_operation, TypeOK, QueueType
<1> QED
  BY <1>2, <1>3 DEF Frees, consume_scheduled_operation, decrement_pending_operation_count, Queued

\* A batch cancellation frees the slots whose own operation the batch names.
LEMMA CancelAllFrees ==
    ASSUME TypeOK, NEW s \in SignerVecs, NEW ops \in OpBatches, cancel_all(s, ops)
    PROVE  \E removed \in SUBSET HASH : Frees(removed)
<1> DEFINE removed == {Hash(ops[i]) : i \in {j \in DOMAIN ops : slot_holds(ops[j])}}
<1>1. removed \in SUBSET HASH
  BY OperationFields, InputAssumption
<1>2. \A h \in removed : queue[h] # None
  BY DEF slot_holds, Queued
<1>3. /\ queue' = [h \in HASH |-> IF h \in removed THEN None ELSE queue[h]]
      /\ decrement_pending_operation_count(Cardinality(removed))
  BY DEF cancel_all
<1> HIDE DEF removed
<1>4. Frees(removed)
  BY <1>2, <1>3 DEF Frees, decrement_pending_operation_count
<1> QED
  BY <1>1, <1>4

\* Every step leaves the queue alone, fills one free slot, or frees some.
LEMMA QueueFootprint ==
    ASSUME TypeOK, [Next]_vars
    PROVE  \/ UNCHANGED queueVars
           \/ \E op \in OpInputs, d \in Delays : Fills(op, d)
           \/ \E removed \in SUBSET HASH : Frees(removed)
<1> USE InputAssumption
<1>1. CASE AdminStep
  BY <1>1 DEF AdminStep, init, update_governance, update_recovery_address, transfer_admin,
              change_threshold, upgrade, pause, unpause, set_paused, migrate
<1>2. CASE RecoveryStep
  BY <1>2 DEF RecoveryStep, initiate_recovery, cancel_recovery, execute_recovery
<1>3. CASE MerchantStep \/ DefaultRuleStep \/ PaymentStep
  BY <1>3, MerchantStepView
<1>4. CASE EnvironmentStep
  BY <1>4 DEF EnvironmentStep, Tick, GovernanceChanges, LoseKeys, contractVars
<1>5. CASE UNCHANGED vars
  BY <1>5 DEF vars
<1>6. ASSUME NEW op \in OpInputs,
             execute(op) \/ (\E s \in SignerVecs : cancel(s, op))
      PROVE  \E removed \in SUBSET HASH : Frees(removed)
  <2>1. Queued(op) /\ consume_scheduled_operation(op)
    BY <1>6 DEF execute, cancel, validate_scheduled_execution, slot_holds
  <2>2. {Hash(op)} \in SUBSET HASH /\ Frees({Hash(op)})
    BY <2>1, ConsumeFrees, OperationFields
  <2> QED
    BY <2>2
<1>7. ASSUME NEW op \in OpInputs, NEW s \in SignerVecs, NEW d \in Delays, schedule(s, op, d)
      PROVE  Fills(op, d)
  BY <1>7 DEF schedule, Fills, increment_pending_operation_count
<1>8. CASE QueueStep
  BY <1>6, <1>7, <1>8, CancelAllFrees DEF QueueStep, dry_run, vars
<1> QED
  BY <1>1, <1>2, <1>3, <1>4, <1>5, <1>8 DEF Next

Occupied == {h \in HASH : queue[h] # None}

\* The occupied slots are finitely many and a u32 counts them.
LEMMA OccupiedBound ==
    /\ IsFiniteSet(Occupied) /\ Cardinality(Occupied) \in Nat
    /\ Cardinality(Occupied) <= U32_MAX
<1>1. Occupied \subseteq HASH
  BY DEF Occupied
<1>2. /\ IsFiniteSet(HASH) /\ Cardinality(HASH) \in Nat /\ Cardinality(HASH) <= U32_MAX
      /\ U32_MAX \in Nat
  BY StorageAssumption, QueueBound, FS_CardinalityType
<1>3. IsFiniteSet(Occupied) /\ Cardinality(Occupied) <= Cardinality(HASH)
  BY <1>1, <1>2, FS_Subset
<1>4. Cardinality(Occupied) \in Nat
  BY <1>3, FS_CardinalityType
<1> QED
  BY <1>2, <1>3, <1>4

\* Filling a free slot keeps the counter exact: it does not saturate.
LEMMA FillsDepth ==
    ASSUME TypeOK, QueueDepth, NEW op \in OpInputs, NEW d \in Delays, Fills(op, d)
    PROVE  QueueDepth'
<1> DEFINE slot == [operation_xdr |-> op, execute_at |-> now + d]
<1>1. slot # None
  <2>1. slot \in ScheduledOp
    BY InputAssumption, StorageAssumption DEF ScheduledOp, TypeOK, EnvType
  <2> QED
    BY <2>1, NoneAssumption
<1>2. queue' = [queue EXCEPT ![Hash(op)] = slot] /\ queue \in [HASH -> ScheduledOp \cup {None}]
  BY DEF Fills, TypeOK, QueueType
<1> HIDE DEF slot
<1>3. Hash(op) \in HASH /\ Hash(op) \notin Occupied
  BY OperationFields DEF Fills, Queued, Occupied
<1>4. Occupied' = Occupied \cup {Hash(op)}
  BY <1>1, <1>2, <1>3 DEF Occupied
<1>5. Cardinality(Occupied') = Cardinality(Occupied) + 1
  BY <1>3, <1>4, OccupiedBound, FS_AddElement
<1>6. Cardinality(Occupied') <= U32_MAX
  <2>1. Occupied' \subseteq HASH
    BY <1>3, <1>4 DEF Occupied
  <2>2. Cardinality(Occupied') <= Cardinality(HASH) /\ Cardinality(HASH) \in Nat
    BY <2>1, StorageAssumption, FS_Subset, FS_CardinalityType
  <2> QED
    BY <2>2, <1>5, OccupiedBound, QueueBound, StorageAssumption
<1>7. opCount = Cardinality(Occupied) /\ opCount' = SaturatingInc(opCount)
  BY DEF QueueDepth, Occupied, Fills
<1>8. opCount' = Cardinality(Occupied')
  BY <1>5, <1>6, <1>7, OccupiedBound, StorageAssumption DEF SaturatingInc
<1> QED
  BY <1>8 DEF QueueDepth, Occupied

\* Freeing occupied slots keeps the counter exact: it does not stop at zero early.
LEMMA FreesDepth ==
    ASSUME TypeOK, QueueDepth, NEW removed \in SUBSET HASH, Frees(removed)
    PROVE  QueueDepth'
<1>1. removed \subseteq Occupied
  BY DEF Frees, Occupied
<1>2. Occupied' = Occupied \ removed
  BY DEF Frees, Occupied
<1>3. IsFiniteSet(removed) /\ Cardinality(removed) \in Nat
      /\ Cardinality(removed) <= Cardinality(Occupied)
  BY <1>1, OccupiedBound, FS_Subset, FS_CardinalityType
<1>4. Cardinality(Occupied') = Cardinality(Occupied) - Cardinality(removed)
  <2>1. Occupied \cap removed = removed
    BY <1>1
  <2> QED
    BY <1>2, <2>1, OccupiedBound, FS_Difference
<1>5. opCount = Cardinality(Occupied) /\ opCount' = SaturatingSub(opCount, Cardinality(removed))
  BY DEF QueueDepth, Occupied, Frees
<1>6. opCount' = Cardinality(Occupied')
  BY <1>3, <1>4, <1>5, OccupiedBound DEF SaturatingSub
<1> QED
  BY <1>6 DEF QueueDepth, Occupied

\* The queue-depth counter is exact in every reachable state, whatever the
\* hash function and its collisions.
THEOREM QueueDepthCorrect == Spec => []QueueDepth
<1>1. ASSUME Init PROVE QueueDepth
  <2>1. {h \in HASH : queue[h] # None} = {}
    BY <1>1 DEF Init
  <2> QED
    BY <1>1, <2>1, FS_EmptySet DEF Init, QueueDepth
<1>2. ASSUME TypeOK, QueueDepth, [Next]_vars PROVE QueueDepth'
  <2>1. CASE UNCHANGED queueVars
    BY <1>2, <2>1 DEF QueueDepth, queueVars
  <2> QED
    BY <1>2, <2>1, QueueFootprint, FillsDepth, FreesDepth
<1> QED
  BY <1>1, <1>2, TypeCorrect, PTL DEF Spec

\* An operation scheduled while a recovery is pending never matures before the
\* recovery can be executed.  It rests on AdminSetValid (the recovery is due at
\* most RECOVERY_DELAY from now) and on DelayAssumption.
THEOREM RecoveryPrecedesCorrect == Spec => RecoveryPrecedes
<1> DEFINE Step == \A h \in HASH :
                     queue[h] = None /\ queue'[h] # None /\ pendingRecovery # None
                        => queue'[h].execute_at >= pendingRecovery.execute_after
<1>1. ASSUME TypeOK, AdminSetValid, [Next]_vars PROVE Step
  <2>1. SUFFICES ASSUME NEW h \in HASH, queue[h] = None, queue'[h] # None,
                        pendingRecovery # None
                 PROVE  queue'[h].execute_at >= pendingRecovery.execute_after
    OBVIOUS
  <2>2. PICK op \in OpInputs, d \in Delays : Fills(op, d)
    <3>1. ~UNCHANGED queueVars
      BY <2>1 DEF queueVars
    <3>2. ASSUME NEW removed \in SUBSET HASH, Frees(removed) PROVE FALSE
      BY <2>1, <3>2 DEF Frees
    <3> QED
      BY <1>1, <3>1, <3>2, QueueFootprint
  <2>3. queue'[h] = [operation_xdr |-> op, execute_at |-> now + d]
    BY <1>1, <2>1, <2>2, OperationFields DEF Fills, TypeOK, QueueType
  <2>4. d \in Nat /\ now \in Nat /\ d >= MIN_TIMELOCK
    BY <1>1, <2>2, InputAssumption, StorageAssumption DEF Fills, delay_allowed, TypeOK, EnvType
  <2>5. /\ pendingRecovery.execute_after \in Nat
        /\ pendingRecovery.execute_after <= now + RECOVERY_DELAY
    BY <1>1, <2>1 DEF AdminSetValid, TypeOK, RecoveryType, PendingRecovery
  <2> QED
    BY <2>3, <2>4, <2>5, DelayAssumption, StorageAssumption
<1> QED
  BY <1>1, TypeCorrect, AdminSetCorrect, PTL DEF Spec, RecoveryPrecedes

-----------------------------------------------------------------------------
(* Payments.                                                                *)

\* Registry and rule writes leave the payments alone.
LEMMA RegistryWritesPayments ==
    /\ \A m : add_merchant(m) \/ remove_merchant(m) \/ remove_rule(m) => UNCHANGED payVars
    /\ \A m, rule : store_rule(m, rule) => UNCHANGED payVars
    /\ \A rule : store_default_rule(rule) => UNCHANGED payVars
  BY DEF add_merchant, remove_merchant, store_rule, remove_rule, store_default_rule

\* No step but those of payments.rs touches a record or a counter.
LEMMA OthersKeepPayments ==
    ASSUME \/ AdminStep \/ RecoveryStep \/ QueueStep \/ MerchantStep \/ DefaultRuleStep
           \/ EnvironmentStep
    PROVE  UNCHANGED payVars
<1>1. CASE AdminStep
  BY <1>1 DEF AdminStep, init, update_governance, update_recovery_address, transfer_admin,
              change_threshold, upgrade, pause, unpause, set_paused, migrate
<1>2. CASE RecoveryStep
  BY <1>2 DEF RecoveryStep, initiate_recovery, cancel_recovery, execute_recovery
<1>3. CASE MerchantStep \/ DefaultRuleStep
  BY <1>3, RegistryWritesPayments
  DEF MerchantStep, DefaultRuleStep, get_effective_rule, register_merchant,
      unregister_merchant, clear_settlement_rule, set_settlement_rule, set_default_rule
<1>4. CASE EnvironmentStep
  BY <1>4 DEF EnvironmentStep, Tick, GovernanceChanges, LoseKeys, contractVars
<1>5. ASSUME NEW op \in OpInputs, execute(op) PROVE UNCHANGED payVars
  BY <1>5, RegistryWritesPayments
  DEF execute, run_operation, _update_governance, _cancel_recovery, _transfer_admin, _upgrade,
      _register_merchant, _unregister_merchant, _set_settlement_rule, _clear_settlement_rule,
      _set_default_rule
<1>6. CASE QueueStep
  BY <1>5, <1>6 DEF QueueStep, dry_run, cancel, schedule, cancel_all, notQueueVars, vars
<1> QED
  BY <1>1, <1>2, <1>3, <1>4, <1>6

\* So every step leaves the payment history alone or is one of theirs.
LEMMA PaymentFootprint ==
    ASSUME [Next]_vars
    PROVE  UNCHANGED payVars \/ PaymentStep
<1>1. CASE UNCHANGED vars
  BY <1>1 DEF vars
<1> QED
  BY <1>1, OthersKeepPayments DEF Next

\* A record that adds up.
Conserved(p) == /\ p.platform_fee_amount >= 0 /\ p.network_fee_amount >= 0
                /\ p.merchant_payout_amount >= 0
                /\ p.platform_fee_amount + p.network_fee_amount + p.merchant_payout_amount
                      = MaxOf(p.amount, 0)

\* A freshly split payment adds up.
LEMMA RecordConserved ==
    ASSUME NEW a \in Int, NEW rule \in SettlementRule, calculate_split(a, rule) # None
    PROVE  Conserved(payment_record(a, rule))
<1>1. rule.platform_fee_bps \in Nat /\ rule.network_fee_bps \in Nat
  BY DEF SettlementRule
<1>2. LET s == calculate_split(a, rule)
      IN /\ s.platform_fee_amount \in Nat
         /\ s.network_fee_amount \in Nat
         /\ s.merchant_payout_amount \in Nat
         /\ s.platform_fee_amount + s.network_fee_amount + s.merchant_payout_amount
               = MaxOf(a, 0)
  BY <1>1, SplitConserves
<1> QED
  BY <1>2 DEF Conserved, payment_record

\* Pruning removes records and changes none.
LEMMA PruneKeeps ==
    ASSUME TypeOK, NEW s \in SignerVecs, NEW n \in MerchantInputs,
           \/ \E q \in RefInputs : prune_payment(s, n, q)
           \/ \E refs \in RefBatches : prune_payments(s, n, refs),
           NEW m \in Address, NEW r \in REF, payments'[m][r] # None
    PROVE  payments'[m][r] = payments[m][r]
<1>1. n \in Address /\ payments \in [Address -> [REF -> PaymentRecord \cup {None}]]
  BY InputAssumption DEF TypeOK, PayType
<1>2. CASE m # n
  BY <1>1, <1>2 DEF prune_payment, prune_payments
<1>3. ASSUME m = n, NEW q \in RefInputs, prune_payment(s, n, q)
      PROVE  payments'[m][r] = payments[m][r]
  BY <1>1, <1>3, InputAssumption DEF prune_payment
<1>4. ASSUME m = n, NEW refs \in RefBatches, prune_payments(s, n, refs)
      PROVE  payments'[m][r] = payments[m][r]
  <2>1. payments'[n] = [q \in REF |-> IF q \in Range(refs) THEN None ELSE payments[n][q]]
    BY <1>1, <1>4 DEF prune_payments
  <2> QED
    BY <1>4, <2>1
<1> QED
  BY <1>2, <1>3, <1>4

\* Value conservation for the whole payment history, whatever governance
\* answers and whichever rule was in force.
THEOREM PaymentsConserveCorrect == Spec => []PaymentsConserve
<1> DEFINE Inv == \A m \in Address, r \in REF :
                    payments[m][r] # None => Conserved(payments[m][r])
<1>1. Init => Inv
  BY DEF Init
<1>2. ASSUME TypeOK, Inv, [Next]_vars PROVE Inv'
  <2> USE InputAssumption
  <2>1. CASE UNCHANGED payVars
    BY <1>2, <2>1 DEF payVars, Conserved
  <2>2. ASSUME NEW m \in MerchantInputs, NEW a \in Amounts, NEW r \in RefInputs,
               store_payment_reference(m, r, a)
        PROVE  Inv'
    <3> DEFINE record == payment_record(a, effective_rule(m))
    <3>1. effective_rule(m) \in SettlementRule
      BY <1>2, <2>2, EffectiveRuleType DEF store_payment_reference, TypeOK
    <3>2. Conserved(record)
      BY <2>2, <3>1, RecordConserved DEF store_payment_reference
    <3>3. payments' = [payments EXCEPT ![m][r] = record]
      BY <2>2 DEF store_payment_reference
    <3> HIDE DEF record
    <3> QED
      BY <1>2, <3>2, <3>3 DEF TypeOK, PayType
  <2>3. ASSUME NEW s \in SignerVecs, NEW n \in MerchantInputs,
               \/ \E q \in RefInputs : prune_payment(s, n, q)
               \/ \E refs \in RefBatches : prune_payments(s, n, refs)
        PROVE  Inv'
    <3>1. \A m \in Address, r \in REF :
             payments'[m][r] # None => payments'[m][r] = payments[m][r]
      BY <1>2, <2>3, PruneKeeps
    <3> QED
      BY <1>2, <3>1
  <2>4. CASE PaymentStep
    BY <1>2, <2>1, <2>2, <2>3, <2>4
    DEF PaymentStep, calculate_fee_split
  <2> QED
    BY <1>2, <2>1, <2>4, PaymentFootprint
<1>3. Inv => PaymentsConserve
  BY DEF PaymentsConserve, Conserved
<1> QED
  BY <1>1, <1>2, <1>3, TypeCorrect, PTL DEF Spec
=============================================================================
