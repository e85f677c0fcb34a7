----------------------- MODULE SettlementSafetyProofs -----------------------
(***************************************************************************)
(* Who can change what in the settlement contract, and that its registry,  *)
(* its rules and its payment history agree, for every value of the         *)
(* constants.  On top of that, that the contract implements ChangeControl: *)
(* every initial state maps to an initial state, and every step to a step  *)
(* of ChangeControl or to a stutter.                                       *)
(***************************************************************************)
EXTENDS SettlementRefinement, SettlementProofs

-----------------------------------------------------------------------------
(* The quorum.                                                              *)

\* The admins are finitely many, and so are those who can still sign.
LEMMA AdminsFinite ==
    ASSUME TypeOK
    PROVE  /\ IsFiniteSet(Range(admins) \cap signing)
           /\ Cardinality(Range(admins) \cap signing) \in Nat
<1>1. admins \in Surjection(1..Len(admins), Range(admins))
  BY DEF TypeOK, AdminType, Range, Surjection
<1>2. IsFiniteSet(1..Len(admins))
  BY FS_Interval DEF TypeOK, AdminType
<1>3. IsFiniteSet(Range(admins))
  BY <1>1, <1>2, FS_Surjection
<1> QED
  BY <1>3, FS_Intersection, FS_CardinalityType

\* verify_admin_auth(s, n) succeeds only while n different admins can sign:
\* the signer vector is an injection into them.
LEMMA SignersAreQuorum ==
    ASSUME TypeOK, NEW s \in SignerVecs, NEW n \in Nat, verify_admin_auth(s, n)
    PROVE  n <= Cardinality(Range(admins) \cap signing)
<1> DEFINE able == Range(admins) \cap signing
<1>1. s \in Seq(Address) /\ Len(s) \in Nat /\ DOMAIN s = 1..Len(s)
  BY InputAssumption
<1>2. \A i \in DOMAIN s : s[i] \in able
  BY DEF verify_admin_auth, require_auth, Range
<1>3. s \in Injection(1..Len(s), able)
  BY <1>1, <1>2 DEF verify_admin_auth, Distinct, Injection, IsInjective
<1>4. \A k \in Nat : IsFiniteSet(1..k) /\ Cardinality(1..k) = k
  BY FS_Interval
<1>5. Len(s) <= Cardinality(able)
  BY <1>1, <1>3, <1>4, AdminsFinite, FS_Injection
<1> QED
  BY <1>1, <1>5, AdminsFinite DEF verify_admin_auth

\* So a call that passes the admin check shows that the quorum is not lost.
LEMMA QuorumSigned ==
    ASSUME TypeOK, NEW s \in SignerVecs,
           verify_admin_auth(s, threshold) \/ verify_admin_auth(s, threshold + 1)
    PROVE  ~QuorumLost
<1>1. threshold \in Nat
  BY DEF TypeOK, AdminType
<1>2. threshold <= Cardinality(Range(admins) \cap signing)
  BY <1>1, SignersAreQuorum, AdminsFinite
<1> QED
  BY <1>1, <1>2, AdminsFinite DEF QuorumLost

\* Losing more keys does not bring a lost quorum back.
LEMMA QuorumStaysLost ==
    ASSUME TypeOK, TypeOK', QuorumLost, UNCHANGED adminVars, signing' \in SUBSET signing
    PROVE  QuorumLost'
<1>1. Range(admins') \cap signing' \in SUBSET (Range(admins) \cap signing)
  BY DEF adminVars
<1>2. /\ Cardinality(Range(admins') \cap signing') <= Cardinality(Range(admins) \cap signing)
      /\ Cardinality(Range(admins') \cap signing') \in Nat
      /\ Cardinality(Range(admins) \cap signing) \in Nat
  BY <1>1, AdminsFinite, FS_Subset, FS_CardinalityType
<1>3. threshold' = threshold /\ threshold \in Nat
  BY DEF adminVars, TypeOK, AdminType
<1> QED
  BY <1>2, <1>3 DEF QuorumLost

-----------------------------------------------------------------------------
(* What kinds of step there are.                                            *)

\* A read, a payment or a dry run: nothing that the admins control changes.
QuietStep == UNCHANGED <<adminControlled, pendingRecovery, queueVars, envVars>>

\* A call that the quorum signs and that takes effect at once.
DirectStep == ~QuorumLost /\ UNCHANGED <<pendingRecovery, queueVars, envVars>>

\* cancel and cancel_all: signed, not while paused, and nothing else happens.
CancelStep(removed) == /\ ~QuorumLost /\ ~paused
                       /\ Frees(removed)
                       /\ UNCHANGED notQueueVars


\* Registry and rule writes leave the admins, the pause flag and the recovery
\* address alone.
LEMMA RegistryWritesConfig ==
    /\ \A m : add_merchant(m) \/ remove_merchant(m) \/ remove_rule(m)
                 => UNCHANGED <<adminVars, configVars, pendingRecovery, payVars>>
    /\ \A m, rule : store_rule(m, rule)
                 => UNCHANGED <<adminVars, configVars, pendingRecovery, registryVars, payVars>>
    /\ \A rule : store_default_rule(rule)
                 => UNCHANGED <<adminVars, configVars, pendingRecovery, registryVars, rules, payVars>>
  BY DEF add_merchant, remove_merchant, store_rule, remove_rule, store_default_rule

\* Nobody acts before init: the threshold is zero, the contract is not paused
\* and has no merchants.  This is what init and its lack of an exclusivity
\* check rely on.
FreshUntilInit == ~Initialised => threshold = 0 /\ ~paused /\ merchants = {}

\* An initialised contract stays initialised.
LEMMA StaysInitialised ==
    ASSUME TypeOK, [Next]_vars, Initialised
    PROVE  Initialised'
<1> USE InputAssumption
<1>1. ASSUME NEW new_admins \in Seq(Address), NEW t \in Nat, write_admins(new_admins, t)
      PROVE  Initialised'
  BY <1>1, WrittenAdmins
<1>2. CASE UNCHANGED admins
  BY <1>2 DEF Initialised
<1>3. CASE AdminStep
  BY <1>1, <1>2, <1>3
  DEF AdminStep, init, update_governance, update_recovery_address, transfer_admin,
      change_threshold, upgrade, pause, unpause, set_paused, migrate, adminVars
<1>4. CASE RecoveryStep
  <2>1. execute_recovery => <<pendingRecovery.new_admin>> \in Seq(Address)
    BY DEF execute_recovery, TypeOK, RecoveryType, PendingRecovery
  <2> QED
    BY <1>1, <1>2, <1>4, <2>1
    DEF RecoveryStep, initiate_recovery, cancel_recovery, execute_recovery, adminVars
<1>5. CASE MerchantStep \/ DefaultRuleStep \/ PaymentStep
  BY <1>2, <1>5, MerchantStepView DEF adminView
<1>6. CASE EnvironmentStep \/ UNCHANGED vars
  BY <1>2, <1>6
  DEF EnvironmentStep, Tick, GovernanceChanges, LoseKeys, contractVars, vars, adminVars
<1>7. ASSUME NEW op \in OpInputs, execute(op) PROVE Initialised'
  BY <1>1, <1>2, <1>7, OperationFields, RegistryWritesConfig
  DEF execute, run_operation, _update_governance, _cancel_recovery, _transfer_admin, _upgrade,
      _register_merchant, _unregister_merchant, _set_settlement_rule, _clear_settlement_rule,
      _set_default_rule, adminVars
<1>8. CASE QueueStep
  BY <1>2, <1>7, <1>8
  DEF QueueStep, dry_run, cancel, schedule, cancel_all, notQueueVars, vars, adminVars
<1> QED
  BY <1>3, <1>4, <1>5, <1>6, <1>8 DEF Next

\* Without admins no signer vector passes.
LEMMA NoAdminsNoAuth ==
    ASSUME ~Initialised, NEW s, NEW n PROVE ~verify_admin_auth(s, n)
  BY DEF verify_admin_auth, Initialised

\* FreshUntilInit is inductive relative to AdminSetValid, by which the queue
\* is empty and no recovery can start before init.
LEMMA NextFresh ==
    ASSUME TypeOK, AdminSetValid, FreshUntilInit, [Next]_vars
    PROVE  FreshUntilInit'
<1> USE InputAssumption
<1>1. CASE Initialised
  BY <1>1, StaysInitialised DEF FreshUntilInit
<1>2. CASE UNCHANGED <<admins, threshold, paused, merchants>>
  BY <1>2 DEF FreshUntilInit, Initialised
<1>3. ASSUME ~Initialised, AdminStep PROVE FreshUntilInit'
  <2>1. \E new_admins \in AdminVecs, t \in Thresholds : write_admins(new_admins, t)
    BY <1>3, NoAdminsNoAuth
    DEF AdminStep, init, update_governance, update_recovery_address, transfer_admin,
        change_threshold, upgrade, pause, unpause, migrate, assert_admin_and_not_paused
  <2> QED
    BY <2>1, WrittenAdmins DEF FreshUntilInit
<1>4. ASSUME ~Initialised, RecoveryStep PROVE FALSE
  BY <1>4 DEF AdminSetValid, RecoveryStep, initiate_recovery, cancel_recovery, execute_recovery
<1>5. ASSUME ~Initialised, MerchantStep \/ DefaultRuleStep \/ PaymentStep PROVE FreshUntilInit'
  BY <1>2, <1>5, NoAdminsNoAuth, MerchantStepView
  DEF MerchantStep, DefaultRuleStep, PaymentStep, get_effective_rule, register_merchant,
      unregister_merchant, clear_settlement_rule, set_settlement_rule, set_default_rule,
      assert_admin_and_not_paused, calculate_fee_split, store_payment_reference,
      prune_payment, prune_payments, notPayVars, adminVars, configVars, registryVars
<1>6. CASE EnvironmentStep \/ UNCHANGED vars
  BY <1>2, <1>6
  DEF EnvironmentStep, Tick, GovernanceChanges, LoseKeys, contractVars, vars, adminVars,
      configVars, registryVars
<1>7. ASSUME ~Initialised, QueueStep PROVE FALSE
  BY <1>7, NoAdminsNoAuth, OperationFields
  DEF AdminSetValid, QueueStep, execute, dry_run, validate_scheduled_execution, slot_holds,
      Queued, cancel, schedule, cancel_all, assert_admin_and_not_paused
<1> QED
  BY <1>1, <1>3, <1>4, <1>5, <1>6, <1>7 DEF Next

\* Nothing happens before init, whoever calls what.
LEMMA FreshUntilInitCorrect == Spec => []FreshUntilInit
<1>1. Init => FreshUntilInit
  BY DEF Init, FreshUntilInit
<1> QED
  BY <1>1, NextFresh, TypeCorrect, AdminSetCorrect, PTL DEF Spec

\* Each direct administrative call is signed by a quorum; init by nobody, when
\* the threshold is still zero.
LEMMA AdminStepKind ==
    ASSUME TypeOK, FreshUntilInit, AdminStep
    PROVE  DirectStep
<1>1. CASE \E new_admins \in AdminVecs, t \in Thresholds, g \in GovInputs, r \in RecoveryInputs,
              deployer \in Address : init(deployer, new_admins, t, g, r)
  <2>1. threshold = 0
    BY <1>1 DEF init, FreshUntilInit, Initialised
  <2>2. ~QuorumLost
    BY <2>1, AdminsFinite DEF QuorumLost
  <2> QED
    BY <1>1, <2>2 DEF init, DirectStep
<1>2. ASSUME NEW s \in SignerVecs,
             \/ \E g \in GovInputs : update_governance(s, g)
             \/ \E r \in RecoveryInputs : update_recovery_address(s, r)
             \/ \E new_admins \in AdminVecs, t \in Thresholds : transfer_admin(s, new_admins, t)
             \/ \E t \in Thresholds : change_threshold(s, t)
             \/ \E w \in WasmInputs : upgrade(s, w)
             \/ \E reason \in Reasons : pause(s, reason)
             \/ unpause(s)
             \/ migrate(s)
      PROVE  DirectStep
  <2>1. verify_admin_auth(s, threshold) \/ verify_admin_auth(s, threshold + 1)
    BY <1>2 DEF update_governance, update_recovery_address, transfer_admin, change_threshold,
                upgrade, pause, unpause, migrate, assert_admin_and_not_paused
  <2>2. UNCHANGED <<pendingRecovery, queueVars, envVars>>
    BY <1>2 DEF update_governance, update_recovery_address, transfer_admin, change_threshold,
                upgrade, pause, unpause, set_paused, migrate
  <2> QED
    BY <2>1, <2>2, QuorumSigned DEF DirectStep
<1> QED
  BY <1>1, <1>2 DEF AdminStep

\* The calls of merchant.rs, settlement.rs and payments.rs are signed by a
\* quorum or change nothing that the admins control.
LEMMA MerchantStepKind ==
    ASSUME TypeOK, MerchantStep \/ DefaultRuleStep \/ PaymentStep
    PROVE  QuietStep \/ DirectStep
<1>1. UNCHANGED <<pendingRecovery, queueVars, envVars>>
  BY MerchantStepView DEF adminView
<1>2. ASSUME NEW s \in SignerVecs, verify_admin_auth(s, threshold) PROVE DirectStep
  BY <1>1, <1>2, QuorumSigned DEF DirectStep
<1>3. CASE MerchantStep \/ DefaultRuleStep
  BY <1>1, <1>2, <1>3
  DEF MerchantStep, DefaultRuleStep, get_effective_rule, register_merchant,
      unregister_merchant, clear_settlement_rule, set_settlement_rule, set_default_rule,
      assert_admin_and_not_paused, QuietStep, adminControlled
<1>4. CASE PaymentStep
  <2>1. UNCHANGED notPayVars
    BY <1>4 DEF PaymentStep, calculate_fee_split, store_payment_reference, prune_payment,
                prune_payments
  <2> QED
    BY <2>1 DEF notPayVars, QuietStep, adminControlled
<1> QED
  BY <1>3, <1>4

\* The steps of the timelock.
LEMMA QueueStepKind ==
    ASSUME TypeOK, QueueStep
    PROVE  \/ QuietStep
           \/ \E removed \in SUBSET HASH : CancelStep(removed)
           \/ \E op \in OpInputs : execute(op)
           \/ \E s \in SignerVecs, op \in OpInputs, d \in Delays :
                 ~QuorumLost /\ schedule(s, op, d)
<1>1. ASSUME NEW op \in OpInputs, dry_run(op) PROVE QuietStep
  BY <1>1 DEF dry_run, vars, QuietStep, adminControlled, ruleVars
<1>2. ASSUME NEW op \in OpInputs, NEW s \in SignerVecs, cancel(s, op)
      PROVE  \E removed \in SUBSET HASH : CancelStep(removed)
  <2>1. ~QuorumLost /\ ~paused /\ Frees({Hash(op)}) /\ UNCHANGED notQueueVars
    BY <1>2, QuorumSigned, ConsumeFrees DEF cancel, assert_not_paused, slot_holds
  <2>2. {Hash(op)} \in SUBSET HASH /\ CancelStep({Hash(op)})
    BY <2>1, OperationFields DEF CancelStep
  <2> QED
    BY <2>2
<1>3. ASSUME NEW s \in SignerVecs, NEW ops \in OpBatches, cancel_all(s, ops)
      PROVE  \E removed \in SUBSET HASH : CancelStep(removed)
  <2>1. ~QuorumLost /\ ~paused /\ UNCHANGED notQueueVars
    BY <1>3, QuorumSigned DEF cancel_all, assert_not_paused
  <2> QED
    BY <1>3, <2>1, CancelAllFrees DEF CancelStep
<1>4. ASSUME NEW op \in OpInputs, NEW s \in SignerVecs, NEW d \in Delays, schedule(s, op, d)
      PROVE  ~QuorumLost
  BY <1>4, QuorumSigned DEF schedule, assert_admin_and_not_paused
<1> QED
  BY <1>1, <1>2, <1>3, <1>4 DEF QueueStep

\* Every step of the contract is of one of seven kinds; the proofs below
\* treat these kinds, not the single entry points.
LEMMA StepKinds ==
    ASSUME TypeOK, FreshUntilInit, [Next]_vars
    PROVE  \/ QuietStep
           \/ DirectStep
           \/ RecoveryStep
           \/ \E removed \in SUBSET HASH : CancelStep(removed)
           \/ \E op \in OpInputs : execute(op)
           \/ \E s \in SignerVecs, op \in OpInputs, d \in Delays :
                 ~QuorumLost /\ schedule(s, op, d)
           \/ EnvironmentStep
<1>1. CASE UNCHANGED vars
  BY <1>1 DEF vars, QuietStep, adminControlled, ruleVars
<1> QED
  BY <1>1, AdminStepKind, MerchantStepKind, QueueStepKind DEF Next

-----------------------------------------------------------------------------
(* The timelock and the recovery veto.                                      *)

\* A recovery step leaves the queue alone.
LEMMA RecoveryStepFrame ==
    ASSUME RecoveryStep
    PROVE  UNCHANGED <<configVars, queueVars, registryVars, ruleVars, payVars, envVars>>
  BY DEF RecoveryStep, initiate_recovery, cancel_recovery, execute_recovery

\* Executing an operation takes it out of its own slot and out of no other.
LEMMA ExecuteConsumes ==
    ASSUME TypeOK, NEW op \in OpInputs, execute(op), NEW h \in HASH
    PROVE  Consumed(h) <=> h = Hash(op)
<1>1. Queued(op) /\ queue' = [queue EXCEPT ![Hash(op)] = None]
  BY DEF execute, validate_scheduled_execution, slot_holds, consume_scheduled_operation
<1> QED
  BY <1>1, OperationFields DEF Consumed, Queued, TypeOK, QueueType

\* A slot leaves the queue only because the quorum cancels it, with no other
\* effect, or because its own operation is executed.
LEMMA ConsumedBy ==
    ASSUME TypeOK, FreshUntilInit, [Next]_vars, NEW h \in HASH, Consumed(h)
    PROVE  \/ UNCHANGED notQueueVars
           \/ \E op \in OpInputs : execute(op) /\ h = Hash(op)
<1>1. ~UNCHANGED queueVars
  BY DEF Consumed, queueVars
<1>2. ASSUME NEW s \in SignerVecs, NEW op \in OpInputs, NEW d \in Delays, schedule(s, op, d)
      PROVE  UNCHANGED notQueueVars
  BY <1>2 DEF schedule
<1>3. EnvironmentStep => UNCHANGED queueVars
  BY DEF EnvironmentStep, Tick, GovernanceChanges, LoseKeys, contractVars
<1> QED
  BY <1>1, <1>2, <1>3, StepKinds, RecoveryStepFrame, ExecuteConsumes
  DEF QuietStep, DirectStep, CancelStep

\* The recovery veto, for every hash function and every queue content: while a
\* recovery is pending, no queued operation but CancelRecovery takes effect.
THEOREM VetoHoldsCorrect == Spec => VetoHolds
<1> DEFINE Step == \A h \in HASH :
                     /\ pendingRecovery # None
                     /\ Consumed(h)
                     /\ queue[h].operation_xdr.tag # "CancelRecovery"
                     => UNCHANGED notQueueVars
<1>1. ASSUME TypeOK, FreshUntilInit, [Next]_vars PROVE Step
  <2>1. ASSUME NEW op \in OpInputs, execute(op), pendingRecovery # None
        PROVE  queue[Hash(op)].operation_xdr.tag = "CancelRecovery"
    BY <2>1 DEF execute, validate_scheduled_execution, slot_holds, not_vetoed
  <2> QED
    BY <1>1, <2>1, ConsumedBy
<1> QED
  BY <1>1, TypeCorrect, FreshUntilInitCorrect, PTL DEF Spec, VetoHolds

\* What the shared registry and rule writes change is what their operation
\* announces.
LEMMA RegistryAnnounced ==
    ASSUME TypeOK, NEW op \in OpInputs, UNCHANGED envVars,
           \/ op.tag = "RegisterMerchant" /\ add_merchant(op.merchant)
           \/ op.tag = "UnregisterMerchant" /\ remove_merchant(op.merchant)
           \/ op.tag = "SetSettlementRule" /\ store_rule(op.merchant, op.rule)
           \/ op.tag = "ClearSettlementRule" /\ remove_rule(op.merchant)
           \/ op.tag = "SetDefaultRule" /\ store_default_rule(op.rule)
    PROVE  Announced(op)
<1>1. UNCHANGED <<adminVars, configVars, pendingRecovery, payVars>>
  BY RegistryWritesConfig
<1>2. /\ \A m \in merchants' \ merchants : op.tag = "RegisterMerchant" /\ m = op.merchant
      /\ \A m \in merchants \ merchants' : op.tag = "UnregisterMerchant" /\ m = op.merchant
  BY DEF add_merchant, remove_merchant, store_rule, remove_rule, store_default_rule, registryVars
<1>3. \A m \in Address : rules'[m] # rules[m] =>
          /\ op.tag \in {"SetSettlementRule", "ClearSettlementRule", "UnregisterMerchant"}
          /\ m = op.merchant
          /\ rules'[m] = IF op.tag = "SetSettlementRule" THEN op.rule ELSE None
  BY DEF add_merchant, remove_merchant, store_rule, remove_rule, store_default_rule, ruleVars,
         TypeOK, RuleType
<1>4. defaultRule' # defaultRule => op.tag = "SetDefaultRule" /\ defaultRule' = op.rule
  BY DEF add_merchant, remove_merchant, store_rule, remove_rule, store_default_rule, ruleVars
<1> QED
  BY <1>1, <1>2, <1>3, <1>4 DEF Announced, configVars

\* Executing an operation has the effect it announced, and no other.
LEMMA ExecuteAnnounced ==
    ASSUME TypeOK, NEW op \in OpInputs, execute(op)
    PROVE  Announced(op)
<1>1. run_operation(op) /\ UNCHANGED envVars
  BY DEF execute
<1>2. CASE op.tag = "UpdateGovernance" /\ _update_governance(op.governance)
  BY <1>1, <1>2 DEF _update_governance, Announced, registryVars, ruleVars
<1>3. CASE op.tag = "CancelRecovery" /\ _cancel_recovery
  BY <1>1, <1>3 DEF _cancel_recovery, Announced, configVars, registryVars, ruleVars
<1>4. CASE op.tag = "TransferAdmin" /\ _transfer_admin(op.admins, op.threshold)
  BY <1>1, <1>4
  DEF _transfer_admin, write_admins, Announced, adminVars, configVars, registryVars, ruleVars
<1>5. CASE op.tag = "Upgrade" /\ _upgrade(op.wasm)
  BY <1>1, <1>5 DEF _upgrade, Announced, registryVars, ruleVars
<1> QED
  BY <1>1, <1>2, <1>3, <1>4, <1>5, RegistryAnnounced
  DEF run_operation, _register_merchant, _unregister_merchant, _set_settlement_rule,
      _clear_settlement_rule, _set_default_rule

\* The timelock promise, for every hash function: an operation takes effect
\* only once it is due, not while paused, and exactly as announced.
THEOREM TimelockRespectedCorrect == Spec => TimelockRespected
<1> DEFINE Step == \A h \in HASH :
                     Consumed(h) /\ notQueueVars' # notQueueVars
                        => Matured(h) /\ Announced(queue[h].operation_xdr)
<1>1. ASSUME TypeOK, FreshUntilInit, [Next]_vars PROVE Step
  <2>1. ASSUME NEW op \in OpInputs, execute(op)
        PROVE  Matured(Hash(op)) /\ queue[Hash(op)].operation_xdr = op
    BY <2>1 DEF execute, validate_scheduled_execution, assert_not_paused, slot_holds, Queued,
                Matured
  <2> QED
    BY <1>1, <2>1, ConsumedBy, ExecuteAnnounced
<1> QED
  BY <1>1, TypeCorrect, FreshUntilInitCorrect, PTL DEF Spec, TimelockRespected

\* No call changes what the admins control once too few of them can sign,
\* except a matured operation that no recovery vetoes, and the recovery itself.
THEOREM QuorumControlsCorrect == Spec => QuorumControls
<1> DEFINE Step == Initialised /\ QuorumLost /\ adminControlled' # adminControlled
                     => \/ RecoveryCompletes
                        \/ pendingRecovery = None /\ \E h \in HASH : Consumed(h) /\ Matured(h)
<1>1. ASSUME TypeOK, FreshUntilInit, [Next]_vars PROVE Step
  <2>1. SUFFICES ASSUME QuorumLost, adminControlled' # adminControlled
                 PROVE  \/ RecoveryCompletes
                        \/ pendingRecovery = None /\ \E h \in HASH : Consumed(h) /\ Matured(h)
    OBVIOUS
  <2>2. UNCHANGED notQueueVars => UNCHANGED adminControlled
    BY DEF notQueueVars, adminControlled, ruleVars
  <2>3. CASE RecoveryStep
    BY <2>1, <2>3
    DEF RecoveryStep, initiate_recovery, cancel_recovery, execute_recovery, write_admins,
        RecoveryCompletes, adminControlled, adminVars, ruleVars
  <2>4. ASSUME NEW op \in OpInputs, execute(op)
        PROVE  pendingRecovery = None /\ \E h \in HASH : Consumed(h) /\ Matured(h)
    <3>1. Consumed(Hash(op)) /\ Hash(op) \in HASH
      BY <1>1, <2>4, ExecuteConsumes, OperationFields
    <3>2. Matured(Hash(op)) /\ (pendingRecovery = None \/ op.tag = "CancelRecovery")
      BY <2>4 DEF execute, validate_scheduled_execution, assert_not_paused, slot_holds,
                  Queued, Matured, not_vetoed
    <3>3. op.tag = "CancelRecovery" => UNCHANGED adminControlled
      BY <2>4 DEF execute, run_operation, _cancel_recovery, adminControlled, ruleVars
    <3> QED
      BY <2>1, <3>1, <3>2, <3>3
  <2>5. EnvironmentStep => UNCHANGED adminControlled
    BY DEF EnvironmentStep, Tick, GovernanceChanges, LoseKeys, contractVars, adminControlled,
           ruleVars
  <2> QED
    BY <1>1, <2>1, <2>2, <2>3, <2>4, <2>5, StepKinds
    DEF QuietStep, DirectStep, CancelStep, schedule
<1> QED
  BY <1>1, TypeCorrect, FreshUntilInitCorrect, PTL DEF Spec, QuorumControls

-----------------------------------------------------------------------------
(* The roles.                                                               *)

\* No conflict arises while the admins stay and no merchant is added.
LEMMA NoNewConflict ==
    ASSUME UNCHANGED admins, merchants' \subseteq merchants
    PROVE  RoleConflict' \ RoleConflict = {}
  BY DEF RoleConflict

\* Registering refuses an admin.
LEMMA AddMerchantRoles ==
    ASSUME NEW m, add_merchant(m)
    PROVE  RoleConflict' \ RoleConflict = {}
  BY DEF add_merchant, may_register, RoleConflict, adminVars

\* Installing admins none of whom is a merchant removes every conflict.
LEMMA TransferRoles ==
    ASSUME NEW new_admins, admins' = new_admins, not_merchants(new_admins),
           UNCHANGED registryVars
    PROVE  RoleConflict' = {}
  BY DEF not_merchants, RoleConflict, registryVars

\* The registry writes other than registration add no conflict.
LEMMA RegistryRoles ==
    ASSUME \/ \E m : remove_merchant(m) \/ remove_rule(m)
           \/ \E m, rule : store_rule(m, rule)
           \/ \E rule : store_default_rule(rule)
    PROVE  RoleConflict' \ RoleConflict = {}
<1>1. UNCHANGED admins
  BY RegistryWritesConfig DEF adminVars
<1>2. merchants' \subseteq merchants
  BY DEF remove_merchant, remove_rule, store_rule, store_default_rule, registryVars
<1> QED
  BY <1>1, <1>2, NoNewConflict

\* An executed operation adds no conflict: _transfer_admin and
\* _register_merchant check when they run, not when they were scheduled.
LEMMA ExecuteRoles ==
    ASSUME NEW op \in OpInputs, execute(op)
    PROVE  RoleConflict' \ RoleConflict = {}
<1>1. run_operation(op)
  BY DEF execute
<1>2. CASE op.tag = "TransferAdmin" /\ _transfer_admin(op.admins, op.threshold)
  BY <1>2, TransferRoles DEF _transfer_admin, write_admins
<1>3. CASE UNCHANGED <<adminVars, registryVars>>
  BY <1>3, NoNewConflict DEF adminVars, registryVars
<1> QED
  BY <1>1, <1>2, <1>3, AddMerchantRoles, RegistryRoles
  DEF run_operation, _update_governance, _cancel_recovery, _upgrade, _register_merchant,
      _unregister_merchant, _set_settlement_rule, _clear_settlement_rule, _set_default_rule

\* Admins and merchants come to overlap only in the target of a recovery, for
\* every interleaving of registration, the two transfers and init.
THEOREM ExclusivityCorrect == Spec => ExclusivityOnlyBrokenByRecovery
<1> DEFINE Step == \A a \in RoleConflict' \ RoleConflict :
                     RecoveryCompletes /\ a = pendingRecovery.new_admin
<1>1. ASSUME TypeOK, FreshUntilInit, [Next]_vars PROVE Step
  <2>1. CASE UNCHANGED <<adminVars, registryVars>>
    BY <2>1, NoNewConflict DEF adminVars, registryVars
  <2>2. ASSUME NEW new_admins \in AdminVecs, NEW t \in Thresholds, NEW g \in GovInputs,
               NEW r \in RecoveryInputs, NEW deployer \in Address,
               init(deployer, new_admins, t, g, r)
        PROVE  RoleConflict' = {}
    BY <1>1, <2>2 DEF init, FreshUntilInit, Initialised, RoleConflict, registryVars
  <2>3. ASSUME NEW s \in SignerVecs, NEW new_admins \in AdminVecs, NEW t \in Thresholds,
               transfer_admin(s, new_admins, t)
        PROVE  RoleConflict' = {}
    BY <2>3, TransferRoles DEF transfer_admin, write_admins
  <2>4. ASSUME NEW s \in SignerVecs, NEW t \in Thresholds, change_threshold(s, t)
        PROVE  RoleConflict' \ RoleConflict = {}
    BY <2>4, NoNewConflict DEF change_threshold, registryVars
  <2>5. CASE AdminStep
    BY <2>1, <2>2, <2>3, <2>4, <2>5
    DEF AdminStep, update_governance, update_recovery_address, upgrade, pause, unpause,
        set_paused, migrate
  <2>6. ASSUME execute_recovery PROVE Step
    <3>1. RecoveryCompletes /\ UNCHANGED registryVars
      BY <2>6 DEF execute_recovery, write_admins, RecoveryCompletes, adminVars
    <3>2. Range(admins') = {pendingRecovery.new_admin}
      BY <2>6 DEF execute_recovery, write_admins, Range
    <3> QED
      BY <3>1, <3>2 DEF RoleConflict
  <2>7. CASE RecoveryStep
    BY <2>1, <2>6, <2>7 DEF RecoveryStep, initiate_recovery, cancel_recovery
  <2>8. CASE QueueStep
    BY <2>1, <2>8, ExecuteRoles
    DEF QueueStep, dry_run, cancel, schedule, cancel_all, notQueueVars, vars
  <2>9. CASE MerchantStep \/ DefaultRuleStep
    BY <2>1, <2>9, AddMerchantRoles, RegistryRoles
    DEF MerchantStep, DefaultRuleStep, get_effective_rule, register_merchant,
        unregister_merchant, clear_settlement_rule, set_settlement_rule, set_default_rule
  <2>10. CASE PaymentStep
    BY <2>1, <2>10
    DEF PaymentStep, calculate_fee_split, store_payment_reference, prune_payment,
        prune_payments, notPayVars
  <2>11. CASE EnvironmentStep \/ UNCHANGED vars
    BY <2>1, <2>11
    DEF EnvironmentStep, Tick, GovernanceChanges, LoseKeys, contractVars, vars
  <2> QED
    BY <1>1, <2>5, <2>7, <2>8, <2>9, <2>10, <2>11 DEF Next
<1> QED
  BY <1>1, TypeCorrect, FreshUntilInitCorrect, PTL DEF Spec, ExclusivityOnlyBrokenByRecovery

-----------------------------------------------------------------------------
(* The pause flag.                                                          *)

\* What a paused contract keeps, payments aside.
frozenVars == <<governance, schemaVersion, queueVars, registryVars, rules, defaultRule>>

\* Every call that writes frozenVars checks the flag: the direct ones
LEMMA PausedDirect ==
    ASSUME FreshUntilInit, paused, AdminStep \/ MerchantStep \/ DefaultRuleStep
    PROVE  UNCHANGED frozenVars
<1>1. Initialised
  BY DEF FreshUntilInit
<1>2. CASE AdminStep
  BY <1>1, <1>2
  DEF AdminStep, init, update_governance, update_recovery_address, transfer_admin,
      change_threshold, upgrade, pause, unpause, set_paused, migrate, Initialised,
      assert_admin_and_not_paused, assert_not_paused, frozenVars, configVars, ruleVars
<1>3. CASE MerchantStep \/ DefaultRuleStep
  BY <1>3
  DEF MerchantStep, DefaultRuleStep, get_effective_rule, register_merchant,
      unregister_merchant, clear_settlement_rule, set_settlement_rule, set_default_rule,
      assert_admin_and_not_paused, assert_not_paused, frozenVars, configVars
<1> QED
  BY <1>2, <1>3

\* and the whole timelock.
LEMMA PausedQueue ==
    ASSUME paused, QueueStep
    PROVE  FALSE
  BY DEF QueueStep, execute, dry_run, validate_scheduled_execution, cancel, schedule,
         cancel_all, assert_admin_and_not_paused, assert_not_paused

\* A paused contract keeps its governance address, queue, registry and rules,
\* and records no payment, whatever is called.
THEOREM PausedFreezesCorrect == Spec => PausedFreezes
<1> DEFINE Step == paused /\ paused' =>
                     /\ UNCHANGED frozenVars
                     /\ \A m \in Address, r \in REF :
                           payments[m][r] = None => payments'[m][r] = None
<1>1. ASSUME TypeOK, FreshUntilInit, [Next]_vars PROVE Step
  <2>1. SUFFICES ASSUME paused
                 PROVE  /\ UNCHANGED frozenVars
                        /\ \A m \in Address, r \in REF :
                              payments[m][r] = None => payments'[m][r] = None
    OBVIOUS
  <2>2. UNCHANGED frozenVars
    <3>1. CASE RecoveryStep
      BY <3>1, RecoveryStepFrame DEF frozenVars, configVars, ruleVars
    <3>2. CASE PaymentStep
      BY <3>2
      DEF PaymentStep, calculate_fee_split, store_payment_reference, prune_payment,
          prune_payments, notPayVars, frozenVars, configVars
    <3>3. CASE EnvironmentStep \/ UNCHANGED vars
      BY <3>3
      DEF EnvironmentStep, Tick, GovernanceChanges, LoseKeys, contractVars, vars, frozenVars,
          configVars, ruleVars
    <3> QED
      BY <1>1, <2>1, <3>1, <3>2, <3>3, PausedDirect, PausedQueue DEF Next
  <2>3. ASSUME NEW m \in Address, NEW r \in REF, payments[m][r] = None
        PROVE  payments'[m][r] = None
    <3>1. CASE UNCHANGED payVars
      BY <2>3, <3>1 DEF payVars
    <3>2. CASE PaymentStep
      <4>1. \A n \in MerchantInputs, a \in Amounts, q \in RefInputs :
               ~store_payment_reference(n, q, a)
        BY <2>1 DEF store_payment_reference, assert_not_paused
      <4> QED
        BY <1>1, <2>3, <3>1, <3>2, <4>1, PruneKeeps DEF PaymentStep, calculate_fee_split
    <3> QED
      BY <1>1, <3>1, <3>2, PaymentFootprint
  <2> QED
    BY <2>2, <2>3
<1>2. Step => (paused /\ paused' =>
          /\ UNCHANGED <<governance, schemaVersion, queueVars, registryVars, rules, defaultRule>>
          /\ \A m \in Address, r \in REF : payments[m][r] = None => payments'[m][r] = None)
  BY DEF frozenVars
<1> QED
  BY <1>1, <1>2, TypeCorrect, FreshUntilInitCorrect, PTL DEF Spec, PausedFreezes


-----------------------------------------------------------------------------
(* The registry and the rules.                                              *)

\* The shared writes that change the registry or the rules, each with the
\* merchant and the rule it is called with.
RegistryWrite ==
    \/ \E m \in Address : add_merchant(m) \/ remove_merchant(m) \/ remove_rule(m)
    \/ \E m \in Address, rule \in SettlementRule : store_rule(m, rule)
    \/ \E rule \in SettlementRule : store_default_rule(rule)

recordVars == <<registryVars, rules, defaultRule>>

\* Every step leaves the registry and the rules alone or is one of those
\* writes, called directly or by an operation of the timelock.
LEMMA RegistryFootprint ==
    ASSUME TypeOK, [Next]_vars
    PROVE  UNCHANGED recordVars \/ RegistryWrite
<1> USE InputAssumption
<1>1. CASE AdminStep
  BY <1>1 DEF AdminStep, init, update_governance, update_recovery_address, transfer_admin,
              change_threshold, upgrade, pause, unpause, set_paused, migrate, recordVars, ruleVars
<1>2. CASE RecoveryStep
  BY <1>2, RecoveryStepFrame DEF recordVars, ruleVars
<1>3. CASE MerchantStep \/ DefaultRuleStep
  BY <1>3
  DEF MerchantStep, DefaultRuleStep, get_effective_rule, register_merchant,
      unregister_merchant, clear_settlement_rule, set_settlement_rule, set_default_rule,
      RegistryWrite, recordVars
<1>4. CASE PaymentStep
  BY <1>4 DEF PaymentStep, calculate_fee_split, store_payment_reference, prune_payment,
              prune_payments, notPayVars, recordVars
<1>5. CASE EnvironmentStep \/ UNCHANGED vars
  BY <1>5 DEF EnvironmentStep, Tick, GovernanceChanges, LoseKeys, contractVars, vars,
              recordVars, ruleVars
<1>6. ASSUME NEW op \in OpInputs, execute(op) PROVE UNCHANGED recordVars \/ RegistryWrite
  BY <1>6, OperationFields
  DEF execute, run_operation, _update_governance, _cancel_recovery, _transfer_admin, _upgrade,
      _register_merchant, _unregister_merchant, _set_settlement_rule, _clear_settlement_rule,
      _set_default_rule, RegistryWrite, recordVars, ruleVars
<1>7. CASE QueueStep
  BY <1>6, <1>7
  DEF QueueStep, dry_run, cancel, schedule, cancel_all, notQueueVars, vars, recordVars, ruleVars
<1> QED
  BY <1>1, <1>2, <1>3, <1>4, <1>5, <1>7 DEF Next

\* A write of the registry or the rules keeps rules, merchants, tombstones and
\* payments in agreement.
LEMMA WriteConsistent ==
    ASSUME TypeOK, RegistryConsistent, RegistryWrite, UNCHANGED payVars
    PROVE  RegistryConsistent'
<1> USE DEF RegistryConsistent, payVars, TypeOK, RuleType
<1>1. ASSUME NEW m \in Address, add_merchant(m) PROVE RegistryConsistent'
  BY <1>1 DEF add_merchant, ruleVars
<1>2. ASSUME NEW m \in Address, remove_merchant(m) PROVE RegistryConsistent'
  BY <1>2 DEF remove_merchant
<1>3. ASSUME NEW m \in Address, remove_rule(m) PROVE RegistryConsistent'
  BY <1>3 DEF remove_rule, registryVars
<1>4. ASSUME NEW m \in Address, NEW rule \in SettlementRule, store_rule(m, rule)
      PROVE  RegistryConsistent'
  BY <1>4 DEF store_rule, registryVars
<1>5. ASSUME NEW rule \in SettlementRule, store_default_rule(rule) PROVE RegistryConsistent'
  BY <1>5 DEF store_default_rule, registryVars
<1> QED
  BY <1>1, <1>2, <1>3, <1>4, <1>5 DEF RegistryWrite

\* A payment is recorded for a registered merchant only, and pruning adds none.
LEMMA PaymentConsistent ==
    ASSUME TypeOK, RegistryConsistent, PaymentStep
    PROVE  RegistryConsistent'
<1> USE InputAssumption
<1>1. UNCHANGED recordVars
  BY DEF PaymentStep, calculate_fee_split, store_payment_reference, prune_payment,
         prune_payments, notPayVars, recordVars
<1>2. ASSUME NEW m \in Address, NEW r \in REF, payments'[m][r] # None
      PROVE  payments[m][r] # None \/ m \in merchants
  <2>1. CASE UNCHANGED payVars
    BY <1>2, <2>1 DEF payVars
  <2>2. ASSUME NEW n \in MerchantInputs, NEW a \in Amounts, NEW q \in RefInputs,
               store_payment_reference(n, q, a)
        PROVE  payments[m][r] # None \/ m \in merchants
    BY <1>2, <2>2 DEF store_payment_reference, TypeOK, PayType
  <2> QED
    BY <1>2, <2>1, <2>2, PruneKeeps DEF PaymentStep, calculate_fee_split
<1> QED
  BY <1>1, <1>2 DEF RegistryConsistent, recordVars, registryVars

\* A rule always belongs to a registered merchant, a tombstone never to one,
\* and every payment to a merchant that is or was registered.
THEOREM RegistryConsistentCorrect == Spec => []RegistryConsistent
<1>1. Init => RegistryConsistent
  BY DEF Init, RegistryConsistent
<1>2. ASSUME TypeOK, RegistryConsistent, [Next]_vars PROVE RegistryConsistent'
  <2>1. CASE PaymentStep
    BY <1>2, <2>1, PaymentConsistent
  <2>2. CASE UNCHANGED payVars /\ UNCHANGED recordVars
    BY <1>2, <2>2 DEF RegistryConsistent, payVars, recordVars, registryVars
  <2> QED
    BY <1>2, <2>1, <2>2, PaymentFootprint, RegistryFootprint, WriteConsistent
<1> QED
  BY <1>1, <1>2, TypeCorrect, PTL DEF Spec

\* A rule that validate_rule_bounds accepts is within the policy bounds.
LEMMA ValidatedInBounds ==
    ASSUME NEW rule \in SettlementRule, validate_rule_bounds(rule)
    PROVE  RuleInBounds(rule)
<1>1. rule.platform_fee_bps \in Nat /\ rule.network_fee_bps \in Nat
  BY DEF SettlementRule
<1>2. MIN_FEE_BPS \in Nat /\ MAX_FEE_BPS \in Nat
  BY StorageAssumption
<1> QED
  BY <1>1, <1>2 DEF validate_rule_bounds, RuleInBounds

\* No stored rule leaves the bounds, whether it was set directly or by the
\* timelock, and however the contract was administered in between.
THEOREM RulesBoundedCorrect == Spec => []RulesBounded
<1> DEFINE Inv == /\ \A m \in Address : rules[m] # None => RuleInBounds(rules[m])
                  /\ defaultRule # None => RuleInBounds(defaultRule)
<1>1. Init => Inv
  BY DEF Init
<1>2. ASSUME TypeOK, Inv, [Next]_vars PROVE Inv'
  <2> USE DEF RuleInBounds
  <2>1. CASE UNCHANGED recordVars
    BY <1>2, <2>1 DEF recordVars
  <2>2. ASSUME NEW m \in Address, add_merchant(m) \/ remove_merchant(m) \/ remove_rule(m)
        PROVE  Inv'
    BY <1>2, <2>2 DEF add_merchant, remove_merchant, remove_rule, ruleVars, TypeOK, RuleType
  <2>3. ASSUME NEW m \in Address, NEW rule \in SettlementRule, store_rule(m, rule)
        PROVE  Inv'
    <3>1. /\ rules' = [rules EXCEPT ![m] = rule] /\ UNCHANGED defaultRule
          /\ RuleInBounds(rule)
      BY <2>3, ValidatedInBounds DEF store_rule
    <3> QED
      BY <1>2, <3>1 DEF TypeOK, RuleType
  <2>4. ASSUME NEW rule \in SettlementRule, store_default_rule(rule)
        PROVE  Inv'
    <3>1. defaultRule' = rule /\ UNCHANGED rules /\ RuleInBounds(rule)
      BY <2>4, ValidatedInBounds DEF store_default_rule
    <3> QED
      BY <1>2, <3>1
  <2> QED
    BY <1>2, <2>1, <2>2, <2>3, <2>4, RegistryFootprint DEF RegistryWrite
<1>3. TypeOK /\ Inv => RulesBounded
  BY DEF RulesBounded, Range, TypeOK, RuleType
<1> QED
  BY <1>1, <1>2, <1>3, TypeCorrect, PTL DEF Spec

-----------------------------------------------------------------------------
(* The payment history.                                                     *)

RecordsOf(m) == {r \in REF : payments[m][r] # None}

\* A merchant's records are finitely many.
LEMMA RecordedFinite ==
    ASSUME NEW m PROVE IsFiniteSet(RecordsOf(m)) /\ Cardinality(RecordsOf(m)) \in Nat
<1>1. RecordsOf(m) \in SUBSET REF
  BY DEF RecordsOf
<1> QED
  BY <1>1, StorageAssumption, FS_Subset, FS_CardinalityType

\* Removing records and lowering the counter by their number keeps it exact:
\* the subtraction does not saturate.
LEMMA PruneCounts ==
    ASSUME NEW m, NEW removed \in SUBSET RecordsOf(m), NEW n,
           n = Cardinality(RecordsOf(m))
    PROVE  SaturatingSub(n, Cardinality(removed)) = Cardinality(RecordsOf(m) \ removed)
<1>1. IsFiniteSet(removed) /\ Cardinality(removed) \in Nat
      /\ Cardinality(removed) <= Cardinality(RecordsOf(m))
  BY RecordedFinite, FS_Subset, FS_CardinalityType
<1>2. RecordsOf(m) \cap removed = removed
  OBVIOUS
<1>3. Cardinality(RecordsOf(m) \ removed) = Cardinality(RecordsOf(m)) - Cardinality(removed)
  BY <1>2, RecordedFinite, FS_Difference
<1> QED
  BY <1>1, <1>3, RecordedFinite DEF SaturatingSub

\* The counter of every merchant, exact.
CountsExact == \A m \in Address : payCount[m] = Cardinality(RecordsOf(m))

\* Recording a payment under a fresh reference raises the counter by one.
LEMMA StoreCounts ==
    ASSUME TypeOK, CountsExact, NEW m \in MerchantInputs, NEW a \in Amounts,
           NEW ref \in RefInputs, store_payment_reference(m, ref, a)
    PROVE  CountsExact'
<1> USE InputAssumption
<1> DEFINE record == payment_record(a, effective_rule(m))
<1>1. record # None
  <2>1. effective_rule(m) \in SettlementRule
    BY EffectiveRuleType DEF store_payment_reference, TypeOK
  <2>2. record \in PaymentRecord
    BY <2>1, PaymentRecordType DEF store_payment_reference, TypeOK
  <2> QED
    BY <2>2, NoneAssumption
<1>2. /\ payments' = [payments EXCEPT ![m][ref] = record]
      /\ payments[m][ref] = None
      /\ payCount' = [payCount EXCEPT ![m] = @ + 1]
  BY DEF store_payment_reference, fresh_reference, increment_payment_count
<1> HIDE DEF record
<1>3. m \in Address /\ ref \in REF
  OBVIOUS
<1>4. ASSUME NEW n \in Address, n # m PROVE payCount'[n] = Cardinality(RecordsOf(n)')
  <2>1. RecordsOf(n)' = RecordsOf(n)
    BY <1>2, <1>3, <1>4 DEF RecordsOf, TypeOK, PayType
  <2> QED
    BY <1>2, <1>3, <1>4, <2>1 DEF CountsExact, TypeOK, PayType
<1>5. payCount'[m] = Cardinality(RecordsOf(m)')
  <2>1. RecordsOf(m)' = RecordsOf(m) \cup {ref} /\ ref \notin RecordsOf(m)
    BY <1>1, <1>2, <1>3 DEF RecordsOf, TypeOK, PayType
  <2>2. Cardinality(RecordsOf(m)') = Cardinality(RecordsOf(m)) + 1
    BY <2>1, RecordedFinite, FS_AddElement
  <2> QED
    BY <1>2, <1>3, <2>2 DEF CountsExact, TypeOK, PayType
<1> QED
  BY <1>4, <1>5 DEF CountsExact

\* Pruning the references refs of a merchant, one or a batch, lowers the
\* counter by the number of records that go.
LEMMA PruneExact ==
    ASSUME TypeOK, CountsExact, NEW m \in MerchantInputs, NEW refs \in SUBSET REF,
           payments' = [payments EXCEPT ![m] = [r \in REF |-> IF r \in refs THEN None ELSE @[r]]],
           decrement_payment_count(m, Cardinality({r \in refs : payments[m][r] # None}))
    PROVE  CountsExact'
<1> DEFINE removed == {r \in refs : payments[m][r] # None}
<1>1. m \in Address
  BY InputAssumption
<1>2. removed \in SUBSET RecordsOf(m)
  BY DEF RecordsOf
<1>3. payCount' = [payCount EXCEPT ![m] = SaturatingSub(@, Cardinality(removed))]
  BY DEF decrement_payment_count
<1>4. RecordsOf(m)' = RecordsOf(m) \ removed
  BY <1>1 DEF RecordsOf, TypeOK, PayType
<1> HIDE DEF removed
<1>5. ASSUME NEW n \in Address, n # m PROVE payCount'[n] = Cardinality(RecordsOf(n)')
  <2>1. RecordsOf(n)' = RecordsOf(n)
    BY <1>1, <1>5 DEF RecordsOf, TypeOK, PayType
  <2> QED
    BY <1>1, <1>3, <1>5, <2>1 DEF CountsExact, TypeOK, PayType
<1>6. payCount'[m] = Cardinality(RecordsOf(m)')
  <2>1. SaturatingSub(payCount[m], Cardinality(removed)) = Cardinality(RecordsOf(m) \ removed)
    BY <1>1, <1>2, PruneCounts DEF CountsExact
  <2> QED
    BY <1>1, <1>3, <1>4, <2>1 DEF TypeOK, PayType
<1> QED
  BY <1>5, <1>6 DEF CountsExact

\* Pruning one reference is pruning the singleton of it, absent or not.
LEMMA PruneOneIsBatch ==
    ASSUME TypeOK, NEW s \in SignerVecs, NEW m \in MerchantInputs, NEW ref \in RefInputs,
           prune_payment(s, m, ref)
    PROVE  /\ payments' = [payments EXCEPT ![m] =
                              [r \in REF |-> IF r \in {ref} THEN None ELSE @[r]]]
           /\ decrement_payment_count(m, Cardinality({r \in {ref} : payments[m][r] # None}))
<1>1. m \in Address /\ ref \in REF
  BY InputAssumption
<1>2. payments' = [payments EXCEPT ![m] = [r \in REF |-> IF r \in {ref} THEN None ELSE @[r]]]
  <2>1. payments' = [payments EXCEPT ![m][ref] = None]
    BY DEF prune_payment
  <2>2. payments[m] \in [REF -> PaymentRecord \cup {None}]
    BY <1>1 DEF TypeOK, PayType
  <2>3. [payments[m] EXCEPT ![ref] = None]
           = [r \in REF |-> IF r \in {ref} THEN None ELSE payments[m][r]]
    BY <2>2
  <2> QED
    BY <2>1, <2>3
<1>3. Cardinality({r \in {ref} : payments[m][r] # None})
         = IF payments[m][ref] # None THEN 1 ELSE 0
  <2>1. CASE payments[m][ref] # None
    <3>1. {r \in {ref} : payments[m][r] # None} = {ref}
      BY <2>1
    <3> QED
      BY <2>1, <3>1, FS_Singleton
  <2>2. CASE payments[m][ref] = None
    <3>1. {r \in {ref} : payments[m][r] # None} = {}
      BY <2>2
    <3> QED
      BY <2>2, <3>1, FS_EmptySet
  <2> QED
    BY <2>1, <2>2
<1> QED
  BY <1>2, <1>3 DEF prune_payment

\* The payment counter is the number of records in every reachable state, and
\* never exceeds u32.
THEOREM PaymentCountCorrect == Spec => []PaymentCountExact
<1>1. ASSUME Init PROVE CountsExact
  <2>1. ASSUME NEW m \in Address PROVE RecordsOf(m) = {}
    BY <1>1 DEF Init, RecordsOf
  <2> QED
    BY <1>1, <2>1, FS_EmptySet DEF Init, CountsExact
<1>2. ASSUME TypeOK, CountsExact, [Next]_vars PROVE CountsExact'
  <2>1. CASE UNCHANGED payVars
    BY <1>2, <2>1 DEF CountsExact, RecordsOf, payVars
  <2>2. ASSUME NEW s \in SignerVecs, NEW m \in MerchantInputs, NEW refs \in RefBatches,
               prune_payments(s, m, refs)
        PROVE  CountsExact'
    <3>1. Range(refs) \in SUBSET REF
      BY InputAssumption DEF Range
    <3> QED
      BY <1>2, <2>2, <3>1, PruneExact DEF prune_payments
  <2>3. ASSUME NEW s \in SignerVecs, NEW m \in MerchantInputs, NEW ref \in RefInputs,
               prune_payment(s, m, ref)
        PROVE  CountsExact'
    <3>1. {ref} \in SUBSET REF
      BY InputAssumption
    <3> QED
      BY <1>2, <2>3, <3>1, PruneOneIsBatch, PruneExact
  <2>4. CASE PaymentStep
    BY <1>2, <2>1, <2>2, <2>3, <2>4, StoreCounts DEF PaymentStep, calculate_fee_split
  <2> QED
    BY <1>2, <2>1, <2>4, PaymentFootprint
<1>3. TypeOK /\ CountsExact => PaymentCountExact
  BY StorageAssumption DEF PaymentCountExact, CountsExact, RecordsOf, TypeOK, PayType
<1> QED
  BY <1>1, <1>2, <1>3, TypeCorrect, PTL DEF Spec

\* A payment record is written once: afterwards it can only be pruned, and that
\* takes a quorum of signers.
THEOREM PaymentsImmutableCorrect == Spec => PaymentsImmutable
<1> DEFINE Step == \A m \in Address, r \in REF :
                     payments[m][r] # None /\ payments'[m][r] # payments[m][r]
                        => payments'[m][r] = None /\ ~QuorumLost
<1>1. ASSUME TypeOK, [Next]_vars PROVE Step
  <2>1. SUFFICES ASSUME NEW m \in Address, NEW r \in REF, payments[m][r] # None,
                        payments'[m][r] # payments[m][r]
                 PROVE  payments'[m][r] = None /\ ~QuorumLost
    OBVIOUS
  <2>2. ~UNCHANGED payVars
    BY <2>1 DEF payVars
  <2>3. ASSUME NEW n \in MerchantInputs, NEW a \in Amounts, NEW q \in RefInputs,
               store_payment_reference(n, q, a)
        PROVE  FALSE
    BY <1>1, <2>1, <2>3, InputAssumption
    DEF store_payment_reference, fresh_reference, TypeOK, PayType
  <2>4. PICK s \in SignerVecs, n \in MerchantInputs :
               \/ \E q \in RefInputs : prune_payment(s, n, q)
               \/ \E refs \in RefBatches : prune_payments(s, n, refs)
    BY <1>1, <2>2, <2>3, PaymentFootprint DEF PaymentStep, calculate_fee_split
  <2>5. payments'[m][r] = None
    BY <1>1, <2>1, <2>4, PruneKeeps
  <2>6. ~QuorumLost
    BY <1>1, <2>4, QuorumSigned DEF prune_payment, prune_payments
  <2> QED
    BY <2>5, <2>6
<1> QED
  BY <1>1, TypeCorrect, PTL DEF Spec, PaymentsImmutable

-----------------------------------------------------------------------------
(* Slots and hashes.                                                        *)

\* Scheduling puts an operation into the slot of its own hash.
LEMMA FillsKeyed ==
    ASSUME TypeOK, SlotsKeyed, NEW op \in OpInputs, NEW d \in Delays, Fills(op, d)
    PROVE  SlotsKeyed'
  BY OperationFields DEF Fills, SlotsKeyed, TypeOK, QueueType

\* A slot only ever holds an operation of its own hash: the occupant of a slot
\* and the slot determine each other, although hashes may collide.
THEOREM SlotsKeyedCorrect == Spec => []SlotsKeyed
<1>1. Init => SlotsKeyed
  BY DEF Init, SlotsKeyed
<1>2. ASSUME TypeOK, SlotsKeyed, [Next]_vars PROVE SlotsKeyed'
  <2>1. CASE UNCHANGED queueVars
    BY <1>2, <2>1 DEF SlotsKeyed, queueVars
  <2>2. ASSUME NEW removed \in SUBSET HASH, Frees(removed) PROVE SlotsKeyed'
    BY <1>2, <2>2 DEF Frees, SlotsKeyed
  <2> QED
    BY <1>2, <2>1, <2>2, QueueFootprint, FillsKeyed
<1> QED
  BY <1>1, <1>2, TypeCorrect, PTL DEF Spec

\* The announcement that a slot stands for.
announcement(h) == [op |-> queue[h].operation_xdr, due |-> queue[h].execute_at]

\* Different slots stand for different announcements.
LEMMA AnnouncedApart ==
    ASSUME SlotsKeyed, NEW h \in HASH, NEW k \in HASH, queue[h] # None, queue[k] # None,
           announcement(h) = announcement(k)
    PROVE  h = k
  BY DEF SlotsKeyed, announcement

\* The abstract queue, slot by slot.
LEMMA PendingOps ==
    /\ pendingOps = {announcement(h) : h \in {k \in HASH : queue[k] # None}}
    /\ \A p : p \in pendingOps <=> \E h \in HASH : queue[h] # None /\ p = announcement(h)
  BY DEF pendingOps, announcement

\* Freeing slots withdraws exactly their announcements.
LEMMA FreesWithdraws ==
    ASSUME SlotsKeyed, NEW removed \in SUBSET HASH, Frees(removed)
    PROVE  /\ {announcement(h) : h \in removed} \in SUBSET pendingOps
           /\ pendingOps' = pendingOps \ {announcement(h) : h \in removed}
<1> DEFINE gone == {announcement(h) : h \in removed}
<1>1. /\ \A h \in removed : h \in HASH /\ queue[h] # None
      /\ \A h \in HASH : queue'[h] = IF h \in removed THEN None ELSE queue[h]
  BY DEF Frees
<1>2. gone \in SUBSET pendingOps
  BY <1>1, PendingOps
<1>3. ASSUME NEW p PROVE p \in pendingOps' <=> p \in pendingOps /\ p \notin gone
  <2>1. p \in pendingOps' <=> \E h \in HASH : queue'[h] # None /\ p = announcement(h)'
    BY DEF pendingOps, announcement
  <2>2. \A h \in HASH : queue'[h] # None => h \notin removed /\ announcement(h)' = announcement(h)
    BY <1>1 DEF announcement
  <2>3. p \in pendingOps' <=> \E h \in HASH \ removed : queue[h] # None /\ p = announcement(h)
    BY <1>1, <2>1, <2>2
  <2> QED
    BY <1>1, <2>3, PendingOps, AnnouncedApart
<1> QED
  BY <1>2, <1>3

-----------------------------------------------------------------------------
(* The steps.                                                               *)

\* The abstract state, as one tuple.
mapped == <<pendingOps, recoveryUnderWay, paused, ~QuorumLost, now, worldState>>

\* What the parts of the abstract state depend on.
LEMMA MappedStable ==
    /\ UNCHANGED queueVars => UNCHANGED pendingOps
    /\ UNCHANGED pendingRecovery => UNCHANGED recoveryUnderWay
    /\ UNCHANGED adminControlled => UNCHANGED <<paused, worldState>>
    /\ UNCHANGED <<adminVars, signing>> => UNCHANGED (~QuorumLost)
<1>1. UNCHANGED queueVars => UNCHANGED pendingOps
  BY DEF queueVars, pendingOps
<1>2. UNCHANGED pendingRecovery => UNCHANGED recoveryUnderWay
  BY DEF recoveryUnderWay
<1>3. UNCHANGED adminControlled => UNCHANGED <<paused, worldState>>
  BY DEF adminControlled, adminVars, configVars, registryVars, worldState
<1>4. UNCHANGED <<adminVars, signing>> => UNCHANGED (~QuorumLost)
  BY DEF adminVars, QuorumLost
<1> QED
  BY <1>1, <1>2, <1>3, <1>4

\* A read, a payment or a dry run is a stutter.
LEMMA QuietMapped == ASSUME QuietStep PROVE UNCHANGED mapped
  BY MappedStable DEF QuietStep, adminControlled, envVars, mapped

\* A call signed by the quorum is Direct.
LEMMA DirectMapped == ASSUME DirectStep PROVE C!Direct
  BY MappedStable DEF DirectStep, envVars, C!Direct

\* cancel and cancel_all withdraw announcements.
LEMMA CancelMapped ==
    ASSUME SlotsKeyed, NEW removed \in SUBSET HASH, CancelStep(removed)
    PROVE  C!Next
<1> DEFINE gone == {announcement(h) : h \in removed}
<1>1. gone \in SUBSET pendingOps /\ pendingOps' = pendingOps \ gone
  BY FreesWithdraws DEF CancelStep
<1>2. UNCHANGED <<adminVars, signing, adminControlled, pendingRecovery, now>>
  BY DEF CancelStep, notQueueVars, adminControlled, ruleVars, envVars
<1>3. UNCHANGED <<recoveryUnderWay, paused, ~QuorumLost, now, worldState>>
  BY <1>2, MappedStable
<1> HIDE DEF gone
<1>4. C!Withdraw(gone)
  BY <1>1, <1>3 DEF CancelStep, C!Withdraw
<1> QED
  BY <1>1, <1>4 DEF C!Next

\* schedule announces: no announcement of the same operation is pending.
LEMMA ScheduleMapped ==
    ASSUME TypeOK, TypeOK', SlotsKeyed, NEW s \in SignerVecs, NEW op \in OpInputs, NEW d \in Delays,
           ~QuorumLost, schedule(s, op, d)
    PROVE  C!Next
<1> DEFINE slot == [operation_xdr |-> op, execute_at |-> now + d]
<1>1. /\ ~Queued(op) /\ ~paused
      /\ queue' = [queue EXCEPT ![Hash(op)] = slot]
      /\ UNCHANGED notQueueVars
  BY DEF schedule, assert_admin_and_not_paused, assert_not_paused
<1>2. slot \in ScheduledOp
  BY InputAssumption, StorageAssumption DEF ScheduledOp, TypeOK, EnvType
<1>3. slot # None /\ slot.operation_xdr = op /\ slot.execute_at = now + d
  BY <1>2, NoneAssumption
<1> HIDE DEF slot
<1>4. Hash(op) \in HASH /\ queue[Hash(op)] = None
  BY <1>1, OperationFields DEF Queued
<1>5. /\ \A h \in HASH \ {Hash(op)} : queue'[h] = queue[h]
      /\ queue'[Hash(op)] = slot
  BY <1>1, <1>4 DEF TypeOK, QueueType
<1>6. pendingOps' = pendingOps \cup {[op |-> op, due |-> now + d]}
  <2>1. \A h \in HASH \ {Hash(op)} : announcement(h)' = announcement(h)
    BY <1>5 DEF announcement
  <2>2. announcement(Hash(op))' = [op |-> op, due |-> now + d]
    BY <1>3, <1>5 DEF announcement
  <2>3. \A p : p \in pendingOps' <=> \E h \in HASH : queue'[h] # None /\ p = announcement(h)'
    BY DEF pendingOps, announcement
  <2>4. ASSUME NEW p
        PROVE  p \in pendingOps' <=> p \in pendingOps \/ p = [op |-> op, due |-> now + d]
    BY <1>3, <1>4, <1>5, <2>1, <2>2, <2>3, PendingOps
  <2> QED
    BY <2>4
<1>7. \A p \in pendingOps : p.op # op
  <2>1. ASSUME NEW h \in HASH, queue[h] # None PROVE announcement(h).op # op
    BY <1>4, <2>1 DEF SlotsKeyed, announcement
  <2> QED
    BY <2>1, PendingOps
<1>8. UNCHANGED <<recoveryUnderWay, paused, ~QuorumLost, now, worldState>>
  <2>1. UNCHANGED <<adminVars, signing, adminControlled, pendingRecovery, now>>
    BY <1>1 DEF notQueueVars, adminControlled, ruleVars, envVars
  <2> QED
    BY <2>1, MappedStable
<1>9. d \in MIN_TIMELOCK..MAX_TIMELOCK
  BY InputAssumption, StorageAssumption DEF schedule, delay_allowed
<1>10. C!Announce(op, d)
  BY <1>1, <1>6, <1>7, <1>8 DEF C!Announce
<1> QED
  BY <1>9, <1>10 DEF C!Next

\* The worldState after a registry or rule write of an operation is the
\* operation's outcome.
LEMMA RegistryOutcome ==
    ASSUME TypeOK, NEW op \in OpInputs,
           \/ op.tag = "RegisterMerchant" /\ add_merchant(op.merchant)
           \/ op.tag = "UnregisterMerchant" /\ remove_merchant(op.merchant)
           \/ op.tag = "SetSettlementRule" /\ store_rule(op.merchant, op.rule)
           \/ op.tag = "ClearSettlementRule" /\ remove_rule(op.merchant)
           \/ op.tag = "SetDefaultRule" /\ store_default_rule(op.rule)
    PROVE  worldState' = outcome(op, worldState)
<1> USE DEF worldState, outcome, adminVars, configVars
<1>1. CASE op.tag = "RegisterMerchant" /\ add_merchant(op.merchant)
  BY <1>1 DEF add_merchant, ruleVars
<1>2. CASE op.tag = "UnregisterMerchant" /\ remove_merchant(op.merchant)
  BY <1>2 DEF remove_merchant
<1>3. CASE op.tag = "SetSettlementRule" /\ store_rule(op.merchant, op.rule)
  BY <1>3 DEF store_rule, registryVars
<1>4. CASE op.tag = "ClearSettlementRule" /\ remove_rule(op.merchant)
  BY <1>4 DEF remove_rule, registryVars
<1>5. CASE op.tag = "SetDefaultRule" /\ store_default_rule(op.rule)
  BY <1>5 DEF store_default_rule, registryVars
<1> QED
  BY <1>1, <1>2, <1>3, <1>4, <1>5

\* Every arm of execute has exactly the outcome of its operation.
LEMMA RunOutcome ==
    ASSUME TypeOK, NEW op \in OpInputs, run_operation(op)
    PROVE  worldState' = outcome(op, worldState)
<1> USE DEF worldState, outcome, adminVars, configVars, registryVars, ruleVars
<1>1. CASE op.tag = "UpdateGovernance" /\ _update_governance(op.governance)
  BY <1>1 DEF _update_governance
<1>2. CASE op.tag = "CancelRecovery" /\ _cancel_recovery
  BY <1>2 DEF _cancel_recovery
<1>3. CASE op.tag = "TransferAdmin" /\ _transfer_admin(op.admins, op.threshold)
  BY <1>3 DEF _transfer_admin, write_admins
<1>4. CASE op.tag = "Upgrade" /\ _upgrade(op.wasm)
  BY <1>4 DEF _upgrade
<1> HIDE DEF worldState, outcome
<1> QED
  BY <1>1, <1>2, <1>3, <1>4, RegistryOutcome
  DEF run_operation, _register_merchant, _unregister_merchant, _set_settlement_rule,
      _clear_settlement_rule, _set_default_rule

\* An arm of execute leaves the pause flag alone, and no recovery is pending
\* after it.
LEMMA RunRecovery ==
    ASSUME NEW op \in OpInputs, run_operation(op), not_vetoed(op)
    PROVE  pendingRecovery' = None /\ UNCHANGED paused
<1>1. CASE op.tag = "CancelRecovery" /\ _cancel_recovery
  BY <1>1 DEF _cancel_recovery, configVars
<1>2. CASE op.tag # "CancelRecovery"
  <2>1. UNCHANGED <<pendingRecovery, paused>>
    BY <1>2, RegistryWritesConfig
    DEF run_operation, _update_governance, _transfer_admin, _upgrade, _register_merchant,
        _unregister_merchant, _set_settlement_rule, _clear_settlement_rule,
        _set_default_rule, configVars
  <2> QED
    BY <1>2, <2>1 DEF not_vetoed
<1> QED
  BY <1>1, <1>2 DEF run_operation

\* execute runs the announcement of the slot it consumes.
LEMMA ExecuteMapped ==
    ASSUME TypeOK, SlotsKeyed, NEW op \in OpInputs, execute(op)
    PROVE  C!Next
<1> DEFINE p == announcement(Hash(op))
<1>1. /\ ~paused /\ Queued(op) /\ queue[Hash(op)].operation_xdr = op
      /\ now >= queue[Hash(op)].execute_at
      /\ not_vetoed(op)
      /\ consume_scheduled_operation(op) /\ run_operation(op)
      /\ UNCHANGED envVars
  BY DEF execute, validate_scheduled_execution, assert_not_paused, slot_holds
<1>2. Hash(op) \in HASH /\ queue[Hash(op)] # None
  BY <1>1, OperationFields DEF Queued
<1>3. p.op = op /\ p.due = queue[Hash(op)].execute_at /\ p \in pendingOps
  BY <1>1, <1>2, PendingOps DEF announcement
<1>4. pendingOps' = pendingOps \ {p}
  <2>1. Frees({Hash(op)}) /\ {Hash(op)} \in SUBSET HASH
    BY <1>1, <1>2, ConsumeFrees
  <2>2. pendingOps' = pendingOps \ {announcement(h) : h \in {Hash(op)}}
    BY <2>1, FreesWithdraws
  <2> QED
    BY <2>2
<1> HIDE DEF p
<1>5. recoveryUnderWay = None \/ op \in {o \in OpInputs : o.tag = "CancelRecovery"}
  BY <1>1 DEF not_vetoed, recoveryUnderWay
<1>6. recoveryUnderWay' = None /\ UNCHANGED paused
  BY <1>1, RunRecovery DEF recoveryUnderWay
<1>7. worldState' = outcome(op, worldState)
  BY <1>1, RunOutcome
<1>8. UNCHANGED now
  BY <1>1 DEF envVars
<1>9. C!Run(p)
  BY <1>1, <1>3, <1>4, <1>5, <1>6, <1>7, <1>8 DEF C!Run
<1> QED
  BY <1>3, <1>9 DEF C!Next

\* A change of the admin set changes just those two fields of the world.
LEMMA AdminsOutcome ==
    ASSUME NEW v, NEW t, admins' = v, threshold' = t,
           UNCHANGED <<governance, recoveryAddress, schemaVersion, wasm, merchants, archived,
                       rules, defaultRule>>
    PROVE  worldState' = [worldState EXCEPT !.admins = v, !.threshold = t]
<1>1. ASSUME NEW w, w = [worldState EXCEPT !.admins = v, !.threshold = t] PROVE worldState' = w
  BY <1>1 DEF worldState
<1> QED
  BY <1>1

\* The recovery steps start, stop and complete the abstract recovery.
LEMMA RecoveryMapped ==
    ASSUME TypeOK, TypeOK', RecoveryStep
    PROVE  C!Next
<1>1. UNCHANGED <<pendingOps, paused, now>>
  BY MappedStable, RecoveryStepFrame DEF configVars, envVars
<1>2. ASSUME UNCHANGED adminVars PROVE UNCHANGED <<worldState, ~QuorumLost>>
  BY <1>2, MappedStable, RecoveryStepFrame DEF adminControlled, envVars, ruleVars
<1>3. ASSUME NEW a \in NewAdmins, initiate_recovery(a) PROVE C!StartRecovery(a)
  <2>1. pendingRecovery' # None
    <3>1. pendingRecovery' \in PendingRecovery
      BY <1>3, InputAssumption, StorageAssumption
      DEF initiate_recovery, PendingRecovery, TypeOK, ConfigType, EnvType
    <3> QED
      BY <3>1, NoneAssumption
  <2>2. recoveryUnderWay = None
        /\ recoveryUnderWay' = [target |-> a, due |-> now + RECOVERY_DELAY]
    BY <1>3, <2>1 DEF initiate_recovery, recoveryUnderWay
  <2>3. UNCHANGED adminVars
    BY <1>3 DEF initiate_recovery
  <2> QED
    BY <1>1, <1>2, <2>2, <2>3 DEF C!StartRecovery
<1>4. ASSUME NEW s \in SignerVecs, cancel_recovery(s) PROVE C!StopRecovery
  <2>1. recoveryUnderWay' = None /\ UNCHANGED adminVars
    BY <1>4 DEF cancel_recovery, recoveryUnderWay
  <2> QED
    BY <1>1, <1>2, <2>1 DEF C!StopRecovery
<1>5. ASSUME execute_recovery PROVE C!CompleteRecovery
  <2>1. recoveryUnderWay = [target |-> pendingRecovery.new_admin,
                            due |-> pendingRecovery.execute_after]
    BY <1>5 DEF execute_recovery, recoveryUnderWay
  <2>2. recoveryUnderWay # None
    <3>1. recoveryUnderWay \in [target: Address, due: Nat]
      BY <1>5, <2>1 DEF execute_recovery, TypeOK, RecoveryType, PendingRecovery
    <3> QED
      BY <3>1, RecoveryNone
  <2>3. now >= recoveryUnderWay.due /\ recoveryUnderWay' = None
    BY <1>5, <2>1 DEF execute_recovery, recoveryUnderWay
  <2>4. worldState' = Install(recoveryUnderWay.target, worldState)
    <3>1. recoveryUnderWay.target = pendingRecovery.new_admin
      BY <2>1
    <3>2. /\ admins' = <<pendingRecovery.new_admin>> /\ threshold' = 1
          /\ UNCHANGED <<governance, recoveryAddress, schemaVersion, wasm, merchants, archived,
                         rules, defaultRule>>
      BY <1>5 DEF execute_recovery, write_admins, configVars, registryVars, ruleVars
    <3> QED
      BY <3>1, <3>2, AdminsOutcome DEF Install
  <2> QED
    BY <1>1, <2>2, <2>3, <2>4 DEF C!CompleteRecovery
<1> QED
  BY <1>3, <1>4, <1>5 DEF RecoveryStep, C!Next

\* The clock passes, and losing keys can only lose the quorum.
LEMMA EnvironmentMapped ==
    ASSUME TypeOK, TypeOK', EnvironmentStep
    PROVE  C!Next \/ UNCHANGED mapped
<1>1. UNCHANGED <<adminVars, pendingOps, recoveryUnderWay, paused, worldState>>
  <2>1. UNCHANGED contractVars
    BY DEF EnvironmentStep, Tick, GovernanceChanges, LoseKeys
  <2> QED
    BY <2>1, MappedStable DEF contractVars, adminControlled, ruleVars
<1>2. ASSUME UNCHANGED signing PROVE UNCHANGED (~QuorumLost)
  BY <1>1, <1>2, MappedStable
<1>3. CASE Tick
  BY <1>1, <1>2, <1>3 DEF Tick, C!Pass, C!Next
<1>4. CASE \E g \in GovInputs, reply \in GovReplies : GovernanceChanges(g, reply)
  BY <1>1, <1>2, <1>4 DEF GovernanceChanges, mapped
<1>5. ASSUME NEW lost \in KeyLosses, LoseKeys(lost) PROVE C!Next \/ UNCHANGED mapped
  <2>1. QuorumLost => QuorumLost'
    BY <1>1, <1>5, QuorumStaysLost DEF LoseKeys
  <2>2. UNCHANGED now
    BY <1>5 DEF LoseKeys
  <2>3. CASE QuorumLost'
    <3>1. (~QuorumLost)' = FALSE
      BY <2>3
    <3> QED
      BY <1>1, <2>2, <3>1 DEF C!LoseKeys, C!Next
  <2>4. CASE ~QuorumLost'
    <3>1. UNCHANGED (~QuorumLost)
      BY <2>1, <2>4
    <3> QED
      BY <1>1, <2>2, <3>1 DEF mapped
  <2> QED
    BY <2>3, <2>4
<1> QED
  BY <1>3, <1>4, <1>5 DEF EnvironmentStep

\* The settlement contract implements ChangeControl: whatever is called in
\* whatever order, what the admins control changes only as it allows.
THEOREM Implements == Spec => ChangeControlled
<1>1. ASSUME Init PROVE C!Init
  <2>1. pendingOps = {}
    BY <1>1 DEF Init, pendingOps
  <2> QED
    BY <1>1, <2>1 DEF Init, recoveryUnderWay, C!Init
<1>2. ASSUME TypeOK, TypeOK', FreshUntilInit, SlotsKeyed, [Next]_vars
      PROVE  C!Next \/ UNCHANGED mapped
  <2>1. C!Direct => C!Next
    BY DEF C!Next
  <2> QED
    BY <1>2, <2>1, StepKinds, QuietMapped, DirectMapped, CancelMapped, ScheduleMapped,
       ExecuteMapped, RecoveryMapped, EnvironmentMapped
<1>3. ASSUME C!Next \/ UNCHANGED mapped
      PROVE  [C!Next]_<<pendingOps, recoveryUnderWay, paused, ~QuorumLost, now, worldState>>
  BY <1>3 DEF mapped
<1> QED
  BY <1>1, <1>2, <1>3, TypeCorrect, FreshUntilInitCorrect, SlotsKeyedCorrect, PTL
  DEF Spec, ChangeControlled, C!Spec

-----------------------------------------------------------------------------
(* What an outage of governance cannot block.                               *)

\* OutageNeverBlocksPayments without ENABLED: under its hypotheses, giving the
\* record and the counter their new values and leaving every other variable
\* alone is a store_payment_reference.  The assumptions on the primed
\* variables assign each of them once, so there is such a step.
THEOREM PayableInOutage ==
    ASSUME NEW m \in merchants \cap signing, NEW r \in RefInputs \ {ZeroRef}, NEW a \in Amounts,
           governance # None, gov[governance].fee = Trap, ~paused,
           payments[m][r] = None, payCount[m] < U32_MAX, a >= min_payment_amount,
           calculate_split(a, effective_rule(m)) # None,
           payments' = [payments EXCEPT ![m][r] = payment_record(a, effective_rule(m))],
           payCount' = [payCount EXCEPT ![m] = @ + 1],
           cachedGovRule' = cachedGovRule,
           UNCHANGED notPayVars
    PROVE  store_payment_reference(m, r, a)
<1>1. read_governance_fee_rule
  BY NoneAssumption DEF read_governance_fee_rule, gov_reply
<1>2. read_rule_or_default(m)
  BY <1>1 DEF read_rule_or_default, read_fallback_rule
<1>3. increment_payment_count(m) /\ fresh_reference(m, r)
  BY DEF increment_payment_count, fresh_reference
<1> QED
  BY <1>2, <1>3 DEF store_payment_reference, assert_not_paused, require_auth

-----------------------------------------------------------------------------
(* Recovery makes progress.                                                 *)

\* The delay of a pending recovery has passed.
RecoveryDue == pendingRecovery # None /\ now >= pendingRecovery.execute_after

\* The clock is a clock.
LEMMA TimePasses ==
    ASSUME TypeOK, FreshUntilInit, [Next]_vars PROVE now' >= now
<1>1. now \in Nat
  BY DEF TypeOK, EnvType
<1>2. CASE UNCHANGED envVars
  BY <1>1, <1>2 DEF envVars
<1>3. CASE EnvironmentStep
  BY <1>1, <1>3 DEF EnvironmentStep, Tick, GovernanceChanges, LoseKeys
<1>4. \A s, op, d : schedule(s, op, d) => UNCHANGED envVars
  BY DEF schedule, notQueueVars
<1>5. \A op : execute(op) => UNCHANGED envVars
  BY DEF execute
<1>6. \A removed : CancelStep(removed) => UNCHANGED envVars
  BY DEF CancelStep, notQueueVars
<1> QED
  BY <1>2, <1>3, <1>4, <1>5, <1>6, StepKinds, RecoveryStepFrame DEF QuietStep, DirectStep

\* What can happen to a pending recovery: it is left as it is, or it ends by a
\* cancellation that its initiator or a quorum signed, by a queued
\* CancelRecovery, or by installing its target.
LEMMA RecoveryEnds ==
    ASSUME TypeOK, FreshUntilInit, [Next]_vars, pendingRecovery # None
    PROVE  \/ UNCHANGED pendingRecovery
           \/ /\ pendingRecovery' = None
              /\ \/ \E s \in SignerVecs : cancel_recovery(s)
                 \/ execute_recovery
                 \/ \E op \in OpInputs : execute(op) /\ op.tag = "CancelRecovery"
<1>1. ASSUME NEW op \in OpInputs, execute(op)
      PROVE  pendingRecovery' = None /\ op.tag = "CancelRecovery"
  <2>1. not_vetoed(op) /\ run_operation(op)
    BY <1>1 DEF execute, validate_scheduled_execution
  <2> QED
    BY <2>1, RunRecovery DEF not_vetoed
<1>2. CASE RecoveryStep
  BY <1>2 DEF RecoveryStep, initiate_recovery, cancel_recovery, execute_recovery
<1>3. ASSUME NEW s \in SignerVecs, NEW op \in OpInputs, NEW d \in Delays, schedule(s, op, d)
      PROVE  UNCHANGED pendingRecovery
  BY <1>3 DEF schedule, notQueueVars
<1>4. ASSUME NEW removed \in SUBSET HASH, CancelStep(removed) PROVE UNCHANGED pendingRecovery
  BY <1>4 DEF CancelStep, notQueueVars
<1>5. CASE EnvironmentStep
  BY <1>5 DEF EnvironmentStep, Tick, GovernanceChanges, LoseKeys, contractVars
<1> QED
  BY <1>1, <1>2, <1>3, <1>4, <1>5, StepKinds DEF QuietStep, DirectStep

\* A pending recovery is never postponed, retargeted or replaced: it stays as
\* it was initiated until nothing is pending.
RecoveryNeverPostponed ==
    [][pendingRecovery # None => pendingRecovery' \in {pendingRecovery, None}]_vars

\* No sequence of calls postpones, retargets or replaces a pending recovery.
THEOREM RecoveryNeverPostponedCorrect == Spec => RecoveryNeverPostponed
<1>1. ASSUME TypeOK, FreshUntilInit, [Next]_vars
      PROVE  pendingRecovery # None => pendingRecovery' \in {pendingRecovery, None}
  BY <1>1, RecoveryEnds
<1> QED
  BY <1>1, TypeCorrect, FreshUntilInitCorrect, PTL DEF Spec, RecoveryNeverPostponed

\* A due recovery can be executed by anybody, paused or not, whoever lost their
\* keys: installing the target and clearing the record is an execute_recovery.
\* The only check that could fail, of the target, was made when it started.
THEOREM DueRecoveryExecutable ==
    ASSUME TypeOK, AdminSetValid, RecoveryDue,
           admins' = <<pendingRecovery.new_admin>>, threshold' = 1, pendingRecovery' = None,
           UNCHANGED <<configVars, queueVars, registryVars, ruleVars, payVars, envVars>>
    PROVE  <<execute_recovery>>_vars
<1>1. pendingRecovery.new_admin # ZeroAddress
  BY DEF AdminSetValid, RecoveryDue
<1>2. validate_admins_and_threshold(<<pendingRecovery.new_admin>>, 1)
  BY <1>1 DEF validate_admins_and_threshold, validate_nonzero_address, Distinct
<1>3. execute_recovery
  BY <1>2 DEF RecoveryDue, execute_recovery, write_admins
<1> QED
  BY <1>3 DEF RecoveryDue, vars

\* A step that keeps the admins, the recovery and the queue, and gives nobody
\* a key back, leaves an unstoppable recovery unstoppable.
LEMMA UnstoppableStable ==
    ASSUME TypeOK, TypeOK', NEW a, Unstoppable(a),
           UNCHANGED <<adminVars, pendingRecovery, queueVars>>, signing' \in SUBSET signing
    PROVE  Unstoppable(a)'
<1>1. QuorumLost'
  BY QuorumStaysLost DEF Unstoppable
<1> QED
  BY <1>1 DEF Unstoppable, queueVars

\* Step by step: nobody can stop an unstoppable recovery, or make it
\* stoppable, but its own completion.
LEMMA UnstoppableStep ==
    ASSUME TypeOK, TypeOK', FreshUntilInit, [Next]_vars, NEW a, Unstoppable(a)
    PROVE  \/ Unstoppable(a)' /\ UNCHANGED pendingRecovery
           \/ execute_recovery /\ adminVars' = <<<<a>>, 1>>
<1>1. /\ pendingRecovery # None /\ pendingRecovery.new_admin = a
      /\ QuorumLost
      /\ pendingRecovery.initiated_by \notin signing
      /\ \A h \in HASH : queue[h] # None => queue[h].operation_xdr.tag # "CancelRecovery"
  BY DEF Unstoppable
<1>2. CASE QuietStep
  BY <1>2, UnstoppableStable DEF QuietStep, adminControlled, envVars
<1>3. ~DirectStep /\ (\A removed : ~CancelStep(removed))
  BY <1>1 DEF DirectStep, CancelStep
<1>4. ASSUME NEW op \in OpInputs, execute(op) PROVE FALSE
  <2>1. slot_holds(op) /\ not_vetoed(op)
    BY <1>4 DEF execute, validate_scheduled_execution
  <2>2. Hash(op) \in HASH /\ queue[Hash(op)] # None /\ queue[Hash(op)].operation_xdr = op
    BY <2>1, OperationFields DEF slot_holds, Queued
  <2> QED
    BY <1>1, <2>1, <2>2 DEF not_vetoed
<1>5. CASE EnvironmentStep
  <2>1. UNCHANGED contractVars /\ signing' \in SUBSET signing
    BY <1>5 DEF EnvironmentStep, Tick, GovernanceChanges, LoseKeys
  <2> QED
    BY <2>1, UnstoppableStable DEF contractVars
<1>6. CASE RecoveryStep
  <2>1. \A b : ~initiate_recovery(b)
    BY <1>1 DEF initiate_recovery
  <2>2. ASSUME NEW s \in SignerVecs, cancel_recovery(s) PROVE FALSE
    BY <1>1, <2>2, QuorumSigned DEF cancel_recovery, require_auth
  <2>3. execute_recovery => adminVars' = <<<<a>>, 1>>
    BY <1>1 DEF execute_recovery, write_admins, adminVars
  <2> QED
    BY <1>6, <2>1, <2>2, <2>3 DEF RecoveryStep
<1> QED
  BY <1>1, <1>2, <1>3, <1>4, <1>5, <1>6, StepKinds
  DEF QuietStep, contractVars, EnvironmentStep, Tick, GovernanceChanges, LoseKeys

\* An unstoppable recovery stays so until its target is the sole admin: the
\* state the lost keys left behind cannot be left in any other way.
UnstoppableUntilRecovered ==
    [][\A a \in NewAdmins : Unstoppable(a) => Unstoppable(a)' \/ adminVars' = <<<<a>>, 1>>]_vars

\* The safety half of LostKeysRecovered: once nobody is left to stop a
\* recovery, every sequence of calls keeps it pending and unstoppable or ends
\* with its target as the sole admin.
THEOREM UnstoppableUntilRecoveredCorrect == Spec => UnstoppableUntilRecovered
<1>1. ASSUME TypeOK, TypeOK', FreshUntilInit, [Next]_vars
      PROVE  \A a \in NewAdmins : Unstoppable(a) => Unstoppable(a)' \/ adminVars' = <<<<a>>, 1>>
  BY <1>1, UnstoppableStep
<1> QED
  BY <1>1, TypeCorrect, FreshUntilInitCorrect, PTL DEF Spec, UnstoppableUntilRecovered

\* What WF_vars(execute_recovery) needs to know of ENABLED, which the prover
\* takes as an opaque predicate: DueRecoveryExecutable exhibits the step.
ExecutableWhenDue == [](RecoveryDue => ENABLED <<execute_recovery>>_vars)

\* RecoveryResolves for a given recovery p.  Beyond the fairness of
\* execute_recovery it rests on ExecutableWhenDue and on the clock reaching
\* p's deadline, which is what WF_vars(Tick) is for.
THEOREM RecoveryResolvesWhenDue ==
    ASSUME NEW CONSTANT p \in PendingRecovery
    PROVE  FairSpec /\ ExecutableWhenDue /\ <>(now >= p.execute_after)
              => (pendingRecovery = p ~> pendingRecovery = None)
<1> DEFINE P == pendingRecovery = p
           Q == pendingRecovery = None
           Late == now >= p.execute_after
<1>1. ASSUME TypeOK, FreshUntilInit, [Next]_vars, P PROVE P' \/ Q'
  BY <1>1, RecoveryEnds, NoneAssumption
<1>2. <<execute_recovery>>_vars => Q'
  BY DEF execute_recovery
<1>3. ASSUME TypeOK, TypeOK', FreshUntilInit, [Next]_vars, Late PROVE Late'
  BY <1>3, TimePasses DEF TypeOK, EnvType, PendingRecovery
<1>4. P /\ Late => RecoveryDue
  BY NoneAssumption DEF RecoveryDue
<1> HIDE DEF P, Q, Late
<1>5. FairSpec /\ ExecutableWhenDue /\ <>Late => (P ~> Q)
  BY <1>1, <1>2, <1>3, <1>4, TypeCorrect, FreshUntilInitCorrect, PTL
  DEF FairSpec, Spec, ExecutableWhenDue
<1> QED
  BY <1>5 DEF P, Q, Late

\* LostKeysRecovered for a given target and deadline, under the same
\* hypotheses: a recovery that nobody is left to stop installs its target.
THEOREM LostKeysRecoveredWhenDue ==
    ASSUME NEW CONSTANT a \in NewAdmins, NEW CONSTANT t \in Nat
    PROVE  FairSpec /\ ExecutableWhenDue /\ <>(now >= t)
              => (Unstoppable(a) /\ pendingRecovery.execute_after = t
                     ~> adminVars = <<<<a>>, 1>>)
<1> DEFINE P == Unstoppable(a) /\ pendingRecovery.execute_after = t
           Q == adminVars = <<<<a>>, 1>>
           Late == now >= t
<1>1. ASSUME TypeOK, TypeOK', FreshUntilInit, [Next]_vars, P PROVE P' \/ Q'
  BY <1>1, UnstoppableStep
<1>2. ASSUME P, <<execute_recovery>>_vars PROVE Q'
  BY <1>2 DEF execute_recovery, write_admins, Unstoppable, adminVars
<1>3. ASSUME TypeOK, TypeOK', FreshUntilInit, [Next]_vars, Late PROVE Late'
  BY <1>3, TimePasses DEF TypeOK, EnvType
<1>4. P /\ Late => RecoveryDue
  BY DEF RecoveryDue, Unstoppable
<1> HIDE DEF P, Q, Late
<1>5. FairSpec /\ ExecutableWhenDue /\ <>Late => (P ~> Q)
  BY <1>1, <1>2, <1>3, <1>4, TypeCorrect, FreshUntilInitCorrect, PTL
  DEF FairSpec, Spec, ExecutableWhenDue
<1> QED
  BY <1>5 DEF P, Q, Late

\* Every pending recovery ends or becomes due.  For each single one this is a
\* matter of the clock alone, by DeadlinePasses.
DeadlinesPass == pendingRecovery # None ~> pendingRecovery = None \/ RecoveryDue

\* A recovery p is pending until it ends or the clock reaches its deadline.
LEMMA DeadlinePasses ==
    ASSUME NEW CONSTANT p \in PendingRecovery
    PROVE  Spec /\ <>(now >= p.execute_after)
              => (pendingRecovery = p ~> pendingRecovery = None \/ RecoveryDue)
<1> DEFINE P == pendingRecovery = p
           Q == pendingRecovery = None
           Late == now >= p.execute_after
<1>1. ASSUME TypeOK, FreshUntilInit, [Next]_vars, P PROVE P' \/ Q'
  BY <1>1, RecoveryEnds, NoneAssumption
<1>2. ASSUME TypeOK, TypeOK', FreshUntilInit, [Next]_vars, Late PROVE Late'
  BY <1>2, TimePasses DEF TypeOK, EnvType, PendingRecovery
<1>3. P /\ Late => RecoveryDue
  BY NoneAssumption DEF RecoveryDue
<1> HIDE DEF P, Q, Late
<1>4. Spec /\ <>Late => (P ~> Q \/ RecoveryDue)
  BY <1>1, <1>2, <1>3, TypeCorrect, FreshUntilInitCorrect, PTL DEF Spec
<1> QED
  BY <1>4 DEF P, Q, Late

\* A due recovery stays due until it ends.
LEMMA StaysDue ==
    ASSUME TypeOK, TypeOK', FreshUntilInit, [Next]_vars, RecoveryDue
    PROVE  RecoveryDue' \/ pendingRecovery' = None
<1>1. CASE UNCHANGED pendingRecovery
  <2>1. now' >= now /\ now \in Nat /\ now' \in Nat /\ pendingRecovery.execute_after \in Nat
    BY TimePasses DEF TypeOK, EnvType, RecoveryType, PendingRecovery, RecoveryDue
  <2> QED
    BY <1>1, <2>1 DEF RecoveryDue
<1> QED
  BY <1>1, RecoveryEnds DEF RecoveryDue

\* A pending recovery does not stay pending, under the fairness of
\* execute_recovery, given that deadlines pass and that a due recovery can be
\* executed.
THEOREM RecoveryResolvesCorrect ==
    FairSpec /\ ExecutableWhenDue /\ DeadlinesPass => RecoveryResolves
<1> DEFINE Q == pendingRecovery = None
           Due == RecoveryDue
<1>1. <<execute_recovery>>_vars => Q'
  BY DEF execute_recovery
<1>2. ASSUME TypeOK, TypeOK', FreshUntilInit, [Next]_vars, Due PROVE Due' \/ Q'
  BY <1>2, StaysDue
<1>3. /\ (pendingRecovery # None) <=> ~Q
      /\ (pendingRecovery = None) <=> Q
      /\ RecoveryDue <=> Due
  OBVIOUS
<1> HIDE DEF Q, Due
<1>4. ExecutableWhenDue => [](Due => ENABLED <<execute_recovery>>_vars)
  BY <1>3, PTL DEF ExecutableWhenDue
<1>5. DeadlinesPass => (~Q ~> Q \/ Due)
  BY <1>3, PTL DEF DeadlinesPass
<1>6. (~Q ~> Q) => RecoveryResolves
  BY <1>3, PTL DEF RecoveryResolves
<1>7. /\ FairSpec
      /\ [](Due => ENABLED <<execute_recovery>>_vars)
      /\ (~Q ~> Q \/ Due)
      => (~Q ~> Q)
  BY <1>1, <1>2, TypeCorrect, FreshUntilInitCorrect, PTL DEF FairSpec, Spec
<1> QED
  BY <1>4, <1>5, <1>6, <1>7

\* Lost keys do not lock the contract, under the same hypotheses: every
\* recovery that nobody is left to stop ends with its target as sole admin.
THEOREM LostKeysRecoveredCorrect ==
    FairSpec /\ ExecutableWhenDue /\ DeadlinesPass => LostKeysRecovered
<1>1. ASSUME NEW CONSTANT a \in NewAdmins
      PROVE  FairSpec /\ ExecutableWhenDue /\ DeadlinesPass
                => (Unstoppable(a) ~> adminVars = <<<<a>>, 1>>)
  <2> DEFINE P == Unstoppable(a)
             Q == adminVars = <<<<a>>, 1>>
             Over == pendingRecovery = None
             Due == RecoveryDue
  <2>1. ASSUME TypeOK, TypeOK', FreshUntilInit, [Next]_vars, P PROVE P' \/ Q'
    BY <2>1, UnstoppableStep
  <2>2. ASSUME P, <<execute_recovery>>_vars PROVE Q'
    BY <2>2 DEF execute_recovery, write_admins, Unstoppable, adminVars
  <2>3. P => ~Over
    BY DEF Unstoppable
  <2>4. ASSUME TypeOK, TypeOK', FreshUntilInit, [Next]_vars, Due PROVE Due' \/ Over'
    BY <2>4, StaysDue
  <2>5. /\ (pendingRecovery # None) <=> ~Over
        /\ (pendingRecovery = None) <=> Over
        /\ RecoveryDue <=> Due
    OBVIOUS
  <2> HIDE DEF P, Q, Over, Due
  <2>6. /\ ExecutableWhenDue => [](Due => ENABLED <<execute_recovery>>_vars)
        /\ DeadlinesPass => (~Over ~> Over \/ Due)
    BY <2>5, PTL DEF ExecutableWhenDue, DeadlinesPass
  <2>7. /\ FairSpec
        /\ [](Due => ENABLED <<execute_recovery>>_vars)
        /\ (~Over ~> Over \/ Due)
        => (P ~> Q)
    BY <2>1, <2>2, <2>3, <2>4, TypeCorrect, FreshUntilInitCorrect, PTL DEF FairSpec, Spec
  <2>8. FairSpec /\ ExecutableWhenDue /\ DeadlinesPass => (P ~> Q)
    BY <2>6, <2>7
  <2> QED
    BY <2>8 DEF P, Q
<1> QED
  BY <1>1 DEF LostKeysRecovered
=============================================================================
