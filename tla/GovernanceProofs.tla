-------------------------- MODULE GovernanceProofs --------------------------
(***************************************************************************)
(* Proofs about the governance contract, for every value of the constants. *)
(* The invariants are shown of ContractStep first: the composition with    *)
(* the settlement contract takes the same steps.                           *)
(***************************************************************************)
EXTENDS GovernanceRefinement, TLAPS, FiniteSetTheorems

-----------------------------------------------------------------------------
(* Types.                                                                   *)

\* A freshly deployed contract is well typed.
LEMMA InitType == Init => TypeOK
<1> SUFFICES ASSUME Init PROVE TypeOK
  OBVIOUS
<1> USE GovernanceAssumption DEF Init, ContractInit
<1>1. admins \in Seq(Address) /\ threshold \in Nat /\ now \in 0..U64_MAX
  OBVIOUS
<1>2. /\ params \in [PARAM -> Int \cup {None}]
      /\ anchors \in [Address -> Address \cup {None}]
  OBVIOUS
<1>3. pendingRecovery \in PendingRecovery \cup {None} /\ feeConfig \in FeeConfig \cup {None}
  OBVIOUS
<1> QED
  BY <1>1, <1>2, <1>3 DEF TypeOK

\* The administrative entry points preserve the types.
LEMMA AdminStepType == ASSUME TypeOK, AdminStep PROVE TypeOK'
<1> USE GovernanceAssumption DEF TypeOK, policyVars, envVars
<1>1. ASSUME NEW new_admins \in AdminVecs, NEW t \in Thresholds, NEW r \in RecoveryInputs,
             NEW deployer \in Address, init(deployer, new_admins, t, r)
      PROVE  TypeOK'
  BY <1>1 DEF init
<1>2. ASSUME NEW s \in SignerVecs, NEW r \in RecoveryInputs, update_recovery_address(s, r)
      PROVE  TypeOK'
  BY <1>2 DEF update_recovery_address, adminVars
<1>3. ASSUME NEW s \in SignerVecs, NEW new_admins \in AdminVecs, NEW t \in Thresholds,
             transfer_admin(s, new_admins, t)
      PROVE  TypeOK'
  BY <1>3 DEF transfer_admin, configVars
<1>4. ASSUME NEW s \in SignerVecs, NEW t \in Thresholds, change_threshold(s, t)
      PROVE  TypeOK'
  BY <1>4 DEF change_threshold, configVars
<1>5. ASSUME NEW s \in SignerVecs, NEW w \in WasmInputs, upgrade(s, w)
      PROVE  TypeOK'
  BY <1>5 DEF upgrade, adminVars
<1>6. ASSUME NEW p \in BOOLEAN, set_paused(p)
      PROVE  TypeOK'
  BY <1>6 DEF set_paused, adminVars
<1>7. ASSUME NEW s \in SignerVecs, migrate(s)
      PROVE  TypeOK'
  BY <1>7 DEF migrate, run_migrations, adminVars
<1> QED
  BY <1>1, <1>2, <1>3, <1>4, <1>5, <1>6, <1>7 DEF AdminStep, pause, unpause

\* So do the recovery steps: the deadline is checked to fit u64.
LEMMA RecoveryStepType == ASSUME TypeOK, RecoveryStep PROVE TypeOK'
<1> USE GovernanceAssumption DEF TypeOK, configVars, policyVars, envVars
<1>1. ASSUME NEW a \in NewAdmins, initiate_recovery(a) PROVE TypeOK'
  <2>1. pendingRecovery' \in PendingRecovery /\ pendingRecovery'.execute_after <= U64_MAX
    BY <1>1 DEF initiate_recovery, PendingRecovery
  <2> QED
    BY <1>1, <2>1 DEF initiate_recovery, adminVars
<1>2. ASSUME NEW s \in SignerVecs, cancel_recovery(s) PROVE TypeOK'
  BY <1>2 DEF cancel_recovery, adminVars
<1>3. ASSUME execute_recovery PROVE TypeOK'
  <2>1. pendingRecovery.new_admin \in Address
    BY <1>3 DEF execute_recovery, PendingRecovery
  <2>2. admins' \in Seq(Address) /\ threshold' \in Nat
    BY <1>3, <2>1 DEF execute_recovery
  <2> QED
    BY <1>3, <2>2 DEF execute_recovery
<1> QED
  BY <1>1, <1>2, <1>3 DEF RecoveryStep

\* So do parameters, fee configurations and anchors.
LEMMA PolicyStepType == ASSUME TypeOK, PolicyStep PROVE TypeOK'
<1> USE GovernanceAssumption DEF TypeOK, adminVars, configVars, envVars
<1>1. ASSUME NEW s \in SignerVecs, NEW key \in PARAM, NEW value \in ParamValues,
             update_system_param(s, key, value)
      PROVE  TypeOK'
  BY <1>1 DEF update_system_param
<1>2. ASSUME NEW s \in SignerVecs, NEW config \in FeeInputs, set_fee_config(s, config)
      PROVE  TypeOK'
  BY <1>2 DEF set_fee_config
<1>3. ASSUME NEW s \in SignerVecs, NEW asset \in AssetInputs, remove_anchor(s, asset)
      PROVE  TypeOK'
  BY <1>3 DEF remove_anchor
<1>4. ASSUME NEW s \in SignerVecs, NEW asset \in AssetInputs, NEW a \in AnchorInputs,
             upsert_anchor(s, asset, a)
      PROVE  TypeOK'
  BY <1>4 DEF upsert_anchor
<1> QED
  BY <1>1, <1>2, <1>3, <1>4 DEF PolicyStep

\* TypeOK is inductive.
LEMMA NextType == ASSUME TypeOK, [Next]_vars PROVE TypeOK'
<1>1. CASE Tick \/ \E lost \in KeyLosses : LoseKeys(lost)
  BY <1>1, GovernanceAssumption
  DEF Tick, LoseKeys, TypeOK, adminVars, configVars, policyVars
<1>2. CASE UNCHANGED vars
  BY <1>2 DEF vars, TypeOK, adminVars, configVars, policyVars, envVars
<1> QED
  BY <1>1, <1>2, AdminStepType, RecoveryStepType, PolicyStepType DEF Next, ContractStep

\* Type correctness: in particular no recovery deadline leaves u64.
THEOREM GovernanceTypeCorrect == Spec => []TypeOK
<1> QED
  BY InitType, NextType, PTL DEF Spec

-----------------------------------------------------------------------------
(* The admin set.                                                           *)

\* What GovernanceAdminsValid depends on.
adminView == <<admins, threshold, recoveryAddress, pendingRecovery>>

\* A set that passes validation is usable.
LEMMA ValidatedAdmins ==
    ASSUME NEW new_admins \in Seq(Address), NEW t \in Nat,
           validate_admins_and_threshold(new_admins, t)
    PROVE  /\ new_admins # <<>> /\ t \in 1..Len(new_admins)
           /\ Distinct(new_admins) /\ ZeroAddress \notin Range(new_admins)
  BY DEF validate_admins_and_threshold, assert_not_zero, Range

\* The administrative entry points keep the administration usable.
LEMMA AdminStepValid ==
    ASSUME TypeOK, GovernanceAdminsValid, AdminStep PROVE GovernanceAdminsValid'
<1> USE GovernanceAssumption, GovernanceNone
<1>1. CASE UNCHANGED adminView
  BY <1>1 DEF adminView, GovernanceAdminsValid, Initialised, Distinct
<1>2. ASSUME NEW new_admins \in AdminVecs, NEW t \in Thresholds, NEW r \in RecoveryInputs,
             NEW deployer \in Address, init(deployer, new_admins, t, r)
      PROVE  GovernanceAdminsValid'
  <2>1. /\ admins' = new_admins /\ threshold' = t /\ recoveryAddress' \notin {None, ZeroAddress}
        /\ pendingRecovery' = None
        /\ validate_admins_and_threshold(new_admins, t)
    BY <1>2 DEF init, assert_not_zero, GovernanceAdminsValid, Initialised
  <2>2. /\ admins' # <<>> /\ threshold' \in 1..Len(admins') /\ Distinct(admins)'
        /\ ZeroAddress \notin Range(admins')
    BY <2>1, ValidatedAdmins DEF Distinct
  <2> QED
    BY <2>1, <2>2 DEF GovernanceAdminsValid, Initialised
<1>3. ASSUME NEW s \in SignerVecs, NEW r \in RecoveryInputs, update_recovery_address(s, r)
      PROVE  GovernanceAdminsValid'
  BY <1>3 DEF update_recovery_address, verify_admin_auth, assert_not_zero, adminVars,
              GovernanceAdminsValid, Initialised, Distinct
<1>4. ASSUME NEW s \in SignerVecs, NEW new_admins \in AdminVecs, NEW t \in Thresholds,
             transfer_admin(s, new_admins, t)
      PROVE  GovernanceAdminsValid'
  <2>1. /\ admins' = new_admins /\ threshold' = t
        /\ validate_admins_and_threshold(new_admins, t)
        /\ Initialised /\ UNCHANGED <<recoveryAddress, pendingRecovery>>
    BY <1>4 DEF transfer_admin, verify_admin_auth, configVars, Initialised
  <2>2. /\ admins' # <<>> /\ threshold' \in 1..Len(admins') /\ Distinct(admins)'
        /\ ZeroAddress \notin Range(admins')
    BY <2>1, ValidatedAdmins DEF Distinct
  <2> QED
    BY <2>1, <2>2 DEF GovernanceAdminsValid, Initialised
<1>5. ASSUME NEW s \in SignerVecs, NEW t \in Thresholds, change_threshold(s, t)
      PROVE  GovernanceAdminsValid'
  <2>1. t \in Nat
    OBVIOUS
  <2>2. Len(admins) \in Nat
    BY DEF TypeOK
  <2>3. t \in 1..Len(admins)
    BY <1>5, <2>1, <2>2 DEF change_threshold
  <2> QED
    BY <1>5, <2>3 DEF change_threshold, verify_admin_auth, configVars, GovernanceAdminsValid,
                      Initialised, Distinct
<1> QED
  BY <1>1, <1>2, <1>3, <1>4, <1>5
  DEF AdminStep, upgrade, pause, unpause, set_paused, migrate, adminView, adminVars

\* So do the recovery steps, although execute_recovery validates nothing: the
\* target was checked when the recovery was initiated.
LEMMA RecoveryStepValid ==
    ASSUME TypeOK, GovernanceAdminsValid, RecoveryStep PROVE GovernanceAdminsValid'
<1> USE GovernanceAssumption, GovernanceNone
<1>1. ASSUME NEW a \in NewAdmins, initiate_recovery(a) PROVE GovernanceAdminsValid'
  BY <1>1 DEF initiate_recovery, assert_not_zero, adminVars, configVars,
              GovernanceAdminsValid, Initialised, Distinct
<1>2. ASSUME NEW s \in SignerVecs, cancel_recovery(s) PROVE GovernanceAdminsValid'
  BY <1>2 DEF cancel_recovery, adminVars, configVars, GovernanceAdminsValid, Initialised,
              Distinct
<1>3. ASSUME execute_recovery PROVE GovernanceAdminsValid'
  <2> DEFINE a == pendingRecovery.new_admin
  <2>1. /\ a # ZeroAddress /\ recoveryAddress' \notin {None, ZeroAddress}
        /\ pendingRecovery' = None
        /\ admins' = <<a>> /\ threshold' = 1
    BY <1>3 DEF execute_recovery, configVars, GovernanceAdminsValid
  <2> HIDE DEF a
  <2>2. Len(<<a>>) = 1 /\ Distinct(<<a>>) /\ Range(<<a>>) = {a} /\ <<a>> # <<>>
    BY DEF Distinct, Range
  <2>3. threshold' \in 1..Len(admins') /\ Distinct(admins)' /\ ZeroAddress \notin Range(admins')
    BY <2>1, <2>2 DEF Distinct
  <2> QED
    BY <2>1, <2>2, <2>3 DEF GovernanceAdminsValid, Initialised
<1> QED
  BY <1>1, <1>2, <1>3 DEF RecoveryStep

\* Every reachable state has a quorum of distinct non-zero admins, and a
\* recovery can only install a usable one.
THEOREM GovernanceAdminsCorrect == Spec => []GovernanceAdminsValid
<1>1. Init => GovernanceAdminsValid
  BY DEF Init, ContractInit, GovernanceAdminsValid, Initialised
<1>2. ASSUME TypeOK, GovernanceAdminsValid, [Next]_vars PROVE GovernanceAdminsValid'
  <2>1. CASE UNCHANGED adminView
    BY <1>2, <2>1 DEF adminView, GovernanceAdminsValid, Initialised, Distinct
  <2>2. CASE PolicyStep
    BY <2>1, <2>2
    DEF PolicyStep, update_system_param, set_fee_config, remove_anchor, upsert_anchor,
        adminView, adminVars, configVars
  <2>3. CASE Tick \/ (\E lost \in KeyLosses : LoseKeys(lost)) \/ UNCHANGED vars
    BY <2>1, <2>3 DEF Tick, LoseKeys, vars, adminView, adminVars, configVars
  <2> QED
    BY <1>2, <2>2, <2>3, AdminStepValid, RecoveryStepValid DEF Next, ContractStep
<1> QED
  BY <1>1, <1>2, GovernanceTypeCorrect, PTL DEF Spec

-----------------------------------------------------------------------------
(* The policy.                                                              *)

\* Only the entry points of the policy write it.
LEMMA PolicyFootprint ==
    ASSUME [Next]_vars PROVE UNCHANGED policyVars \/ PolicyStep
<1>1. CASE AdminStep \/ RecoveryStep
  BY <1>1
  DEF AdminStep, init, update_recovery_address, transfer_admin, change_threshold, upgrade,
      pause, unpause, set_paused, migrate, RecoveryStep, initiate_recovery, cancel_recovery,
      execute_recovery
<1> QED
  BY <1>1 DEF Next, ContractStep, Tick, LoseKeys, vars

\* Each of them keeps the policy within its bounds.
LEMMA PolicyStepBounded ==
    ASSUME TypeOK, PolicyBounded, PolicyStep PROVE PolicyBounded'
<1> USE GovernanceAssumption DEF PolicyBounded
<1>1. ASSUME NEW s \in SignerVecs, NEW key \in PARAM, NEW value \in ParamValues,
             update_system_param(s, key, value)
      PROVE  PolicyBounded'
  <2>1. /\ params' = [params EXCEPT ![key] = value] /\ UNCHANGED <<feeConfig, anchors>>
        /\ param_value_valid(key, value)
    BY <1>1 DEF update_system_param
  <2>2. value \in Int
    OBVIOUS
  <2>3. value >= 0 /\ (key = BYPASS_GOV_FEES_PARAM => value \in {0, 1})
    BY <2>1, <2>2 DEF param_value_valid
  <2>4. \A p \in PARAM : params'[p] # None => params'[p] >= 0
    BY <2>1, <2>3 DEF TypeOK
  <2>5. params'[BYPASS_GOV_FEES_PARAM] \in {None, 0, 1}
    BY <2>1, <2>3 DEF TypeOK
  <2> QED
    BY <2>1, <2>4, <2>5
<1>2. ASSUME NEW s \in SignerVecs, NEW config \in FeeInputs, set_fee_config(s, config)
      PROVE  PolicyBounded'
  BY <1>2 DEF set_fee_config, fee_config_valid
<1>3. ASSUME NEW s \in SignerVecs, NEW asset \in AssetInputs, remove_anchor(s, asset)
      PROVE  PolicyBounded'
  BY <1>3 DEF remove_anchor, TypeOK
<1>4. ASSUME NEW s \in SignerVecs, NEW asset \in AssetInputs, NEW a \in AnchorInputs,
             upsert_anchor(s, asset, a)
      PROVE  PolicyBounded'
  BY <1>4 DEF upsert_anchor, assert_not_zero, TypeOK
<1> QED
  BY <1>1, <1>2, <1>3, <1>4 DEF PolicyStep

\* The policy that settlement contracts read unchecked is always within its
\* bounds.
THEOREM PolicyBoundedCorrect == Spec => []PolicyBounded
<1>1. Init => PolicyBounded
  BY GovernanceAssumption DEF Init, ContractInit, PolicyBounded
<1>2. ASSUME TypeOK, PolicyBounded, [Next]_vars PROVE PolicyBounded'
  <2>1. CASE UNCHANGED policyVars
    BY <1>2, <2>1 DEF policyVars, PolicyBounded
  <2> QED
    BY <1>2, <2>1, PolicyFootprint, PolicyStepBounded
<1> QED
  BY <1>1, <1>2, GovernanceTypeCorrect, PTL DEF Spec

\* A paused contract keeps its policy and its schema version, whatever the
\* recovery and the admin transfers do meanwhile.  Before init the flag cannot
\* be set, which is the invariant the proof needs: init writes the version.
THEOREM PausedFreezesPolicyCorrect == Spec => PausedFreezesPolicy
<1> DEFINE Fresh == paused => Initialised
           Step == paused /\ paused' => UNCHANGED <<policyVars, schemaVersion>>
<1>1. Init => Fresh
  BY DEF Init, ContractInit
<1>2. ASSUME TypeOK, Fresh, [Next]_vars PROVE Fresh'
  <2>1. CASE UNCHANGED <<admins, paused>>
    BY <1>2, <2>1 DEF Initialised
  <2>2. CASE Initialised'
    BY <2>2
  <2>3. ASSUME NEW s \in SignerVecs, pause(s) \/ unpause(s) PROVE Initialised'
    BY <2>3 DEF pause, unpause, set_paused, verify_admin_auth, adminVars, Initialised
  <2>4. CASE AdminStep
    BY <2>1, <2>2, <2>3, <2>4
    DEF AdminStep, init, update_recovery_address, transfer_admin, change_threshold, upgrade,
        migrate, validate_admins_and_threshold, adminVars, configVars, Initialised
  <2>5. CASE RecoveryStep
    <3>1. execute_recovery => Initialised'
      BY DEF execute_recovery, Initialised
    <3> QED
      BY <2>1, <2>2, <2>5, <3>1
      DEF RecoveryStep, initiate_recovery, cancel_recovery, adminVars, configVars
  <2>6. CASE PolicyStep
    BY <2>1, <2>6
    DEF PolicyStep, update_system_param, set_fee_config, remove_anchor, upsert_anchor,
        adminVars, configVars
  <2> QED
    BY <1>2, <2>1, <2>4, <2>5, <2>6
    DEF Next, ContractStep, Tick, LoseKeys, vars, adminVars, configVars
<1>3. ASSUME Fresh, [Next]_vars PROVE Step
  <2>1. CASE AdminStep
    BY <1>3, <2>1
    DEF AdminStep, init, update_recovery_address, transfer_admin, change_threshold, upgrade,
        pause, unpause, set_paused, migrate, assert_admin_and_not_paused, assert_not_paused,
        configVars, Initialised
  <2>2. CASE RecoveryStep
    BY <2>2 DEF RecoveryStep, initiate_recovery, cancel_recovery, execute_recovery, configVars
  <2>3. CASE PolicyStep
    BY <2>3
    DEF PolicyStep, update_system_param, set_fee_config, remove_anchor, upsert_anchor,
        assert_admin_and_not_paused, assert_not_paused
  <2> QED
    BY <1>3, <2>1, <2>2, <2>3 DEF Next, ContractStep, Tick, LoseKeys, vars, configVars
<1> QED
  BY <1>1, <1>2, <1>3, GovernanceTypeCorrect, PTL DEF Spec, PausedFreezesPolicy

-----------------------------------------------------------------------------
(* The quorum.                                                              *)

\* The admins who can still sign are finitely many.
LEMMA AbleFinite ==
    ASSUME TypeOK
    PROVE  /\ IsFiniteSet(Range(admins) \cap signing)
           /\ Cardinality(Range(admins) \cap signing) \in Nat
<1>1. admins \in Surjection(1..Len(admins), Range(admins)) /\ Len(admins) \in Nat
  BY DEF TypeOK, Range, Surjection
<1>2. IsFiniteSet(Range(admins))
  BY <1>1, FS_Interval, FS_Surjection
<1> QED
  BY <1>2, FS_Intersection, FS_CardinalityType

\* verify_admin_auth succeeds only while the quorum is not lost: the signer
\* vector is an injection into the admins who can sign.
LEMMA QuorumSigned ==
    ASSUME TypeOK, NEW s \in SignerVecs, verify_admin_auth(s, threshold)
    PROVE  ~QuorumLost
<1> DEFINE able == Range(admins) \cap signing
<1>1. admins \in Seq(Address) /\ s \in Seq(Address) /\ threshold \in Nat
  BY GovernanceAssumption DEF TypeOK
<1>2. \A k \in Nat : IsFiniteSet(1..k) /\ Cardinality(1..k) = k
  BY FS_Interval
<1>3. IsFiniteSet(able) /\ Cardinality(able) \in Nat
  BY AbleFinite
<1>4. \A i \in DOMAIN s : s[i] \in able
  BY DEF verify_admin_auth, require_auth, Range
<1>5. s \in Injection(1..Len(s), able)
  BY <1>1, <1>4 DEF verify_admin_auth, Distinct, Injection, IsInjective
<1>6. Len(s) <= Cardinality(able) /\ Len(s) \in Nat
  BY <1>1, <1>2, <1>3, <1>5, FS_Injection
<1> QED
  BY <1>1, <1>3, <1>6 DEF verify_admin_auth, QuorumLost

\* Once the quorum is lost only a due recovery changes what the admins control,
\* and it changes the admin set alone.
THEOREM GovernanceQuorumControlsCorrect == Spec => GovernanceQuorumControls
<1> DEFINE controlled == <<adminVars, configVars, policyVars>>
           Step == Initialised /\ QuorumLost /\ controlled' # controlled => RecoveryCompletes
<1>1. ASSUME TypeOK, [Next]_vars PROVE Step
  <2>1. SUFFICES ASSUME Initialised, QuorumLost, controlled' # controlled
                 PROVE  RecoveryCompletes
    OBVIOUS
  <2>2. \A s \in SignerVecs : ~verify_admin_auth(s, threshold)
    BY <1>1, <2>1, QuorumSigned
  <2>3. ~AdminStep
    BY <2>1, <2>2
    DEF AdminStep, init, update_recovery_address, transfer_admin, change_threshold, upgrade,
        pause, unpause, migrate, assert_admin_and_not_paused, Initialised
  <2>4. ~PolicyStep
    BY <2>2
    DEF PolicyStep, update_system_param, set_fee_config, remove_anchor, upsert_anchor,
        assert_admin_and_not_paused
  <2>5. CASE RecoveryStep
    BY <2>1, <2>5
    DEF RecoveryStep, initiate_recovery, cancel_recovery, execute_recovery, RecoveryCompletes,
        adminVars
  <2> QED
    BY <1>1, <2>1, <2>3, <2>4, <2>5 DEF Next, ContractStep, Tick, LoseKeys, vars
<1> QED
  BY <1>1, GovernanceTypeCorrect, PTL DEF Spec, GovernanceQuorumControls

-----------------------------------------------------------------------------
(* What kinds of step there are.                                            *)

\* A call that the quorum signs; init, which nobody needs to sign for, counts
\* because no quorum is asked for before it.
DirectStep == ~QuorumLost /\ UNCHANGED <<pendingRecovery, envVars>>

\* Before init the threshold is zero.
FreshUntilInit == ~Initialised => threshold = 0

\* An initialised contract stays initialised, so its threshold matters only
\* together with its admins.
LEMMA FreshUntilInitCorrect == Spec => []FreshUntilInit
<1>1. Init => FreshUntilInit
  BY DEF Init, ContractInit, FreshUntilInit
<1>2. ASSUME TypeOK, FreshUntilInit, [Next]_vars PROVE FreshUntilInit'
  <2>1. CASE UNCHANGED adminVars
    BY <1>2, <2>1 DEF FreshUntilInit, Initialised, adminVars
  <2>2. CASE Initialised'
    BY <2>2 DEF FreshUntilInit
  <2>3. CASE AdminStep
    BY <2>1, <2>2, <2>3
    DEF AdminStep, init, update_recovery_address, transfer_admin, change_threshold, upgrade,
        pause, unpause, set_paused, migrate, validate_admins_and_threshold, verify_admin_auth,
        Initialised
  <2>4. CASE RecoveryStep
    <3>1. execute_recovery => Initialised'
      BY DEF execute_recovery, Initialised
    <3> QED
      BY <2>1, <2>2, <2>4, <3>1 DEF RecoveryStep, initiate_recovery, cancel_recovery
  <2>5. CASE PolicyStep
    BY <2>1, <2>5
    DEF PolicyStep, update_system_param, set_fee_config, remove_anchor, upsert_anchor
  <2> QED
    BY <1>2, <2>1, <2>3, <2>4, <2>5 DEF Next, ContractStep, Tick, LoseKeys, vars
<1> QED
  BY <1>1, <1>2, GovernanceTypeCorrect, PTL DEF Spec

\* Every step of the contract is signed by a quorum, is one of the recovery,
\* or comes from the environment.
LEMMA StepKinds ==
    ASSUME TypeOK, FreshUntilInit, [Next]_vars
    PROVE  \/ DirectStep
           \/ RecoveryStep
           \/ Tick
           \/ \E lost \in KeyLosses : LoseKeys(lost)
           \/ UNCHANGED vars
<1>1. CASE \E new_admins \in AdminVecs, t \in Thresholds, r \in RecoveryInputs,
              deployer \in Address : init(deployer, new_admins, t, r)
  <2>1. threshold = 0
    BY <1>1 DEF init, FreshUntilInit, Initialised
  <2>2. ~QuorumLost
    BY <2>1, AbleFinite DEF QuorumLost
  <2> QED
    BY <1>1, <2>2 DEF init, DirectStep
<1>2. ASSUME NEW s \in SignerVecs, verify_admin_auth(s, threshold),
             UNCHANGED <<pendingRecovery, envVars>>
      PROVE  DirectStep
  BY <1>2, QuorumSigned DEF DirectStep
<1>3. CASE AdminStep
  BY <1>1, <1>2, <1>3
  DEF AdminStep, update_recovery_address, transfer_admin, change_threshold, upgrade, pause,
      unpause, set_paused, migrate, assert_admin_and_not_paused
<1>4. CASE PolicyStep
  BY <1>2, <1>4
  DEF PolicyStep, update_system_param, set_fee_config, remove_anchor, upsert_anchor,
      assert_admin_and_not_paused
<1> QED
  BY <1>3, <1>4 DEF Next, ContractStep

\* Losing more keys does not bring a lost quorum back.
LEMMA QuorumStaysLost ==
    ASSUME TypeOK, TypeOK', QuorumLost, UNCHANGED adminVars, signing' \in SUBSET signing
    PROVE  QuorumLost'
<1>1. Range(admins') \cap signing' \in SUBSET (Range(admins) \cap signing)
  BY DEF adminVars
<1>2. /\ Cardinality(Range(admins') \cap signing') <= Cardinality(Range(admins) \cap signing)
      /\ Cardinality(Range(admins') \cap signing') \in Nat
      /\ Cardinality(Range(admins) \cap signing) \in Nat
  BY <1>1, AbleFinite, FS_Subset, FS_CardinalityType
<1>3. threshold' = threshold /\ threshold \in Nat
  BY DEF adminVars, TypeOK
<1> QED
  BY <1>2, <1>3 DEF QuorumLost

-----------------------------------------------------------------------------
(* The contract implements ChangeControl.                                   *)

\* The abstract state, as one tuple.
mapped == <<{}, recoveryUnderWay, paused, ~QuorumLost, now, worldState>>

\* What the parts of the abstract state depend on.
LEMMA MappedStable ==
    /\ UNCHANGED pendingRecovery => UNCHANGED recoveryUnderWay
    /\ UNCHANGED <<adminVars, configVars, policyVars>> => UNCHANGED <<paused, worldState>>
    /\ UNCHANGED <<adminVars, signing>> => UNCHANGED (~QuorumLost)
<1>1. UNCHANGED pendingRecovery => UNCHANGED recoveryUnderWay
  BY DEF recoveryUnderWay
<1>2. UNCHANGED <<adminVars, configVars, policyVars>> => UNCHANGED <<paused, worldState>>
  BY DEF adminVars, configVars, policyVars, worldState
<1>3. UNCHANGED <<adminVars, signing>> => UNCHANGED (~QuorumLost)
  BY DEF adminVars, QuorumLost
<1> QED
  BY <1>1, <1>2, <1>3

\* A change of the admin set changes just those two fields of the world.
LEMMA AdminsOutcome ==
    ASSUME NEW v, NEW t, admins' = v, threshold' = t,
           UNCHANGED <<recoveryAddress, schemaVersion, wasm, feeConfig, params, anchors>>
    PROVE  worldState' = [worldState EXCEPT !.admins = v, !.threshold = t]
<1>1. ASSUME NEW w, w = [worldState EXCEPT !.admins = v, !.threshold = t] PROVE worldState' = w
  BY <1>1 DEF worldState
<1> QED
  BY <1>1

\* The recovery steps start, stop and complete the abstract recovery.
LEMMA RecoveryMapped ==
    ASSUME TypeOK, TypeOK', RecoveryStep
    PROVE  C!Next
<1>1. UNCHANGED <<configVars, policyVars, envVars>>
  BY DEF RecoveryStep, initiate_recovery, cancel_recovery, execute_recovery
<1>2. UNCHANGED <<paused, now>>
  BY <1>1 DEF configVars, envVars
<1>3. ASSUME UNCHANGED adminVars PROVE UNCHANGED <<worldState, ~QuorumLost>>
  BY <1>1, <1>3, MappedStable DEF envVars
<1>4. ASSUME NEW a \in NewAdmins, initiate_recovery(a) PROVE C!StartRecovery(a)
  <2>1. pendingRecovery' \in PendingRecovery
    BY <1>4, GovernanceAssumption DEF initiate_recovery, PendingRecovery, TypeOK
  <2>2. pendingRecovery' # None
    BY <2>1, GovernanceNone
  <2>3. recoveryUnderWay = None
        /\ recoveryUnderWay' = [target |-> a, due |-> now + RECOVERY_DELAY]
    BY <1>4, <2>2 DEF initiate_recovery, recoveryUnderWay
  <2> QED
    BY <1>2, <1>3, <1>4, <2>3 DEF initiate_recovery, C!StartRecovery
<1>5. ASSUME NEW s \in SignerVecs, cancel_recovery(s) PROVE C!StopRecovery
  <2>1. recoveryUnderWay' = None /\ UNCHANGED adminVars
    BY <1>5 DEF cancel_recovery, recoveryUnderWay
  <2> QED
    BY <1>2, <1>3, <2>1 DEF C!StopRecovery
<1>6. ASSUME execute_recovery PROVE C!CompleteRecovery
  <2>1. recoveryUnderWay = [target |-> pendingRecovery.new_admin,
                            due |-> pendingRecovery.execute_after]
    BY <1>6 DEF execute_recovery, recoveryUnderWay
  <2>2. recoveryUnderWay \in [target: Address, due: Nat]
    BY <1>6, <2>1 DEF execute_recovery, TypeOK, PendingRecovery
  <2>3. /\ recoveryUnderWay # None /\ now >= recoveryUnderWay.due
        /\ recoveryUnderWay' = None
    BY <1>6, <2>1, <2>2, RecoveryNone DEF execute_recovery, recoveryUnderWay
  <2>4. recoveryUnderWay.target = pendingRecovery.new_admin
    BY <2>1
  <2>5. worldState' = Install(recoveryUnderWay.target, worldState)
    BY <1>1, <1>6, <2>4, AdminsOutcome DEF execute_recovery, configVars, policyVars, Install
  <2> QED
    BY <1>2, <2>3, <2>5 DEF C!CompleteRecovery
<1> QED
  BY <1>4, <1>5, <1>6 DEF RecoveryStep, C!Next

\* The clock passes, and losing keys can only lose the quorum.
LEMMA EnvironmentMapped ==
    ASSUME TypeOK, TypeOK', Tick \/ (\E lost \in KeyLosses : LoseKeys(lost)) \/ UNCHANGED vars
    PROVE  C!Next \/ UNCHANGED mapped
<1>1. UNCHANGED <<adminVars, configVars, pendingRecovery, policyVars>>
  BY DEF Tick, LoseKeys, vars
<1>2. UNCHANGED <<recoveryUnderWay, paused, worldState>>
  BY <1>1, MappedStable
<1>3. ASSUME UNCHANGED signing PROVE UNCHANGED (~QuorumLost)
  BY <1>1, <1>3, MappedStable
<1>4. CASE Tick
  BY <1>2, <1>3, <1>4 DEF Tick, C!Pass, C!Next
<1>5. CASE UNCHANGED vars
  BY <1>2, <1>3, <1>5 DEF vars, envVars, mapped
<1>6. ASSUME NEW lost \in KeyLosses, LoseKeys(lost) PROVE C!Next \/ UNCHANGED mapped
  <2>1. (QuorumLost => QuorumLost') /\ UNCHANGED now
    BY <1>1, <1>6, QuorumStaysLost DEF LoseKeys
  <2>2. CASE QuorumLost'
    <3>1. (~QuorumLost)' = FALSE
      BY <2>2
    <3> QED
      BY <1>2, <2>1, <3>1 DEF C!LoseKeys, C!Next
  <2>3. CASE ~QuorumLost'
    <3>1. UNCHANGED (~QuorumLost)
      BY <2>1, <2>3
    <3> QED
      BY <1>2, <2>1, <3>1 DEF mapped
  <2> QED
    BY <2>2, <2>3
<1> QED
  BY <1>4, <1>5, <1>6

\* The governance contract implements ChangeControl without announcements:
\* nothing but a quorum and a recovery that waited out its delay changes what
\* its admins control.
THEOREM GovernanceImplements == Spec => GovernanceChangeControlled
<1>1. ASSUME Init PROVE C!Init
  BY <1>1 DEF Init, ContractInit, recoveryUnderWay, C!Init
<1>2. ASSUME DirectStep PROVE C!Next
  <2>1. UNCHANGED <<recoveryUnderWay, now>>
    BY <1>2, MappedStable DEF DirectStep, envVars
  <2> QED
    BY <1>2, <2>1 DEF DirectStep, C!Direct, C!Next
<1>3. ASSUME TypeOK, TypeOK', FreshUntilInit, [Next]_vars PROVE C!Next \/ UNCHANGED mapped
  BY <1>2, <1>3, StepKinds, RecoveryMapped, EnvironmentMapped
<1>4. ASSUME C!Next \/ UNCHANGED mapped
      PROVE  [C!Next]_<<{}, recoveryUnderWay, paused, ~QuorumLost, now, worldState>>
  BY <1>4 DEF mapped
<1> QED
  BY <1>1, <1>3, <1>4, GovernanceTypeCorrect, FreshUntilInitCorrect, PTL
  DEF Spec, GovernanceChangeControlled, C!Spec

-----------------------------------------------------------------------------
(* Recovery makes progress.                                                 *)

\* The delay of a pending recovery has passed.
RecoveryDue == pendingRecovery # None /\ now >= pendingRecovery.execute_after

\* What can happen to a pending recovery: it is left as it is, or it ends by
\* a cancellation or by installing its target.  The clock never runs back.
LEMMA RecoveryEnds ==
    ASSUME TypeOK, FreshUntilInit, [Next]_vars
    PROVE  /\ now' >= now
           /\ pendingRecovery # None =>
                 \/ UNCHANGED pendingRecovery
                 \/ /\ pendingRecovery' = None
                    /\ execute_recovery \/ \E s \in SignerVecs : cancel_recovery(s)
<1>1. now \in Nat
  BY DEF TypeOK
<1>2. CASE RecoveryStep
  BY <1>1, <1>2 DEF RecoveryStep, initiate_recovery, cancel_recovery, execute_recovery, envVars
<1>3. CASE DirectStep
  BY <1>1, <1>3 DEF DirectStep, envVars
<1>4. CASE Tick \/ (\E lost \in KeyLosses : LoseKeys(lost)) \/ UNCHANGED vars
  BY <1>1, <1>4 DEF Tick, LoseKeys, vars, envVars
<1> QED
  BY <1>2, <1>3, <1>4, StepKinds

\* A pending recovery is never postponed, retargeted or replaced: it stays as
\* it was initiated until nothing is pending.
RecoveryNeverPostponed ==
    [][pendingRecovery # None => pendingRecovery' \in {pendingRecovery, None}]_vars

\* No sequence of calls postpones, retargets or replaces a pending recovery.
THEOREM RecoveryNeverPostponedCorrect == Spec => RecoveryNeverPostponed
<1>1. ASSUME TypeOK, FreshUntilInit, [Next]_vars
      PROVE  pendingRecovery # None => pendingRecovery' \in {pendingRecovery, None}
  BY <1>1, RecoveryEnds
<1> QED
  BY <1>1, GovernanceTypeCorrect, FreshUntilInitCorrect, PTL DEF Spec, RecoveryNeverPostponed

\* A due recovery can be executed by anybody, paused or not: installing the
\* target and clearing the record is an execute_recovery, which checks nothing.
THEOREM DueRecoveryExecutable ==
    ASSUME RecoveryDue,
           admins' = <<pendingRecovery.new_admin>>, threshold' = 1, pendingRecovery' = None,
           UNCHANGED <<configVars, policyVars, envVars>>
    PROVE  <<execute_recovery>>_vars
  BY DEF RecoveryDue, execute_recovery, vars

\* Step by step: nobody can stop an unstoppable recovery, or make it
\* stoppable, but its own completion.
LEMMA UnstoppableStep ==
    ASSUME TypeOK, TypeOK', FreshUntilInit, [Next]_vars, NEW a, Unstoppable(a)
    PROVE  \/ Unstoppable(a)' /\ UNCHANGED pendingRecovery
           \/ execute_recovery /\ adminVars' = <<<<a>>, 1>>
<1>1. /\ pendingRecovery # None /\ pendingRecovery.new_admin = a
      /\ QuorumLost
      /\ pendingRecovery.initiated_by \notin signing
  BY DEF Unstoppable
<1>2. ~DirectStep
  BY <1>1 DEF DirectStep
<1>3. CASE Tick \/ (\E lost \in KeyLosses : LoseKeys(lost)) \/ UNCHANGED vars
  <2>1. UNCHANGED <<adminVars, pendingRecovery>> /\ signing' \in SUBSET signing
    BY <1>3 DEF Tick, LoseKeys, vars, envVars
  <2>2. QuorumLost'
    BY <1>1, <2>1, QuorumStaysLost
  <2> QED
    BY <1>1, <2>1, <2>2 DEF Unstoppable
<1>4. CASE RecoveryStep
  <2>1. \A b : ~initiate_recovery(b)
    BY <1>1 DEF initiate_recovery
  <2>2. ASSUME NEW s \in SignerVecs, cancel_recovery(s) PROVE FALSE
    BY <1>1, <2>2, QuorumSigned DEF cancel_recovery, require_auth
  <2>3. execute_recovery => adminVars' = <<<<a>>, 1>>
    BY <1>1 DEF execute_recovery, adminVars
  <2> QED
    BY <1>4, <2>1, <2>2, <2>3 DEF RecoveryStep
<1> QED
  BY <1>2, <1>3, <1>4, StepKinds

\* An unstoppable recovery stays so until its target is the sole admin: the
\* state the lost keys left behind cannot be left in any other way.
UnstoppableUntilRecovered ==
    [][\A a \in NewAdmins : Unstoppable(a) => Unstoppable(a)' \/ adminVars' = <<<<a>>, 1>>]_vars

\* The safety half of GovernanceRecovered: once nobody is left to stop a
\* recovery, every sequence of calls keeps it pending and unstoppable or ends
\* with its target as the sole admin.
THEOREM UnstoppableUntilRecoveredCorrect == Spec => UnstoppableUntilRecovered
<1>1. ASSUME TypeOK, TypeOK', FreshUntilInit, [Next]_vars
      PROVE  \A a \in NewAdmins : Unstoppable(a) => Unstoppable(a)' \/ adminVars' = <<<<a>>, 1>>
  BY <1>1, UnstoppableStep
<1> QED
  BY <1>1, GovernanceTypeCorrect, FreshUntilInitCorrect, PTL DEF Spec, UnstoppableUntilRecovered

\* What WF_vars(execute_recovery) needs to know of ENABLED, which the prover
\* takes as an opaque predicate: DueRecoveryExecutable exhibits the step.
ExecutableWhenDue == [](RecoveryDue => ENABLED <<execute_recovery>>_vars)

\* GovernanceRecovered for a given target and deadline: a recovery that nobody
\* is left to stop installs its target.  Beyond the fairness of
\* execute_recovery this rests on ExecutableWhenDue and on the clock reaching
\* the deadline, which is what WF_vars(Tick) is for.
THEOREM GovernanceRecoveredWhenDue ==
    ASSUME NEW CONSTANT a \in NewAdmins, NEW CONSTANT t \in Nat
    PROVE  FairSpec /\ ExecutableWhenDue /\ <>(now >= t)
              => (Unstoppable(a) /\ pendingRecovery.execute_after = t
                     ~> adminVars = <<<<a>>, 1>>)
<1> DEFINE P == Unstoppable(a) /\ pendingRecovery.execute_after = t
           Q == adminVars = <<<<a>>, 1>>
           Late == now >= t
<1>1. ASSUME TypeOK, TypeOK', FreshUntilInit, [Next]_vars, P PROVE P' \/ Q'
  BY <1>1, UnstoppableStep
<1>2. ASSUME P, <<execute_recovery>>_vars PROVE Q'
  BY <1>2 DEF execute_recovery, Unstoppable, adminVars
<1>3. ASSUME TypeOK, TypeOK', FreshUntilInit, [Next]_vars, Late PROVE Late'
  BY <1>3, RecoveryEnds DEF TypeOK
<1>4. P /\ Late => RecoveryDue
  BY DEF RecoveryDue, Unstoppable
<1> HIDE DEF P, Q, Late
<1>5. FairSpec /\ ExecutableWhenDue /\ <>Late => (P ~> Q)
  BY <1>1, <1>2, <1>3, <1>4, GovernanceTypeCorrect, FreshUntilInitCorrect, PTL
  DEF FairSpec, Spec, ExecutableWhenDue
<1> QED
  BY <1>5 DEF P, Q, Late
\* Every pending recovery ends or becomes due: a matter of the clock alone,
\* since no call moves a deadline (RecoveryNeverPostponedCorrect).
DeadlinesPass == pendingRecovery # None ~> pendingRecovery = None \/ RecoveryDue

\* Lost keys do not lock the contract: under the fairness of execute_recovery,
\* given that deadlines pass and that a due recovery can be executed, every
\* recovery nobody is left to stop ends with its target as the sole admin.
THEOREM GovernanceRecoveredCorrect ==
    FairSpec /\ ExecutableWhenDue /\ DeadlinesPass => GovernanceRecovered
<1>1. ASSUME NEW CONSTANT a \in NewAdmins
      PROVE  FairSpec /\ ExecutableWhenDue /\ DeadlinesPass
                => (Unstoppable(a) ~> adminVars = <<<<a>>, 1>>)
  <2> DEFINE P == Unstoppable(a)
             Q == adminVars = <<<<a>>, 1>>
             Over == pendingRecovery = None
             Due == RecoveryDue
  <2>1. ASSUME TypeOK, TypeOK', FreshUntilInit, [Next]_vars, P PROVE P' \/ Q'
    BY <2>1, UnstoppableStep
  <2>2. ASSUME P, <<execute_recovery>>_vars PROVE Q'
    BY <2>2 DEF execute_recovery, Unstoppable, adminVars
  <2>3. P => ~Over
    BY DEF Unstoppable
  <2>4. ASSUME TypeOK, TypeOK', FreshUntilInit, [Next]_vars, Due PROVE Due' \/ Over'
    <3>1. /\ now' >= now /\ now \in Nat /\ now' \in Nat
          /\ pendingRecovery.execute_after \in Nat
      BY <2>4, RecoveryEnds DEF TypeOK, PendingRecovery, RecoveryDue
    <3>2. UNCHANGED pendingRecovery \/ Over'
      BY <2>4, RecoveryEnds DEF RecoveryDue
    <3> QED
      BY <2>4, <3>1, <3>2 DEF RecoveryDue
  <2>5. /\ (pendingRecovery # None) <=> ~Over
        /\ (pendingRecovery = None) <=> Over
        /\ RecoveryDue <=> Due
    OBVIOUS
  <2> HIDE DEF P, Q, Over, Due
  <2>6. /\ ExecutableWhenDue => [](Due => ENABLED <<execute_recovery>>_vars)
        /\ DeadlinesPass => (~Over ~> Over \/ Due)
    BY <2>5, PTL DEF ExecutableWhenDue, DeadlinesPass
  <2>7. /\ FairSpec
        /\ [](Due => ENABLED <<execute_recovery>>_vars)
        /\ (~Over ~> Over \/ Due)
        => (P ~> Q)
    BY <2>1, <2>2, <2>3, <2>4, GovernanceTypeCorrect, FreshUntilInitCorrect, PTL
    DEF FairSpec, Spec
  <2>8. FairSpec /\ ExecutableWhenDue /\ DeadlinesPass => (P ~> Q)
    BY <2>6, <2>7
  <2> QED
    BY <2>8 DEF P, Q
<1> QED
  BY <1>1 DEF GovernanceRecovered
=============================================================================
