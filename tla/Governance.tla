----------------------------- MODULE Governance -----------------------------
(***************************************************************************)
(* The governance contract, governance_contract/src/lib.rs: its multisig   *)
(* administration and recovery, the fee configuration, the system          *)
(* parameters and the anchor registry.                                     *)
(*                                                                         *)
(* As in SettlementStorage, a handler is one atomic action and a panic is  *)
(* a false conjunct.  The contract has its own storage: nothing is shared  *)
(* with the settlement contract but the ledger and the key holders.        *)
(***************************************************************************)
EXTENDS Integers, FiniteSets, Sequences, Functions

CONSTANTS Address, ZeroAddress, None,
          WASM, ZeroWasm, Compatible, \* code hashes; those that answer the probe
          PARAM,                      \* names of system parameters
          BYPASS_GOV_FEES_PARAM,      \* the name of the fee circuit breaker
          RECOVERY_DELAY, MIN_FEE_BPS, MAX_FEE_BPS, BPS_DENOMINATOR,
          CURRENT_SCHEMA_VERSION, U64_MAX

\* The arguments the entry points are called with.
CONSTANTS SignerVecs, AdminVecs, Thresholds, RecoveryInputs, NewAdmins, WasmInputs,
          FeeInputs, ParamValues, AssetInputs, AnchorInputs,
          KeyLosses    \* sets of addresses whose keys may be lost together

VARIABLES
    admins,           \* DataKey::Admin, <<>> before init
    threshold,        \* CommonDataKey::Threshold
    recoveryAddress,  \* CommonDataKey::RecoveryAddress, None before init
    pendingRecovery,  \* CommonDataKey::PendingRecovery or None
    paused,           \* CommonDataKey::Paused
    schemaVersion,    \* DataKey::SchemaVersion
    wasm,             \* the contract's code hash
    feeConfig,        \* DataKey::FeeConfig or None
    params,           \* DataKey::SystemParam(key), None where absent
    anchors,          \* DataKey::Anchor(asset), None where absent
    now,              \* the ledger clock
    signing           \* environment: addresses whose key holders can still sign

adminVars  == <<admins, threshold>>
policyVars == <<feeConfig, params, anchors>>
configVars == <<recoveryAddress, paused, schemaVersion, wasm>>
envVars    == <<now, signing>>
vars == <<adminVars, configVars, pendingRecovery, policyVars, envVars>>

FeeConfig == [platform_fee_bps: Nat, network_fee_bps: Nat]
PendingRecovery == [new_admin: Address, execute_after: Nat, initiated_by: Address]

ASSUME GovernanceAssumption ==
    /\ ZeroAddress \in Address /\ ZeroWasm \in WASM
    /\ BYPASS_GOV_FEES_PARAM \in PARAM
    /\ {RECOVERY_DELAY, CURRENT_SCHEMA_VERSION, U64_MAX} \subseteq Nat
    /\ SignerVecs \subseteq Seq(Address) /\ AdminVecs \subseteq Seq(Address)
    /\ Thresholds \subseteq Nat /\ ParamValues \subseteq Int
    /\ RecoveryInputs \subseteq Address /\ NewAdmins \subseteq Address
    /\ AssetInputs \subseteq Address /\ AnchorInputs \subseteq Address
    /\ WasmInputs \subseteq WASM /\ FeeInputs \subseteq FeeConfig

ASSUME GovernanceNone ==
    /\ None \notin Address /\ None \notin Int
    /\ None \notin FeeConfig /\ None \notin PendingRecovery

-----------------------------------------------------------------------------
require_auth(a) == a \in signing

assert_not_zero(a) == a # ZeroAddress

Distinct(s) == \A i, j \in DOMAIN s : s[i] = s[j] => i = j

validate_admins_and_threshold(new_admins, t) ==
    /\ t # 0 /\ t <= Len(new_admins)
    /\ new_admins # <<>>
    /\ \A i \in DOMAIN new_admins : assert_not_zero(new_admins[i])
    /\ Distinct(new_admins)

Mut_signer_listed_twice(signers, required) ==
    /\ admins # <<>>
    /\ Len(signers) >= required
    /\ Range(signers) \subseteq Range(admins)
    /\ \A i \in DOMAIN signers : require_auth(signers[i])

verify_admin_auth(signers, required) ==
    /\ admins # <<>>
    /\ Len(signers) >= required
    /\ Range(signers) \subseteq Range(admins)
    /\ Distinct(signers)
    /\ \A i \in DOMAIN signers : require_auth(signers[i])

assert_not_paused == ~paused

Mut_pause_ignored(signers) == verify_admin_auth(signers, threshold)

assert_admin_and_not_paused(signers) ==
    /\ assert_not_paused
    /\ verify_admin_auth(signers, threshold)

-----------------------------------------------------------------------------
(* Administration.  Only migrate looks at the pause flag.                   *)

\* The deployer is stored but never read again.
init(deployer, new_admins, t, r) ==
    /\ admins = <<>>
    /\ require_auth(deployer)
    /\ validate_admins_and_threshold(new_admins, t)
    /\ assert_not_zero(r)
    /\ \A i \in DOMAIN new_admins : require_auth(new_admins[i])
    /\ admins' = new_admins
    /\ threshold' = t
    /\ recoveryAddress' = r
    /\ schemaVersion' = CURRENT_SCHEMA_VERSION
    /\ UNCHANGED <<paused, wasm, pendingRecovery, policyVars, envVars>>

update_recovery_address(signers, r) ==
    /\ verify_admin_auth(signers, threshold)
    /\ assert_not_zero(r)
    /\ recoveryAddress' = r
    /\ UNCHANGED <<adminVars, paused, schemaVersion, wasm, pendingRecovery, policyVars, envVars>>

probe_supports_interface(hash) == hash \in Compatible

upgrade(signers, hash) ==
    /\ verify_admin_auth(signers, threshold)
    /\ probe_supports_interface(hash)
    /\ wasm' = hash
    /\ UNCHANGED <<adminVars, recoveryAddress, paused, schemaVersion, pendingRecovery,
                   policyVars, envVars>>

transfer_admin(signers, new_admins, t) ==
    /\ verify_admin_auth(signers, threshold)
    /\ validate_admins_and_threshold(new_admins, t)
    /\ <<new_admins, t>> # <<admins, threshold>>
    /\ admins' = new_admins
    /\ threshold' = t
    /\ UNCHANGED <<configVars, pendingRecovery, policyVars, envVars>>

\* Unlike in the settlement contract the threshold in force suffices, and
\* re-installing it is accepted.
change_threshold(signers, t) ==
    /\ t # 0 /\ t <= Len(admins)
    /\ verify_admin_auth(signers, threshold)
    /\ threshold' = t
    /\ UNCHANGED <<admins, configVars, pendingRecovery, policyVars, envVars>>

set_paused(p) ==
    /\ paused' = p
    /\ UNCHANGED <<adminVars, recoveryAddress, schemaVersion, wasm, pendingRecovery,
                   policyVars, envVars>>

pause(signers) == verify_admin_auth(signers, threshold) /\ ~paused /\ set_paused(TRUE)

unpause(signers) == verify_admin_auth(signers, threshold) /\ paused /\ set_paused(FALSE)

\* No version step converts any record yet.
run_migrations ==
    schemaVersion' = IF schemaVersion < CURRENT_SCHEMA_VERSION THEN CURRENT_SCHEMA_VERSION
                     ELSE schemaVersion

migrate(signers) ==
    /\ assert_admin_and_not_paused(signers)
    /\ run_migrations
    /\ UNCHANGED <<adminVars, recoveryAddress, paused, wasm, pendingRecovery, policyVars, envVars>>

-----------------------------------------------------------------------------
(* Recovery.                                                                *)

Mut_deadline_unchecked(new_admin) ==
    /\ recoveryAddress # None
    /\ require_auth(recoveryAddress)
    /\ assert_not_zero(new_admin)
    /\ pendingRecovery = None
    /\ pendingRecovery' = [new_admin |-> new_admin,
                           execute_after |-> now + RECOVERY_DELAY,
                           initiated_by |-> recoveryAddress]
    /\ UNCHANGED <<adminVars, configVars, policyVars, envVars>>

\* The deadline is a plain u64 sum, which the build's overflow checks guard.
initiate_recovery(new_admin) ==
    /\ recoveryAddress # None
    /\ require_auth(recoveryAddress)
    /\ assert_not_zero(new_admin)
    /\ pendingRecovery = None
    /\ now + RECOVERY_DELAY <= U64_MAX
    /\ pendingRecovery' = [new_admin |-> new_admin,
                           execute_after |-> now + RECOVERY_DELAY,
                           initiated_by |-> recoveryAddress]
    /\ UNCHANGED <<adminVars, configVars, policyVars, envVars>>

Mut_initiator_unsigned(signers) ==
    /\ pendingRecovery # None
    /\ signers = <<pendingRecovery.initiated_by>> \/ verify_admin_auth(signers, threshold)
    /\ pendingRecovery' = None
    /\ UNCHANGED <<adminVars, configVars, policyVars, envVars>>

\* The initiator alone, or the admin quorum (issue #560).
cancel_recovery(signers) ==
    /\ pendingRecovery # None
    /\ IF signers = <<pendingRecovery.initiated_by>>
       THEN require_auth(pendingRecovery.initiated_by)
       ELSE verify_admin_auth(signers, threshold)
    /\ pendingRecovery' = None
    /\ UNCHANGED <<adminVars, configVars, policyVars, envVars>>

Mut_threshold_kept ==
    /\ pendingRecovery # None
    /\ now >= pendingRecovery.execute_after
    /\ admins' = <<pendingRecovery.new_admin>>
    /\ pendingRecovery' = None
    /\ UNCHANGED <<threshold, configVars, policyVars, envVars>>

\* Permissionless.  The new set is written as it is, without validation.
execute_recovery ==
    /\ pendingRecovery # None
    /\ now >= pendingRecovery.execute_after
    /\ admins' = <<pendingRecovery.new_admin>>
    /\ threshold' = 1
    /\ pendingRecovery' = None
    /\ UNCHANGED <<configVars, policyVars, envVars>>

-----------------------------------------------------------------------------
(* Policy: parameters, fee configuration, anchors.                          *)

Mut_negative_param(key, value) == key = BYPASS_GOV_FEES_PARAM => value = 0 \/ value = 1

\* The circuit breaker is a flag, every other parameter a magnitude.
param_value_valid(key, value) ==
    /\ value >= 0
    /\ key = BYPASS_GOV_FEES_PARAM => value <= 1

update_system_param(signers, key, value) ==
    /\ assert_admin_and_not_paused(signers)
    /\ param_value_valid(key, value)
    /\ params' = [params EXCEPT ![key] = value]
    /\ UNCHANGED <<adminVars, configVars, pendingRecovery, feeConfig, anchors, envVars>>

get_system_param(key) == params[key]

Mut_total_unbounded(config) ==
    /\ config.platform_fee_bps \in MIN_FEE_BPS..MAX_FEE_BPS
    /\ config.network_fee_bps \in MIN_FEE_BPS..MAX_FEE_BPS

fee_config_valid(config) ==
    /\ config.platform_fee_bps \in MIN_FEE_BPS..MAX_FEE_BPS
    /\ config.network_fee_bps \in MIN_FEE_BPS..MAX_FEE_BPS
    /\ config.platform_fee_bps + config.network_fee_bps <= BPS_DENOMINATOR

set_fee_config(signers, config) ==
    /\ assert_admin_and_not_paused(signers)
    /\ fee_config_valid(config)
    /\ feeConfig' = config
    /\ UNCHANGED <<adminVars, configVars, pendingRecovery, params, anchors, envVars>>

get_fee_config == feeConfig

upsert_anchor(signers, asset, anchor) ==
    /\ assert_admin_and_not_paused(signers)
    /\ assert_not_zero(asset)
    /\ assert_not_zero(anchor)
    /\ asset # anchor
    /\ anchors' = [anchors EXCEPT ![asset] = anchor]
    /\ UNCHANGED <<adminVars, configVars, pendingRecovery, feeConfig, params, envVars>>

remove_anchor(signers, asset) ==
    /\ assert_admin_and_not_paused(signers)
    /\ anchors[asset] # None
    /\ anchors' = [anchors EXCEPT ![asset] = None]
    /\ UNCHANGED <<adminVars, configVars, pendingRecovery, feeConfig, params, envVars>>

-----------------------------------------------------------------------------
\* A deployed, uninitialised contract.
ContractInit ==
    /\ admins = <<>> /\ threshold = 0
    /\ recoveryAddress = None /\ pendingRecovery = None
    /\ paused = FALSE /\ schemaVersion = CURRENT_SCHEMA_VERSION /\ wasm = ZeroWasm
    /\ feeConfig = None
    /\ params = [p \in PARAM |-> None]
    /\ anchors = [a \in Address |-> None]

Init == ContractInit /\ now = 0 /\ signing = Address \ {ZeroAddress}

AdminStep ==
    \/ \E new_admins \in AdminVecs, t \in Thresholds, r \in RecoveryInputs,
          deployer \in Address : init(deployer, new_admins, t, r)
    \/ \E s \in SignerVecs :
          \/ \E r \in RecoveryInputs : update_recovery_address(s, r)
          \/ \E new_admins \in AdminVecs, t \in Thresholds : transfer_admin(s, new_admins, t)
          \/ \E t \in Thresholds : change_threshold(s, t)
          \/ \E w \in WasmInputs : upgrade(s, w)
          \/ pause(s)
          \/ unpause(s)
          \/ migrate(s)

RecoveryStep ==
    \/ \E a \in NewAdmins : initiate_recovery(a)
    \/ \E s \in SignerVecs : cancel_recovery(s)
    \/ execute_recovery

PolicyStep ==
    \E s \in SignerVecs :
       \/ \E key \in PARAM, value \in ParamValues : update_system_param(s, key, value)
       \/ \E config \in FeeInputs : set_fee_config(s, config)
       \/ \E asset \in AssetInputs :
             remove_anchor(s, asset) \/ \E a \in AnchorInputs : upsert_anchor(s, asset, a)

ContractStep == AdminStep \/ RecoveryStep \/ PolicyStep

Tick == /\ now < U64_MAX
        /\ now' = now + 1
        /\ UNCHANGED <<adminVars, configVars, pendingRecovery, policyVars, signing>>

LoseKeys(lost) ==
    /\ signing' = signing \ lost
    /\ UNCHANGED <<adminVars, configVars, pendingRecovery, policyVars, now>>

Next == ContractStep \/ Tick \/ \E lost \in KeyLosses : LoseKeys(lost)

Spec == Init /\ [][Next]_vars

\* The ledger keeps closing and somebody submits the permissionless
\* execute_recovery; nothing is assumed of key holders.
FairSpec == Spec /\ WF_vars(Tick) /\ WF_vars(execute_recovery)

-----------------------------------------------------------------------------
Initialised == admins # <<>>

\* Every stored value has its Rust type, and no deadline leaves u64.
TypeOK ==
    /\ admins \in Seq(Address) /\ threshold \in Nat
    /\ recoveryAddress \in Address \cup {None}
    /\ pendingRecovery \in PendingRecovery \cup {None}
    /\ pendingRecovery # None => pendingRecovery.execute_after <= U64_MAX
    /\ paused \in BOOLEAN /\ schemaVersion \in Nat /\ wasm \in WASM
    /\ feeConfig \in FeeConfig \cup {None}
    /\ params \in [PARAM -> Int \cup {None}]
    /\ anchors \in [Address -> Address \cup {None}]
    /\ now \in 0..U64_MAX /\ signing \subseteq Address

\* However transfers, threshold changes and recoveries follow one another, a
\* quorum of distinct non-zero admins exists, although execute_recovery writes
\* its set without the validation every other path runs.
GovernanceAdminsValid ==
    IF Initialised
    THEN /\ threshold \in 1..Len(admins)
         /\ Distinct(admins)
         /\ ZeroAddress \notin Range(admins)
         /\ recoveryAddress \notin {None, ZeroAddress}
         /\ pendingRecovery # None => pendingRecovery.new_admin # ZeroAddress
    ELSE recoveryAddress = None /\ pendingRecovery = None

\* What the settlement contract relies on and does not check itself: the fee
\* configuration is within the shared bounds, parameters are not negative and
\* the circuit breaker is a flag; an anchor never stands for itself.
PolicyBounded ==
    /\ feeConfig # None =>
          /\ {feeConfig.platform_fee_bps, feeConfig.network_fee_bps} \subseteq MIN_FEE_BPS..MAX_FEE_BPS
          /\ feeConfig.platform_fee_bps + feeConfig.network_fee_bps <= BPS_DENOMINATOR
    /\ \A p \in PARAM : params[p] # None => params[p] >= 0
    /\ params[BYPASS_GOV_FEES_PARAM] \in {None, 0, 1}
    /\ \A a \in Address : anchors[a] # None => ZeroAddress \notin {a, anchors[a]} /\ anchors[a] # a

QuorumLost == Cardinality(Range(admins) \cap signing) < threshold

RecoveryCompletes ==
    /\ pendingRecovery # None /\ pendingRecovery' = None
    /\ now >= pendingRecovery.execute_after
    /\ adminVars' = <<<<pendingRecovery.new_admin>>, 1>>
    /\ UNCHANGED <<configVars, policyVars>>

\* Once fewer admins than the threshold can sign, the only step that changes
\* anything the admins control is a recovery whose delay has passed, and it
\* changes the admin set alone.
GovernanceQuorumControls ==
    [][Initialised /\ QuorumLost /\ <<adminVars, configVars, policyVars>>' #
                                    <<adminVars, configVars, policyVars>>
          => RecoveryCompletes]_vars

\* While the contract stays paused its policy does not move, whoever becomes
\* admin in the meantime.
PausedFreezesPolicy == [][paused /\ paused' => UNCHANGED <<policyVars, schemaVersion>>]_vars

\* Nobody is left who could stop the recovery to a.
Unstoppable(a) ==
    /\ pendingRecovery # None /\ pendingRecovery.new_admin = a
    /\ QuorumLost
    /\ pendingRecovery.initiated_by \notin signing

\* Lost keys do not lock the contract: a recovery nobody can stop ends with
\* its target as the sole admin, also while the contract is paused.
GovernanceRecovered == \A a \in NewAdmins : Unstoppable(a) ~> adminVars = <<<<a>>, 1>>

\* governance_contract/src/lib.rs, Pause Model: update_system_param is among
\* the operations "intentionally NOT blocked during pause".  The handler asks
\* for assert_admin_and_not_paused.
ParamsAdjustableWhilePaused ==
    paused /\ Range(admins) \subseteq signing
       => \A key \in PARAM : ENABLED update_system_param(admins, key, 0)
=============================================================================
