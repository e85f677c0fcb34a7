------------------------- MODULE SettlementStorage -------------------------
(***************************************************************************)
(* The storage of the settlement contract (settlement_contract/src/types.rs*)
(* and policy.rs) and the read/validate helpers every entry point shares   *)
(* (settlement_contract/src/storage.rs, bettapay_common/src/storage.rs).   *)
(*                                                                         *)
(* A Soroban invocation is atomic: it either commits all its writes or, on *)
(* any panic, none.  A handler is therefore one action, and a condition    *)
(* under which the code panics is a conjunct that is false.  The host      *)
(* forbids re-entry, so no handler runs inside another one's cross-contract*)
(* call.                                                                   *)
(***************************************************************************)
EXTENDS FeeSplit, FiniteSets, Sequences, Functions

CONSTANTS Address, ZeroAddress,      \* accounts and contracts; the all-zero key
          HASH, Hash(_),             \* sha256 digests; Hash of an operation's XDR
          REF, ZeroRef,              \* payment references; the all-zero one
          WASM, ZeroWasm, Compatible,\* code hashes; those answering supports_interface(1)
          Trap, Malformed,           \* governance call failed / answered a wrong-shaped map
          Oversized                  \* operations whose XDR exceeds the payload limit

\* Constants of policy.rs and bettapay_common/src/constants.rs, and widths.
CONSTANTS RECOVERY_DELAY, MIN_TIMELOCK, MAX_TIMELOCK,
          MIN_FEE_BPS, MAX_FEE_BPS, MAX_SETTLEMENT_DELAY_LEDGER,
          MIN_PAYMENT_AMOUNT, MAX_PAYMENTS_BATCH, MAX_CANCEL_ALL_BATCH,
          MAX_PAUSE_REASON, BOOTSTRAP_DEFAULT_RULE, CURRENT_SCHEMA_VERSION,
          U32_MAX, U64_MAX

VARIABLES
    admins,           \* DataKey::Admin, <<>> before init
    threshold,        \* CommonDataKey::Threshold
    governance,       \* DataKey::Governance, None before init
    recoveryAddress,  \* CommonDataKey::RecoveryAddress, None before init
    pendingRecovery,  \* CommonDataKey::PendingRecovery or None
    paused,           \* CommonDataKey::Paused
    schemaVersion,    \* DataKey::SchemaVersion
    wasm,             \* the contract's code hash
    queue,            \* DataKey::ScheduledOperation(hash), None where absent
    opCount,          \* DataKey::PendingOperationCount
    merchants,        \* addresses with a DataKey::Merchant marker
    archived,         \* addresses with a DataKey::ArchivedMerchant tombstone
    rules,            \* DataKey::Rule(merchant), None where absent
    defaultRule,      \* DataKey::DefaultRule or None
    cachedGovRule,    \* DataKey::CachedGovRule or None
    payments,         \* DataKey::Payment(merchant, reference), None where absent
    payCount,         \* DataKey::PaymentCount(merchant)
    now,              \* the ledger clock: one tick closes a ledger
    gov,              \* environment: what the contract at each address answers
    signing           \* environment: addresses whose key holders can still sign

adminVars    == <<admins, threshold>>
configVars   == <<governance, recoveryAddress, paused, schemaVersion, wasm>>
queueVars    == <<queue, opCount>>
registryVars == <<merchants, archived>>
ruleVars     == <<rules, defaultRule, cachedGovRule>>
payVars      == <<payments, payCount>>
envVars      == <<now, gov, signing>>
vars == <<adminVars, configVars, pendingRecovery, queueVars, registryVars,
          ruleVars, payVars, envVars>>

-----------------------------------------------------------------------------
\* Stored types (types.rs, bettapay_common/src/types.rs and events.rs).
SettlementRule == [platform_fee_bps: Nat, network_fee_bps: Nat,
                   settlement_delay_ledger: Nat, auto_settle: BOOLEAN]
GovFeeConfig == [platform_fee_bps: Nat, network_fee_bps: Nat]
PendingRecovery == [new_admin: Address, execute_after: Nat, initiated_by: Address]
PaymentRecord == [amount: Int, platform_fee_amount: Int, network_fee_amount: Int,
                  merchant_payout_amount: Int, platform_fee_bps: Nat,
                  network_fee_bps: Nat, ledger: Nat, settlement_delay_ledger: Nat,
                  auto_settle: BOOLEAN]

Operation == [tag: {"UpdateGovernance"}, governance: Address]
        \cup [tag: {"CancelRecovery"}]
        \cup [tag: {"TransferAdmin"}, admins: Seq(Address), threshold: Nat]
        \cup [tag: {"Upgrade"}, wasm: WASM]
        \cup [tag: {"RegisterMerchant", "UnregisterMerchant", "ClearSettlementRule"},
              merchant: Address]
        \cup [tag: {"SetSettlementRule"}, merchant: Address, rule: SettlementRule]
        \cup [tag: {"SetDefaultRule"}, rule: SettlementRule]

\* The XDR of an operation is injective, so it is represented by the operation.
ScheduledOp == [operation_xdr: Operation, execute_at: Nat]

\* External: one answer of the governance contract to get_fee_config and to
\* get_system_param of bypass_gov_fees (is it 1?) and min_payment.
GovReply == [fee: GovFeeConfig \cup {None, Trap, Malformed},
             bypass: BOOLEAN, min: Int \cup {None}]

ASSUME StorageAssumption ==
    /\ ZeroAddress \in Address /\ ZeroRef \in REF /\ ZeroWasm \in WASM
    /\ IsFiniteSet(HASH) /\ IsFiniteSet(REF)
    /\ BOOTSTRAP_DEFAULT_RULE \in SettlementRule
    /\ {RECOVERY_DELAY, MIN_TIMELOCK, MAX_TIMELOCK, MIN_FEE_BPS, MAX_FEE_BPS, U32_MAX,
        U64_MAX, CURRENT_SCHEMA_VERSION} \subseteq Nat

ASSUME NoneAssumption ==
    /\ None \notin Address
    /\ None \notin SettlementRule
    /\ None \notin PendingRecovery
    /\ None \notin ScheduledOp
    /\ None \notin PaymentRecord
    /\ {None, Trap, Malformed} \cap GovFeeConfig = {}
    /\ Trap \notin {None, Malformed} /\ Malformed # None

\* policy.rs: MIN_TIMELOCK_DELAY_SECONDS and RECOVERY_DELAY_SECONDS are both
\* seven days; the recovery veto relies on the first not being the shorter one.
ASSUME DelayAssumption == RECOVERY_DELAY <= MIN_TIMELOCK

-----------------------------------------------------------------------------
\* An address whose require_auth succeeds in some transaction.
require_auth(a) == a \in signing

validate_nonzero_address(a) == a # ZeroAddress

validate_governance(a) == validate_nonzero_address(a)

Distinct(s) == \A i, j \in DOMAIN s : s[i] = s[j] => i = j

Mut_duplicate_admins(new_admins, t) ==
    /\ t # 0 /\ t <= Len(new_admins)
    /\ new_admins # <<>>
    /\ \A i \in DOMAIN new_admins : validate_nonzero_address(new_admins[i])

validate_admins_and_threshold(new_admins, t) ==
    /\ t # 0 /\ t <= Len(new_admins)
    /\ new_admins # <<>>
    /\ \A i \in DOMAIN new_admins : validate_nonzero_address(new_admins[i])
    /\ Distinct(new_admins)

Mut_duplicate_signers(signers, required) ==
    /\ admins # <<>>
    /\ Len(signers) >= required
    /\ Range(signers) \subseteq Range(admins)
    /\ \A i \in DOMAIN signers : require_auth(signers[i])

\* Surplus admin signers are accepted, but every listed signer must be an
\* admin, appear once and sign.
verify_admin_auth(signers, required) ==
    /\ admins # <<>>
    /\ Len(signers) >= required
    /\ Range(signers) \subseteq Range(admins)
    /\ Distinct(signers)
    /\ \A i \in DOMAIN signers : require_auth(signers[i])

Mut_never_paused == TRUE

assert_not_paused == ~paused

assert_admin_and_not_paused(signers) ==
    /\ assert_not_paused
    /\ verify_admin_auth(signers, threshold)

write_admins(new_admins, t) ==
    /\ validate_admins_and_threshold(new_admins, t)
    /\ admins' = new_admins
    /\ threshold' = t

SaturatingInc(n) == IF n < U32_MAX THEN n + 1 ELSE U32_MAX
SaturatingSub(n, by) == IF n >= by THEN n - by ELSE 0

increment_pending_operation_count == opCount' = SaturatingInc(opCount)
decrement_pending_operation_count(by) == opCount' = SaturatingSub(opCount, by)

increment_payment_count(m) ==
    /\ payCount[m] < U32_MAX
    /\ payCount' = [payCount EXCEPT ![m] = @ + 1]
decrement_payment_count(m, by) == payCount' = [payCount EXCEPT ![m] = SaturatingSub(@, by)]

\* Both a live marker and no tombstone.
assert_payments_readable(m) == m \in merchants /\ m \notin archived

-----------------------------------------------------------------------------
(* The fee source chain: merchant rule, default rule, governance, bootstrap.*)

gov_reply == gov[governance]

gov_rule(cfg) == [platform_fee_bps |-> cfg.platform_fee_bps,
                  network_fee_bps |-> cfg.network_fee_bps,
                  settlement_delay_ledger |-> 0, auto_settle |-> FALSE]

Mut_breaker_ignored == governance # None

\* get_fee_config is actually called: governance is set and the bypass
\* circuit breaker is not.
governance_consulted == governance # None /\ ~gov_reply.bypass

\* The value of read_governance_fee_rule.
governance_fee_rule ==
    IF ~governance_consulted THEN None
    ELSE IF gov_reply.fee = Trap THEN cachedGovRule
    ELSE IF gov_reply.fee \in {None, Malformed} THEN None
    ELSE gov_rule(gov_reply.fee)

Mut_trap_is_fatal ==
    /\ ~(governance_consulted /\ gov_reply.fee \in {Malformed, Trap})
    /\ cachedGovRule' = IF governance_consulted /\ gov_reply.fee # None
                        THEN gov_rule(gov_reply.fee) ELSE cachedGovRule

\* Its panic and its storage effect: a malformed config is fatal, a good one
\* is cached, an outage or a missing config leaves the cache alone.
read_governance_fee_rule ==
    /\ ~(governance_consulted /\ gov_reply.fee = Malformed)
    /\ cachedGovRule' = IF governance_consulted /\ gov_reply.fee \notin {None, Trap}
                        THEN gov_rule(gov_reply.fee) ELSE cachedGovRule

effective_fallback_rule ==
    IF defaultRule # None THEN defaultRule
    ELSE IF governance_fee_rule # None THEN governance_fee_rule
    ELSE BOOTSTRAP_DEFAULT_RULE

read_fallback_rule ==
    IF defaultRule # None THEN UNCHANGED cachedGovRule ELSE read_governance_fee_rule

effective_rule(m) == IF rules[m] # None THEN rules[m] ELSE effective_fallback_rule

read_rule_or_default(m) ==
    IF rules[m] # None THEN UNCHANGED cachedGovRule ELSE read_fallback_rule

min_payment_amount ==
    IF governance = None \/ gov_reply.min = None THEN MIN_PAYMENT_AMOUNT ELSE gov_reply.min

\* The write path fails on any call failure and on a malformed config.
validate_fee_against_governance(rule) ==
    /\ gov_reply.fee \notin {Trap, Malformed}
    /\ gov_reply.fee # None =>
          /\ rule.platform_fee_bps <= gov_reply.fee.platform_fee_bps
          /\ rule.network_fee_bps <= gov_reply.fee.network_fee_bps

assert_governance_reachable == gov_reply.fee # Trap
=============================================================================
