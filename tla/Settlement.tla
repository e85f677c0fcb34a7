----------------------------- MODULE Settlement -----------------------------
(***************************************************************************)
(* The settlement contract as a whole: every state-changing entry point,   *)
(* called by anyone at any time with any of the given inputs, interleaved  *)
(* with the ledger clock, the answers of the governance contract and the   *)
(* loss of signing keys.                                                   *)
(***************************************************************************)
EXTENDS SettlementTimelock, SettlementPayments

\* The arguments the entry points are called with.
CONSTANTS SignerVecs, AdminVecs, Thresholds, GovInputs, RecoveryInputs,
          NewAdmins, MerchantInputs, RuleInputs, OpInputs, OpBatches, Delays,
          RefInputs, RefBatches, Amounts, Reasons, WasmInputs,
          GovReplies,  \* answers the governance contract may switch to
          KeyLosses    \* sets of addresses whose keys may be lost together

ASSUME InputAssumption ==
    /\ SignerVecs \subseteq Seq(Address) /\ AdminVecs \subseteq Seq(Address)
    /\ Thresholds \subseteq Nat /\ Delays \subseteq Nat /\ Reasons \subseteq Nat
    /\ Amounts \subseteq Int
    /\ GovInputs \subseteq Address /\ RecoveryInputs \subseteq Address
    /\ NewAdmins \subseteq Address /\ MerchantInputs \subseteq Address
    /\ RuleInputs \subseteq SettlementRule
    /\ OpInputs \subseteq Operation /\ OpBatches \subseteq Seq(OpInputs)
    /\ \A op \in OpInputs : Hash(op) \in HASH
    /\ RefInputs \subseteq REF /\ RefBatches \subseteq Seq(REF)
    /\ WasmInputs \subseteq WASM
    /\ GovReplies \subseteq GovReply
    /\ KeyLosses \subseteq SUBSET Address

\* HASH stands for the digests of the operations that are ever submitted; a
\* u32 can count them.  The queue-depth counter saturates beyond that.
ASSUME QueueBound == Cardinality(HASH) <= U32_MAX

\* A deployed, uninitialised contract.  No governance contract has a fee
\* config yet, and every key holder can sign.
Init ==
    /\ admins = <<>> /\ threshold = 0
    /\ governance = None /\ recoveryAddress = None /\ pendingRecovery = None
    /\ paused = FALSE /\ schemaVersion = CURRENT_SCHEMA_VERSION /\ wasm = ZeroWasm
    /\ queue = [h \in HASH |-> None] /\ opCount = 0
    /\ merchants = {} /\ archived = {}
    /\ rules = [m \in Address |-> None] /\ defaultRule = None /\ cachedGovRule = None
    /\ payments = [m \in Address |-> [r \in REF |-> None]]
    /\ payCount = [m \in Address |-> 0]
    /\ now = 0
    /\ gov = [g \in Address |-> [fee |-> None, bypass |-> FALSE, min |-> None]]
    /\ signing = Address \ {ZeroAddress}

-----------------------------------------------------------------------------
(* The environment.                                                         *)

contractVars == <<adminVars, configVars, pendingRecovery, queueVars, registryVars, ruleVars,
                  payVars>>

\* A ledger closes.
Tick == /\ now < U64_MAX
        /\ now' = now + 1
        /\ UNCHANGED <<contractVars, gov, signing>>

\* The governance contract at g starts to answer differently.
GovernanceChanges(g, reply) ==
    /\ gov' = [gov EXCEPT ![g] = reply]
    /\ UNCHANGED <<contractVars, now, signing>>

LoseKeys(lost) ==
    /\ signing' = signing \ lost
    /\ UNCHANGED <<contractVars, now, gov>>

-----------------------------------------------------------------------------
AdminStep ==
    \/ \E new_admins \in AdminVecs, t \in Thresholds, g \in GovInputs, r \in RecoveryInputs,
          deployer \in Address : init(deployer, new_admins, t, g, r)
    \/ \E s \in SignerVecs :
          \/ \E g \in GovInputs : update_governance(s, g)
          \/ \E r \in RecoveryInputs : update_recovery_address(s, r)
          \/ \E new_admins \in AdminVecs, t \in Thresholds : transfer_admin(s, new_admins, t)
          \/ \E t \in Thresholds : change_threshold(s, t)
          \/ \E w \in WasmInputs : upgrade(s, w)
          \/ \E reason \in Reasons : pause(s, reason)
          \/ unpause(s)
          \/ migrate(s)

RecoveryStep ==
    \/ \E a \in NewAdmins : initiate_recovery(a)
    \/ \E s \in SignerVecs : cancel_recovery(s)
    \/ execute_recovery

QueueStep ==
    \/ \E op \in OpInputs :
          \/ execute(op)
          \/ dry_run(op)
          \/ \E s \in SignerVecs : cancel(s, op) \/ \E d \in Delays : schedule(s, op, d)
    \/ \E s \in SignerVecs, ops \in OpBatches : cancel_all(s, ops)

MerchantStep ==
    \E m \in MerchantInputs :
       \/ get_effective_rule(m)
       \/ \E s \in SignerVecs :
             \/ register_merchant(s, m)
             \/ unregister_merchant(s, m)
             \/ clear_settlement_rule(s, m)
             \/ \E rule \in RuleInputs : set_settlement_rule(s, m, rule)

DefaultRuleStep == \E s \in SignerVecs, rule \in RuleInputs : set_default_rule(s, rule)

PaymentStep ==
    \E m \in MerchantInputs :
       \/ \E a \in Amounts : calculate_fee_split(m, a)
       \/ \E a \in Amounts, r \in RefInputs : store_payment_reference(m, r, a)
       \/ \E s \in SignerVecs :
             \/ \E r \in RefInputs : prune_payment(s, m, r)
             \/ \E rs \in RefBatches : prune_payments(s, m, rs)

EnvironmentStep ==
    \/ Tick
    \/ \E g \in GovInputs, reply \in GovReplies : GovernanceChanges(g, reply)
    \/ \E lost \in KeyLosses : LoseKeys(lost)

Next == \/ AdminStep \/ RecoveryStep \/ QueueStep \/ MerchantStep \/ DefaultRuleStep
        \/ PaymentStep \/ EnvironmentStep

Spec == Init /\ [][Next]_vars

\* The ledger keeps closing, and somebody submits the permissionless
\* execute_recovery once it can succeed.  Nothing is assumed of key holders.
FairSpec == Spec /\ WF_vars(Tick) /\ WF_vars(execute_recovery)

-----------------------------------------------------------------------------
(* Safety.                                                                  *)

Initialised == admins # <<>>

AdminType == admins \in Seq(Address) /\ threshold \in Nat
ConfigType == /\ governance \in Address \cup {None} /\ recoveryAddress \in Address \cup {None}
              /\ paused \in BOOLEAN /\ schemaVersion \in Nat /\ wasm \in WASM
RecoveryType == /\ pendingRecovery \in PendingRecovery \cup {None}
                /\ pendingRecovery # None => pendingRecovery.execute_after <= U64_MAX
QueueType == /\ queue \in [HASH -> ScheduledOp \cup {None}]
             /\ \A h \in HASH : queue[h] # None => queue[h].execute_at <= U64_MAX
             /\ opCount \in 0..U32_MAX
RegistryType == merchants \subseteq Address /\ archived \subseteq Address
RuleType == /\ rules \in [Address -> SettlementRule \cup {None}]
            /\ defaultRule \in SettlementRule \cup {None}
            /\ cachedGovRule \in SettlementRule \cup {None}
PayType == /\ payments \in [Address -> [REF -> PaymentRecord \cup {None}]]
           /\ payCount \in [Address -> 0..U32_MAX]
EnvType == now \in 0..U64_MAX /\ gov \in [Address -> GovReply] /\ signing \subseteq Address

\* Every stored value has its Rust type, times and counters staying within
\* u64 and u32: no addition of a delay and no counter wraps.
TypeOK == /\ AdminType /\ ConfigType /\ RecoveryType /\ QueueType
          /\ RegistryType /\ RuleType /\ PayType /\ EnvType

\* The administration stays usable whatever sequence of transfer_admin,
\* change_threshold, their timelocked arms and the recovery steps runs: a
\* quorum of distinct, non-zero admins exists, so do the governance and the
\* recovery address, and a pending recovery can install its target at the
\* latest RECOVERY_DELAY from now.
AdminSetValid ==
    IF Initialised
    THEN /\ threshold \in 1..Len(admins)
         /\ Distinct(admins)
         /\ ZeroAddress \notin Range(admins)
         /\ governance \notin {None, ZeroAddress}
         /\ recoveryAddress \notin {None, ZeroAddress}
         /\ pendingRecovery # None => /\ pendingRecovery.new_admin # ZeroAddress
                                      /\ pendingRecovery.execute_after <= now + RECOVERY_DELAY
    ELSE /\ governance = None /\ recoveryAddress = None /\ pendingRecovery = None
         /\ \A h \in HASH : queue[h] = None

\* get_pending_operation_count is the number of occupied slots, although
\* slots collide, are consumed by execute, and are cancelled in batches that
\* repeat operations or name absent ones (issue #887).
QueueDepth == opCount = Cardinality({h \in HASH : queue[h] # None})

\* An operation queued while a recovery is pending, CancelRecovery included,
\* matures only once the recovery can be executed: the queue offers no way to
\* outrun a recovery that was started first.
RecoveryPrecedes ==
    [][\A h \in HASH :
          queue[h] = None /\ queue'[h] # None /\ pendingRecovery # None
             => queue'[h].execute_at >= pendingRecovery.execute_after]_vars

Consumed(h) == queue[h] # None /\ queue'[h] = None
Matured(h) == ~paused /\ queue[h] # None /\ now >= queue[h].execute_at

\* The recovery veto (issue #501): while a recovery is pending, a slot other
\* than CancelRecovery's that leaves the queue was cancelled, not executed.
VetoHolds ==
    [][\A h \in HASH :
          /\ pendingRecovery # None
          /\ Consumed(h)
          /\ queue[h].operation_xdr.tag # "CancelRecovery"
          => UNCHANGED notQueueVars]_vars

\* What the step changes is what op announced.
Announced(op) ==
    /\ UNCHANGED <<recoveryAddress, paused, schemaVersion, payVars, envVars>>
    /\ adminVars' # adminVars =>
          op.tag = "TransferAdmin" /\ adminVars' = <<op.admins, op.threshold>>
    /\ governance' # governance => op.tag = "UpdateGovernance" /\ governance' = op.governance
    /\ pendingRecovery' # pendingRecovery => op.tag = "CancelRecovery"
    /\ wasm' # wasm => op.tag = "Upgrade" /\ wasm' = op.wasm
    /\ \A m \in merchants' \ merchants : op.tag = "RegisterMerchant" /\ m = op.merchant
    /\ \A m \in merchants \ merchants' : op.tag = "UnregisterMerchant" /\ m = op.merchant
    /\ \A m \in Address : rules'[m] # rules[m] =>
          /\ op.tag \in {"SetSettlementRule", "ClearSettlementRule", "UnregisterMerchant"}
          /\ m = op.merchant
          /\ rules'[m] = IF op.tag = "SetSettlementRule" THEN op.rule ELSE None
    /\ defaultRule' # defaultRule => op.tag = "SetDefaultRule" /\ defaultRule' = op.rule

\* The timelock promise (issues #570, #888): a slot that leaves the queue with
\* any other effect had matured, the contract was not paused, and the effect
\* is exactly what the operation stored in that slot announced, even when the
\* hashes of two operations collide.
TimelockRespected ==
    [][\A h \in HASH :
          Consumed(h) /\ notQueueVars' # notQueueVars
             => Matured(h) /\ Announced(queue[h].operation_xdr)]_vars

QuorumLost == Cardinality(Range(admins) \cap signing) < threshold

adminControlled == <<adminVars, configVars, registryVars, rules, defaultRule>>

RecoveryCompletes ==
    /\ pendingRecovery # None /\ pendingRecovery' = None
    /\ now >= pendingRecovery.execute_after
    /\ adminVars' = <<<<pendingRecovery.new_admin>>, 1>>

\* Once fewer admins than the threshold can sign, no call changes what the
\* admins control, except a slot queued earlier that has matured and is not
\* vetoed, and a recovery whose delay has passed.
QuorumControls ==
    [][Initialised /\ QuorumLost /\ adminControlled' # adminControlled
          => \/ RecoveryCompletes
             \/ pendingRecovery = None /\ \E h \in HASH : Consumed(h) /\ Matured(h)]_vars

RoleConflict == Range(admins) \cap merchants

\* Admins and merchants are disjoint (issue #692), however registration and
\* the two admin transfers interleave.  The one exception is the target of a
\* recovery, which execute_recovery does not check.
ExclusivityOnlyBrokenByRecovery ==
    [][\A a \in RoleConflict' \ RoleConflict :
          RecoveryCompletes /\ a = pendingRecovery.new_admin]_vars

\* What the pause flag stops: no step that begins and ends paused touches
\* the governance address, the queue, the registry or the rules, or adds a
\* payment, neither directly nor through a matured operation.
PausedFreezes ==
    [][paused /\ paused' =>
          /\ UNCHANGED <<governance, schemaVersion, queueVars, registryVars, rules, defaultRule>>
          /\ \A m \in Address, r \in REF : payments[m][r] = None => payments'[m][r] = None]_vars

\* The registry, the rules and the payment history agree: a rule belongs to a
\* registered merchant, nobody is registered and archived at once, and every
\* payment on record is of a present or a past merchant.
RegistryConsistent ==
    /\ \A m \in Address : rules[m] # None => m \in merchants
    /\ merchants \cap archived = {}
    /\ \A m \in Address, r \in REF : payments[m][r] # None => m \in merchants \cup archived

RuleInBounds(rule) ==
    /\ {rule.platform_fee_bps, rule.network_fee_bps} \subseteq MIN_FEE_BPS..MAX_FEE_BPS
    /\ rule.platform_fee_bps + rule.network_fee_bps <= BPS_DENOMINATOR
    /\ rule.settlement_delay_ledger <= MAX_SETTLEMENT_DELAY_LEDGER

\* No path, direct or timelocked, stores a rule whose rates are outside the
\* policy bounds or together exceed the whole payment.
RulesBounded == \A rule \in (Range(rules) \cup {defaultRule}) \ {None} : RuleInBounds(rule)

\* PaymentCount is the number of records, through single and batch pruning of
\* absent, repeated or already pruned references and across re-registration,
\* and it never leaves u32: at the limit no record is stored either.
PaymentCountExact ==
    \A m \in Address : /\ payCount[m] = Cardinality({r \in REF : payments[m][r] # None})
                       /\ payCount[m] <= U32_MAX

\* Every payment on record adds up, also the ones split by a governance rule
\* whose rates exceed the whole amount, and the negative amounts that a
\* negative min_payment parameter lets through, which count as zero.
PaymentsConserve ==
    \A m \in Address, r \in REF :
       payments[m][r] # None =>
          LET p == payments[m][r]
          IN /\ p.platform_fee_amount >= 0 /\ p.network_fee_amount >= 0
             /\ p.merchant_payout_amount >= 0
             /\ p.platform_fee_amount + p.network_fee_amount + p.merchant_payout_amount
                   = MaxOf(p.amount, 0)

\* A record is never rewritten: neither a second payment under its reference
\* nor a later change of the fees touches it.  It disappears only by pruning,
\* which takes a quorum.
PaymentsImmutable ==
    [][\A m \in Address, r \in REF :
          payments[m][r] # None /\ payments'[m][r] # payments[m][r]
             => payments'[m][r] = None /\ ~QuorumLost]_vars

\* Fail-open (lib.rs, Governance read failure): while governance does not
\* answer, a registered merchant can still record a payment, under whichever
\* of its own, the default, the cached and the bootstrap rule applies.
OutageNeverBlocksPayments ==
    \A m \in merchants \cap signing, r \in RefInputs \ {ZeroRef}, a \in Amounts :
       /\ governance # None /\ gov[governance].fee = Trap
       /\ ~paused
       /\ payments[m][r] = None /\ payCount[m] < U32_MAX
       /\ a >= min_payment_amount
       /\ calculate_split(a, effective_rule(m)) # None
       => ENABLED store_payment_reference(m, r, a)

-----------------------------------------------------------------------------
(* Liveness, under FairSpec.                                                *)

\* A pending recovery does not stay pending, not even while the contract is
\* paused and every key is lost.
RecoveryResolves == pendingRecovery # None ~> pendingRecovery = None

\* Nobody is left who could stop the recovery to a: the quorum is lost, its
\* initiator cannot sign, and no CancelRecovery is queued.
Unstoppable(a) ==
    /\ pendingRecovery # None /\ pendingRecovery.new_admin = a
    /\ QuorumLost
    /\ pendingRecovery.initiated_by \notin signing
    /\ \A h \in HASH : queue[h] # None => queue[h].operation_xdr.tag # "CancelRecovery"

\* Keys that are lost for good do not lock the contract: a recovery that
\* nobody is left to stop ends with its target as the sole admin.
LostKeysRecovered == \A a \in NewAdmins : Unstoppable(a) ~> adminVars = <<<<a>>, 1>>
=============================================================================
