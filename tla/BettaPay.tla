------------------------------ MODULE BettaPay ------------------------------
(***************************************************************************)
(* The two contracts together: the settlement contract of module           *)
(* Settlement, whose governance environment is replaced by the governance  *)
(* contract of module Governance, deployed at one address.                 *)
(*                                                                         *)
(* The settlement contract sees governance only through get_fee_config and *)
(* get_system_param, called through try_invoke_contract inside its own     *)
(* invocations; gov holds what those calls answer in the current state.    *)
(***************************************************************************)
EXTENDS Settlement

CONSTANTS GovernanceContract,              \* where the governance contract is deployed
          PARAM, BYPASS_GOV_FEES_PARAM, MIN_PAYMENT_PARAM,
          GovAdminVecs, FeeInputs, ParamValues, AssetInputs, AnchorInputs

ASSUME CompositionAssumption ==
    /\ GovernanceContract \in GovInputs
    /\ {MIN_PAYMENT_PARAM, BYPASS_GOV_FEES_PARAM} \subseteq PARAM
    /\ GovAdminVecs \subseteq Seq(Address)
    /\ FeeInputs \subseteq GovFeeConfig
    /\ ParamValues \subseteq Int
    /\ AssetInputs \subseteq Address /\ AnchorInputs \subseteq Address

WithinPolicy(config) ==
    /\ {config.platform_fee_bps, config.network_fee_bps} \subseteq MIN_FEE_BPS..MAX_FEE_BPS
    /\ config.platform_fee_bps + config.network_fee_bps <= BPS_DENOMINATOR

\* policy.rs: the bootstrap rule charges 100 bps and MIN_FEE_BPS, and the
\* compiled-in minimum payment is 100.
ASSUME BootstrapAssumption == WithinPolicy(BOOTSTRAP_DEFAULT_RULE) /\ MIN_PAYMENT_AMOUNT \in Nat

VARIABLES gAdmins, gThreshold, gRecoveryAddress, gPendingRecovery, gPaused,
          gSchemaVersion, gWasm, feeConfig, params, anchors,
          down,     \* environment: addresses whose calls fail
          answered  \* history: the fee configurations each address ever answered

G == INSTANCE Governance WITH
        admins <- gAdmins, threshold <- gThreshold, recoveryAddress <- gRecoveryAddress,
        pendingRecovery <- gPendingRecovery, paused <- gPaused,
        schemaVersion <- gSchemaVersion, wasm <- gWasm, AdminVecs <- GovAdminVecs

govVars == <<gAdmins, gThreshold, gRecoveryAddress, gPendingRecovery, gPaused,
             gSchemaVersion, gWasm, feeConfig, params, anchors>>
systemVars == <<vars, govVars, down, answered>>

\* A call that traps looks to try_invoke_contract like a missing parameter,
\* and like a failed get_fee_config.
Outage == [fee |-> Trap, bypass |-> FALSE, min |-> None]

\* The configurations and the parameter values within the bounds both
\* contracts share, and the answers made of them.
PolicyFees == {config \in FeeInputs : WithinPolicy(config)}
PolicyValues == {value \in ParamValues : value >= 0}
PolicyReplies == [fee: PolicyFees \cup {None}, bypass: BOOLEAN, min: PolicyValues \cup {None}]
                   \cup {Outage}

\* GovReplies, the environment of module Settlement, has room for them.
ASSUME RepliesAssumption == PolicyReplies \subseteq GovReplies

\* What the governance contract answers in its current state.
governance_answer ==
    [fee |-> G!get_fee_config,
     bypass |-> G!get_system_param(BYPASS_GOV_FEES_PARAM) = 1,
     min |-> G!get_system_param(MIN_PAYMENT_PARAM)]

\* Another contract of the same interface, without any configuration.
unconfigured_answer == [fee |-> None, bypass |-> FALSE, min |-> None]

answers == [g \in Address |-> IF g \in down THEN Outage
                              ELSE IF g = GovernanceContract THEN governance_answer
                              ELSE unconfigured_answer]

\* The answers follow the state of the contract that gives them.
AnswersFollow ==
    /\ gov' = answers'
    /\ answered' = [g \in Address |-> answered[g] \cup ({gov'[g].fee} \ {None, Trap})]

SystemInit ==
    /\ Init
    /\ G!ContractInit
    /\ down = {}
    /\ answered = [g \in Address |-> {}]

SettlementStep ==
    /\ AdminStep \/ RecoveryStep \/ QueueStep \/ MerchantStep \/ DefaultRuleStep \/ PaymentStep
    /\ UNCHANGED <<govVars, down, answered>>

GovernanceStep == G!ContractStep /\ UNCHANGED <<contractVars, down>> /\ AnswersFollow

\* The contract at g stops answering, or answers again.
OutageStep(g) ==
    /\ down' = IF g \in down THEN down \ {g} ELSE down \cup {g}
    /\ UNCHANGED <<contractVars, now, signing, govVars>>
    /\ AnswersFollow

SystemNext ==
    \/ SettlementStep
    \/ GovernanceStep
    \/ \E g \in GovInputs : OutageStep(g)
    \/ Tick /\ UNCHANGED <<govVars, down, answered>>
    \/ \E lost \in KeyLosses : LoseKeys(lost) /\ UNCHANGED <<govVars, down, answered>>

SystemSpec == SystemInit /\ [][SystemNext]_systemVars

-----------------------------------------------------------------------------
\* The composition is a behaviour of the settlement contract among the
\* governance answers GovReplies: what is shown of Settlement under any
\* environment holds beside the real governance contract, and that contract
\* never gives an answer outside GovReplies.
SettlementImplemented == Spec

\* The settlement contract trusts what governance answers and checks no rate
\* and no minimum it is given.  Beside this governance contract every payment
\* on record is of a non-negative amount, at rates that are within the shared
\* bounds and never exceed the whole payment, and its legs add up to it.
PaymentsWithinPolicy ==
    \A m \in Address, r \in REF :
       payments[m][r] # None =>
          LET p == payments[m][r]
          IN /\ WithinPolicy(p)
             /\ p.amount >= 0
             /\ p.platform_fee_amount + p.network_fee_amount + p.merchant_payout_amount
                   = p.amount

Recorded(m, r) == payments[m][r] = None /\ payments'[m][r] # None

Rates(rule) == [platform_fee_bps |-> rule.platform_fee_bps,
                network_fee_bps |-> rule.network_fee_bps]

\* Where a rate comes from when neither the merchant nor the default rule sets
\* it: the configuration governance holds at that moment; the bootstrap rule
\* when there is none or the circuit breaker is on; and in an outage the
\* bootstrap rule or a configuration that was once in force.
RatesHaveASource ==
    [][\A m \in Address, r \in REF :
          Recorded(m, r) /\ rules[m] = None /\ defaultRule = None =>
             LET charged == Rates(payments'[m][r])
                 bootstrap == Rates(BOOTSTRAP_DEFAULT_RULE)
             IN IF governance \in down
                THEN charged \in (UNION Range(answered)) \cup {bootstrap}
                ELSE IF governance = GovernanceContract /\ feeConfig # None
                        /\ params[BYPASS_GOV_FEES_PARAM] # 1
                THEN charged = feeConfig
                ELSE charged = bootstrap]_systemVars

\* A rule committed directly or by a matured operation is under the ceiling
\* governance holds at that moment, not the one it held when the operation was
\* scheduled; and none is committed while governance does not answer.
CeilingAtCommit ==
    [][\A rule \in ({rules'[m] : m \in {a \in Address : rules'[a] # rules[a]}}
                     \cup (IF defaultRule' # defaultRule THEN {defaultRule'} ELSE {})) \ {None} :
          /\ governance \notin down
          /\ governance = GovernanceContract /\ feeConfig # None =>
                /\ rule.platform_fee_bps <= feeConfig.platform_fee_bps
                /\ rule.network_fee_bps <= feeConfig.network_fee_bps]_systemVars

-----------------------------------------------------------------------------
(* Statements of the documentation that the composition does not keep.      *)

\* settlement storage.rs, read_cached_governance_fee_rule: "`None` when
\* governance has never answered with a valid config".  The cache is not tied
\* to the governance address, so it survives update_governance.
CacheIsGovernances ==
    cachedGovRule # None /\ governance # None => Rates(cachedGovRule) \in answered[governance]

\* settlement lib.rs, failure policy table: update_governance "Reverts if new
\* governance contract fails interface checks".  validate_governance refuses
\* the zero address and calls nothing.
GovernanceProbed ==
    [][governance \notin {None, governance'} => governance' \notin down]_systemVars
=============================================================================
