--------------------------- MODULE BettaPayProofs ---------------------------
(***************************************************************************)
(* Proofs about the two contracts together, for every value of the         *)
(* constants: the composition implements the settlement contract in an     *)
(* environment, and the rates and amounts the settlement contract takes    *)
(* from governance unchecked stay within policy.                           *)
(***************************************************************************)
EXTENDS BettaPay, SettlementSafetyProofs

-----------------------------------------------------------------------------
(* The governance contract keeps its policy within the shared bounds.       *)

PolicyHeld == /\ feeConfig \in PolicyFees \cup {None}
              /\ params \in [PARAM -> PolicyValues \cup {None}]

\* No governance step moves the clock or the key holders, and none stores a
\* configuration or a parameter out of bounds.
LEMMA GovernanceStepPolicy ==
    ASSUME PolicyHeld, G!ContractStep
    PROVE  PolicyHeld' /\ UNCHANGED <<now, signing>>
<1>1. CASE G!AdminStep \/ G!RecoveryStep
  <2>1. UNCHANGED <<feeConfig, params, now, signing>>
    BY <1>1
    DEF G!AdminStep, G!RecoveryStep, G!init, G!update_recovery_address, G!transfer_admin,
        G!change_threshold, G!upgrade, G!pause, G!unpause, G!set_paused, G!migrate,
        G!initiate_recovery, G!cancel_recovery, G!execute_recovery, G!policyVars, G!envVars
  <2> QED
    BY <2>1 DEF PolicyHeld
<1>2. ASSUME NEW s \in SignerVecs, NEW key \in PARAM, NEW value \in ParamValues,
             G!update_system_param(s, key, value)
      PROVE  PolicyHeld' /\ UNCHANGED <<now, signing>>
  <2>1. value \in PolicyValues
    BY <1>2 DEF G!update_system_param, G!param_value_valid, PolicyValues
  <2> QED
    BY <1>2, <2>1 DEF G!update_system_param, G!envVars, PolicyHeld
<1>3. ASSUME NEW s \in SignerVecs, NEW config \in FeeInputs, G!set_fee_config(s, config)
      PROVE  PolicyHeld' /\ UNCHANGED <<now, signing>>
  <2>1. config \in PolicyFees
    BY <1>3 DEF G!set_fee_config, G!fee_config_valid, PolicyFees, WithinPolicy
  <2> QED
    BY <1>3, <2>1 DEF G!set_fee_config, G!envVars, PolicyHeld
<1>4. ASSUME NEW s \in SignerVecs, NEW asset,
             G!remove_anchor(s, asset) \/ \E a : G!upsert_anchor(s, asset, a)
      PROVE  PolicyHeld' /\ UNCHANGED <<now, signing>>
  BY <1>4 DEF G!remove_anchor, G!upsert_anchor, G!envVars, PolicyHeld
<1> QED
  BY <1>1, <1>2, <1>3, <1>4 DEF G!ContractStep, G!PolicyStep

\* After a step that keeps the policy, what a contract answers is an outage, no
\* configuration, or its policy.
LEMMA AnswersInPolicy ==
    ASSUME PolicyHeld', NEW g \in Address
    PROVE  answers'[g] \in PolicyReplies
<1>1. governance_answer' \in PolicyReplies
  BY CompositionAssumption
  DEF PolicyHeld, governance_answer, PolicyReplies, G!get_fee_config, G!get_system_param
<1>2. unconfigured_answer' \in PolicyReplies /\ Outage \in PolicyReplies
  BY DEF unconfigured_answer, PolicyReplies
<1> QED
  BY <1>1, <1>2 DEF answers

-----------------------------------------------------------------------------
(* The composition is a behaviour of the settlement contract.               *)

\* The answers of the environment are those of the contracts' states.
Answering == gov = answers /\ down \subseteq Address /\ PolicyHeld

\* A settlement step changes nothing of its environment.
LEMMA SettlementStepFrame ==
    ASSUME SettlementStep
    PROVE  Next /\ UNCHANGED envVars
<1>1. AdminStep => UNCHANGED envVars
  BY DEF AdminStep, init, update_governance, update_recovery_address, transfer_admin,
         change_threshold, upgrade, pause, unpause, set_paused, migrate
<1>2. RecoveryStep => UNCHANGED envVars
  BY RecoveryStepFrame
<1>3. QueueStep => UNCHANGED envVars
  BY DEF QueueStep, execute, dry_run, cancel, schedule, cancel_all, notQueueVars, vars
<1>4. MerchantStep \/ DefaultRuleStep \/ PaymentStep => UNCHANGED envVars
  BY MerchantStepView DEF adminView
<1> QED
  BY <1>1, <1>2, <1>3, <1>4 DEF SettlementStep, Next

\* Answers change one contract at a time.  What g answers after the step is
\* all that differs, and it is within policy.
LEMMA AnswersChangeAtOne ==
    ASSUME Answering, PolicyHeld', AnswersFollow, NEW g \in GovInputs,
           \A a \in Address \ {g} : answers'[a] = answers[a]
    PROVE  \E reply \in GovReplies : gov' = [gov EXCEPT ![g] = reply]
<1>1. g \in Address
  BY InputAssumption
<1>2. answers'[g] \in GovReplies
  <2>1. answers'[g] \in PolicyReplies
    BY <1>1, AnswersInPolicy
  <2> QED
    BY <2>1, RepliesAssumption
<1>3. gov = [a \in Address |-> answers[a]] /\ gov' = [a \in Address |-> answers'[a]]
  BY DEF Answering, AnswersFollow, answers
<1>4. gov' = [gov EXCEPT ![g] = answers'[g]]
  BY <1>1, <1>3
<1> QED
  BY <1>2, <1>4

\* Every step keeps the answers tied to the states of the contracts.
LEMMA NextAnswering ==
    ASSUME Answering, [SystemNext]_systemVars
    PROVE  Answering'
<1>1. CASE UNCHANGED <<gov, govVars, down>>
  BY <1>1
  DEF Answering, PolicyHeld, answers, governance_answer, unconfigured_answer, Outage, govVars,
      G!get_fee_config, G!get_system_param
<1>2. SettlementStep => UNCHANGED <<gov, govVars, down>>
  BY SettlementStepFrame DEF SettlementStep, envVars
<1>3. CASE GovernanceStep
  BY <1>3, GovernanceStepPolicy DEF GovernanceStep, AnswersFollow, Answering
<1>4. ASSUME NEW g \in GovInputs, OutageStep(g) PROVE Answering'
  <2>1. down' \subseteq Address
    BY <1>4, InputAssumption DEF OutageStep, Answering
  <2>2. PolicyHeld'
    BY <1>4 DEF OutageStep, govVars, Answering, PolicyHeld
  <2> QED
    BY <1>4, <2>1, <2>2 DEF OutageStep, AnswersFollow, Answering
<1> QED
  BY <1>1, <1>2, <1>3, <1>4 DEF SystemNext, Tick, LoseKeys, systemVars, vars, envVars

\* Every step of the composition is one of the settlement contract in an
\* environment that answers from GovReplies, or changes nothing it can see.
LEMMA StepImplements ==
    ASSUME Answering, Answering', [SystemNext]_systemVars
    PROVE  [Next]_vars
<1>1. CASE GovernanceStep
  <2>1. UNCHANGED <<contractVars, now, signing>>
    BY <1>1, GovernanceStepPolicy DEF GovernanceStep, Answering
  <2>2. \A a \in Address \ {GovernanceContract} : answers'[a] = answers[a]
    BY <1>1 DEF GovernanceStep, answers, unconfigured_answer, Outage
  <2>3. \E reply \in GovReplies : gov' = [gov EXCEPT ![GovernanceContract] = reply]
    BY <1>1, <2>2, AnswersChangeAtOne, CompositionAssumption DEF GovernanceStep, Answering
  <2> QED
    BY <2>1, <2>3, CompositionAssumption DEF Next, EnvironmentStep, GovernanceChanges
<1>2. ASSUME NEW g \in GovInputs, OutageStep(g) PROVE Next
  <2>1. \A a \in Address \ {g} : answers'[a] = answers[a]
    BY <1>2
    DEF OutageStep, answers, unconfigured_answer, Outage, governance_answer, govVars,
        G!get_fee_config, G!get_system_param
  <2>2. \E reply \in GovReplies : gov' = [gov EXCEPT ![g] = reply]
    BY <1>2, <2>1, AnswersChangeAtOne DEF OutageStep, Answering
  <2> QED
    BY <1>2, <2>2 DEF OutageStep, Next, EnvironmentStep, GovernanceChanges
<1> QED
  BY <1>1, <1>2, SettlementStepFrame DEF SystemNext, Next, EnvironmentStep, systemVars

\* The answers of freshly deployed contracts are those of Settlement's Init.
LEMMA InitAnswering == ASSUME SystemInit PROVE Answering
<1>1. PolicyHeld /\ down = {}
  BY DEF SystemInit, G!ContractInit, PolicyHeld
<1>2. governance_answer = unconfigured_answer
  <2>1. /\ feeConfig = None
        /\ params[BYPASS_GOV_FEES_PARAM] = None /\ params[MIN_PAYMENT_PARAM] = None
    BY CompositionAssumption DEF SystemInit, G!ContractInit
  <2>2. (params[BYPASS_GOV_FEES_PARAM] = 1) = FALSE
    BY <2>1, FeeAssumption
  <2> QED
    BY <2>1, <2>2, Zenon
    DEF governance_answer, unconfigured_answer, G!get_fee_config, G!get_system_param
<1> QED
  BY <1>1, <1>2 DEF SystemInit, Init, Answering, answers, unconfigured_answer

\* The answers follow the states in every behaviour, and the governance
\* contract's policy stays within the shared bounds.
THEOREM AnsweringCorrect == SystemSpec => []Answering
  BY InitAnswering, NextAnswering, PTL DEF SystemSpec

\* Everything proved of the settlement contract in an arbitrary governance
\* environment holds beside the governance contract of this repository: the
\* composition implements Spec, by the identity on the shared variables.
THEOREM CompositionImplements == SystemSpec => SettlementImplemented
<1>1. SystemInit => Init
  BY DEF SystemInit
<1> QED
  BY <1>1, StepImplements, AnsweringCorrect, PTL DEF SystemSpec, Spec, SettlementImplemented

-----------------------------------------------------------------------------
(* Where rates come from.                                                   *)

\* The cache changes only by read_governance_fee_rule, wherever in the entry
\* points and the operation arms a rule is resolved.
LEMMA CacheFootprint ==
    ASSUME [Next]_vars
    PROVE  UNCHANGED cachedGovRule \/ read_governance_fee_rule
<1> USE DEF read_rule_or_default, read_fallback_rule
<1>1. \A m : read_rule_or_default(m) => UNCHANGED cachedGovRule \/ read_governance_fee_rule
  OBVIOUS
<1>2. /\ \A m : add_merchant(m) \/ remove_merchant(m) \/ remove_rule(m)
                   => UNCHANGED cachedGovRule \/ read_governance_fee_rule
      /\ \A m, rule : store_rule(m, rule) => UNCHANGED cachedGovRule \/ read_governance_fee_rule
      /\ \A rule : store_default_rule(rule) => UNCHANGED cachedGovRule
  BY DEF add_merchant, remove_merchant, store_rule, remove_rule, store_default_rule, ruleVars
<1>3. CASE AdminStep
  BY <1>3 DEF AdminStep, init, update_governance, update_recovery_address, transfer_admin,
              change_threshold, upgrade, pause, unpause, set_paused, migrate, ruleVars
<1>4. CASE RecoveryStep
  BY <1>4, RecoveryStepFrame DEF ruleVars
<1>5. CASE MerchantStep \/ DefaultRuleStep
  BY <1>1, <1>2, <1>5
  DEF MerchantStep, DefaultRuleStep, get_effective_rule, register_merchant,
      unregister_merchant, clear_settlement_rule, set_settlement_rule, set_default_rule
<1>6. CASE PaymentStep
  BY <1>1, <1>6 DEF PaymentStep, calculate_fee_split, store_payment_reference, prune_payment,
                    prune_payments
<1>7. ASSUME NEW op \in OpInputs, execute(op)
      PROVE  UNCHANGED cachedGovRule \/ read_governance_fee_rule
  BY <1>2, <1>7
  DEF execute, run_operation, _update_governance, _cancel_recovery, _transfer_admin, _upgrade,
      _register_merchant, _unregister_merchant, _set_settlement_rule, _clear_settlement_rule,
      _set_default_rule, ruleVars
<1>8. CASE QueueStep
  BY <1>7, <1>8 DEF QueueStep, dry_run, cancel, schedule, cancel_all, notQueueVars, vars, ruleVars
<1>9. CASE EnvironmentStep \/ UNCHANGED vars
  BY <1>9 DEF EnvironmentStep, Tick, GovernanceChanges, LoseKeys, contractVars, vars, ruleVars
<1> QED
  BY <1>3, <1>4, <1>5, <1>6, <1>8, <1>9 DEF Next

\* What the contract at g answers is None, a failure, or a configuration
\* within policy.
LEMMA AnsweredFee ==
    ASSUME Answering, NEW g \in Address
    PROVE  /\ gov[g].fee \in PolicyFees \cup {None, Trap}
           /\ gov[g].min \in PolicyValues \cup {None}
           /\ gov[g].bypass \in BOOLEAN
<1>1. /\ governance_answer.fee \in PolicyFees \cup {None}
      /\ governance_answer.min \in PolicyValues \cup {None}
      /\ governance_answer.bypass \in BOOLEAN
  BY CompositionAssumption
  DEF Answering, PolicyHeld, governance_answer, G!get_fee_config, G!get_system_param
<1> QED
  BY <1>1 DEF Answering, answers, Outage, unconfigured_answer

\* A configuration within policy is one of GovFeeConfig, is no marker of a
\* missing, failed or malformed answer, and is its own pair of rates.
LEMMA PolicyFeeType ==
    ASSUME NEW config \in PolicyFees
    PROVE  /\ config \in GovFeeConfig /\ WithinPolicy(config)
           /\ config \notin {None, Trap, Malformed}
           /\ Rates(gov_rule(config)) = config
<1>1. config \in GovFeeConfig /\ WithinPolicy(config)
  BY CompositionAssumption DEF PolicyFees
<1>2. Rates(gov_rule(config)) = config
  BY <1>1 DEF GovFeeConfig, Rates, gov_rule
<1> QED
  BY <1>1, <1>2, NoneAssumption

\* The history: what a contract answers is remembered under its address, and
\* the cache holds rates that some contract answered once.
Sourced ==
    /\ answered \in [Address -> SUBSET PolicyFees]
    /\ \A g \in Address : gov[g].fee \notin {None, Trap} => gov[g].fee \in answered[g]
    /\ cachedGovRule # None => \E g \in Address : Rates(cachedGovRule) \in answered[g]

\* The history only grows.
LEMMA AnsweredGrows ==
    ASSUME Answering, Answering', Sourced, [SystemNext]_systemVars
    PROVE  /\ answered' \in [Address -> SUBSET PolicyFees]
           /\ \A g \in Address : answered[g] \subseteq answered'[g]
           /\ \A g \in Address : gov'[g].fee \notin {None, Trap} => gov'[g].fee \in answered'[g]
<1>1. CASE UNCHANGED <<gov, answered>>
  BY <1>1 DEF Sourced
<1>2. SettlementStep => UNCHANGED <<gov, answered>>
  BY SettlementStepFrame DEF SettlementStep, envVars
<1>3. CASE AnswersFollow
  <2>1. answered' = [g \in Address |-> answered[g] \cup ({gov'[g].fee} \ {None, Trap})]
    BY <1>3 DEF AnswersFollow
  <2>2. \A g \in Address : gov'[g].fee \in PolicyFees \cup {None, Trap}
    <3>1. ASSUME NEW g \in Address PROVE answers'[g] \in PolicyReplies
      BY AnswersInPolicy DEF Answering
    <3>2. \A reply \in PolicyReplies : reply.fee \in PolicyFees \cup {None, Trap}
      BY DEF PolicyReplies, Outage
    <3> QED
      BY <3>1, <3>2 DEF Answering
  <2> QED
    BY <2>1, <2>2 DEF Sourced
<1> QED
  BY <1>1, <1>2, <1>3
  DEF SystemNext, GovernanceStep, OutageStep, Tick, LoseKeys, systemVars, vars, envVars

\* Every step keeps the history and the cache tied to the answers: the cache
\* takes over nothing but what the governance address answers in that step.
LEMMA NextSourced ==
    ASSUME TypeOK, Answering, Answering', Sourced, [SystemNext]_systemVars
    PROVE  Sourced'
<1>1. /\ answered' \in [Address -> SUBSET PolicyFees]
      /\ \A g \in Address : answered[g] \subseteq answered'[g]
      /\ \A g \in Address : gov'[g].fee \notin {None, Trap} => gov'[g].fee \in answered'[g]
  BY AnsweredGrows
<1>2. ASSUME cachedGovRule' # None
      PROVE  \E g \in Address : Rates(cachedGovRule)' \in answered'[g]
  <2>1. CASE UNCHANGED cachedGovRule
    BY <1>1, <1>2, <2>1 DEF Sourced, Rates
  <2>2. CASE read_governance_fee_rule /\ cachedGovRule' # cachedGovRule
    <3>1. /\ governance # None /\ gov[governance].fee \notin {None, Trap}
          /\ cachedGovRule' = gov_rule(gov[governance].fee)
      BY <2>2 DEF read_governance_fee_rule, governance_consulted, gov_reply
    <3>2. governance \in Address
      BY <3>1 DEF TypeOK, ConfigType
    <3>3. gov[governance].fee \in PolicyFees /\ gov[governance].fee \in answered[governance]
      BY <3>1, <3>2, AnsweredFee DEF Sourced
    <3>4. Rates(gov_rule(gov[governance].fee)) = gov[governance].fee
      BY <3>3, PolicyFeeType
    <3>5. Rates(cachedGovRule)' = gov[governance].fee
      BY <3>1, <3>4 DEF Rates
    <3> QED
      BY <1>1, <3>2, <3>3, <3>5
  <2> QED
    BY <2>1, <2>2, StepImplements, CacheFootprint
<1> QED
  BY <1>1, <1>2 DEF Sourced

\* Before any contract answers, nothing is cached.
LEMMA InitSourced == ASSUME SystemInit PROVE Sourced
  BY DEF SystemInit, Init, Sourced

\* In every behaviour the cache holds rates that governance answered once, all
\* of them within policy.
THEOREM SourcedCorrect == SystemSpec => []Sourced
<1>1. SystemSpec => []TypeOK
  BY CompositionImplements, TypeCorrect, PTL DEF SettlementImplemented
<1> QED
  BY <1>1, InitSourced, NextSourced, AnsweringCorrect, PTL DEF SystemSpec

\* The rule a payment is split by without a rule of the merchant or a default
\* rule: in an outage the cached one, else what governance answers, and the
\* bootstrap rule when there is neither.
LEMMA FallbackSource ==
    ASSUME TypeOK, Answering, Sourced, NEW m \in Address,
           rules[m] = None, defaultRule = None
    PROVE  /\ governance \in down =>
                 effective_rule(m) = IF cachedGovRule # None THEN cachedGovRule
                                     ELSE BOOTSTRAP_DEFAULT_RULE
           /\ governance \notin down =>
                 effective_rule(m) =
                    IF governance = GovernanceContract /\ feeConfig # None
                          /\ params[BYPASS_GOV_FEES_PARAM] # 1
                    THEN gov_rule(feeConfig) ELSE BOOTSTRAP_DEFAULT_RULE
<1>1. effective_rule(m) = IF governance_fee_rule # None THEN governance_fee_rule
                          ELSE BOOTSTRAP_DEFAULT_RULE
  BY DEF effective_rule, effective_fallback_rule
<1>2. CASE governance = None
  BY <1>1, <1>2, NoneAssumption, CompositionAssumption, InputAssumption
  DEF governance_fee_rule, governance_consulted, Answering
<1>3. CASE governance \in down
  <2>1. governance \in Address /\ governance # None
    BY <1>3, NoneAssumption DEF Answering
  <2>2. gov_reply.fee = Trap /\ gov_reply.bypass = FALSE
    BY <1>3, <2>1 DEF Answering, answers, gov_reply, Outage
  <2> QED
    BY <1>1, <1>3, <2>1, <2>2 DEF governance_fee_rule, governance_consulted
<1>4. CASE governance = GovernanceContract /\ governance \notin down
  <2>1. governance \in Address /\ governance # None
    BY <1>4, CompositionAssumption, InputAssumption, NoneAssumption
  <2>2. gov_reply.fee = feeConfig /\ gov_reply.bypass = (params[BYPASS_GOV_FEES_PARAM] = 1)
    BY <1>4, <2>1
    DEF Answering, answers, gov_reply, governance_answer, G!get_fee_config, G!get_system_param
  <2>3. feeConfig # None => feeConfig \notin {None, Trap, Malformed}
    BY PolicyFeeType DEF Answering, PolicyHeld
  <2>4. feeConfig # None => gov_rule(feeConfig) # None
    BY PolicyFeeType, GovRuleType, NoneAssumption DEF Answering, PolicyHeld
  <2> QED
    BY <1>1, <1>4, <2>1, <2>2, <2>3, <2>4, NoneAssumption
    DEF governance_fee_rule, governance_consulted
<1>5. CASE governance \notin {None, GovernanceContract} /\ governance \notin down
  <2>1. governance \in Address
    BY <1>5 DEF TypeOK, ConfigType
  <2>2. gov_reply.fee = None /\ gov_reply.bypass = FALSE
    BY <1>5, <2>1 DEF Answering, answers, gov_reply, unconfigured_answer
  <2> QED
    BY <1>1, <1>5, <2>2, NoneAssumption DEF governance_fee_rule, governance_consulted
<1> QED
  BY <1>2, <1>3, <1>4, <1>5

\* A step that puts a payment on record is the merchant's call that stores it.
LEMMA RecordedBy ==
    ASSUME TypeOK, [Next]_vars, NEW m \in Address, NEW r \in REF,
           payments'[m][r] # None, payments'[m][r] # payments[m][r]
    PROVE  \E a \in Amounts :
              /\ a >= min_payment_amount
              /\ effective_rule(m) \in SettlementRule
              /\ calculate_split(a, effective_rule(m)) # None
              /\ payments'[m][r] = payment_record(a, effective_rule(m))
<1> USE InputAssumption
<1>1. ~UNCHANGED payVars
  BY DEF payVars
<1>2. PICK n \in MerchantInputs, a \in Amounts, q \in RefInputs : store_payment_reference(n, q, a)
  BY <1>1, PaymentFootprint, PruneKeeps DEF PaymentStep, calculate_fee_split
<1>3. payments' = [payments EXCEPT ![n][q] = payment_record(a, effective_rule(n))]
  BY <1>2 DEF store_payment_reference
<1>4. n = m /\ q = r
  BY <1>3 DEF TypeOK, PayType
<1>5. effective_rule(m) \in SettlementRule
  BY <1>2, <1>4, EffectiveRuleType DEF store_payment_reference, TypeOK
<1>6. payments'[m][r] = payment_record(a, effective_rule(m))
  BY <1>3, <1>4 DEF TypeOK, PayType
<1> QED
  BY <1>2, <1>4, <1>5, <1>6 DEF store_payment_reference

\* Without a merchant rule and a default rule, a payment is charged what
\* governance holds at that moment, the bootstrap rates if it holds nothing or
\* the circuit breaker is on, and in an outage the bootstrap rates or rates
\* that governance once answered.
THEOREM RatesHaveASourceCorrect == SystemSpec => RatesHaveASource
<1> DEFINE Step == \A m \in Address, r \in REF :
          Recorded(m, r) /\ rules[m] = None /\ defaultRule = None =>
             LET charged == Rates(payments'[m][r])
                 bootstrap == Rates(BOOTSTRAP_DEFAULT_RULE)
             IN IF governance \in down
                THEN charged \in (UNION Range(answered)) \cup {bootstrap}
                ELSE IF governance = GovernanceContract /\ feeConfig # None
                        /\ params[BYPASS_GOV_FEES_PARAM] # 1
                THEN charged = feeConfig
                ELSE charged = bootstrap
<1>1. ASSUME TypeOK, Answering, Answering', Sourced, [SystemNext]_systemVars PROVE Step
  <2>1. SUFFICES ASSUME NEW m \in Address, NEW r \in REF, Recorded(m, r), rules[m] = None,
                        defaultRule = None
                 PROVE  LET charged == Rates(payments'[m][r])
                            bootstrap == Rates(BOOTSTRAP_DEFAULT_RULE)
                        IN IF governance \in down
                           THEN charged \in (UNION Range(answered)) \cup {bootstrap}
                           ELSE IF governance = GovernanceContract /\ feeConfig # None
                                   /\ params[BYPASS_GOV_FEES_PARAM] # 1
                           THEN charged = feeConfig
                           ELSE charged = bootstrap
    OBVIOUS
  <2>2. Rates(payments'[m][r]) = Rates(effective_rule(m))
    <3>1. PICK a \in Amounts : payments'[m][r] = payment_record(a, effective_rule(m))
      BY <1>1, <2>1, StepImplements, RecordedBy DEF Recorded
    <3> QED
      BY <3>1 DEF payment_record, Rates
  <2>3. CASE governance \in down
    <3>1. cachedGovRule # None => Rates(cachedGovRule) \in UNION Range(answered)
      BY <1>1 DEF Sourced, Range
    <3>2. effective_rule(m) = IF cachedGovRule # None THEN cachedGovRule
                              ELSE BOOTSTRAP_DEFAULT_RULE
      BY <1>1, <2>1, <2>3, FallbackSource
    <3>3. Rates(effective_rule(m)) \in (UNION Range(answered)) \cup {Rates(BOOTSTRAP_DEFAULT_RULE)}
      BY <3>1, <3>2
    <3> QED
      BY <2>2, <2>3, <3>3
  <2>4. CASE governance \notin down
    <3>1. feeConfig # None => Rates(gov_rule(feeConfig)) = feeConfig
      BY <1>1, PolicyFeeType DEF Answering, PolicyHeld
    <3>2. effective_rule(m) =
             IF governance = GovernanceContract /\ feeConfig # None
                   /\ params[BYPASS_GOV_FEES_PARAM] # 1
             THEN gov_rule(feeConfig) ELSE BOOTSTRAP_DEFAULT_RULE
      BY <1>1, <2>1, <2>4, FallbackSource
    <3> QED
      BY <2>2, <2>4, <3>1, <3>2
  <2> QED
    BY <2>3, <2>4
<1>2. SystemSpec => []TypeOK
  BY CompositionImplements, TypeCorrect, PTL DEF SettlementImplemented
<1> QED
  BY <1>1, <1>2, AnsweringCorrect, SourcedCorrect, PTL DEF SystemSpec, RatesHaveASource

-----------------------------------------------------------------------------
(* Payments and rules within policy.                                        *)

\* Whatever source a rule comes from, its rates are within the shared bounds.
LEMMA EffectiveWithinPolicy ==
    ASSUME TypeOK, RulesBounded, Answering, Sourced, NEW m \in Address
    PROVE  WithinPolicy(effective_rule(m))
<1>1. ASSUME NEW rule, rule # None, rule \in Range(rules) \/ rule = defaultRule
      PROVE  WithinPolicy(rule)
    BY <1>1 DEF RulesBounded, RuleInBounds, WithinPolicy
<1>2. CASE rules[m] # None
  <2>1. rules[m] \in Range(rules)
    BY DEF Range, TypeOK, RuleType
  <2> QED
    BY <1>1, <1>2, <2>1 DEF effective_rule
<1>3. CASE rules[m] = None /\ defaultRule # None
  BY <1>1, <1>3 DEF effective_rule, effective_fallback_rule
<1>4. ASSUME NEW rule, NEW config \in PolicyFees, Rates(rule) = config
      PROVE  WithinPolicy(rule)
  <2>1. rule.platform_fee_bps = config.platform_fee_bps
        /\ rule.network_fee_bps = config.network_fee_bps
    BY <1>4 DEF Rates
  <2> QED
    BY <1>4, <2>1, PolicyFeeType DEF WithinPolicy
<1>5. CASE rules[m] = None /\ defaultRule = None
  <2>1. cachedGovRule # None => WithinPolicy(cachedGovRule)
    BY <1>4 DEF Sourced
  <2>2. feeConfig # None => WithinPolicy(gov_rule(feeConfig))
    BY <1>4, PolicyFeeType DEF Answering, PolicyHeld
  <2> QED
    BY <1>5, <2>1, <2>2, FallbackSource, BootstrapAssumption
<1> QED
  BY <1>2, <1>3, <1>5

\* No minimum payment is negative: the parameter is checked by governance, the
\* compiled-in one is positive.
LEMMA MinimumNotNegative ==
    ASSUME TypeOK, Answering
    PROVE  min_payment_amount \in Nat
<1>1. CASE governance = None
  BY <1>1, BootstrapAssumption DEF min_payment_amount
<1>2. CASE governance # None
  <2>1. governance \in Address
    BY <1>2 DEF TypeOK, ConfigType
  <2>2. gov_reply.min \in PolicyValues \cup {None}
    BY <2>1, AnsweredFee DEF gov_reply
  <2>3. \A value \in PolicyValues : value \in Nat
    BY CompositionAssumption DEF PolicyValues
  <2> QED
    BY <1>2, <2>2, <2>3, BootstrapAssumption DEF min_payment_amount
<1> QED
  BY <1>1, <1>2

\* Every payment on record beside this governance contract is of a non-negative
\* amount, at rates within the bounds, and its legs add up to it.
THEOREM PaymentsWithinPolicyCorrect == SystemSpec => []PaymentsWithinPolicy
<1> DEFINE Inv == \A m \in Address, r \in REF :
                    payments[m][r] # None =>
                       WithinPolicy(payments[m][r]) /\ payments[m][r].amount >= 0
<1>1. SystemInit => Inv
  BY DEF SystemInit, Init
<1>2. ASSUME TypeOK, RulesBounded, Answering, Answering', Sourced, Inv, [SystemNext]_systemVars
      PROVE  Inv'
  <2>1. SUFFICES ASSUME NEW m \in Address, NEW r \in REF, payments'[m][r] # None
                 PROVE  WithinPolicy(payments'[m][r]) /\ payments'[m][r].amount >= 0
    BY DEF WithinPolicy
  <2>2. CASE payments'[m][r] = payments[m][r]
    BY <1>2, <2>1, <2>2
  <2>3. CASE payments'[m][r] # payments[m][r]
    <3>1. PICK a \in Amounts : /\ a >= min_payment_amount
                               /\ payments'[m][r] = payment_record(a, effective_rule(m))
      BY <1>2, <2>1, <2>3, StepImplements, RecordedBy
    <3>2. a >= 0
      BY <1>2, <3>1, MinimumNotNegative, InputAssumption
    <3>3. WithinPolicy(effective_rule(m))
      BY <1>2, EffectiveWithinPolicy
    <3> QED
      BY <3>1, <3>2, <3>3 DEF payment_record, WithinPolicy
  <2> QED
    BY <2>2, <2>3
<1>3. ASSUME TypeOK, PaymentsConserve, Inv PROVE PaymentsWithinPolicy
  <2>1. SUFFICES ASSUME NEW m \in Address, NEW r \in REF, payments[m][r] # None
                 PROVE  LET p == payments[m][r]
                        IN /\ WithinPolicy(p)
                           /\ p.amount >= 0
                           /\ p.platform_fee_amount + p.network_fee_amount
                                 + p.merchant_payout_amount = p.amount
    BY DEF PaymentsWithinPolicy
  <2>2. payments[m][r] \in PaymentRecord
    BY <1>3, <2>1 DEF TypeOK, PayType
  <2>3. payments[m][r].amount \in Int
    BY <2>2 DEF PaymentRecord
  <2> QED
    BY <1>3, <2>1, <2>3 DEF PaymentsConserve, MaxOf
<1>4. SystemSpec => []TypeOK /\ []RulesBounded /\ []PaymentsConserve
  BY CompositionImplements, TypeCorrect, RulesBoundedCorrect, PaymentsConserveCorrect, PTL
  DEF SettlementImplemented
<1> QED
  BY <1>1, <1>2, <1>3, <1>4, AnsweringCorrect, SourcedCorrect, PTL DEF SystemSpec

\* A rule validated against governance is under the ceiling in force, and
\* governance answers.
LEMMA CeilingHeld ==
    ASSUME TypeOK, Answering, NEW rule, validate_fee_against_governance(rule)
    PROVE  /\ governance \notin down
           /\ governance = GovernanceContract /\ feeConfig # None =>
                 /\ rule.platform_fee_bps <= feeConfig.platform_fee_bps
                 /\ rule.network_fee_bps <= feeConfig.network_fee_bps
<1>1. governance \notin down
  <2>1. SUFFICES ASSUME governance \in down PROVE FALSE
    OBVIOUS
  <2>2. gov_reply.fee = Trap
    BY <2>1 DEF Answering, answers, gov_reply, Outage
  <2> QED
    BY <2>2 DEF validate_fee_against_governance
<1>2. governance = GovernanceContract => gov_reply.fee = feeConfig
  BY <1>1, CompositionAssumption, InputAssumption
  DEF Answering, answers, gov_reply, governance_answer, G!get_fee_config
<1> QED
  BY <1>1, <1>2 DEF validate_fee_against_governance

\* A rule is committed, directly or by a matured operation, only while
\* governance answers and only under the ceiling it holds in that very step.
THEOREM CeilingAtCommitCorrect == SystemSpec => CeilingAtCommit
<1> DEFINE Committed == ({rules'[m] : m \in {a \in Address : rules'[a] # rules[a]}}
                     \cup (IF defaultRule' # defaultRule THEN {defaultRule'} ELSE {})) \ {None}
           Step == \A rule \in Committed :
                      /\ governance \notin down
                      /\ governance = GovernanceContract /\ feeConfig # None =>
                            /\ rule.platform_fee_bps <= feeConfig.platform_fee_bps
                            /\ rule.network_fee_bps <= feeConfig.network_fee_bps
<1>1. ASSUME TypeOK, Answering, Answering', [SystemNext]_systemVars PROVE Step
  <2>1. ASSUME NEW rule \in Committed PROVE validate_fee_against_governance(rule)
    <3>1. RegistryWrite
      <4>1. ~UNCHANGED recordVars
        BY <2>1 DEF recordVars
      <4> QED
        BY <1>1, <4>1, StepImplements, RegistryFootprint
    <3>2. ASSUME NEW m \in Address, add_merchant(m) \/ remove_merchant(m) \/ remove_rule(m)
          PROVE  FALSE
      BY <1>1, <2>1, <3>2 DEF add_merchant, remove_merchant, remove_rule, ruleVars, TypeOK, RuleType
    <3>3. ASSUME NEW m \in Address, NEW new \in SettlementRule, store_rule(m, new)
          PROVE  validate_fee_against_governance(rule)
      <4>1. rule = new
        BY <1>1, <2>1, <3>3 DEF store_rule, TypeOK, RuleType
      <4> QED
        BY <3>3, <4>1 DEF store_rule
    <3>4. ASSUME NEW new \in SettlementRule, store_default_rule(new)
          PROVE  validate_fee_against_governance(rule)
      <4>1. rule = new
        BY <2>1, <3>4 DEF store_default_rule
      <4> QED
        BY <3>4, <4>1 DEF store_default_rule
    <3> QED
      BY <3>1, <3>2, <3>3, <3>4 DEF RegistryWrite
  <2> HIDE DEF Committed
  <2> QED
    BY <1>1, <2>1, CeilingHeld
<1>2. SystemSpec => []TypeOK
  BY CompositionImplements, TypeCorrect, PTL DEF SettlementImplemented
<1> QED
  BY <1>1, <1>2, AnsweringCorrect, PTL DEF SystemSpec, CeilingAtCommit

-----------------------------------------------------------------------------
(* What rounding costs the merchants.                                       *)

\* The payout of record p is its exact share rounded down, by less than two
\* units.
Rounded(p) ==
    LET exact == p.amount * (BPS_DENOMINATOR - p.platform_fee_bps - p.network_fee_bps)
    IN /\ p.merchant_payout_amount * BPS_DENOMINATOR <= exact
       /\ exact < (p.merchant_payout_amount + 2) * BPS_DENOMINATOR

\* Beside this governance contract, every merchant on record received the
\* exact share of the payment at the recorded rates, less at most the two
\* roundings: no rule, cached or fetched, makes a fee leg eat into it.
PayoutsRounded == \A m \in Address, r \in REF : payments[m][r] # None => Rounded(payments[m][r])

\* A freshly split payment at rates that do not exceed it is rounded so.
LEMMA RecordRounded ==
    ASSUME NEW a \in Nat, NEW rule \in SettlementRule, WithinPolicy(rule),
           calculate_split(a, rule) # None
    PROVE  Rounded(payment_record(a, rule))
<1>1. /\ rule.platform_fee_bps \in Nat /\ rule.network_fee_bps \in Nat
      /\ rule.platform_fee_bps + rule.network_fee_bps <= BPS_DENOMINATOR
  BY DEF SettlementRule, WithinPolicy
<1>2. LET s == calculate_split(a, rule)
          exact == a * (BPS_DENOMINATOR - rule.platform_fee_bps - rule.network_fee_bps)
      IN /\ s.merchant_payout_amount * BPS_DENOMINATOR <= exact
         /\ exact < (s.merchant_payout_amount + 2) * BPS_DENOMINATOR
  BY <1>1, PayoutRounding
<1>3. /\ payment_record(a, rule).amount = a
      /\ payment_record(a, rule).platform_fee_bps = rule.platform_fee_bps
      /\ payment_record(a, rule).network_fee_bps = rule.network_fee_bps
      /\ payment_record(a, rule).merchant_payout_amount
            = calculate_split(a, rule).merchant_payout_amount
  BY DEF payment_record
<1> QED
  BY <1>2, <1>3 DEF Rounded

\* Every merchant on record received the exact share, less than two units
\* rounded off, through outages, rule changes and re-registrations.
THEOREM PayoutsRoundedCorrect == SystemSpec => []PayoutsRounded
<1>1. SystemInit => PayoutsRounded
  BY DEF SystemInit, Init, PayoutsRounded
<1>2. ASSUME TypeOK, RulesBounded, Answering, Answering', Sourced, PayoutsRounded,
             [SystemNext]_systemVars
      PROVE  PayoutsRounded'
  <2>1. SUFFICES ASSUME NEW m \in Address, NEW r \in REF, payments'[m][r] # None
                 PROVE  Rounded(payments'[m][r])
    BY DEF PayoutsRounded, Rounded
  <2>2. CASE payments'[m][r] = payments[m][r]
    BY <1>2, <2>1, <2>2 DEF PayoutsRounded
  <2>3. CASE payments'[m][r] # payments[m][r]
    <3>1. PICK a \in Amounts : /\ a >= min_payment_amount
                               /\ effective_rule(m) \in SettlementRule
                               /\ calculate_split(a, effective_rule(m)) # None
                               /\ payments'[m][r] = payment_record(a, effective_rule(m))
      BY <1>2, <2>1, <2>3, StepImplements, RecordedBy
    <3>2. a \in Nat
      BY <1>2, <3>1, MinimumNotNegative, InputAssumption
    <3>3. WithinPolicy(effective_rule(m))
      BY <1>2, EffectiveWithinPolicy
    <3> QED
      BY <3>1, <3>2, <3>3, RecordRounded
  <2> QED
    BY <2>2, <2>3
<1>3. SystemSpec => []TypeOK /\ []RulesBounded
  BY CompositionImplements, TypeCorrect, RulesBoundedCorrect, PTL DEF SettlementImplemented
<1> QED
  BY <1>1, <1>2, <1>3, AnsweringCorrect, SourcedCorrect, PTL DEF SystemSpec

-----------------------------------------------------------------------------
(* The composition is a behaviour of the governance contract.               *)

\* The other half of the composition: beside any settlement contract the
\* governance contract behaves as module Governance says, with the clock and
\* the key holders they share.
GovernanceImplemented == G!Spec

\* What module Governance calls its state.
LEMMA GovernanceVars ==
    UNCHANGED G!vars <=> UNCHANGED <<govVars, now, signing>>
  BY DEF G!vars, G!adminVars, G!configVars, G!policyVars, G!envVars, govVars

\* Settlement calls and outages change nothing the governance contract can see.
THEOREM CompositionImplementsGovernance == SystemSpec => GovernanceImplemented
<1>1. SystemInit => G!Init
  BY DEF SystemInit, Init, G!Init
<1>2. ASSUME [SystemNext]_systemVars PROVE [G!Next]_(G!vars)
  <2>1. CASE SettlementStep
    BY <2>1, SettlementStepFrame, GovernanceVars DEF SettlementStep, envVars
  <2>2. CASE GovernanceStep
    BY <2>2 DEF GovernanceStep, G!Next
  <2>3. ASSUME NEW g \in GovInputs, OutageStep(g) PROVE UNCHANGED G!vars
    BY <2>3, GovernanceVars DEF OutageStep
  <2>4. ASSUME Tick, UNCHANGED govVars PROVE G!Next
    BY <2>4 DEF Tick, G!Tick, G!Next, G!adminVars, G!configVars, G!policyVars, govVars
  <2>5. ASSUME NEW lost \in KeyLosses, LoseKeys(lost), UNCHANGED govVars PROVE G!Next
    BY <2>5 DEF LoseKeys, G!LoseKeys, G!Next, G!adminVars, G!configVars, G!policyVars, govVars
  <2>6. CASE UNCHANGED systemVars
    BY <2>6, GovernanceVars DEF systemVars, vars, envVars
  <2> QED
    BY <1>2, <2>1, <2>2, <2>3, <2>4, <2>5, <2>6 DEF SystemNext
<1> QED
  BY <1>1, <1>2, PTL DEF SystemSpec, GovernanceImplemented, G!Spec

\* Everything proved of the governance contract, for the composition.
GP == INSTANCE GovernanceProofs WITH
         admins <- gAdmins, threshold <- gThreshold, recoveryAddress <- gRecoveryAddress,
         pendingRecovery <- gPendingRecovery, paused <- gPaused,
         schemaVersion <- gSchemaVersion, wasm <- gWasm, AdminVecs <- GovAdminVecs

\* The proofs are about the same actions.
LEMMA SameSteps ==
    /\ G!vars = GP!vars
    /\ G!Init <=> GP!Init
    /\ G!Next <=> GP!Next
<1>1. G!vars = GP!vars
  BY DEF G!vars, G!adminVars, G!configVars, G!policyVars, G!envVars,
         GP!vars, GP!adminVars, GP!configVars, GP!policyVars, GP!envVars
<1>2. G!Init <=> GP!Init
  BY DEF G!Init, G!ContractInit, GP!Init, GP!ContractInit
<1> USE DEF G!adminVars, G!configVars, G!policyVars, G!envVars,
            GP!adminVars, GP!configVars, GP!policyVars, GP!envVars
<1>3. \A s, n : G!verify_admin_auth(s, n) <=> GP!verify_admin_auth(s, n)
  BY DEF G!verify_admin_auth, G!Distinct, G!Range, G!require_auth,
         GP!verify_admin_auth, GP!Distinct, GP!Range, GP!require_auth
<1>4. \A v, t : G!validate_admins_and_threshold(v, t) <=> GP!validate_admins_and_threshold(v, t)
  BY DEF G!validate_admins_and_threshold, G!Distinct, G!assert_not_zero,
         GP!validate_admins_and_threshold, GP!Distinct, GP!assert_not_zero
<1>5. \A s : G!assert_admin_and_not_paused(s) <=> GP!assert_admin_and_not_paused(s)
  BY <1>3 DEF G!assert_admin_and_not_paused, GP!assert_admin_and_not_paused,
              G!assert_not_paused, GP!assert_not_paused
<1>6. G!AdminStep <=> GP!AdminStep
  <2>1. \A d, v, t, r : G!init(d, v, t, r) <=> GP!init(d, v, t, r)
    BY <1>4 DEF G!init, GP!init, G!require_auth, GP!require_auth, G!assert_not_zero,
                GP!assert_not_zero
  <2>2. \A s, r : G!update_recovery_address(s, r) <=> GP!update_recovery_address(s, r)
    BY <1>3 DEF G!update_recovery_address, GP!update_recovery_address,
                G!assert_not_zero, GP!assert_not_zero
  <2>3. \A s, v, t : G!transfer_admin(s, v, t) <=> GP!transfer_admin(s, v, t)
    BY <1>3, <1>4 DEF G!transfer_admin, GP!transfer_admin
  <2>4. \A s, t : G!change_threshold(s, t) <=> GP!change_threshold(s, t)
    BY <1>3 DEF G!change_threshold, GP!change_threshold
  <2>5. \A s, w : G!upgrade(s, w) <=> GP!upgrade(s, w)
    BY <1>3 DEF G!upgrade, GP!upgrade, G!probe_supports_interface,
                GP!probe_supports_interface
  <2>6. \A s : (G!pause(s) <=> GP!pause(s)) /\ (G!unpause(s) <=> GP!unpause(s))
    BY <1>3 DEF G!pause, GP!pause, G!unpause, GP!unpause, G!set_paused, GP!set_paused
  <2>7. \A s : G!migrate(s) <=> GP!migrate(s)
    BY <1>5 DEF G!migrate, GP!migrate, G!run_migrations, GP!run_migrations
  <2> QED
    BY <2>1, <2>2, <2>3, <2>4, <2>5, <2>6, <2>7 DEF G!AdminStep, GP!AdminStep
<1>7. G!RecoveryStep <=> GP!RecoveryStep
  <2>1. \A a : G!initiate_recovery(a) <=> GP!initiate_recovery(a)
    BY DEF G!initiate_recovery, GP!initiate_recovery, G!require_auth, GP!require_auth,
           G!assert_not_zero, GP!assert_not_zero
  <2>2. \A s : G!cancel_recovery(s) <=> GP!cancel_recovery(s)
    BY <1>3 DEF G!cancel_recovery, GP!cancel_recovery, G!require_auth, GP!require_auth
  <2>3. G!execute_recovery <=> GP!execute_recovery
    BY DEF G!execute_recovery, GP!execute_recovery
  <2> QED
    BY <2>1, <2>2, <2>3 DEF G!RecoveryStep, GP!RecoveryStep
<1>8. G!PolicyStep <=> GP!PolicyStep
  <2>1. \A s, k, v : G!update_system_param(s, k, v) <=> GP!update_system_param(s, k, v)
    BY <1>5 DEF G!update_system_param, GP!update_system_param, G!param_value_valid,
                GP!param_value_valid
  <2>2. \A s, c : G!set_fee_config(s, c) <=> GP!set_fee_config(s, c)
    BY <1>5 DEF G!set_fee_config, GP!set_fee_config, G!fee_config_valid,
                GP!fee_config_valid
  <2>3. \A s, x : G!remove_anchor(s, x) <=> GP!remove_anchor(s, x)
    BY <1>5 DEF G!remove_anchor, GP!remove_anchor
  <2>4. \A s, x, a : G!upsert_anchor(s, x, a) <=> GP!upsert_anchor(s, x, a)
    BY <1>5 DEF G!upsert_anchor, GP!upsert_anchor, G!assert_not_zero, GP!assert_not_zero
  <2> QED
    BY <2>1, <2>2, <2>3, <2>4 DEF G!PolicyStep, GP!PolicyStep
<1>9. G!Tick <=> GP!Tick
  BY DEF G!Tick, GP!Tick
<1>10. \A lost : G!LoseKeys(lost) <=> GP!LoseKeys(lost)
  BY DEF G!LoseKeys, GP!LoseKeys
<1> QED
  BY <1>1, <1>2, <1>6, <1>7, <1>8, <1>9, <1>10 DEF G!Next, GP!Next, G!ContractStep, GP!ContractStep

\* So the composition takes governance steps only as GovernanceProofs knows
\* them.
LEMMA CompositionGovernance == SystemSpec => GP!Spec
<1>1. G!Init => GP!Init
  BY SameSteps
<1>2. ASSUME [G!Next]_(G!vars) PROVE [GP!Next]_(GP!vars)
  <2>1. UNCHANGED G!vars => UNCHANGED GP!vars
    BY DEF G!vars, G!adminVars, G!configVars, G!policyVars, G!envVars,
           GP!vars, GP!adminVars, GP!configVars, GP!policyVars, GP!envVars
  <2> QED
    BY <1>2, <2>1, SameSteps
<1> QED
  BY <1>1, <1>2, CompositionImplementsGovernance, PTL DEF GovernanceImplemented, G!Spec, GP!Spec

\* The assumptions of module Governance, from those of the composition.
LEMMA GovernanceInputs ==
    /\ ZeroAddress \in Address /\ ZeroWasm \in WASM
    /\ BYPASS_GOV_FEES_PARAM \in PARAM
    /\ {RECOVERY_DELAY, CURRENT_SCHEMA_VERSION, U64_MAX} \subseteq Nat
    /\ SignerVecs \subseteq Seq(Address) /\ GovAdminVecs \subseteq Seq(Address)
    /\ Thresholds \subseteq Nat /\ ParamValues \subseteq Int
    /\ RecoveryInputs \subseteq Address /\ NewAdmins \subseteq Address
    /\ AssetInputs \subseteq Address /\ AnchorInputs \subseteq Address
    /\ WasmInputs \subseteq WASM /\ FeeInputs \subseteq GP!FeeConfig
    /\ None \notin Address /\ None \notin Int
    /\ None \notin GP!FeeConfig /\ None \notin GP!PendingRecovery
    /\ None \notin [target: Address, due: Nat]
<1>1. GP!FeeConfig = GovFeeConfig /\ GP!PendingRecovery = PendingRecovery
  BY DEF GP!FeeConfig, GovFeeConfig, GP!PendingRecovery, PendingRecovery
<1> QED
  BY <1>1, StorageAssumption, InputAssumption, CompositionAssumption, FeeAssumption,
     NoneAssumption, RecoveryNone

\* The governance contract keeps its promises beside the settlement contract,
\* with the clock and the key holders shared: its administration stays usable,
\* only a quorum or a due recovery changes what its admins control, and a
\* recovery nobody can stop stays on course.
THEOREM GovernanceKeepsItsPromises ==
    SystemSpec => /\ []GP!GovernanceAdminsValid
                  /\ GP!GovernanceChangeControlled
                  /\ GP!PausedFreezesPolicy
                  /\ GP!UnstoppableUntilRecovered
<1>1. GP!Spec => []GP!GovernanceAdminsValid
  BY GP!GovernanceAdminsCorrect, GovernanceInputs
<1>2. GP!Spec => GP!GovernanceChangeControlled
  BY GP!GovernanceImplements, GovernanceInputs
<1>3. GP!Spec => GP!PausedFreezesPolicy
  BY GP!PausedFreezesPolicyCorrect, GovernanceInputs
<1>4. GP!Spec => GP!UnstoppableUntilRecovered
  BY GP!UnstoppableUntilRecoveredCorrect, GovernanceInputs
<1> QED
  BY <1>1, <1>2, <1>3, <1>4, CompositionGovernance, PTL
=============================================================================
