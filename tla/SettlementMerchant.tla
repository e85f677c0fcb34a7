------------------------- MODULE SettlementMerchant -------------------------
(***************************************************************************)
(* The merchant registry and the settlement rules:                         *)
(* settlement_contract/src/merchant.rs and settlement.rs.                  *)
(*                                                                         *)
(* The direct entry points and the timelocked arms of admin.rs write the   *)
(* same entries.  What they share is an operator that leaves queueVars and *)
(* envVars open; each caller adds its own authorization and closes them.   *)
(***************************************************************************)
EXTENDS SettlementStorage

may_register(m) ==
    /\ validate_nonzero_address(m)
    /\ m \notin Range(admins)
    /\ m \notin merchants

\* The tombstone of an earlier registration is removed (issue #685).
add_merchant(m) ==
    /\ may_register(m)
    /\ merchants' = merchants \cup {m}
    /\ archived' = archived \ {m}
    /\ UNCHANGED <<adminVars, configVars, pendingRecovery, ruleVars, payVars>>

Mut_rule_kept(m) ==
    /\ m \in merchants
    /\ merchants' = merchants \ {m}
    /\ archived' = archived \cup {m}
    /\ UNCHANGED <<adminVars, configVars, pendingRecovery, ruleVars, payVars>>

\* Removing a rule also resolves the fallback rule for the event, which may
\* cache a governance answer or fail on a malformed one.
remove_merchant(m) ==
    /\ m \in merchants
    /\ merchants' = merchants \ {m}
    /\ archived' = archived \cup {m}
    /\ rules' = [rules EXCEPT ![m] = None]
    /\ IF rules[m] # None THEN read_fallback_rule ELSE UNCHANGED cachedGovRule
    /\ UNCHANGED <<adminVars, configVars, pendingRecovery, defaultRule, payVars>>

register_merchant(signers, m) ==
    /\ assert_admin_and_not_paused(signers)
    /\ require_auth(m)
    /\ add_merchant(m)
    /\ UNCHANGED <<queueVars, envVars>>

unregister_merchant(signers, m) ==
    /\ assert_admin_and_not_paused(signers)
    /\ remove_merchant(m)
    /\ UNCHANGED <<queueVars, envVars>>

-----------------------------------------------------------------------------
Mut_no_sum_bound(rule) == rule.settlement_delay_ledger <= MAX_SETTLEMENT_DELAY_LEDGER

validate_rule_bounds(rule) ==
    /\ rule.platform_fee_bps <= BPS_DENOMINATOR /\ rule.network_fee_bps <= BPS_DENOMINATOR
    /\ rule.platform_fee_bps >= MIN_FEE_BPS /\ rule.network_fee_bps >= MIN_FEE_BPS
    /\ rule.platform_fee_bps <= MAX_FEE_BPS /\ rule.network_fee_bps <= MAX_FEE_BPS
    /\ rule.platform_fee_bps + rule.network_fee_bps <= BPS_DENOMINATOR
    /\ rule.settlement_delay_ledger <= MAX_SETTLEMENT_DELAY_LEDGER

Mut_ceiling_at_schedule(m, rule) ==
    /\ m \in merchants
    /\ validate_rule_bounds(rule)
    /\ read_rule_or_default(m)
    /\ rules' = [rules EXCEPT ![m] = rule]
    /\ UNCHANGED <<adminVars, configVars, pendingRecovery, registryVars, defaultRule, payVars>>

\* Without a rule of its own, the merchant's previous effective rule is read
\* for the event.
store_rule(m, rule) ==
    /\ m \in merchants
    /\ validate_rule_bounds(rule)
    /\ validate_fee_against_governance(rule)
    /\ read_rule_or_default(m)
    /\ rules' = [rules EXCEPT ![m] = rule]
    /\ UNCHANGED <<adminVars, configVars, pendingRecovery, registryVars, defaultRule, payVars>>

remove_rule(m) ==
    /\ rules[m] # None
    /\ rules' = [rules EXCEPT ![m] = None]
    /\ read_fallback_rule
    /\ UNCHANGED <<adminVars, configVars, pendingRecovery, registryVars, defaultRule, payVars>>

store_default_rule(rule) ==
    /\ validate_rule_bounds(rule)
    /\ validate_fee_against_governance(rule)
    /\ defaultRule' = rule
    /\ UNCHANGED <<adminVars, configVars, pendingRecovery, registryVars, rules, cachedGovRule,
                   payVars>>

set_settlement_rule(signers, m, rule) ==
    /\ assert_admin_and_not_paused(signers)
    /\ validate_nonzero_address(m)
    /\ store_rule(m, rule)
    /\ UNCHANGED <<queueVars, envVars>>

clear_settlement_rule(signers, m) ==
    /\ assert_admin_and_not_paused(signers)
    /\ remove_rule(m)
    /\ UNCHANGED <<queueVars, envVars>>

set_default_rule(signers, rule) ==
    /\ assert_admin_and_not_paused(signers)
    /\ store_default_rule(rule)
    /\ UNCHANGED <<queueVars, envVars>>

\* get_effective_rule and get_rule_provenance: open to everyone, even before
\* init; the resolution they perform may refresh the cache.
get_effective_rule(m) ==
    /\ read_rule_or_default(m)
    /\ UNCHANGED <<adminVars, configVars, pendingRecovery, queueVars, registryVars, rules,
                   defaultRule, payVars, envVars>>
=============================================================================
