------------------------- MODULE SettlementPayments -------------------------
(***************************************************************************)
(* Payment references: settlement_contract/src/payments.rs.                *)
(***************************************************************************)
EXTENDS SettlementStorage

notPayVars == <<adminVars, configVars, pendingRecovery, queueVars, registryVars, rules,
                defaultRule, envVars>>

payment_record(amount, rule) ==
    LET split == calculate_split(amount, rule)
    IN [amount |-> amount,
        platform_fee_amount |-> split.platform_fee_amount,
        network_fee_amount |-> split.network_fee_amount,
        merchant_payout_amount |-> split.merchant_payout_amount,
        platform_fee_bps |-> rule.platform_fee_bps,
        network_fee_bps |-> rule.network_fee_bps,
        ledger |-> now,
        settlement_delay_ledger |-> rule.settlement_delay_ledger,
        auto_settle |-> rule.auto_settle]

Mut_reference_reused(m, ref) == ref # ZeroRef

fresh_reference(m, ref) == ref # ZeroRef /\ payments[m][ref] = None

\* The rule in force is resolved once and its fees are fixed in the record.
\* The dummy record written before the governance call is overwritten by the
\* same invocation.
store_payment_reference(m, ref, amount) ==
    /\ assert_not_paused
    /\ require_auth(m)
    /\ m \in merchants
    /\ amount >= min_payment_amount
    /\ fresh_reference(m, ref)
    /\ read_rule_or_default(m)
    /\ calculate_split(amount, effective_rule(m)) # None
    /\ payments' = [payments EXCEPT ![m][ref] = payment_record(amount, effective_rule(m))]
    /\ increment_payment_count(m)
    /\ UNCHANGED notPayVars

\* Open to everyone; resolving the rule may refresh the cache.
calculate_fee_split(m, amount) ==
    /\ m \in merchants
    /\ amount >= min_payment_amount
    /\ read_rule_or_default(m)
    /\ calculate_split(amount, effective_rule(m)) # None
    /\ UNCHANGED <<notPayVars, payVars>>

\* A missing record is a no-op.
prune_payment(signers, m, ref) ==
    /\ assert_not_paused
    /\ verify_admin_auth(signers, threshold)
    /\ payments' = [payments EXCEPT ![m][ref] = None]
    /\ decrement_payment_count(m, IF payments[m][ref] # None THEN 1 ELSE 0)
    /\ UNCHANGED <<notPayVars, cachedGovRule>>

Mut_counts_requests(signers, m, refs) ==
    /\ verify_admin_auth(signers, threshold)
    /\ Len(refs) <= MAX_PAYMENTS_BATCH
    /\ payments' = [payments EXCEPT ![m] = [r \in REF |-> IF r \in Range(refs) THEN None ELSE @[r]]]
    /\ decrement_payment_count(m, Len(refs))
    /\ UNCHANGED <<notPayVars, cachedGovRule>>

\* Not gated by the pause flag.  Absent and repeated references are skipped,
\* so the counter drops by the number of records the call removes.
prune_payments(signers, m, refs) ==
    /\ verify_admin_auth(signers, threshold)
    /\ Len(refs) <= MAX_PAYMENTS_BATCH
    /\ payments' = [payments EXCEPT ![m] = [r \in REF |-> IF r \in Range(refs) THEN None ELSE @[r]]]
    /\ decrement_payment_count(m, Cardinality({r \in Range(refs) : payments[m][r] # None}))
    /\ UNCHANGED <<notPayVars, cachedGovRule>>

-----------------------------------------------------------------------------
(* Queries.  They change no modelled state (only TTLs).                     *)

\* An empty signer vector claims the merchant's own authority.
assert_read_authorized(m, signers) ==
    IF signers = <<>> THEN require_auth(m) ELSE verify_admin_auth(signers, threshold)

\* get_payment_reference answers with the record (None when there is none).
get_payment_reference(m, ref, signers, answer) ==
    /\ assert_read_authorized(m, signers)
    /\ assert_payments_readable(m)
    /\ answer = payments[m][ref]

Mut_cursor_counts_records(refs, cursor, records) ==
    IF Len(refs) = MAX_PAYMENTS_BATCH THEN cursor + Len(records) ELSE None

Mut_short_page_ends(refs, cursor, records) ==
    IF Len(records) = MAX_PAYMENTS_BATCH THEN cursor + Len(refs) ELSE None

\* A full page of references may be followed by another one (issue #982).
next_cursor(refs, cursor, records) ==
    IF Len(refs) = MAX_PAYMENTS_BATCH THEN cursor + Len(refs) ELSE None

\* The k-th smallest of a finite set of positions.
Nth(P, k) == CHOOSE i \in P : Cardinality({j \in P : j <= i}) = k

\* PaymentsPage: the records that exist, in the order of their references.
payments_page(m, refs, cursor) ==
    LET found == {i \in DOMAIN refs : payments[m][refs[i]] # None}
        records == [k \in 1..Cardinality(found) |-> payments[m][refs[Nth(found, k)]]]
    IN [records |-> records, next_cursor |-> next_cursor(refs, cursor, records)]

get_payments(m, refs, cursor, signers, page) ==
    /\ assert_read_authorized(m, signers)
    /\ assert_payments_readable(m)
    /\ Len(refs) <= MAX_PAYMENTS_BATCH
    /\ Len(refs) = MAX_PAYMENTS_BATCH => cursor + Len(refs) <= U32_MAX
    /\ page = payments_page(m, refs, cursor)

get_payment_count(m, signers, answer) ==
    /\ assert_read_authorized(m, signers)
    /\ assert_payments_readable(m)
    /\ answer = payCount[m]
=============================================================================
