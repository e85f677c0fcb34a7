----------------------------- MODULE Lifetimes -----------------------------
(***************************************************************************)
(* The lifetimes of the settlement contract's ledger entries (ADR 003):    *)
(* every entry is live up to some ledger, extend_ttl moves that ledger on, *)
(* and an entry past it is archived.  A call that meets an archived entry  *)
(* fails until the entry is restored.  Each entry point of Settlement is   *)
(* repeated here together with the entries it reads, keeps alive, writes   *)
(* and removes.                                                            *)
(*                                                                         *)
(* One tick of now is one ledger, so MAX_TIMELOCK, thirty days of wall     *)
(* clock, is here the number of ledgers that close in those days.  The     *)
(* lifetime TTL_BUMP is a fixed number of ledgers, thirty nominal days.    *)
(***************************************************************************)
EXTENDS Settlement

CONSTANTS TTL_THRESHOLD, TTL_BUMP,   \* of payments, rules, merchants and slots alike
          READ_INSTANCE_TTL_THRESHOLD, READ_INSTANCE_TTL_BUMP,
          MIN_TTL                    \* network minimum: lifetime of a new or restored entry

\* A new entry is extended at once unless the network already gives it a
\* longer life than the threshold.
ASSUME LifetimeAssumption ==
    /\ {TTL_THRESHOLD, TTL_BUMP, READ_INSTANCE_TTL_THRESHOLD, READ_INSTANCE_TTL_BUMP,
        MIN_TTL} \subseteq Nat
    /\ TTL_THRESHOLD <= TTL_BUMP /\ READ_INSTANCE_TTL_THRESHOLD <= READ_INSTANCE_TTL_BUMP
    /\ MIN_TTL <= TTL_THRESHOLD \/ MIN_TTL >= TTL_BUMP

VARIABLES liveUntil,  \* last ledger in which an entry is live, None if there is no entry
          lastRead    \* history: the ledger of the last read of each payment record

lifeVars == <<vars, liveUntil, lastRead>>

\* The storage keys.  Instance stands for the contract instance, which holds
\* everything that is not a persistent entry of its own.
Instance == <<"Instance">>
Merchant(m) == <<"Merchant", m>>
ArchivedMerchant(m) == <<"ArchivedMerchant", m>>
Rule(m) == <<"Rule", m>>
PaymentCount(m) == <<"PaymentCount", m>>
Payment(m, r) == <<"Payment", m, r>>
ScheduledOperation(h) == <<"ScheduledOperation", h>>

PaymentsOf(m, refs) == {Payment(m, r) : r \in refs}
Entry == {Instance}
    \cup (UNION {{Merchant(m), ArchivedMerchant(m), Rule(m), PaymentCount(m)} : m \in Address})
    \cup (UNION {PaymentsOf(m, REF) : m \in Address})
    \cup {ScheduledOperation(h) : h \in HASH}

Exists(e) == liveUntil[e] # None
Live(e) == Exists(e) /\ now <= liveUntil[e]
Archived(e) == Exists(e) /\ now > liveUntil[e]

-----------------------------------------------------------------------------
Threshold(e) == IF e = Instance THEN READ_INSTANCE_TTL_THRESHOLD ELSE TTL_THRESHOLD
Bump(e) == IF e = Instance THEN READ_INSTANCE_TTL_BUMP ELSE TTL_BUMP

\* External: the host extends only a lifetime that has fallen to the threshold.
extend_ttl(e, until) ==
    IF until - now <= Threshold(e) THEN MaxOf(until, now + Bump(e)) ELSE until

\* One invocation.  All entries it meets are live or absent; written entries
\* are created if need be and extended, kept ones extended if they exist.
Call(touched, kept, written, removed) ==
    /\ \A e \in {Instance} \cup touched \cup kept \cup written \cup removed : ~Archived(e)
    /\ liveUntil' = [e \in Entry |->
          IF e \in removed THEN None
          ELSE IF e \in written /\ ~Exists(e) THEN extend_ttl(e, now + MIN_TTL)
          ELSE IF e \in kept \cup written /\ Exists(e) THEN extend_ttl(e, liveUntil[e])
          ELSE liveUntil[e]]

LifeInit ==
    /\ Init
    /\ liveUntil = [e \in Entry |-> IF e = Instance THEN MIN_TTL ELSE None]
    /\ lastRead = [m \in MerchantInputs |-> [r \in RefInputs |-> None]]

-----------------------------------------------------------------------------
(* The entries each entry point meets.  Every admin call reads the admin    *)
(* set and the threshold, which extends the instance.                       *)

\* The first call, init, reads nothing that extends the instance.  The role
\* check of transfer_admin, here and in its arm, needs no entry: where one of
\* the new admins has a marker, live or archived, the call fails.
AdminCall == AdminStep /\ Call({}, IF Initialised THEN {Instance} ELSE {}, {}, {})

RecoveryCall == RecoveryStep /\ Call({}, {Instance}, {}, {})

\* The arms of execute.  Those that read neither the admins nor, for the fee
\* ceiling, the governance address leave the instance alone.
ArmCall(op) ==
    LET slot == ScheduledOperation(Hash(op))
    IN \/ op.tag = "RegisterMerchant"
          /\ Call({}, {Instance}, {Merchant(op.merchant)}, {slot, ArchivedMerchant(op.merchant)})
       \/ op.tag = "UnregisterMerchant"
          /\ Call({}, {}, {ArchivedMerchant(op.merchant)},
                  {slot, Merchant(op.merchant), Rule(op.merchant)})
       \/ op.tag = "SetSettlementRule"
          /\ Call({}, {Instance, Merchant(op.merchant)}, {Rule(op.merchant)}, {slot})
       \/ op.tag = "ClearSettlementRule" /\ Call({}, {}, {}, {slot, Rule(op.merchant)})
       \/ op.tag \in {"TransferAdmin", "SetDefaultRule"}
          /\ Call({}, {Instance}, {}, {slot})
       \/ op.tag \in {"UpdateGovernance", "CancelRecovery", "Upgrade"} /\ Call({}, {}, {}, {slot})

Mut_slot_not_extended(signers, op, d) ==
    /\ schedule(signers, op, d)
    /\ ~Archived(Instance)
    /\ liveUntil' = [liveUntil EXCEPT ![ScheduledOperation(Hash(op))] = now + MIN_TTL]

ScheduleCall(signers, op, d) ==
    /\ schedule(signers, op, d)
    /\ Call({}, {Instance}, {ScheduledOperation(Hash(op))}, {})

\* Cancelled slots are removed; a batch also reads the slots it skips.
QueueCall ==
    \/ \E op \in OpInputs :
          \/ execute(op) /\ ArmCall(op)
          \/ dry_run(op) /\ Call({ScheduledOperation(Hash(op))}, {}, {}, {})
          \/ \E s \in SignerVecs :
                \/ \E d \in Delays : ScheduleCall(s, op, d)
                \/ cancel(s, op) /\ Call({}, {Instance}, {}, {ScheduledOperation(Hash(op))})
    \/ \E s \in SignerVecs, ops \in OpBatches :
          /\ cancel_all(s, ops)
          /\ Call({ScheduledOperation(Hash(ops[i])) : i \in DOMAIN ops}, {Instance}, {},
                  {ScheduledOperation(h) : h \in {k \in HASH : Consumed(k)}})

MerchantCall ==
    \E m \in MerchantInputs :
       \/ get_effective_rule(m) /\ Call({Rule(m)}, {}, {}, {})
       \/ \E s \in SignerVecs :
             \/ register_merchant(s, m)
                /\ Call({}, {Instance}, {Merchant(m)}, {ArchivedMerchant(m)})
             \/ unregister_merchant(s, m)
                /\ Call({}, {Instance}, {ArchivedMerchant(m)}, {Merchant(m), Rule(m)})
             \/ clear_settlement_rule(s, m) /\ Call({}, {Instance}, {}, {Rule(m)})
             \/ \E rule \in RuleInputs :
                   /\ set_settlement_rule(s, m, rule)
                   /\ Call({}, {Instance, Merchant(m)}, {Rule(m)}, {})

DefaultRuleCall == DefaultRuleStep /\ Call({}, {Instance}, {}, {})

Mut_marker_not_kept(m, r, a) ==
    /\ store_payment_reference(m, r, a)
    /\ Call({Merchant(m)}, {Rule(m)}, {Payment(m, r), PaymentCount(m)}, {})

\* A payment keeps the merchant's entries alive but not the instance: the
\* governance address is read without extending it.
StoreCall(m, r, a) ==
    /\ store_payment_reference(m, r, a)
    /\ Call({}, {Merchant(m), Rule(m)}, {Payment(m, r), PaymentCount(m)}, {})

Mut_quote_keeps_alive(m, a) ==
    calculate_fee_split(m, a) /\ Call({}, {Merchant(m), Rule(m)}, {}, {})

\* Open to everyone, hence neutral (issue #760).
QuoteCall(m, a) == calculate_fee_split(m, a) /\ Call({Merchant(m), Rule(m)}, {}, {}, {})

\* The counter is rewritten only when a record goes.
PruneCall(m, refs) ==
    LET pruned == {r \in refs : payments[m][r] # None}
    IN Call(PaymentsOf(m, refs), {Instance}, IF pruned = {} THEN {} ELSE {PaymentCount(m)},
            PaymentsOf(m, pruned))

PaymentCall ==
    \E m \in MerchantInputs :
       \/ \E a \in Amounts : QuoteCall(m, a)
       \/ \E a \in Amounts, r \in RefInputs : StoreCall(m, r, a)
       \/ \E s \in SignerVecs :
             \/ \E r \in RefInputs : prune_payment(s, m, r) /\ PruneCall(m, {r})
             \/ \E rs \in RefBatches : prune_payments(s, m, rs) /\ PruneCall(m, Range(rs))

Mut_page_not_extended(m, refs, signers) ==
    /\ assert_read_authorized(m, signers) /\ assert_payments_readable(m)
    /\ Len(refs) <= MAX_PAYMENTS_BATCH
    /\ Call({Merchant(m), ArchivedMerchant(m)} \cup PaymentsOf(m, Range(refs)),
            IF signers = <<>> THEN {} ELSE {Instance}, {}, {})

\* get_payments, and get_payment_reference for a single reference: every
\* record returned is extended (issue #703), the merchant's marker is not.
\* The admin path of the authorization reads the admin set.
ReadCall(m, refs, signers) ==
    /\ assert_read_authorized(m, signers) /\ assert_payments_readable(m)
    /\ Len(refs) <= MAX_PAYMENTS_BATCH
    /\ Call({Merchant(m), ArchivedMerchant(m)},
            PaymentsOf(m, Range(refs)) \cup (IF signers = <<>> THEN {} ELSE {Instance}), {}, {})

\* Queries.  get_settlement_rule needs no authorization, nor do the getters of
\* the admin set, the threshold, the governance and the recovery address, and
\* all of them keep alive what they return.  get_payment_count extends no
\* record, and as a read of the instance by an admin it is one of those.
QueryCall ==
    /\ UNCHANGED vars
    /\ \/ Initialised /\ Call({}, {Instance}, {}, {}) /\ UNCHANGED lastRead
       \/ \E m \in MerchantInputs :
             \/ Call({}, {Rule(m)}, {}, {}) /\ UNCHANGED lastRead
             \/ \E s \in SignerVecs, refs \in {<<r>> : r \in RefInputs} \cup RefBatches :
                   /\ ReadCall(m, refs, s)
                   /\ lastRead' = [lastRead EXCEPT ![m] = [r \in RefInputs |->
                         IF r \in Range(refs) /\ payments[m][r] # None THEN now ELSE @[r]]]

\* External: anyone pays to bring an archived entry back.
Restore(e) ==
    /\ Archived(e)
    /\ liveUntil' = [liveUntil EXCEPT ![e] = now + MIN_TTL]
    /\ UNCHANGED <<vars, lastRead>>

Forget == lastRead' = [m \in MerchantInputs |-> [r \in RefInputs |->
             IF payments'[m][r] = None THEN None ELSE lastRead[m][r]]]

LifeNext ==
    \/ (AdminCall \/ RecoveryCall \/ QueueCall \/ MerchantCall \/ DefaultRuleCall) /\ UNCHANGED lastRead
    \/ PaymentCall /\ Forget
    \/ QueryCall
    \/ EnvironmentStep /\ UNCHANGED <<liveUntil, lastRead>>
    \/ \E e \in Entry : Restore(e)

LifeSpec == LifeInit /\ [][LifeNext]_lifeVars

-----------------------------------------------------------------------------
\* Type: an entry has a lifetime exactly while the store holds it.
LifetimesTrackEntries ==
    /\ \A m \in Address :
          /\ Exists(Merchant(m)) <=> m \in merchants
          /\ Exists(ArchivedMerchant(m)) <=> m \in archived
          /\ Exists(Rule(m)) <=> rules[m] # None
          /\ payCount[m] # 0 => Exists(PaymentCount(m))
          /\ \A r \in REF : Exists(Payment(m, r)) <=> payments[m][r] # None
    /\ \A h \in HASH : Exists(ScheduledOperation(h)) <=> queue[h] # None
    /\ Exists(Instance)

\* A queued operation is still there when it matures, also with the longest
\* delay schedule accepts: MAX_TIMELOCK_DELAY_SECONDS is derived from the
\* slot's TTL bump.
SlotOutlivesDelay ==
    \A h \in HASH : queue[h] # None /\ now <= queue[h].execute_at => Live(ScheduledOperation(h))

\* For TTL_THRESHOLD ledgers after a payment none of the merchant's own entries
\* that the next one needs is archived: the marker, the rule and the counter,
\* whichever of register_merchant, set_settlement_rule, the timelocked arms,
\* pruning and restoration created or last moved them.  The instance, which a
\* payment needs too, is not among them (InstanceLivesWithTraffic).
ActiveMerchantStaysLive ==
    \A m \in MerchantInputs, r \in RefInputs :
       payments[m][r] # None /\ now <= payments[m][r].ledger + TTL_THRESHOLD
          => \A e \in {Merchant(m), Rule(m), PaymentCount(m), Payment(m, r)} : ~Archived(e)

\* A record read by the merchant or an admin, singly or in a batch, stays
\* available for TTL_THRESHOLD ledgers more.
ReadKeepsRecord ==
    \A m \in MerchantInputs, r \in RefInputs :
       lastRead[m][r] # None /\ now <= lastRead[m][r] + TTL_THRESHOLD => Live(Payment(m, r))

KeptBy(m) == {Merchant(m), ArchivedMerchant(m), PaymentCount(m)} \cup PaymentsOf(m, REF)

\* Natural eviction (storage.rs, is_merchant_registered_internal): when neither
\* the merchant nor the admins can sign, nothing a third party calls prolongs
\* the life of the merchant's marker, counter or records, except running a
\* matured operation the admins had queued.
StrangersNeverKeepAlive ==
    [][\A m \in MerchantInputs \ signing :
          QuorumLost /\ (\A h \in HASH : ~Consumed(h))
             => \A e \in KeptBy(m) : Live(e) => liveUntil'[e] = liveUntil[e]]_lifeVars

-----------------------------------------------------------------------------
(* Statements of the documentation that the code does not keep.             *)

\* ADR 003: payment records remain available for 30 days after the last read.
\* A read that finds more than the threshold left extends nothing.
ReadsGrantFullLife ==
    \A m \in MerchantInputs, r \in RefInputs :
       lastRead[m][r] # None /\ now <= lastRead[m][r] + TTL_BUMP => Live(Payment(m, r))

\* ADR 003: instance entries should never expire under normal operation.  A
\* contract that only takes payments lets its instance expire.
InstanceLivesWithTraffic ==
    \A m \in MerchantInputs, r \in RefInputs :
       payments[m][r] # None /\ now <= payments[m][r].ledger + READ_INSTANCE_TTL_THRESHOLD
          => Live(Instance)

\* storage-key-ownership.md: a rule is extended on rule writes and
\* authenticated reads.  get_settlement_rule asks for no authorization.
RuleNotKeptByStrangers ==
    [][\A m \in MerchantInputs \ signing :
          QuorumLost /\ (\A h \in HASH : ~Consumed(h)) /\ Live(Rule(m))
             => liveUntil'[Rule(m)] = liveUntil[Rule(m)]]_lifeVars
=============================================================================
