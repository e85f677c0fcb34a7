-------------------------- MODULE LifetimesProofs --------------------------
(***************************************************************************)
(* Proofs about the lifetimes of ledger entries, for every value of the    *)
(* constants, the thresholds and the network's minimum lifetime among them.*)
(***************************************************************************)
EXTENDS Lifetimes, SettlementSafetyProofs

-----------------------------------------------------------------------------
(* Keys and lifetimes.                                                      *)

\* Storage keys of different kinds or of different owners are different.
LEMMA KeyFields ==
    /\ Instance[1] = "Instance"
    /\ \A m : Merchant(m)[1] = "Merchant" /\ Merchant(m)[2] = m
    /\ \A m : ArchivedMerchant(m)[1] = "ArchivedMerchant" /\ ArchivedMerchant(m)[2] = m
    /\ \A m : Rule(m)[1] = "Rule" /\ Rule(m)[2] = m
    /\ \A m : PaymentCount(m)[1] = "PaymentCount" /\ PaymentCount(m)[2] = m
    /\ \A m, r : Payment(m, r)[1] = "Payment" /\ Payment(m, r)[2] = m /\ Payment(m, r)[3] = r
    /\ \A h : ScheduledOperation(h)[1] = "ScheduledOperation" /\ ScheduledOperation(h)[2] = h
  BY DEF Instance, Merchant, ArchivedMerchant, Rule, PaymentCount, Payment, ScheduledOperation

\* The keys of existing addresses, references and digests are entries.
LEMMA KeyEntries ==
    /\ Instance \in Entry
    /\ \A m \in Address : {Merchant(m), ArchivedMerchant(m), Rule(m), PaymentCount(m)} \subseteq Entry
    /\ \A m \in Address, r \in REF : Payment(m, r) \in Entry
    /\ \A h \in HASH : ScheduledOperation(h) \in Entry
  BY DEF Entry, PaymentsOf

\* Lifetimes are ledger numbers, and a read is remembered by its ledger.
LifeType == /\ liveUntil \in [Entry -> Nat \cup {None}]
            /\ lastRead \in [MerchantInputs -> [RefInputs -> Nat \cup {None}]]
            /\ now \in Nat

\* extend_ttl never shortens a lifetime and leaves at least the threshold.
LEMMA ExtendTtl ==
    ASSUME now \in Nat, NEW e, NEW until \in Nat
    PROVE  /\ extend_ttl(e, until) \in Nat /\ extend_ttl(e, until) # None
           /\ extend_ttl(e, until) >= until
           /\ e # Instance => extend_ttl(e, until) >= now + TTL_THRESHOLD
<1>1. Threshold(e) \in Nat /\ Bump(e) \in Nat /\ Threshold(e) <= Bump(e)
      /\ (e # Instance => Threshold(e) = TTL_THRESHOLD)
  BY LifetimeAssumption DEF Threshold, Bump
<1> HIDE DEF Threshold, Bump
<1>2. extend_ttl(e, until) \in Nat /\ extend_ttl(e, until) >= until
      /\ extend_ttl(e, until) >= now + Threshold(e)
  BY <1>1 DEF extend_ttl, MaxOf
<1> QED
  BY <1>1, <1>2, FeeAssumption

\* A new entry other than the instance lives for the whole TTL_BUMP.
LEMMA NewEntry ==
    ASSUME now \in Nat, NEW e, e # Instance
    PROVE  extend_ttl(e, now + MIN_TTL) >= now + TTL_BUMP
  BY LifetimeAssumption DEF extend_ttl, MaxOf, Threshold, Bump

\* What one invocation does to the lifetime of an entry.
LEMMA CallEffect ==
    ASSUME LifeType, NEW touched, NEW kept, NEW written, NEW removed,
           Call(touched, kept, written, removed), NEW e \in Entry
    PROVE  /\ liveUntil'[e] \in Nat \cup {None}
           /\ Exists(e)' <=> (Exists(e) \/ e \in written) /\ e \notin removed
           /\ Exists(e) /\ Exists(e)' => liveUntil'[e] >= liveUntil[e]
           /\ Exists(e)' /\ e # Instance /\ (e \in kept \cup written \/ ~Exists(e)) =>
                 liveUntil'[e] >= now + TTL_THRESHOLD
           /\ Exists(e)' /\ e # Instance /\ ~Exists(e) => liveUntil'[e] >= now + TTL_BUMP
           /\ e \notin kept \cup written \cup removed => liveUntil'[e] = liveUntil[e]
<1>1. liveUntil'[e] = IF e \in removed THEN None
                      ELSE IF e \in written /\ ~Exists(e) THEN extend_ttl(e, now + MIN_TTL)
                      ELSE IF e \in kept \cup written /\ Exists(e) THEN extend_ttl(e, liveUntil[e])
                      ELSE liveUntil[e]
  BY DEF Call
<1>2. now \in Nat /\ now + MIN_TTL \in Nat /\ None \notin Nat
  BY LifetimeAssumption, FeeAssumption DEF LifeType
<1>3. Exists(e) => liveUntil[e] \in Nat
  BY DEF LifeType, Exists
<1>4. Exists(e)' <=> liveUntil'[e] # None
  BY DEF Exists
<1>5. CASE e \in removed
  BY <1>1, <1>4, <1>5
<1>6. CASE e \notin removed /\ e \in written /\ ~Exists(e)
  <2>1. liveUntil'[e] = extend_ttl(e, now + MIN_TTL)
    BY <1>1, <1>6
  <2> QED
    BY <1>2, <1>4, <1>6, <2>1, ExtendTtl, NewEntry
<1>7. CASE e \notin removed /\ e \in kept \cup written /\ Exists(e)
  <2>1. liveUntil'[e] = extend_ttl(e, liveUntil[e])
    BY <1>1, <1>7
  <2> QED
    BY <1>2, <1>3, <1>4, <1>7, <2>1, ExtendTtl
<1>8. CASE e \notin removed /\ (e \notin kept \cup written \/ (e \notin written /\ ~Exists(e)))
  <2>1. liveUntil'[e] = liveUntil[e]
    BY <1>1, <1>8
  <2>2. Exists(e)' <=> Exists(e)
    BY <1>4, <2>1 DEF Exists
  <2> QED
    BY <1>3, <1>8, <2>1, <2>2 DEF LifeType
<1> QED
  BY <1>5, <1>6, <1>7, <1>8

-----------------------------------------------------------------------------
(* Steps.                                                                   *)

AnyCall == \E touched, kept, written, removed : Call(touched, kept, written, removed)

\* Every step is a step of the settlement contract or leaves it alone, and
\* lifetimes change only by a call or by the restoration of an archived entry.
LEMMA LifeSteps ==
    ASSUME [LifeNext]_lifeVars
    PROVE  /\ [Next]_vars
           /\ AnyCall \/ UNCHANGED liveUntil \/ \E e \in Entry : Restore(e)
<1>1. \A touched, kept, written, removed :
         Call(touched, kept, written, removed) => AnyCall
  BY DEF AnyCall
<1> HIDE DEF AnyCall
<1>2. CASE AdminCall \/ RecoveryCall \/ DefaultRuleCall
  BY <1>1, <1>2 DEF AdminCall, RecoveryCall, DefaultRuleCall, Next
<1>3. CASE QueueCall
  <2>1. QueueStep
    BY <1>3 DEF QueueCall, QueueStep, ScheduleCall
  <2>2. \A op : ArmCall(op) => AnyCall
    BY <1>1 DEF ArmCall
  <2> QED
    BY <1>1, <1>3, <2>1, <2>2 DEF QueueCall, ScheduleCall, Next
<1>4. CASE MerchantCall
  <2>1. MerchantStep
    BY <1>4 DEF MerchantCall, MerchantStep
  <2> QED
    BY <1>1, <1>4, <2>1 DEF MerchantCall, Next
<1>5. CASE PaymentCall
  <2>1. PaymentStep
    BY <1>5 DEF PaymentCall, QuoteCall, StoreCall, PaymentStep
  <2> QED
    BY <1>1, <1>5, <2>1 DEF PaymentCall, QuoteCall, StoreCall, PruneCall, Next
<1>6. CASE QueryCall
  BY <1>1, <1>6 DEF QueryCall, ReadCall
<1>7. CASE EnvironmentStep /\ UNCHANGED <<liveUntil, lastRead>>
  BY <1>7 DEF Next
<1>8. ASSUME NEW e \in Entry, Restore(e) PROVE UNCHANGED vars
  BY <1>8 DEF Restore
<1>9. CASE UNCHANGED lifeVars
  BY <1>9 DEF lifeVars
<1> QED
  BY <1>2, <1>3, <1>4, <1>5, <1>6, <1>7, <1>8, <1>9 DEF LifeNext

\* The lifetimes implement the settlement contract, so all that is proved of
\* it holds of its entries.
LEMMA LifeImplements == LifeSpec => Spec
<1>1. LifeInit => Init
  BY DEF LifeInit
<1> QED
  BY <1>1, LifeSteps, PTL DEF LifeSpec, Spec

\* No step shortens the life of an entry that goes on existing, and an entry
\* that comes into being lives for TTL_BUMP.
LEMMA LifeGrows ==
    ASSUME LifeType, [LifeNext]_lifeVars
    PROVE  /\ liveUntil' \in [Entry -> Nat \cup {None}]
           /\ \A e \in Entry :
                 /\ Exists(e) /\ Exists(e)' => liveUntil'[e] >= liveUntil[e]
                 /\ Exists(e)' /\ ~Exists(e) /\ e # Instance => liveUntil'[e] >= now + TTL_BUMP
<1>1. CASE AnyCall
  <2>1. PICK touched, kept, written, removed : Call(touched, kept, written, removed)
    BY <1>1 DEF AnyCall
  <2>2. liveUntil' = [e \in Entry |-> liveUntil'[e]]
    BY <2>1 DEF Call
  <2>3. \A e \in Entry :
           /\ liveUntil'[e] \in Nat \cup {None}
           /\ Exists(e) /\ Exists(e)' => liveUntil'[e] >= liveUntil[e]
           /\ Exists(e)' /\ ~Exists(e) /\ e # Instance => liveUntil'[e] >= now + TTL_BUMP
    BY <2>1, CallEffect
  <2> QED
    BY <2>2, <2>3
<1>2. CASE UNCHANGED liveUntil
  BY <1>2 DEF LifeType, Exists
<1>3. ASSUME NEW e \in Entry, Restore(e)
      PROVE  /\ liveUntil' \in [Entry -> Nat \cup {None}]
             /\ \A f \in Entry :
                   /\ Exists(f) <=> Exists(f)'
                   /\ Exists(f) => liveUntil'[f] >= liveUntil[f]
  <2>1. /\ liveUntil' = [liveUntil EXCEPT ![e] = now + MIN_TTL]
        /\ Exists(e) /\ now > liveUntil[e]
    BY <1>3 DEF Restore, Archived
  <2>2. now \in Nat /\ MIN_TTL \in Nat /\ now + MIN_TTL # None
    BY LifetimeAssumption, FeeAssumption DEF LifeType
  <2> QED
    BY <2>1, <2>2 DEF Exists, LifeType
<1> QED
  BY <1>1, <1>2, <1>3, LifeSteps

\* The clock does not run backwards, and a read is remembered by its ledger.
LEMMA LifeTypeStep ==
    ASSUME LifeType, TypeOK, TypeOK', [LifeNext]_lifeVars
    PROVE  LifeType'
<1>1. now' \in Nat
  BY DEF TypeOK, EnvType
<1>2. lastRead' \in [MerchantInputs -> [RefInputs -> Nat \cup {None}]]
  <2>1. CASE UNCHANGED lastRead
    BY <2>1 DEF LifeType
  <2>2. CASE Forget
    BY <2>2 DEF Forget, LifeType
  <2>3. ASSUME NEW m \in MerchantInputs, NEW refs,
               lastRead' = [lastRead EXCEPT ![m] = [r \in RefInputs |->
                  IF r \in Range(refs) /\ payments[m][r] # None THEN now ELSE @[r]]]
        PROVE  lastRead' \in [MerchantInputs -> [RefInputs -> Nat \cup {None}]]
    BY <2>3 DEF LifeType
  <2> QED
    BY <2>1, <2>2, <2>3 DEF LifeNext, QueryCall, Restore, lifeVars
<1> QED
  BY <1>1, <1>2, LifeGrows DEF LifeType

\* Lifetimes are ledger numbers in every behaviour.
LEMMA LifeTypeCorrect == LifeSpec => [](LifeType /\ TypeOK)
<1>1. LifeInit => LifeType
  BY LifetimeAssumption DEF LifeInit, Init, LifeType
<1>2. LifeSpec => []TypeOK
  BY LifeImplements, TypeCorrect, PTL
<1> QED
  BY <1>1, <1>2, LifeTypeStep, PTL DEF LifeSpec

-----------------------------------------------------------------------------
(* Entries and their lifetimes.                                             *)

\* What the step does to the store is what an invocation that writes and
\* removes those entries does.
StoreFollows(written, removed) ==
    /\ \A m \in Address :
          /\ m \in merchants' <=>
                (m \in merchants \/ Merchant(m) \in written) /\ Merchant(m) \notin removed
          /\ m \in archived' <=>
                (m \in archived \/ ArchivedMerchant(m) \in written)
                   /\ ArchivedMerchant(m) \notin removed
          /\ rules'[m] # None <=>
                (rules[m] # None \/ Rule(m) \in written) /\ Rule(m) \notin removed
          /\ payCount'[m] # 0 =>
                (payCount[m] # 0 \/ PaymentCount(m) \in written) /\ PaymentCount(m) \notin removed
          /\ \A r \in REF :
                payments'[m][r] # None <=>
                   (payments[m][r] # None \/ Payment(m, r) \in written)
                      /\ Payment(m, r) \notin removed
    /\ \A h \in HASH :
          queue'[h] # None <=>
             (queue[h] # None \/ ScheduledOperation(h) \in written)
                /\ ScheduledOperation(h) \notin removed
    /\ Instance \notin removed

\* An invocation that follows the store keeps lifetimes and entries together.
LEMMA CallTracks ==
    ASSUME LifeType, LifetimesTrackEntries, NEW touched, NEW kept, NEW written, NEW removed,
           Call(touched, kept, written, removed), StoreFollows(written, removed)
    PROVE  LifetimesTrackEntries'
<1>1. \A e \in Entry : Exists(e)' <=> (Exists(e) \/ e \in written) /\ e \notin removed
  BY CallEffect
<1>2. /\ Exists(Instance)'
      /\ \A m \in Address :
            /\ Exists(Merchant(m))' <=> m \in merchants'
            /\ Exists(ArchivedMerchant(m))' <=> m \in archived'
            /\ Exists(Rule(m))' <=> rules'[m] # None
            /\ payCount'[m] # 0 => Exists(PaymentCount(m))'
      /\ \A m \in Address, r \in REF : Exists(Payment(m, r))' <=> payments'[m][r] # None
      /\ \A h \in HASH : Exists(ScheduledOperation(h))' <=> queue'[h] # None
  BY <1>1, KeyEntries DEF StoreFollows, LifetimesTrackEntries
<1> QED
  BY <1>2
  DEF LifetimesTrackEntries, Merchant, ArchivedMerchant, Rule, PaymentCount, Payment,
      ScheduledOperation, Instance, Exists

storeVars == <<registryVars, rules, payVars, queueVars>>

\* An invocation that writes and removes nothing follows a store that stays.
LEMMA StoreKept == ASSUME UNCHANGED storeVars PROVE StoreFollows({}, {})
  BY DEF StoreFollows, storeVars, registryVars, payVars, queueVars

\* The shared writes of the registry and the rules, in a step whose queue
\* loses the slots of the digests consumed, follow their entries.
LEMMA RegistryFollows ==
    ASSUME TypeOK, NEW slots \in SUBSET HASH,
           NEW freed, freed = {ScheduledOperation(h) : h \in slots},
           \A h \in HASH : queue'[h] # None <=> queue[h] # None /\ h \notin slots,
           NEW m \in Address
    PROVE  /\ add_merchant(m) => StoreFollows({Merchant(m)}, freed \cup {ArchivedMerchant(m)})
           /\ remove_merchant(m) =>
                 StoreFollows({ArchivedMerchant(m)}, freed \cup {Merchant(m), Rule(m)})
           /\ remove_rule(m) => StoreFollows({}, freed \cup {Rule(m)})
           /\ \A rule \in SettlementRule : store_rule(m, rule) => StoreFollows({Rule(m)}, freed)
           /\ UNCHANGED <<registryVars, rules, payVars>> => StoreFollows({}, freed)
<1>1. \A h \in HASH : ScheduledOperation(h) \in freed <=> h \in slots
  BY KeyFields
<1>2. \A e \in freed : e[1] = "ScheduledOperation"
  BY KeyFields
<1> USE KeyFields DEF StoreFollows
<1>3. ASSUME add_merchant(m)
      PROVE  StoreFollows({Merchant(m)}, freed \cup {ArchivedMerchant(m)})
  BY <1>1, <1>2, <1>3 DEF add_merchant, ruleVars, payVars
<1>4. ASSUME remove_merchant(m)
      PROVE  StoreFollows({ArchivedMerchant(m)}, freed \cup {Merchant(m), Rule(m)})
  BY <1>1, <1>2, <1>4 DEF remove_merchant, payVars, TypeOK, RuleType
<1>5. ASSUME remove_rule(m)
      PROVE  StoreFollows({}, freed \cup {Rule(m)})
  BY <1>1, <1>2, <1>5 DEF remove_rule, registryVars, payVars, TypeOK, RuleType
<1>6. ASSUME NEW rule \in SettlementRule, store_rule(m, rule)
      PROVE  StoreFollows({Rule(m)}, freed)
  BY <1>1, <1>2, <1>6, NoneAssumption DEF store_rule, registryVars, payVars, TypeOK, RuleType
<1>7. ASSUME UNCHANGED <<registryVars, rules, payVars>> PROVE StoreFollows({}, freed)
  BY <1>1, <1>2, <1>7 DEF registryVars, payVars
<1> QED
  BY <1>3, <1>4, <1>5, <1>6, <1>7

\* The direct calls of the registry and the rules.
LEMMA MerchantCallTracks ==
    ASSUME TypeOK, LifeType, LifetimesTrackEntries, MerchantCall
    PROVE  LifetimesTrackEntries'
<1> USE InputAssumption
<1>1. UNCHANGED queueVars
  BY DEF MerchantCall, get_effective_rule, register_merchant, unregister_merchant,
         clear_settlement_rule, set_settlement_rule
<1>2. ASSUME NEW m \in Address
      PROVE  /\ add_merchant(m) => StoreFollows({Merchant(m)}, {ArchivedMerchant(m)})
             /\ remove_merchant(m) => StoreFollows({ArchivedMerchant(m)}, {Merchant(m), Rule(m)})
             /\ remove_rule(m) => StoreFollows({}, {Rule(m)})
             /\ \A rule \in SettlementRule : store_rule(m, rule) => StoreFollows({Rule(m)}, {})
             /\ UNCHANGED <<registryVars, rules, payVars>> => StoreFollows({}, {})
  <2>1. \A h \in HASH : queue'[h] # None <=> queue[h] # None /\ h \notin {}
    BY <1>1 DEF queueVars
  <2>2. {} \in SUBSET HASH /\ {ScheduledOperation(h) : h \in {}} = {}
    OBVIOUS
  <2>3. \A S : {} \cup S = S
    OBVIOUS
  <2>4. /\ add_merchant(m) => StoreFollows({Merchant(m)}, {} \cup {ArchivedMerchant(m)})
        /\ remove_merchant(m) =>
              StoreFollows({ArchivedMerchant(m)}, {} \cup {Merchant(m), Rule(m)})
        /\ remove_rule(m) => StoreFollows({}, {} \cup {Rule(m)})
        /\ \A rule \in SettlementRule : store_rule(m, rule) => StoreFollows({Rule(m)}, {})
        /\ UNCHANGED <<registryVars, rules, payVars>> => StoreFollows({}, {})
    BY <2>1, <2>2, RegistryFollows
  <2> QED
    BY <2>3, <2>4
<1>3. ASSUME NEW m \in MerchantInputs, get_effective_rule(m), Call({Rule(m)}, {}, {}, {})
      PROVE  LifetimesTrackEntries'
  BY <1>2, <1>3, CallTracks DEF get_effective_rule
<1>4. ASSUME NEW m \in MerchantInputs, NEW s \in SignerVecs, register_merchant(s, m),
             Call({}, {Instance}, {Merchant(m)}, {ArchivedMerchant(m)})
      PROVE  LifetimesTrackEntries'
  BY <1>2, <1>4, CallTracks DEF register_merchant
<1>5. ASSUME NEW m \in MerchantInputs, NEW s \in SignerVecs, unregister_merchant(s, m),
             Call({}, {Instance}, {ArchivedMerchant(m)}, {Merchant(m), Rule(m)})
      PROVE  LifetimesTrackEntries'
  BY <1>2, <1>5, CallTracks DEF unregister_merchant
<1>6. ASSUME NEW m \in MerchantInputs, NEW s \in SignerVecs, clear_settlement_rule(s, m),
             Call({}, {Instance}, {}, {Rule(m)})
      PROVE  LifetimesTrackEntries'
  BY <1>2, <1>6, CallTracks DEF clear_settlement_rule
<1>7. ASSUME NEW m \in MerchantInputs, NEW s \in SignerVecs, NEW rule \in RuleInputs,
             set_settlement_rule(s, m, rule),
             Call({}, {Instance, Merchant(m)}, {Rule(m)}, {})
      PROVE  LifetimesTrackEntries'
  BY <1>2, <1>7, CallTracks DEF set_settlement_rule
<1> QED
  BY <1>3, <1>4, <1>5, <1>6, <1>7 DEF MerchantCall

\* The arms of execute: each removes its slot with the entries of its effect.
LEMMA ArmCallTracks ==
    ASSUME TypeOK, LifeType, LifetimesTrackEntries, NEW op \in OpInputs, execute(op), ArmCall(op)
    PROVE  LifetimesTrackEntries'
<1> DEFINE slot == ScheduledOperation(Hash(op))
<1>1. \A h \in HASH : queue'[h] # None <=> queue[h] # None /\ h \notin {Hash(op)}
  BY OperationFields DEF execute, consume_scheduled_operation, TypeOK, QueueType
<1>2. {Hash(op)} \in SUBSET HASH /\ {ScheduledOperation(h) : h \in {Hash(op)}} = {slot}
  BY OperationFields
<1> HIDE DEF slot
<1>3. ASSUME NEW m \in Address
      PROVE  /\ add_merchant(m) => StoreFollows({Merchant(m)}, {slot, ArchivedMerchant(m)})
             /\ remove_merchant(m) =>
                   StoreFollows({ArchivedMerchant(m)}, {slot, Merchant(m), Rule(m)})
             /\ remove_rule(m) => StoreFollows({}, {slot, Rule(m)})
             /\ \A rule \in SettlementRule : store_rule(m, rule) => StoreFollows({Rule(m)}, {slot})
             /\ UNCHANGED <<registryVars, rules, payVars>> => StoreFollows({}, {slot})
  <2>1. /\ {slot} \cup {ArchivedMerchant(m)} = {slot, ArchivedMerchant(m)}
        /\ {slot} \cup {Merchant(m), Rule(m)} = {slot, Merchant(m), Rule(m)}
        /\ {slot} \cup {Rule(m)} = {slot, Rule(m)}
    OBVIOUS
  <2>2. /\ add_merchant(m) => StoreFollows({Merchant(m)}, {slot} \cup {ArchivedMerchant(m)})
        /\ remove_merchant(m) =>
              StoreFollows({ArchivedMerchant(m)}, {slot} \cup {Merchant(m), Rule(m)})
        /\ remove_rule(m) => StoreFollows({}, {slot} \cup {Rule(m)})
        /\ \A rule \in SettlementRule : store_rule(m, rule) => StoreFollows({Rule(m)}, {slot})
        /\ UNCHANGED <<registryVars, rules, payVars>> => StoreFollows({}, {slot})
    BY <1>1, <1>2, RegistryFollows
  <2> QED
    BY <2>1, <2>2
<1>4. /\ op.tag = "RegisterMerchant" => add_merchant(op.merchant)
      /\ op.tag = "UnregisterMerchant" => remove_merchant(op.merchant)
      /\ op.tag = "SetSettlementRule" => store_rule(op.merchant, op.rule)
      /\ op.tag = "ClearSettlementRule" => remove_rule(op.merchant)
      /\ op.tag \in {"TransferAdmin", "SetDefaultRule", "UpdateGovernance", "CancelRecovery",
                     "Upgrade"} => UNCHANGED <<registryVars, rules, payVars>>
  BY DEF execute, run_operation, _register_merchant, _unregister_merchant,
         _set_settlement_rule, _clear_settlement_rule, _set_default_rule, _transfer_admin,
         _update_governance, _cancel_recovery, _upgrade, store_default_rule, ruleVars
<1>5. ASSUME NEW touched, NEW kept, NEW written, NEW removed,
             Call(touched, kept, written, removed), StoreFollows(written, removed)
      PROVE  LifetimesTrackEntries'
  BY <1>5, CallTracks
<1>7. CASE op.tag = "RegisterMerchant"
           /\ Call({}, {Instance}, {Merchant(op.merchant)}, {slot, ArchivedMerchant(op.merchant)})
  BY <1>3, <1>4, <1>5, <1>7, OperationFields
<1>8. CASE op.tag = "UnregisterMerchant"
           /\ Call({}, {}, {ArchivedMerchant(op.merchant)},
                   {slot, Merchant(op.merchant), Rule(op.merchant)})
  BY <1>3, <1>4, <1>5, <1>8, OperationFields
<1>9. CASE op.tag = "SetSettlementRule"
           /\ Call({}, {Instance, Merchant(op.merchant)}, {Rule(op.merchant)}, {slot})
  BY <1>3, <1>4, <1>5, <1>9, OperationFields
<1>10. CASE op.tag = "ClearSettlementRule" /\ Call({}, {}, {}, {slot, Rule(op.merchant)})
  BY <1>3, <1>4, <1>5, <1>10, OperationFields
<1>11. CASE op.tag \in {"TransferAdmin", "SetDefaultRule", "UpdateGovernance", "CancelRecovery",
                        "Upgrade"}
  <2>1. StoreFollows({}, {slot})
    BY <1>3, <1>4, <1>11, StorageAssumption
  <2>2. \E touched, kept : Call(touched, kept, {}, {slot})
    BY <1>11 DEF ArmCall, slot
  <2> QED
    BY <1>5, <2>1, <2>2
<1> QED
  BY <1>7, <1>8, <1>9, <1>10, <1>11 DEF ArmCall, slot

\* The timelock calls.
LEMMA QueueCallTracks ==
    ASSUME TypeOK, LifeType, LifetimesTrackEntries, QueueCall
    PROVE  LifetimesTrackEntries'
<1> USE KeyFields
<1>1. ASSUME NEW op \in OpInputs, dry_run(op), Call({ScheduledOperation(Hash(op))}, {}, {}, {})
      PROVE  LifetimesTrackEntries'
  <2>1. UNCHANGED storeVars
    BY <1>1 DEF dry_run, vars, storeVars, ruleVars
  <2> QED
    BY <1>1, <2>1, StoreKept, CallTracks
<1>2. ASSUME NEW op \in OpInputs, NEW s \in SignerVecs, NEW d \in Delays, ScheduleCall(s, op, d)
      PROVE  LifetimesTrackEntries'
  <2>1. /\ UNCHANGED notQueueVars
        /\ queue' = [queue EXCEPT ![Hash(op)] = [operation_xdr |-> op, execute_at |-> now + d]]
        /\ Call({}, {Instance}, {ScheduledOperation(Hash(op))}, {})
    BY <1>2 DEF ScheduleCall, schedule
  <2>2. [operation_xdr |-> op, execute_at |-> now + d] # None
    BY InputAssumption, NoneAssumption DEF ScheduledOp, LifeType
  <2>3. \A h \in HASH : queue'[h] # None <=> queue[h] # None \/ h = Hash(op)
    BY <2>1, <2>2 DEF TypeOK, QueueType
  <2>4. StoreFollows({ScheduledOperation(Hash(op))}, {})
    BY <2>1, <2>3 DEF notQueueVars, StoreFollows, registryVars, ruleVars, payVars
  <2> QED
    BY <2>1, <2>4, CallTracks
<1>3. ASSUME NEW op \in OpInputs, NEW s \in SignerVecs, cancel(s, op),
             Call({}, {Instance}, {}, {ScheduledOperation(Hash(op))})
      PROVE  LifetimesTrackEntries'
  <2>1. /\ UNCHANGED notQueueVars
        /\ queue' = [queue EXCEPT ![Hash(op)] = None]
    BY <1>3 DEF cancel, consume_scheduled_operation
  <2>2. \A h \in HASH : queue'[h] # None <=> queue[h] # None /\ h # Hash(op)
    BY <2>1 DEF TypeOK, QueueType
  <2>3. StoreFollows({}, {ScheduledOperation(Hash(op))})
    BY <2>1, <2>2 DEF notQueueVars, StoreFollows, registryVars, ruleVars, payVars
  <2> QED
    BY <1>3, <2>3, CallTracks
<1>4. ASSUME NEW s \in SignerVecs, NEW ops \in OpBatches, cancel_all(s, ops),
             Call({ScheduledOperation(Hash(ops[i])) : i \in DOMAIN ops}, {Instance}, {},
                  {ScheduledOperation(h) : h \in {k \in HASH : Consumed(k)}})
      PROVE  LifetimesTrackEntries'
  <2> DEFINE gone == {ScheduledOperation(h) : h \in {k \in HASH : Consumed(k)}}
  <2>1. /\ UNCHANGED notQueueVars
        /\ \A h \in HASH : queue'[h] # None => queue[h] # None
    BY <1>4 DEF cancel_all
  <2>2. /\ \A h \in HASH : ScheduledOperation(h) \in gone <=> Consumed(h)
        /\ \A e \in gone : e[1] = "ScheduledOperation"
    OBVIOUS
  <2> HIDE DEF gone
  <2>3. \A h \in HASH : queue'[h] # None <=> queue[h] # None /\ ScheduledOperation(h) \notin gone
    BY <2>1, <2>2 DEF Consumed
  <2>4. StoreFollows({}, gone)
    BY <2>1, <2>2, <2>3 DEF notQueueVars, StoreFollows, registryVars, ruleVars, payVars
  <2> QED
    BY <1>4, <2>4, CallTracks DEF gone
<1> QED
  BY <1>1, <1>2, <1>3, <1>4, ArmCallTracks DEF QueueCall

\* Pruning removes the entries of the records that go.
LEMMA PruneCallTracks ==
    ASSUME TypeOK, LifeType, LifetimesTrackEntries, NEW m \in Address, NEW refs \in SUBSET REF,
           UNCHANGED notPayVars,
           payments' = [payments EXCEPT ![m] = [r \in REF |-> IF r \in refs THEN None ELSE @[r]]],
           decrement_payment_count(m, Cardinality({r \in refs : payments[m][r] # None})),
           PruneCall(m, refs)
    PROVE  LifetimesTrackEntries'
<1> USE KeyFields
<1> DEFINE pruned == {r \in refs : payments[m][r] # None}
           gone == PaymentsOf(m, pruned)
           counter == IF pruned = {} THEN {} ELSE {PaymentCount(m)}
<1>1. Call(PaymentsOf(m, refs), {Instance}, counter, gone)
  BY DEF PruneCall
<1>2. /\ \A n \in Address, r \in REF : Payment(n, r) \in gone <=> n = m /\ r \in pruned
      /\ \A e \in gone : e[1] = "Payment"
      /\ \A e \in counter : e[1] = "PaymentCount"
  BY DEF PaymentsOf
<1>3. \A n \in Address, r \in REF :
         payments'[n][r] # None <=> payments[n][r] # None /\ ~(n = m /\ r \in pruned)
  BY DEF TypeOK, PayType
<1>4. \A n \in Address : payCount'[n] # 0 => payCount[n] # 0
  <2>1. IsFiniteSet(pruned) /\ Cardinality(pruned) \in Nat
    <3>1. pruned \in SUBSET REF
      OBVIOUS
    <3> QED
      BY <3>1, StorageAssumption, FS_Subset, FS_CardinalityType
  <2>2. payCount' = [payCount EXCEPT ![m] = SaturatingSub(@, Cardinality(pruned))]
    BY DEF decrement_payment_count
  <2> HIDE DEF pruned
  <2>3. payCount \in [Address -> Nat]
    BY StorageAssumption DEF TypeOK, PayType
  <2>4. payCount[m] = 0 => SaturatingSub(payCount[m], Cardinality(pruned)) = 0
    BY <2>1 DEF SaturatingSub
  <2> QED
    BY <2>2, <2>3, <2>4
<1> HIDE DEF gone, counter
<1>5. StoreFollows(counter, gone)
  BY <1>2, <1>3, <1>4 DEF StoreFollows, notPayVars, registryVars, queueVars
<1> QED
  BY <1>1, <1>5, CallTracks

\* The payment calls.
LEMMA PaymentCallTracks ==
    ASSUME TypeOK, TypeOK', LifeType, LifetimesTrackEntries, PaymentCall
    PROVE  LifetimesTrackEntries'
<1> USE InputAssumption
<1>1. ASSUME NEW m \in MerchantInputs, NEW a \in Amounts, QuoteCall(m, a)
      PROVE  LifetimesTrackEntries'
  <2>1. UNCHANGED storeVars /\ Call({Merchant(m), Rule(m)}, {}, {}, {})
    BY <1>1 DEF QuoteCall, calculate_fee_split, notPayVars, storeVars
  <2> QED
    BY <2>1, StoreKept, CallTracks
<1>2. ASSUME NEW m \in MerchantInputs, NEW a \in Amounts, NEW r \in RefInputs, StoreCall(m, r, a)
      PROVE  LifetimesTrackEntries'
  <2> DEFINE record == payment_record(a, effective_rule(m))
  <2>1. /\ UNCHANGED notPayVars
        /\ payments' = [payments EXCEPT ![m][r] = record]
        /\ payCount' = [payCount EXCEPT ![m] = @ + 1]
        /\ Call({}, {Merchant(m), Rule(m)}, {Payment(m, r), PaymentCount(m)}, {})
    BY <1>2 DEF StoreCall, store_payment_reference, increment_payment_count
  <2>2. record # None
    <3>1. effective_rule(m) \in SettlementRule
      BY <1>2, EffectiveRuleType DEF StoreCall, store_payment_reference, TypeOK
    <3>2. record \in PaymentRecord
      BY <1>2, <3>1, PaymentRecordType DEF StoreCall, store_payment_reference, TypeOK
    <3> QED
      BY <3>2, NoneAssumption
  <2> HIDE DEF record
  <2>3. \A n \in Address, q \in REF :
           payments'[n][q] # None <=> payments[n][q] # None \/ (n = m /\ q = r)
    BY <2>1, <2>2 DEF TypeOK, PayType
  <2>4. \A n \in Address : payCount'[n] # 0 => payCount[n] # 0 \/ n = m
    BY <2>1 DEF TypeOK, PayType
  <2>5. StoreFollows({Payment(m, r), PaymentCount(m)}, {})
    BY <2>1, <2>3, <2>4, KeyFields DEF StoreFollows, notPayVars, registryVars, queueVars
  <2> QED
    BY <2>1, <2>5, CallTracks
<1>3. ASSUME NEW m \in MerchantInputs, NEW s \in SignerVecs, NEW r \in RefInputs,
             prune_payment(s, m, r), PruneCall(m, {r})
      PROVE  LifetimesTrackEntries'
  <2>1. m \in Address /\ {r} \in SUBSET REF /\ r \in REF
    OBVIOUS
  <2>2. UNCHANGED notPayVars
    BY <1>3 DEF prune_payment
  <2> QED
    BY <1>3, <2>1, <2>2, PruneOneIsBatch, PruneCallTracks
<1>4. ASSUME NEW m \in MerchantInputs, NEW s \in SignerVecs, NEW refs \in RefBatches,
             prune_payments(s, m, refs), PruneCall(m, Range(refs))
      PROVE  LifetimesTrackEntries'
  <2>1. m \in Address /\ Range(refs) \in SUBSET REF
    BY DEF Range
  <2> QED
    BY <1>4, <2>1, PruneCallTracks DEF prune_payments
<1> QED
  BY <1>1, <1>2, <1>3, <1>4 DEF PaymentCall

\* A call that changes no entry of the store, the restoration of an archived
\* entry and the steps of the environment.
LEMMA OtherTracks ==
    ASSUME LifeType, LifetimesTrackEntries,
           \/ AdminCall \/ RecoveryCall \/ DefaultRuleCall \/ QueryCall
           \/ UNCHANGED <<storeVars, liveUntil>>
           \/ \E e \in Entry : Restore(e)
    PROVE  LifetimesTrackEntries'
<1>1. ASSUME NEW touched, NEW kept, Call(touched, kept, {}, {}), UNCHANGED storeVars
      PROVE  LifetimesTrackEntries'
  BY <1>1, StoreKept, CallTracks
<1>2. CASE AdminCall
  <2>1. UNCHANGED storeVars
    BY <1>2
    DEF AdminCall, AdminStep, init, update_governance, update_recovery_address, transfer_admin,
        change_threshold, upgrade, pause, unpause, set_paused, migrate, storeVars, ruleVars
  <2>2. \E touched, kept : Call(touched, kept, {}, {})
    BY <1>2 DEF AdminCall
  <2> QED
    BY <1>1, <2>1, <2>2
<1>3. CASE RecoveryCall
  BY <1>1, <1>3, RecoveryStepFrame DEF RecoveryCall, storeVars, ruleVars
<1>4. CASE DefaultRuleCall
  BY <1>1, <1>4
  DEF DefaultRuleCall, DefaultRuleStep, set_default_rule, store_default_rule, storeVars
<1>5. CASE QueryCall
  <2>1. UNCHANGED storeVars
    BY <1>5 DEF QueryCall, vars, storeVars, ruleVars
  <2>2. \E touched, kept : Call(touched, kept, {}, {})
    BY <1>5 DEF QueryCall, ReadCall
  <2> QED
    BY <1>1, <2>1, <2>2
<1>6. CASE UNCHANGED <<storeVars, liveUntil>>
  BY <1>6
  DEF LifetimesTrackEntries, Exists, storeVars, registryVars, payVars, queueVars,
      Merchant, ArchivedMerchant, Rule, PaymentCount, Payment, ScheduledOperation, Instance
<1>7. ASSUME NEW e \in Entry, Restore(e) PROVE LifetimesTrackEntries'
  <2>1. /\ liveUntil' = [liveUntil EXCEPT ![e] = now + MIN_TTL]
        /\ Exists(e)
        /\ UNCHANGED storeVars
    BY <1>7 DEF Restore, Archived, vars, storeVars, ruleVars
  <2>2. now + MIN_TTL # None
    BY LifetimeAssumption, FeeAssumption DEF LifeType
  <2>3. \A f \in Entry : liveUntil'[f] # None <=> liveUntil[f] # None
    BY <2>1, <2>2 DEF LifeType, Exists
  <2> QED
    BY <2>1, <2>3, KeyEntries
    DEF LifetimesTrackEntries, Exists, storeVars, registryVars, payVars, queueVars,
        Merchant, ArchivedMerchant, Rule, PaymentCount, Payment, ScheduledOperation, Instance
<1> QED
  BY <1>2, <1>3, <1>4, <1>5, <1>6, <1>7

\* In every behaviour an entry has a lifetime exactly while the store holds
\* what it stands for: no entry point forgets one it writes or removes.
THEOREM LifetimesTrackEntriesCorrect == LifeSpec => []LifetimesTrackEntries
<1>1. ASSUME LifeInit PROVE LifetimesTrackEntries
  <2>1. \A e \in Entry : Exists(e) <=> e = Instance
    BY <1>1, LifetimeAssumption, FeeAssumption DEF LifeInit, Exists
  <2> QED
    BY <1>1, <2>1, KeyEntries, KeyFields DEF LifeInit, Init, LifetimesTrackEntries
<1>2. ASSUME TypeOK, TypeOK', LifeType, LifetimesTrackEntries, [LifeNext]_lifeVars
      PROVE  LifetimesTrackEntries'
  <2>1. EnvironmentStep => UNCHANGED storeVars
    BY DEF EnvironmentStep, Tick, GovernanceChanges, LoseKeys, contractVars, storeVars, ruleVars
  <2>2. UNCHANGED lifeVars => UNCHANGED <<storeVars, liveUntil>>
    BY DEF lifeVars, vars, storeVars, ruleVars
  <2> QED
    BY <1>2, <2>1, <2>2, OtherTracks, QueueCallTracks, MerchantCallTracks, PaymentCallTracks
    DEF LifeNext
<1> QED
  BY <1>1, <1>2, LifeTypeCorrect, PTL DEF LifeSpec

-----------------------------------------------------------------------------
(* What stays alive.                                                        *)

\* A queued operation is in the ledger until it matures, provided the longest
\* delay does not exceed the lifetime of a slot: policy.rs derives
\* MAX_TIMELOCK_DELAY_SECONDS from that lifetime.
THEOREM SlotOutlivesDelayCorrect ==
    ASSUME MAX_TIMELOCK <= TTL_BUMP
    PROVE  LifeSpec => []SlotOutlivesDelay
<1> DEFINE Inv == \A h \in HASH : queue[h] # None =>
                     liveUntil[ScheduledOperation(h)] >= queue[h].execute_at
<1>1. LifeInit => Inv
  BY DEF LifeInit, Init
<1>2. ASSUME TypeOK, TypeOK', LifeType, LifeType', LifetimesTrackEntries,
             LifetimesTrackEntries', Inv, [LifeNext]_lifeVars
      PROVE  Inv'
  <2>1. SUFFICES ASSUME NEW h \in HASH, queue'[h] # None
                 PROVE  liveUntil'[ScheduledOperation(h)] >= queue'[h].execute_at
    BY DEF ScheduledOperation
  <2> DEFINE slot == ScheduledOperation(h)
  <2>2. /\ slot \in Entry /\ slot # Instance
        /\ Exists(slot)' /\ (Exists(slot) <=> queue[h] # None)
    BY <1>2, <2>1, KeyEntries, KeyFields DEF LifetimesTrackEntries, ScheduledOperation, Exists
  <2>3. queue'[h].execute_at \in Nat /\ liveUntil'[slot] \in Nat
    BY <1>2, <2>1, <2>2 DEF TypeOK, QueueType, ScheduledOp, LifeType, Exists
  <2>4. CASE queue[h] # None
    <3>1. queue'[h] = queue[h]
      BY <1>2, <2>1, <2>4, LifeSteps, QueueFootprint, OperationFields
      DEF Fills, Frees, Queued, queueVars, TypeOK, QueueType
    <3>2. liveUntil'[slot] >= liveUntil[slot] /\ liveUntil[slot] \in Nat
      BY <1>2, <2>2, <2>4, LifeGrows DEF LifeType, Exists
    <3> QED
      BY <1>2, <2>3, <2>4, <3>1, <3>2
  <2>5. CASE queue[h] = None
    <3>1. PICK op \in OpInputs, d \in Delays : Fills(op, d) /\ Hash(op) = h
      BY <1>2, <2>1, <2>5, LifeSteps, QueueFootprint, OperationFields
      DEF Fills, Frees, queueVars, TypeOK, QueueType
    <3>2. queue'[h].execute_at = now + d /\ d <= MAX_TIMELOCK /\ d \in Nat
      BY <1>2, <3>1, InputAssumption DEF Fills, delay_allowed, TypeOK, QueueType
    <3>3. liveUntil'[slot] >= now + TTL_BUMP
      BY <1>2, <2>2, <2>5, LifeGrows
    <3> QED
      BY <1>2, <2>3, <3>2, <3>3, LifetimeAssumption, StorageAssumption DEF LifeType
  <2> QED
    BY <2>4, <2>5
<1>3. ASSUME TypeOK, LifeType, LifetimesTrackEntries, Inv PROVE SlotOutlivesDelay
  <2>1. SUFFICES ASSUME NEW h \in HASH, queue[h] # None, now <= queue[h].execute_at
                 PROVE  Live(ScheduledOperation(h))
    BY DEF SlotOutlivesDelay
  <2>2. Exists(ScheduledOperation(h)) /\ liveUntil[ScheduledOperation(h)] \in Nat
    BY <1>3, <2>1, KeyEntries DEF LifetimesTrackEntries, LifeType, Exists
  <2>3. queue[h].execute_at \in Nat /\ now \in Nat
    BY <1>3, <2>1 DEF TypeOK, QueueType, ScheduledOp, LifeType
  <2> QED
    BY <1>3, <2>1, <2>2, <2>3 DEF Live
<1> QED
  BY <1>1, <1>2, <1>3, LifeTypeCorrect, LifetimesTrackEntriesCorrect, PTL DEF LifeSpec

\* A read is either this step's, of a record that exists and whose entry the
\* call keeps alive, or an earlier one of a record that is still there.
LEMMA LastReadStep ==
    ASSUME LifeType, [LifeNext]_lifeVars, NEW m \in MerchantInputs, NEW r \in RefInputs,
           lastRead'[m][r] # None, lastRead[m][r] # None => payments[m][r] # None
    PROVE  \/ lastRead'[m][r] = lastRead[m][r] /\ payments'[m][r] # None
           \/ /\ lastRead'[m][r] = now /\ payments[m][r] # None
              /\ UNCHANGED vars
              /\ \E touched, kept : Call(touched, kept, {}, {}) /\ Payment(m, r) \in kept
<1>1. CASE UNCHANGED lastRead /\ UNCHANGED payVars
  BY <1>1 DEF payVars
<1>2. CASE /\ \/ AdminCall \/ RecoveryCall \/ QueueCall \/ MerchantCall \/ DefaultRuleCall
              \/ EnvironmentStep
           /\ UNCHANGED lastRead
  <2>1. UNCHANGED payVars
    BY <1>2, OthersKeepPayments
    DEF AdminCall, RecoveryCall, DefaultRuleCall, QueueCall, QueueStep, ScheduleCall,
        MerchantCall, MerchantStep
  <2> QED
    BY <2>1, <1>1, <1>2
<1>3. CASE Forget
  BY <1>3 DEF Forget
<1>4. CASE QueryCall /\ ~UNCHANGED lastRead
  <2>1. PICK n \in MerchantInputs, s \in SignerVecs,
             refs \in {<<q>> : q \in RefInputs} \cup RefBatches :
             /\ ReadCall(n, refs, s)
             /\ lastRead' = [lastRead EXCEPT ![n] = [q \in RefInputs |->
                   IF q \in Range(refs) /\ payments[n][q] # None THEN now ELSE @[q]]]
    BY <1>4 DEF QueryCall
  <2>2. UNCHANGED vars /\ UNCHANGED payVars
    BY <1>4 DEF QueryCall, vars
  <2>3. CASE n = m /\ r \in Range(refs) /\ payments[m][r] # None
    <3>1. lastRead'[m][r] = now
      BY <2>1, <2>3 DEF LifeType
    <3>2. \E touched, kept : Call(touched, kept, {}, {}) /\ Payment(m, r) \in kept
      <4>1. Payment(m, r) \in PaymentsOf(m, Range(refs))
        BY <2>3 DEF PaymentsOf
      <4> QED
        BY <2>1, <2>3, <4>1 DEF ReadCall
    <3> QED
      BY <2>2, <2>3, <3>1, <3>2
  <2>4. CASE ~(n = m /\ r \in Range(refs) /\ payments[m][r] # None)
    <3>1. lastRead'[m][r] = lastRead[m][r]
      BY <2>1, <2>4 DEF LifeType
    <3> QED
      BY <2>2, <3>1 DEF payVars
  <2> QED
    BY <2>3, <2>4
<1>5. CASE QueryCall /\ UNCHANGED lastRead
  BY <1>1, <1>5 DEF QueryCall, vars
<1>6. CASE UNCHANGED lifeVars \/ \E e \in Entry : Restore(e)
  BY <1>1, <1>6 DEF Restore, lifeVars, vars
<1> QED
  BY <1>2, <1>3, <1>4, <1>5, <1>6 DEF LifeNext

\* A record that was read is available for TTL_THRESHOLD ledgers after it.
THEOREM ReadKeepsRecordCorrect == LifeSpec => []ReadKeepsRecord
<1> DEFINE Inv == \A m \in MerchantInputs, r \in RefInputs : lastRead[m][r] # None =>
                     /\ payments[m][r] # None
                     /\ liveUntil[Payment(m, r)] >= lastRead[m][r] + TTL_THRESHOLD
<1> USE InputAssumption
<1>1. LifeInit => Inv
  BY DEF LifeInit, Init
<1>2. ASSUME LifeType, LifeType', LifetimesTrackEntries, LifetimesTrackEntries', Inv,
             [LifeNext]_lifeVars
      PROVE  Inv'
  <2>1. SUFFICES ASSUME NEW m \in MerchantInputs, NEW r \in RefInputs, lastRead'[m][r] # None
                 PROVE  /\ payments'[m][r] # None
                        /\ liveUntil'[Payment(m, r)] >= lastRead'[m][r] + TTL_THRESHOLD
    BY DEF Payment
  <2>2. Payment(m, r) \in Entry /\ Payment(m, r) # Instance
    BY KeyEntries, KeyFields
  <2>3. /\ Exists(Payment(m, r)) <=> payments[m][r] # None
        /\ Exists(Payment(m, r))' <=> payments'[m][r] # None
    BY <1>2 DEF LifetimesTrackEntries, Payment, Exists
  <2>4. CASE lastRead'[m][r] = lastRead[m][r] /\ payments'[m][r] # None
    <3>1. liveUntil'[Payment(m, r)] >= liveUntil[Payment(m, r)]
      BY <1>2, <2>1, <2>2, <2>3, <2>4, LifeGrows
    <3>2. liveUntil[Payment(m, r)] \in Nat /\ liveUntil'[Payment(m, r)] \in Nat
          /\ lastRead[m][r] \in Nat
      BY <1>2, <2>1, <2>2, <2>3, <2>4 DEF LifeType, Exists
    <3> QED
      BY <1>2, <2>1, <2>4, <3>1, <3>2, LifetimeAssumption
  <2>5. ASSUME lastRead'[m][r] = now, payments[m][r] # None, UNCHANGED vars,
               NEW touched, NEW kept, Call(touched, kept, {}, {}), Payment(m, r) \in kept
        PROVE  /\ payments'[m][r] # None
               /\ liveUntil'[Payment(m, r)] >= lastRead'[m][r] + TTL_THRESHOLD
    <3>1. payments'[m][r] # None
      BY <2>5 DEF vars, payVars
    <3>2. liveUntil'[Payment(m, r)] >= now + TTL_THRESHOLD
      BY <1>2, <2>2, <2>3, <2>5, <3>1, CallEffect
    <3> QED
      BY <2>5, <3>1, <3>2
  <2> QED
    BY <1>2, <2>1, <2>4, <2>5, LastReadStep
<1>3. ASSUME LifeType, LifetimesTrackEntries, Inv PROVE ReadKeepsRecord
  <2>1. SUFFICES ASSUME NEW m \in MerchantInputs, NEW r \in RefInputs, lastRead[m][r] # None,
                        now <= lastRead[m][r] + TTL_THRESHOLD
                 PROVE  Live(Payment(m, r))
    BY DEF ReadKeepsRecord
  <2>2. Exists(Payment(m, r)) /\ Payment(m, r) \in Entry
    BY <1>3, <2>1, KeyEntries DEF LifetimesTrackEntries
  <2>3. liveUntil[Payment(m, r)] \in Nat /\ now \in Nat /\ lastRead[m][r] \in Nat
    BY <1>3, <2>1, <2>2 DEF LifeType, Exists
  <2> QED
    BY <1>3, <2>1, <2>2, <2>3, LifetimeAssumption DEF Live
<1> QED
  BY <1>1, <1>2, <1>3, LifeTypeCorrect, LifetimesTrackEntriesCorrect, PTL DEF LifeSpec

-----------------------------------------------------------------------------
(* Payments keep their merchant's entries alive.                            *)

\* Only the closing of a ledger moves the clock, and it moves it forward.
LEMMA ClockAdvances ==
    ASSUME TypeOK, [Next]_vars
    PROVE  now \in Nat /\ now' \in Nat /\ now' >= now
<1>1. now \in Nat
  BY DEF TypeOK, EnvType
<1>2. CASE Tick
  BY <1>1, <1>2 DEF Tick
<1>3. CASE UNCHANGED now
  BY <1>1, <1>3
<1>4. CASE AdminStep
  BY <1>3, <1>4
  DEF AdminStep, init, update_governance, update_recovery_address, transfer_admin,
      change_threshold, upgrade, pause, unpause, set_paused, migrate, envVars
<1>5. CASE RecoveryStep
  BY <1>3, <1>5 DEF RecoveryStep, initiate_recovery, cancel_recovery, execute_recovery, envVars
<1>6. CASE QueueStep
  <2>1. \A op \in OpInputs : execute(op) => UNCHANGED envVars
    BY DEF execute
  <2> QED
    BY <1>3, <1>6, <2>1
    DEF QueueStep, dry_run, cancel, schedule, cancel_all, vars, notQueueVars, envVars
<1>7. CASE MerchantStep \/ DefaultRuleStep
  BY <1>3, <1>7
  DEF MerchantStep, get_effective_rule, register_merchant, unregister_merchant,
      clear_settlement_rule, set_settlement_rule, DefaultRuleStep, set_default_rule, envVars
<1>8. CASE PaymentStep
  BY <1>3, <1>8
  DEF PaymentStep, calculate_fee_split, store_payment_reference, prune_payment, prune_payments,
      notPayVars, envVars
<1>9. CASE EnvironmentStep
  BY <1>2, <1>3, <1>9 DEF EnvironmentStep, GovernanceChanges, LoseKeys
<1>10. CASE UNCHANGED vars
  BY <1>3, <1>10 DEF vars, envVars
<1> QED
  BY <1>4, <1>5, <1>6, <1>7, <1>8, <1>9, <1>10 DEF Next

\* A record that is new or different was stored by this very step.
LEMMA RecordStored ==
    ASSUME TypeOK, [LifeNext]_lifeVars, NEW m \in MerchantInputs, NEW r \in RefInputs,
           payments'[m][r] # None, payments'[m][r] # payments[m][r]
    PROVE  \E a \in Amounts : StoreCall(m, r, a)
<1> USE InputAssumption
<1>1. ~UNCHANGED payVars
  BY DEF payVars
<1>2. PaymentCall
  <2>1. CASE AdminCall \/ RecoveryCall \/ QueueCall \/ MerchantCall \/ DefaultRuleCall
             \/ EnvironmentStep
    BY <1>1, <2>1, OthersKeepPayments
    DEF AdminCall, RecoveryCall, DefaultRuleCall, QueueCall, QueueStep, ScheduleCall,
        MerchantCall, MerchantStep
  <2>2. CASE UNCHANGED vars
    BY <1>1, <2>2 DEF vars
  <2> QED
    BY <2>1, <2>2 DEF LifeNext, QueryCall, Restore, lifeVars
<1>3. ASSUME NEW n \in MerchantInputs, NEW s \in SignerVecs,
             \/ \E q \in RefInputs : prune_payment(s, n, q)
             \/ \E refs \in RefBatches : prune_payments(s, n, refs)
      PROVE  FALSE
  BY <1>3, PruneKeeps
<1>4. ASSUME NEW n \in MerchantInputs, NEW a \in Amounts, QuoteCall(n, a)
      PROVE  FALSE
  BY <1>1, <1>4 DEF QuoteCall, calculate_fee_split
<1>5. PICK n \in MerchantInputs, a \in Amounts, q \in RefInputs : StoreCall(n, q, a)
  BY <1>2, <1>3, <1>4 DEF PaymentCall
<1>6. payments' = [payments EXCEPT ![n][q] = payment_record(a, effective_rule(n))]
  BY <1>5 DEF StoreCall, store_payment_reference
<1>7. n = m /\ q = r
  <2>1. payments \in [Address -> [REF -> PaymentRecord \cup {None}]]
    BY DEF TypeOK, PayType
  <2> HIDE DEF payment_record, effective_rule
  <2> QED
    BY <1>6, <2>1
<1> QED
  BY <1>5, <1>7

\* What a merchant needs for its next payment, and the record of the last.
Needs(m, r) == {Merchant(m), Rule(m), PaymentCount(m), Payment(m, r)}

\* A record made in this step is dated now, and all its merchant needs lives
\* on for the threshold at least.
LEMMA StoredKeepsAlive ==
    ASSUME TypeOK, LifeType, NEW m \in MerchantInputs, NEW r \in RefInputs, NEW a \in Amounts,
           StoreCall(m, r, a)
    PROVE  /\ payments'[m][r].ledger = now
           /\ \A e \in Needs(m, r) : Exists(e)' => liveUntil'[e] >= now + TTL_THRESHOLD
<1> USE InputAssumption
<1>1. payments'[m][r] = payment_record(a, effective_rule(m))
  BY DEF StoreCall, store_payment_reference, TypeOK, PayType
<1>2. payment_record(a, effective_rule(m)).ledger = now
  BY DEF payment_record
<1>3. Call({}, {Merchant(m), Rule(m)}, {Payment(m, r), PaymentCount(m)}, {})
  BY DEF StoreCall
<1>4. /\ Needs(m, r) = {Merchant(m), Rule(m)} \cup {Payment(m, r), PaymentCount(m)}
      /\ Needs(m, r) \subseteq Entry /\ Instance \notin Needs(m, r)
  BY KeyEntries, KeyFields DEF Needs
<1>5. \A e \in Needs(m, r) : Exists(e)' => liveUntil'[e] >= now + TTL_THRESHOLD
  BY <1>3, <1>4, CallEffect
<1> QED
  BY <1>1, <1>2, <1>5

\* For TTL_THRESHOLD ledgers after a payment none of the merchant's own entries
\* that the next one needs is archived.  Every such key that exists outlives
\* the last record by the threshold: payments extend it, other calls never
\* shorten it, and one that comes into being later starts with TTL_BUMP.
THEOREM ActiveMerchantStaysLiveCorrect == LifeSpec => []ActiveMerchantStaysLive
<1> DEFINE Inv == \A m \in MerchantInputs, r \in RefInputs : payments[m][r] # None =>
                     /\ payments[m][r].ledger <= now
                     /\ \A e \in Needs(m, r) :
                           Exists(e) => liveUntil[e] >= payments[m][r].ledger + TTL_THRESHOLD
<1> USE InputAssumption
<1>1. LifeInit => Inv
  BY DEF LifeInit, Init
<1>2. ASSUME TypeOK, TypeOK', LifeType, LifeType', Inv, [LifeNext]_lifeVars
      PROVE  Inv'
  <2>1. SUFFICES ASSUME NEW m \in MerchantInputs, NEW r \in RefInputs, payments'[m][r] # None
                 PROVE  /\ payments'[m][r].ledger <= now'
                        /\ \A e \in Needs(m, r) : Exists(e)' =>
                              liveUntil'[e] >= payments'[m][r].ledger + TTL_THRESHOLD
    BY DEF Needs, Exists, Merchant, Rule, PaymentCount, Payment
  <2>2. now \in Nat /\ now' \in Nat /\ now' >= now
    BY <1>2, LifeSteps, ClockAdvances
  <2>3. Needs(m, r) \subseteq Entry /\ Instance \notin Needs(m, r)
    BY KeyEntries, KeyFields DEF Needs
  <2>4. ASSUME payments'[m][r] = payments[m][r]
        PROVE  /\ payments'[m][r].ledger <= now'
               /\ \A e \in Needs(m, r) : Exists(e)' =>
                     liveUntil'[e] >= payments'[m][r].ledger + TTL_THRESHOLD
    <3> DEFINE l == payments[m][r].ledger
    <3>1. l \in Nat /\ l <= now /\ payments'[m][r].ledger = l
      BY <1>2, <2>1, <2>4 DEF TypeOK, PayType, PaymentRecord
    <3>2. ASSUME NEW e \in Needs(m, r), Exists(e)'
          PROVE  liveUntil'[e] >= l + TTL_THRESHOLD
      <4>1. liveUntil'[e] \in Nat /\ e \in Entry /\ e # Instance
        BY <1>2, <2>3, <3>2 DEF LifeType, Exists
      <4>2. CASE Exists(e)
        <5>1. liveUntil[e] \in Nat /\ liveUntil[e] >= l + TTL_THRESHOLD
          BY <1>2, <2>1, <2>4, <3>2, <4>1, <4>2 DEF LifeType, Exists
        <5>2. liveUntil'[e] >= liveUntil[e]
          BY <1>2, <3>2, <4>1, <4>2, LifeGrows
        <5> QED
          BY <3>1, <4>1, <5>1, <5>2, LifetimeAssumption
      <4>3. CASE ~Exists(e)
        <5>1. liveUntil'[e] >= now + TTL_BUMP
          BY <1>2, <3>2, <4>1, <4>3, LifeGrows
        <5> QED
          BY <2>2, <3>1, <4>1, <5>1, LifetimeAssumption
      <4> QED
        BY <4>2, <4>3
    <3> QED
      BY <2>2, <3>1, <3>2
  <2>5. CASE payments'[m][r] # payments[m][r]
    BY <1>2, <2>1, <2>2, <2>5, RecordStored, StoredKeepsAlive
  <2> QED
    BY <2>4, <2>5
<1>3. ASSUME TypeOK, LifeType, Inv PROVE ActiveMerchantStaysLive
  <2>1. SUFFICES ASSUME NEW m \in MerchantInputs, NEW r \in RefInputs, payments[m][r] # None,
                        now <= payments[m][r].ledger + TTL_THRESHOLD, NEW e \in Needs(m, r)
                 PROVE  ~Archived(e)
    BY DEF ActiveMerchantStaysLive, Needs
  <2>2. e \in Entry /\ payments[m][r].ledger \in Nat /\ now \in Nat
    BY <1>3, <2>1, KeyEntries DEF Needs, TypeOK, PayType, PaymentRecord, LifeType
  <2>3. Exists(e) => liveUntil[e] \in Nat /\ liveUntil[e] >= payments[m][r].ledger + TTL_THRESHOLD
    BY <1>3, <2>1, <2>2 DEF LifeType, Exists
  <2> QED
    BY <2>1, <2>2, <2>3, LifetimeAssumption DEF Archived
<1> QED
  BY <1>1, <1>2, <1>3, LifeTypeCorrect, PTL DEF LifeSpec

-----------------------------------------------------------------------------
(* Nobody but the merchant and the admins keeps the merchant's entries.     *)

\* The second part of a key is its merchant, and the kinds kept alive only on
\* the merchant's behalf are not the instance, a rule or a slot.
LEMMA KeptKeys ==
    ASSUME NEW m \in Address, NEW e \in KeptBy(m)
    PROVE  e \in Entry /\ e[2] = m /\ e[1] \notin {"Instance", "Rule", "ScheduledOperation"}
  BY KeyFields, KeyEntries DEF KeptBy, PaymentsOf

\* When the quorum is lost and no queued operation runs, the calls of the
\* registry and of pruning fail, and the other calls of the administration
\* and of the queue meet only the instance and the slots.
LEMMA AdminsNeverKeepAlive ==
    ASSUME TypeOK, LifeType, QuorumLost, \A h \in HASH : ~Consumed(h),
           NEW m \in Address, NEW e \in KeptBy(m),
           \/ AdminCall \/ RecoveryCall \/ DefaultRuleCall \/ QueueCall \/ MerchantCall
    PROVE  liveUntil'[e] = liveUntil[e]
<1> USE KeyFields
<1>1. e \in Entry /\ e[1] \notin {"Instance", "Rule", "ScheduledOperation"}
  BY KeptKeys
<1>2. ASSUME NEW touched, NEW kept, NEW written, NEW removed,
             Call(touched, kept, written, removed), e \notin kept \cup written \cup removed
      PROVE  liveUntil'[e] = liveUntil[e]
  BY <1>1, <1>2, CallEffect
<1>3. e # Instance /\ \A h : e # ScheduledOperation(h)
  BY <1>1
<1>4. CASE AdminCall \/ RecoveryCall \/ DefaultRuleCall
  BY <1>2, <1>3, <1>4 DEF AdminCall, RecoveryCall, DefaultRuleCall
<1>5. CASE QueueCall
  <2>1. \A op \in OpInputs : ~execute(op)
    BY ExecuteConsumes, OperationFields
  <2>2. ASSUME NEW op \in OpInputs, Call({ScheduledOperation(Hash(op))}, {}, {}, {})
        PROVE  liveUntil'[e] = liveUntil[e]
    BY <1>2, <2>2
  <2>3. ASSUME NEW s \in SignerVecs, NEW op \in OpInputs, NEW d \in Delays, ScheduleCall(s, op, d)
        PROVE  liveUntil'[e] = liveUntil[e]
    BY <1>2, <1>3, <2>3 DEF ScheduleCall
  <2>4. ASSUME NEW op \in OpInputs, Call({}, {Instance}, {}, {ScheduledOperation(Hash(op))})
        PROVE  liveUntil'[e] = liveUntil[e]
    BY <1>2, <1>3, <2>4
  <2>5. ASSUME NEW touched,
               Call(touched, {Instance}, {}, {ScheduledOperation(h) : h \in {k \in HASH : Consumed(k)}})
        PROVE  liveUntil'[e] = liveUntil[e]
    BY <1>2, <1>3, <2>5
  <2> QED
    BY <1>5, <2>1, <2>2, <2>3, <2>4, <2>5 DEF QueueCall
<1>6. CASE MerchantCall
  <2>1. \A s \in SignerVecs : ~verify_admin_auth(s, threshold)
    BY QuorumSigned
  <2>2. PICK n \in MerchantInputs : Call({Rule(n)}, {}, {}, {})
    BY <1>6, <2>1
    DEF MerchantCall, register_merchant, unregister_merchant, clear_settlement_rule,
        set_settlement_rule, assert_admin_and_not_paused
  <2> QED
    BY <1>2, <2>2
<1> QED
  BY <1>4, <1>5, <1>6

\* Storing and reading payments take the merchant's own authority or the
\* quorum's; quotes extend nothing.
LEMMA PaymentsNeverKeepAlive ==
    ASSUME TypeOK, LifeType, QuorumLost, NEW m \in Address, m \notin signing,
           NEW e \in KeptBy(m), PaymentCall \/ QueryCall
    PROVE  liveUntil'[e] = liveUntil[e]
<1> USE KeyFields
<1>1. e \in Entry /\ e[2] = m /\ e[1] \notin {"Instance", "Rule", "ScheduledOperation"}
  BY KeptKeys
<1>2. ASSUME NEW touched, NEW kept, NEW written, NEW removed,
             Call(touched, kept, written, removed), e \notin kept \cup written \cup removed
      PROVE  liveUntil'[e] = liveUntil[e]
  BY <1>1, <1>2, CallEffect
<1>3. e # Instance /\ \A n : e # Rule(n)
  BY <1>1
<1>4. \A s \in SignerVecs : ~verify_admin_auth(s, threshold)
  BY QuorumSigned
<1>5. CASE PaymentCall
  <2>1. ASSUME NEW n \in MerchantInputs, NEW a \in Amounts, QuoteCall(n, a)
        PROVE  liveUntil'[e] = liveUntil[e]
    BY <1>2, <2>1 DEF QuoteCall
  <2>2. ASSUME NEW n \in MerchantInputs, NEW r \in RefInputs, NEW a \in Amounts, StoreCall(n, r, a)
        PROVE  liveUntil'[e] = liveUntil[e]
    <3>1. n # m
      BY <2>2 DEF StoreCall, store_payment_reference, require_auth
    <3>2. e \notin {Merchant(n), Rule(n)} \cup {Payment(n, r), PaymentCount(n)} \cup {}
      BY <1>1, <3>1
    <3>3. Call({}, {Merchant(n), Rule(n)}, {Payment(n, r), PaymentCount(n)}, {})
      BY <2>2 DEF StoreCall
    <3> QED
      BY <1>2, <3>2, <3>3
  <2> QED
    BY <1>4, <1>5, <2>1, <2>2 DEF PaymentCall, prune_payment, prune_payments
<1>6. CASE QueryCall
  <2>1. ASSUME NEW n \in MerchantInputs, Call({}, {Rule(n)}, {}, {}) \/ Call({}, {Instance}, {}, {})
        PROVE  liveUntil'[e] = liveUntil[e]
    BY <1>2, <1>3, <2>1
  <2>2. ASSUME NEW n \in MerchantInputs, NEW s \in SignerVecs, NEW refs, ReadCall(n, refs, s)
        PROVE  liveUntil'[e] = liveUntil[e]
    <3>1. s = <<>> /\ n # m
      BY <1>4, <2>2 DEF ReadCall, assert_read_authorized, require_auth
    <3>2. e \notin PaymentsOf(n, Range(refs))
      BY <1>1, <3>1 DEF PaymentsOf
    <3>3. Call({Merchant(n), ArchivedMerchant(n)}, PaymentsOf(n, Range(refs)) \cup {}, {}, {})
      BY <2>2, <3>1 DEF ReadCall
    <3> QED
      BY <1>2, <3>2, <3>3
  <2>3. Call({}, {Instance}, {}, {}) => liveUntil'[e] = liveUntil[e]
    BY <1>2, <1>3
  <2> QED
    BY <1>6, <2>1, <2>2, <2>3 DEF QueryCall
<1> QED
  BY <1>5, <1>6

\* Natural eviction: while neither the merchant nor the quorum can sign, no
\* call of a third party moves the life of the merchant's marker, counter or
\* records, for any number of parties and calls.
THEOREM StrangersNeverKeepAliveCorrect == LifeSpec => StrangersNeverKeepAlive
<1>1. ASSUME TypeOK, LifeType, [LifeNext]_lifeVars, NEW m \in MerchantInputs \ signing,
             QuorumLost, \A h \in HASH : ~Consumed(h), NEW e \in KeptBy(m), Live(e)
      PROVE  liveUntil'[e] = liveUntil[e]
  <2>1. m \in Address /\ m \notin signing
    BY InputAssumption
  <2>2. ASSUME NEW f \in Entry, Restore(f) PROVE liveUntil'[e] = liveUntil[e]
    <3>1. e \in Entry /\ liveUntil[e] \in Nat /\ now \in Nat
      BY <1>1, <2>1, KeptKeys DEF LifeType, Live, Exists
    <3>2. f # e
      BY <1>1, <2>2, <3>1 DEF Restore, Archived, Live
    <3> QED
      BY <1>1, <2>2, <3>1, <3>2 DEF Restore, LifeType
  <2>3. CASE UNCHANGED liveUntil
    BY <2>3
  <2> QED
    BY <1>1, <2>1, <2>2, <2>3, AdminsNeverKeepAlive, PaymentsNeverKeepAlive
    DEF LifeNext, lifeVars
<1>2. TypeOK /\ LifeType /\ [LifeNext]_lifeVars =>
         [\A m \in MerchantInputs \ signing :
             QuorumLost /\ (\A h \in HASH : ~Consumed(h))
                => \A e \in KeptBy(m) : Live(e) => liveUntil'[e] = liveUntil[e]]_lifeVars
  BY <1>1
<1> QED
  BY <1>2, LifeTypeCorrect, PTL DEF LifeSpec, StrangersNeverKeepAlive
=============================================================================
