# BettaPay contracts: a TLA+ verification project

BettaPay is two Soroban (Stellar) contracts in Rust and a crate they share.
`settlement_contract` registers merchants, keeps their fee rules and records
payments with their fee split; `governance_contract` publishes the protocol fee
ceilings and parameters that settlement reads; `bettapay_common` holds the fee
arithmetic, the pause flag, the recovery record and the upgrade probe. This
directory models the two contracts, each on its own and both together, the fee
arithmetic, the lifetimes of the settlement contract's ledger entries, and an
indexer that reads its payments.

## Inventory

Paths are relative to `src/`; `S` is `settlement_contract/src`, `B` is
`bettapay_common/src`.

| Component | State | Operations | What makes it correct |
|---|---|---|---|
| Fee arithmetic (`B/types.rs`, `S/payments.rs`) | none | `calculate_fee_ceil`, `clamp_fee_legs`, `calculate_split` | the legs add up to the gross, fees are rounded up and not by a whole unit, overflow is reported exactly |
| Administration (`S/admin.rs`, `S/storage.rs`) | admin list, threshold, governance and recovery addresses, pause flag, schema version, code hash | `init`, `transfer_admin`, `change_threshold`, `update_governance`, `update_recovery_address`, `pause`, `unpause`, `upgrade`, `migrate` | a quorum always exists and is the only way to act |
| Recovery (`S/admin.rs`) | the pending recovery | `initiate_recovery`, `cancel_recovery`, `execute_recovery` | it cannot be outrun through the queue, it vetoes the queue, it finishes although keys are lost |
| Timelock (`S/admin.rs`) | slots by operation hash, a queue-depth counter | `schedule`, `execute` (nine arms), `dry_run`, `cancel`, `cancel_all` | what executes was announced, exactly once, and no earlier than announced |
| Registry and rules (`S/merchant.rs`, `S/settlement.rs`) | merchant markers, tombstones, rules, default rule, cached governance rule | register/unregister, set/clear rule, set default rule, effective-rule queries | a rule belongs to a merchant and lies within the policy bounds, on every path; nobody is admin and merchant |
| Payments (`S/payments.rs`) | records by merchant and reference, a counter per merchant | `store_payment_reference`, `calculate_fee_split`, `prune_payment(s)` | records conserve value and never change, the counter is exact, an outage of governance does not stop them |
| Payment queries (`S/payments.rs`) | none; the reader keeps a cursor | `get_payment_reference`, `get_payments`, `get_payment_count` | a walk by pages ends and misses no record, whatever happens between two pages |
| Governance contract (`governance_contract/src/lib.rs`) | admins, recovery, pause, parameters, fee config, anchors | its own administration and recovery, `set_fee_config`, `update_system_param`, anchors | a quorum always exists and controls the policy, the policy stays in the range settlement trusts, recovery survives lost keys |
| Both contracts together | the two states, and the rule settlement caches | every call of either; outages | payments stay within the policy, every rate has a source, a rule is under the ceiling of the moment it is committed |
| Entry lifetimes (`S/policy.rs`, every `extend_ttl`) | the last live ledger of each entry | extension on reads and writes, archival, restoration | the entries of an active merchant and of a queued operation do not lapse, and strangers keep no marker, counter or record alive |
| Events, error codes, interface queries, scripts | none that is read back | - | not modelled: outputs and tooling |

How the parts interact. Every entry point is one host invocation, and the host
either commits all of its writes or none, so there is no interleaving *inside* a
handler. What is hard is the interleaving *between* them: anyone may submit
`execute` and `execute_recovery`; a quorum, a recovery address, merchants and the
clock act independently; and operations decided a week ago meet whatever state
they find. The contract calls governance from `schedule`, from the rule setters
and from every fee resolution, and governance may trap, answer a malformed map, or
change its answer between two calls. Keys get lost. `PROJECT.json` lists these
hazards with the line where each bites and the properties that watch it.

## Modules

    FeeSplit                      i128 arithmetic of a payment
      SettlementStorage           state, shared validation, fee source chain
        SettlementAdmin           admin.rs: direct entry points, recovery
        SettlementMerchant        merchant.rs, settlement.rs
          SettlementTimelock      admin.rs: queue and operation arms
        SettlementPayments        payments.rs
          Settlement              Init, environment, Next, Spec, properties
            SettlementClaims      statements of the docs that the code does not keep
            SettlementRefinement  Settlement implements ChangeControl
            Lifetimes             Settlement with the lifetime of every entry
            PaymentReader         Settlement and an indexer that reads page by page
            BettaPay              Settlement beside the governance contract
    Governance                    the governance contract; INSTANCEd by BettaPay
      GovernanceRefinement        Governance implements ChangeControl
    ChangeControl                 what may change the admin-controlled state (abstract)
    FeeSplitProofs                fee arithmetic
      MCFeeSplitProofs            the properties of the fee_split run
      SettlementProofs            types, administration, queue depth, conservation
        SettlementSafetyProofs    timelock, quorum, registry, payments, pause, refinement
          BettaPayProofs          the composition
          LifetimesProofs         lifetimes
          PaymentReaderProofs     reading by pages
    GovernanceProofs              the governance contract                 (all TLAPS)
    MCFeeSplit, MCAdmin, MCRegistry, MCPayments, MCRecovery, MCClaims, MCGovernance,
    MCBettaPay, MCLifetimes, MCReader                                    TLC instances

Operators carry the names of the Rust functions; `PROJECT.json` ("map") gives the
lines of each. The conventions:

* A handler is one action; a condition under which the code panics is a conjunct
  that is false, and the order of two panicking checks, which only selects the
  error code, is not represented.
* Addresses, hashes, references and code hashes are model values. An operation is
  a record; its XDR is injective and is represented by the operation itself, while
  its sha256 is the constant operator `Hash`, which may collide.
* `now` is both the timestamp and the ledger sequence; one `Tick` closes a ledger.
  Delays are scaled constants, of which `DelayAssumption` keeps the one relation
  the code relies on, `RECOVERY_DELAY <= MIN_TIMELOCK` (both are seven days).
* Widths are constants: `I128_MAX`, `U64_MAX`, `U32_MAX`. The build enables
  `overflow-checks`, so an unchecked `+` that overflows is a panic.
* `signing` is the set of addresses that can still produce a signature;
  `require_auth(a)` holds when `a` is in it. `gov` is what the contract at each
  address answers. Any contract can be installed as governance
  (`validate_governance` only refuses the zero address), and settlement does not
  range-check its rates or its `min_payment`, so answers out of the range that the
  governance contract of this repository would accept are part of the model.
* The fee source chain has two sides: what it resolves to (`effective_rule`) and
  what the resolution does to storage (`read_rule_or_default`, which refreshes the
  cached governance rule, or fails on a malformed answer). Public queries refresh
  the cache too and are therefore actions.
* The writes shared by a direct entry point and its timelocked arm are one operator
  (`add_merchant`, `store_rule`, ...) that leaves the queue and the environment to
  its caller. The code writes the rule bounds three times (`validate_rule_bounds`,
  inline in `set_default_rule`, inline in the arms); they are the same conjunction.
* `BettaPay` replaces the arbitrary answers of governance by those the governance
  contract's state gives at the moment of the call, unless the address is in `down`,
  whose calls fail. A second governance address has no configuration.
* `ChangeControl` knows no slots, hashes or handlers: the *world* (everything the
  admins control) changes directly by a quorum, by running a due announcement with
  exactly its outcome, or by a due recovery. In `SettlementRefinement` an occupied
  slot is an announcement and `worldState` the world. The governance contract has no
  timelock: in `GovernanceRefinement` nothing is ever announced, so its world changes
  directly or by a recovery.
* In `Lifetimes` one tick is one ledger, so the timelock delay is counted in the
  ledgers that close during it. A call fails when it meets an archived entry; anyone
  may restore one, which gives it the network minimum (`MIN_TTL`). An entry point
  of `Settlement` is repeated there with the entries it touches, keeps, writes and
  removes; the four pairs of TTL constants have one value in the code and are one
  constant.
* The indexer of `PaymentReader` is external: it knows every reference from the
  `payment_stored` events and echoes back `next_cursor`.
* An upgrade changes the code hash; the new build is taken to behave like this one.

Operators named `Mut_...` are deliberately wrong variants of the operator that
follows them. No specification uses them; they are there to confirm that each
property fails when the code is wrong in that way.

## Runs

| Run | Configuration | Shows |
|---|---|---|
| `fee_split` | all 256 amounts of an 8-bit "i128", all pairs of rates 0..9 with denominator 8 | conservation, exact ceilings against a reference definition, exact overflow, no gain from splitting a payment |
| `admin` | two admins, a recovery address, five operations on two slots (two of them colliding, one oversized, one with a bad quorum), clock 0..5, delays 0..4 | `TypeOK`, `AdminSetValid`, `QueueDepth`, `RecoveryPrecedes`, `VetoHolds`, `TimelockRespected`, `QuorumControls` |
| `registry` | one admin whose key may be lost, one merchant, five rules (four out of bounds), eleven operations of all nine kinds on two slots, a recovery, pause, governance answering nothing, a low ceiling or a malformed map | `RegistryConsistent`, `RulesBounded`, `ExclusivityOnlyBrokenByRecovery`, `PausedFreezes`, and `ChangeControlled`: `Settlement` implements `ChangeControl` |
| `payments` | one merchant, three usable references and the zero one, amounts -3, 99, 101, 180, all fee sources, a u32 of width 2 | `PaymentCountExact`, `PaymentsConserve`, `OutageNeverBlocksPayments`, `PaymentsImmutable` |
| `recovery` | one admin, a recovery address that may be rotated while a recovery is pending, lost keys, pause, a queued `CancelRecovery`; `FairSpec` | `RecoveryResolves`, `LostKeysRecovered` |
| `governance` | two admins, a recovery address, lost keys, clock 0..2, fee configurations on and over both bounds, negative parameters; `FairSpec` | `TypeOK`, `GovernanceAdminsValid`, `PolicyBounded`, `GovernanceQuorumControls`, `PausedFreezesPolicy`, `GovernanceRecovered` |
| `composition` | both contracts, two governance addresses, outages, a rule over one ceiling and under the other, directly and through the queue | `PaymentsWithinPolicy`, `SettlementImplemented` (the composition is a behaviour of `Settlement`), `RatesHaveASource`, `CeilingAtCommit` |
| `lifetimes` | one merchant, six operations on one slot, clock 0..3, threshold 1, bump 2, the longest delay equal to the bump | `LifetimesTrackEntries`, `SlotOutlivesDelay`, `ActiveMerchantStaysLive`, `ReadKeepsRecord`, `StrangersNeverKeepAlive` |
| `reader` | four references in pages of two, two amounts, storing, pruning, unregistering and re-registering between pages | `WalkComplete`, `UndisturbedWalkExact`, `WalkEnds` |

The bounds are chosen so that the cases happen. The clock of `admin` is long
enough for an operation to be queued, a recovery to be started, both to mature and
the survivor to act, and short enough that the last ticks exercise the u64 limit.
With the real policy (`MAX_FEE_BPS` 5000 of 10000) the check on the sum of the
rates is implied by the single bounds; `registry` scales them to 60 of 100 so that
it matters. In `payments` the rates 9000 + 2500 of governance exceed the whole
amount, 180 times their sum overflows the scaled i128, 99 is below the minimum,
and -3 passes a negative `min_payment`. In `composition` the two ceilings lie on either side of the queued rule, so that it
can be committed or refused depending on when governance changes. The clock of
`lifetimes` covers threshold plus bump: an entry is created, extended, left to lapse
and restored. A `reader` with a multiple of the page size meets the full last page
that has a successor and the empty page after it. No symmetry is used: the addresses have
roles. Deadlock is not checked, because the clock is bounded and a contract in
which nobody can or wants to act is not an error.

Fairness (`FairSpec`): the clock advances, and `execute_recovery`, which anyone may
submit, is eventually submitted while it can succeed. Nothing is assumed of
admins, of the recovery address or of merchants: they may act or not. The governance
contract has the same permissionless step and the same fairness. `ReaderSpec`
assumes only that the indexer keeps asking for its next page; no signature is
forced, and `WalkEnds` excuses a merchant that is unregistered or cannot sign.

### Statements the code does not keep

Sentences of comments, docs and tests, stated as properties in `SettlementClaims` and
at the end of `Governance`, `BettaPay` and `Lifetimes`. The first three are runs of
`PROJECT.json`, each with one property that is expected to be violated.

| Run | Statement | What the code does |
|---|---|---|
| `two_of_two_can_lower` | both admins of a 2-of-2 set can lower the threshold (`tests/admin_tests.rs:1312`) | one signer more than there are admins is required |
| `veto_is_final` | once the recovery address authenticates, nothing scheduled under the old admin can execute (`admin.rs:232`) | the veto is the pending record; after `execute_recovery` the old slots execute |
| `paused_keeps_payments` | no stored payment can be removed while paused (`payments.rs:650`) | `prune_payments` has no pause check |

Further divergences, each reproduced by one configuration
(`tlc -config <configuration>.cfg <module>` ends with a counterexample). `ADR` is
`src/adr`.

| Configuration | Module | Statement | What the code does |
|---|---|---|---|
| `MCNeverResurrected` | `MCClaims` | the tombstone survives re-registration (`types.rs:216`) | both registration paths remove it |
| `MCRolesDisjoint` | `MCClaims` | admin/merchant exclusivity in both directions (`admin.rs:373`) | `execute_recovery` does not check its target |
| `MCOutageUsesBootstrap` | `MCClaims` | an outage degrades to the bootstrap rule (`lib.rs:224`) | the cached governance rule comes first |
| `MCQueueOpenWhilePaused` | `MCClaims` | `schedule`, `execute` and `cancel` are not blocked by the pause (`ADR/001:22`) | all three check it |
| `MCParamsWhilePaused` | `MCGovernance` | `update_system_param` is not blocked by the pause (governance `lib.rs:57`) | it asks for `assert_admin_and_not_paused` |
| `MCCacheIsGovernances` | `MCBettaPay` | no cached rule when governance never answered (`storage.rs:549`) | the cache outlives `update_governance` and may be the previous contract's |
| `MCGovernanceProbed` | `MCBettaPay` | `update_governance` reverts if the new contract fails interface checks (`lib.rs:233`) | only the zero address is refused |
| `MCSlotFastLedgers` | `MCLifetimes` | the delay never exceeds the life of the slot (`policy.rs:95`) | seconds are compared with ledgers: faster ledgers archive the slot first |
| `MCReadsGrantFullLife` | `MCLifetimes` | a payment stays for 30 days after its last read (`ADR/003:43`) | a read above the threshold extends nothing |
| `MCInstanceLivesWithTraffic` | `MCLifetimes` | the instance never expires under normal operation (`ADR/003:44`) | payments do not extend it |
| `MCRuleNotKeptByStrangers` | `MCLifetimes` | a rule is extended by authenticated reads (`docs/storage-key-ownership.md:78`) | `get_settlement_rule` asks for no authorization |

## Proofs

The proof modules are checked by TLAPS for every value of the constants that
satisfies the named assumptions, so in particular for the real widths, any number
of admins, merchants, references and operations, and any hash function. The main theorems
are listed in `PROJECT.json`; each that states a property of a run names it.

**Assumptions.** `FeeAssumption`, `StorageAssumption` (widths and bounds are
naturals, the digests and references that are ever submitted are finitely many),
`NoneAssumption` and `RecoveryNone` (the markers `None`, `Trap` and `Malformed` are
different from each other and from every value), `DelayAssumption`
(`RECOVERY_DELAY <= MIN_TIMELOCK`), `InputAssumption` (inputs have their types),
`QueueBound` (no more digests than a u32 counts), `RatesAssumption` (two rates add
up within an i128), `LifetimeAssumption` (a threshold is at most its bump, as in
`policy.rs`). The composition adds that the governance contract is one of the
addresses settlement may be pointed at and that the assets and anchors given to it are
addresses (`CompositionAssumption`), that the bootstrap rule
is itself within the policy (`BootstrapAssumption`; `policy.rs` defines both),
and that whatever the governance contract can answer is among the answers
`Settlement` was modelled with (`RepliesAssumption`). TLC evaluates all of them.

**Fee arithmetic** (`FeeSplitProofs`, `MCFeeSplitProofs`). `FeeCeilBounds` rests on one
fact about division (`CeilDiv`); `FeeIsLeastCeiling` makes it the reference ceiling,
unique because a smaller one does not cover the fee. `SplitConserves` needs only the
clamping. `SplitOverflow`: a numerator that fits for the combined rate fits for each
smaller one, with either sign of the amount, so the single guard decides and the
later unwraps cannot fail. `SplitSubadditive` follows from the bounds of the ceiling
and the fact that a part that pays out has an unclamped network leg. The four
properties of `fee_split` follow through the invariant `Computed`. `PayoutRounding`
says what all the rounding up costs a merchant: for rates that together do not exceed
the payment, the payout is the exact share rounded down by less than two units, and
the clamp takes at most one unit from the network leg. `FeeMonotone`: a larger amount
never carries a smaller fee.

**Settlement** (`SettlementProofs`, `SettlementSafetyProofs`). The proof that a step
preserves an invariant has one step per entry point; what an action leaves alone is
covered once by a footprint lemma.

* `TypeCorrect`: `TypeOK` is inductive as it stands. Its content is in the widths:
  `execute_after`, `execute_at`, the clock and both counters.
* `AdminSetCorrect`: `AdminSetValid` is inductive once it says two more things than
  the admin set being valid: a pending recovery has a non-zero target (else
  `execute_recovery` could be stuck) and is due within `RECOVERY_DELAY` of now, and
  before `init` there is no recovery and no queued operation (an arm would
  otherwise install admins in an uninitialised contract).
* `RecoveryPrecedesCorrect`: from `AdminSetValid` and `DelayAssumption`: what is
  queued now matures at `now + MIN_TIMELOCK` or later, the recovery at
  `now + RECOVERY_DELAY` or earlier.
* `QueueDepthCorrect`: every step leaves the queue alone, fills one free slot or
  frees some (`QueueFootprint`); `QueueBound` keeps the saturating counter exact.
* `PaymentsConserveCorrect`: only payments.rs writes records (`PaymentFootprint`),
  storing uses `SplitConserves`, and pruning changes no record.
* `VetoHoldsCorrect`, `TimelockRespectedCorrect`, `QuorumControlsCorrect`: `StepKinds`
  sorts every step into seven kinds (quiet, direct by the quorum, recovery,
  cancellation by the quorum, execution of one slot, scheduling, environment). That a
  direct step has a quorum behind it is a counting argument: a signer vector that
  passes `verify_admin_auth` is an injection into the admins that can sign
  (`SignersAreQuorum`). `init` itself is signed by nobody; it counts as a direct step
  because the threshold is still zero, so the classification needs the invariant
  `FreshUntilInit`: until then the threshold is zero and nothing is paused or
  registered. An execution consumes its own slot and no other
  (`ExecuteConsumes`), although hashes may collide.
* `ExclusivityCorrect`: registration checks the admins, both admin transfers check
  the markers, and the recovery is the one writer that does neither.
* `PausedFreezesCorrect`, action by action: the queue is closed, and the direct
  writers ask for `assert_admin_and_not_paused`.
* `RegistryConsistentCorrect`, `RulesBoundedCorrect`: the registry and the rules are
  written by four shared operations only, directly or in an arm
  (`RegistryFootprint`); each keeps both invariants.
* `PaymentCountCorrect`: cardinalities of the set of records before and after; the
  saturating subtraction never saturates because the removed records are among the
  present ones. A single prune is a batch of one (`PruneOneIsBatch`).
* `PaymentsImmutableCorrect`: `fresh_reference` guards the only write.

**Refinement** (`SettlementSafetyProofs`): `Implements` is `Spec => ChangeControlled`.
Each of the seven kinds of step maps to a step of `ChangeControl` or a stutter. Two
invariants carry it: `SlotsKeyed` (a slot holds an operation of the slot's own
hash; else the same operation could be announced in two slots and withdrawn once)
and `FreshUntilInit`.

**Outage** (`SettlementSafetyProofs`): `PayableInOutage` is
`OutageNeverBlocksPayments` without `ENABLED`. It names the next value of every
variable and shows, under the hypotheses of the invariant, that these values make a
`store_payment_reference`; so no check on the way depends on what governance answers.

**Recovery and progress** (`SettlementSafetyProofs`, `GovernanceProofs`). The argument
behind the liveness properties, as far as it can be made here:

* `RecoveryNeverPostponedCorrect`: a pending recovery keeps its target and deadline
  until nothing is pending; and the clock never runs back, so a due one stays due.
* `DueRecoveryExecutable`: with `AdminSetValid`, the step that installs the target is
  an `execute_recovery`, paused or not. The settlement contract validates the target
  once more; what `AdminSetValid` says of the pending record is what that needs.
* `UnstoppableUntilRecoveredCorrect`: once the quorum is lost, the initiator cannot
  sign and no `CancelRecovery` is queued, every step leaves that so or installs the
  target. Cancelling needs a quorum by the counting argument, and a matured slot is
  vetoed.
* `RecoveryResolvesWhenDue`, `LostKeysRecoveredWhenDue`, `GovernanceRecoveredWhenDue`:
  with weak fairness of `execute_recovery`, a given recovery ends, or installs its
  target, if the clock reaches its deadline.
* `RecoveryResolvesCorrect`, `LostKeysRecoveredCorrect`, `GovernanceRecoveredCorrect`
  state the checked properties themselves, for all recoveries.

The progress theorems carry two hypotheses that TLAPS cannot discharge, written into
their statements. `ExecutableWhenDue`: a due recovery makes `execute_recovery`
`ENABLED`, which the prover treats as an opaque predicate; `DueRecoveryExecutable`
exhibits the step. And the clock: `<>(now >= t)` for a single deadline,
`DeadlinesPass` (a pending recovery ends or becomes due) for all; that weak fairness
of `Tick` brings it there is an induction on the distance to the deadline. Both hold in
every behaviour TLC explores in the runs `recovery` and `governance`, where the
properties are checked without them.

**Governance** (`GovernanceProofs`): type, admins and policy bounds are inductive as
they stand; the quorum argument is the one of the settlement contract.
`GovernanceImplements` is `Spec => GovernanceChangeControlled`: three kinds of step
(direct by the quorum, recovery, environment) map to steps of `ChangeControl`, with
`init` again the direct step of a contract whose threshold is still zero.

**Composition** (`BettaPayProofs`): `Answering` (what settlement is told at each
address is computed from the governance state, and that state is within the policy)
makes every step of the composition a step of `Settlement` with an allowed answer,
hence `CompositionImplements`, through which all of the settlement theorems hold
beside the real governance contract. `Sourced` (whatever is cached was answered by
some address once) gives `RatesHaveASource` and, with `RulesBounded` for the rules of
merchants, `PaymentsWithinPolicy`. Since rates within the policy never exceed the
payment, `PayoutRounding` applies to every record (`PayoutsRoundedCorrect`); with an
arbitrary governance contract it would not. `CompositionImplementsGovernance` is the
other half: the pair is a behaviour of `Governance`, on the shared clock and keys, so
the theorems about it carry over. `GovernanceKeepsItsPromises` carries out four of
them through an instance of `GovernanceProofs`, whose assumptions follow from those of
the composition (`GovernanceInputs`).

**Lifetimes** (`LifetimesProofs`): a call is described by what it touches, keeps,
writes and removes. `CallTracks` says that lifetimes follow the store when the
call's writes and removals are those of the step (`StoreFollows`), and one lemma per
group of entry points shows that they are. `LifeGrows`: no step shortens a life, and
a new entry lives for `TTL_BUMP`. From these: a slot lives until it matures, under
the explicit hypothesis `MAX_TIMELOCK <= TTL_BUMP` in ledgers
(`MCSlotFastLedgers` is the counterexample without it); a record outlives its last
read, and the merchant's own entries that a payment needs (marker, rule, counter)
outlive its last payment, by the threshold; the instance does not
(`MCInstanceLivesWithTraffic`).
`StrangersNeverKeepAlive` is a case analysis over the calls: those that extend such
an entry ask for the merchant's signature, for a quorum, or consume a slot.

**Reader** (`PaymentReaderProofs`). A page lists the records that exist in the order of
their references; its k-th record is the one at the k-th present position
(`Nth`). `NthEnumerates` shows that this enumerates the positions once each and in
order: the rank of a position among finitely many is an injection into an interval
of the same cardinality, hence onto it (a counting argument, no induction). `Page`
says what a page contributes and when its cursor ends the walk. `WalkInv` is the
inductive invariant: everything steady and present before the cursor has been
received, and, as long as nothing was disturbed, what was received is exactly the
list of the records before the cursor (`Lists`) and the announced count is still the
number of records. It needs `Known` (the indexer knows every reference with a
record) and, at the start of a walk, `PaymentCountExact`. Towards `WalkEnds`:
`WalkAdvancesCorrect` (a page ends the walk or moves the cursor by exactly one page,
and nothing else moves it), `NextPageAnswered` (a registered merchant that can sign is
never refused the next page, given that the references number at most a u32) and
`PageEventuallyRead` (so under the reader's fairness each single page is read, again
with `ENABLED` as a stated hypothesis).

**Only model-checked.** That the hypotheses of the progress theorems hold: the clock
reaching every deadline under weak fairness of `Tick`, and `ENABLED` of the two fair
steps. So the liveness properties `RecoveryResolves`, `LostKeysRecovered` and
`GovernanceRecovered` are proved only relative to them, and `WalkEnds` only page by page:
that finitely many pages end it is an induction on what is left of the walk, and the
library's induction theorems are out of the provers' reach. `OutageNeverBlocksPayments`
itself, because it is stated with `ENABLED`. The claims of the violation runs are false,
so there is nothing to prove of them.

## Not modelled

* The lifetimes of the governance contract's parameter and anchor entries (its
  queries, `get_anchor` among them, change nothing else); archival is modelled for
  the settlement contract.
* Events, and which error code a refused call reports. The interface and version
  queries are constants, the scripts are tooling.
* A pending recovery stored by an older version of the contract (the decoder
  refuses it), and records of another schema version: `migrate_step` is empty.
* Re-entrancy: the host refuses it. The `Initializing` marker and the dummy payment
  record exist only within one invocation.
* Deploying the throw-away instance of the upgrade probe: its answer is the constant
  set `Compatible`.

## Plan

The components that keep state are modelled, every safety and action property of a
passing run is proved for all values of the constants (`OutageNeverBlocksPayments`
without its `ENABLED`), and the liveness properties are proved up to the clock, `ENABLED`
and, for `WalkEnds`, the number of pages. What would come next, with a prover that reasons about `ENABLED`
and instantiates induction rules: discharging `ExecutableWhenDue` and `DeadlinesPass`
from `DueRecoveryExecutable` and the fairness of `Tick`, and `WalkEnds` from
`WalkAdvances` and `PageEventuallyRead`.
