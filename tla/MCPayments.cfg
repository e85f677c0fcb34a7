CONSTANTS
    zero = zero
    alice = alice
    shop = shop
    gov1 = gov1
    h1 = h1
    w0 = w0
    r0 = r0
    r1 = r1
    r2 = r2
    r3 = r3
    None = None
    Trap = Trap
    Malformed = Malformed
    Address <- MCAddress
    ZeroAddress = zero
    HASH = {h1}
    Hash <- MCHash
    REF = {r0, r1, r2, r3}
    ZeroRef = r0
    WASM = {w0}
    ZeroWasm = w0
    Compatible = {}
    Oversized = {}
    BPS_DENOMINATOR = 10000
    I128_MAX = 2000000
    RECOVERY_DELAY = 1
    MIN_TIMELOCK = 1
    MAX_TIMELOCK = 1
    MIN_FEE_BPS = 5
    MAX_FEE_BPS = 5000
    MAX_SETTLEMENT_DELAY_LEDGER = 1
    MIN_PAYMENT_AMOUNT = 100
    MAX_PAYMENTS_BATCH = 2
    MAX_CANCEL_ALL_BATCH = 1
    MAX_PAUSE_REASON = 0
    BOOTSTRAP_DEFAULT_RULE <- Bootstrap
    CURRENT_SCHEMA_VERSION = 1
    U32_MAX = 2
    U64_MAX = 1
    SignerVecs <- MCSigners
    AdminVecs <- MCAdmins
    Thresholds = {1}
    GovInputs = {gov1}
    RecoveryInputs = {alice}
    NewAdmins = {}
    MerchantInputs = {shop}
    RuleInputs <- MCRules
    OpInputs = {}
    OpBatches = {}
    Delays = {}
    RefInputs = {r0, r1, r2, r3}
    RefBatches <- MCRefBatches
    Amounts <- MCAmounts
    Reasons = {0}
    WasmInputs = {}
    GovReplies <- MCReplies
    KeyLosses <- MCLosses
SPECIFICATION Spec
INVARIANTS PaymentCountExact PaymentsConserve OutageNeverBlocksPayments
PROPERTIES PaymentsImmutable
CHECK_DEADLOCK FALSE
