CONSTANTS
    zero = zero
    alice = alice
    bob = bob
    rescue = rescue
    gov1 = gov1
    h1 = h1
    h2 = h2
    w0 = w0
    w1 = w1
    r0 = r0
    None = None
    Trap = Trap
    Malformed = Malformed
    Address <- MCAddress
    ZeroAddress = zero
    HASH = {h1, h2}
    Hash <- MCHash
    REF = {r0}
    ZeroRef = r0
    WASM = {w0, w1}
    ZeroWasm = w0
    Compatible = {w1}
    Oversized <- MCOversized
    BPS_DENOMINATOR = 10000
    I128_MAX = 2000000
    RECOVERY_DELAY = 2
    MIN_TIMELOCK = 2
    MAX_TIMELOCK = 3
    MIN_FEE_BPS = 5
    MAX_FEE_BPS = 5000
    MAX_SETTLEMENT_DELAY_LEDGER = 1
    MIN_PAYMENT_AMOUNT = 1
    MAX_PAYMENTS_BATCH = 2
    MAX_CANCEL_ALL_BATCH = 3
    MAX_PAUSE_REASON = 0
    BOOTSTRAP_DEFAULT_RULE <- MCRule
    CURRENT_SCHEMA_VERSION = 1
    U32_MAX = 2
    U64_MAX = 5
    SignerVecs <- MCSigners
    AdminVecs <- MCAdmins
    Thresholds = {0, 1, 2}
    GovInputs = {gov1, zero}
    RecoveryInputs = {rescue, zero}
    NewAdmins = {rescue, zero, bob}
    MerchantInputs = {}
    RuleInputs = {}
    OpInputs <- MCOps
    OpBatches <- MCBatches
    Delays = {0, 1, 2, 3, 4}
    RefInputs = {}
    RefBatches = {}
    Amounts = {}
    Reasons = {0, 1}
    WasmInputs = {w0, w1}
    GovReplies <- MCReplies
    KeyLosses <- MCLosses
SPECIFICATION Spec
INVARIANTS TypeOK AdminSetValid QueueDepth
PROPERTIES RecoveryPrecedes VetoHolds TimelockRespected QuorumControls
CHECK_DEADLOCK FALSE
