CONSTANTS
    zero = zero
    alice = alice
    shop = shop
    gov1 = gov1
    h1 = h1
    h2 = h2
    w0 = w0
    w1 = w1
    r0 = r0
    None = None
    Trap = Trap
    Malformed = Malformed
    Address <- MCAddress
    ZeroAddress = zero
    HASH = {h1, h2}
    Hash <- MCHash
    REF = {r0}
    ZeroRef = r0
    WASM = {w0, w1}
    ZeroWasm = w0
    Compatible = {w1}
    Oversized = {}
    BPS_DENOMINATOR = 100
    I128_MAX = 20000
    RECOVERY_DELAY = 1
    MIN_TIMELOCK = 1
    MAX_TIMELOCK = 1
    MIN_FEE_BPS = 5
    MAX_FEE_BPS = 60
    MAX_SETTLEMENT_DELAY_LEDGER = 1
    MIN_PAYMENT_AMOUNT = 1
    MAX_PAYMENTS_BATCH = 2
    MAX_CANCEL_ALL_BATCH = 3
    MAX_PAUSE_REASON = 0
    BOOTSTRAP_DEFAULT_RULE <- Bootstrap
    CURRENT_SCHEMA_VERSION = 1
    U32_MAX = 2
    U64_MAX = 2
    SignerVecs <- MCSigners
    AdminVecs <- MCAdmins
    Thresholds = {1}
    GovInputs = {gov1}
    RecoveryInputs = {alice}
    NewAdmins = {shop}
    MerchantInputs = {shop, zero}
    RuleInputs <- MCRules
    OpInputs <- MCOps
    OpBatches = {}
    Delays = {1}
    RefInputs = {}
    RefBatches = {}
    Amounts = {}
    Reasons = {0}
    WasmInputs = {w0, w1}
    GovReplies <- MCReplies
    KeyLosses = {{alice}}
SPECIFICATION Spec
INVARIANTS RegistryConsistent RulesBounded
PROPERTIES ExclusivityOnlyBrokenByRecovery PausedFreezes ChangeControlled
CHECK_DEADLOCK FALSE
