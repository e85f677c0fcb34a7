CONSTANTS
    zero = zero
    alice = alice
    rescue = rescue
    vault = vault
    gov1 = gov1
    h1 = h1
    h2 = h2
    w0 = w0
    r0 = r0
    None = None
    Trap = Trap
    Malformed = Malformed
    Address <- MCAddress
    ZeroAddress = zero
    HASH = {h1, h2}
    Hash <- MCHash
    REF = {r0}
    ZeroRef = r0
    WASM = {w0}
    ZeroWasm = w0
    Compatible = {}
    Oversized = {}
    BPS_DENOMINATOR = 10000
    I128_MAX = 2000000
    RECOVERY_DELAY = 2
    MIN_TIMELOCK = 2
    MAX_TIMELOCK = 3
    MIN_FEE_BPS = 5
    MAX_FEE_BPS = 5000
    MAX_SETTLEMENT_DELAY_LEDGER = 1
    MIN_PAYMENT_AMOUNT = 1
    MAX_PAYMENTS_BATCH = 2
    MAX_CANCEL_ALL_BATCH = 1
    MAX_PAUSE_REASON = 0
    BOOTSTRAP_DEFAULT_RULE <- MCRule
    CURRENT_SCHEMA_VERSION = 1
    U32_MAX = 2
    U64_MAX = 5
    SignerVecs <- MCSigners
    AdminVecs <- MCAdmins
    Thresholds = {1}
    GovInputs = {gov1}
    RecoveryInputs = {rescue, vault}
    NewAdmins = {vault, rescue}
    MerchantInputs = {}
    RuleInputs = {}
    OpInputs <- MCOps
    OpBatches = {}
    Delays = {2, 3}
    RefInputs = {}
    RefBatches = {}
    Amounts = {}
    Reasons = {0}
    WasmInputs = {}
    GovReplies = {}
    KeyLosses <- MCLosses
SPECIFICATION FairSpec
PROPERTIES RecoveryResolves LostKeysRecovered
CHECK_DEADLOCK FALSE
