CONSTANTS
    zero = zero
    alice = alice
    shop = shop
    gov1 = gov1
    gov2 = gov2
    h1 = h1
    w0 = w0
    r0 = r0
    r1 = r1
    None = None
    Trap = Trap
    Malformed = Malformed
    Address <- MCAddress
    ZeroAddress = zero
    GovernanceContract = gov1
    PARAM = {"bypass_gov_fees", "min_payment"}
    BYPASS_GOV_FEES_PARAM = "bypass_gov_fees"
    MIN_PAYMENT_PARAM = "min_payment"
    HASH = {h1}
    Hash <- MCHash
    REF = {r0, r1}
    ZeroRef = r0
    WASM = {w0}
    ZeroWasm = w0
    Compatible = {}
    Oversized = {}
    BPS_DENOMINATOR = 100
    I128_MAX = 20000
    RECOVERY_DELAY = 1
    MIN_TIMELOCK = 1
    MAX_TIMELOCK = 1
    MIN_FEE_BPS = 5
    MAX_FEE_BPS = 60
    MAX_SETTLEMENT_DELAY_LEDGER = 1
    MIN_PAYMENT_AMOUNT = 2
    MAX_PAYMENTS_BATCH = 1
    MAX_CANCEL_ALL_BATCH = 1
    MAX_PAUSE_REASON = 0
    BOOTSTRAP_DEFAULT_RULE <- Bootstrap
    CURRENT_SCHEMA_VERSION = 1
    U32_MAX = 1
    U64_MAX = 1
    SignerVecs <- MCSigners
    AdminVecs <- MCAdmins
    GovAdminVecs <- MCAdmins
    Thresholds = {1}
    GovInputs = {gov1, gov2}
    RecoveryInputs = {shop}
    NewAdmins = {}
    MerchantInputs = {shop}
    RuleInputs <- MCRules
    OpInputs <- MCOps
    OpBatches = {}
    Delays = {1}
    RefInputs = {r1}
    RefBatches = {}
    Amounts <- MCAmounts
    Reasons = {}
    WasmInputs = {}
    GovReplies <- MCReplies
    KeyLosses = {}
    FeeInputs <- MCFees
    ParamValues <- MCValues
    AssetInputs = {}
    AnchorInputs = {}
SPECIFICATION SystemSpec
INVARIANT CacheIsGovernances
CHECK_DEADLOCK FALSE
