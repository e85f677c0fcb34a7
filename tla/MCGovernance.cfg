CONSTANTS
    zero = zero
    alice = alice
    bob = bob
    vault = vault
    w0 = w0
    w1 = w1
    None = None
    Address <- MCAddress
    ZeroAddress = zero
    WASM = {w0, w1}
    ZeroWasm = w0
    Compatible = {w1}
    PARAM = {"bypass_gov_fees", "min_payment"}
    BYPASS_GOV_FEES_PARAM = "bypass_gov_fees"
    RECOVERY_DELAY = 1
    MIN_FEE_BPS = 5
    MAX_FEE_BPS = 60
    BPS_DENOMINATOR = 100
    CURRENT_SCHEMA_VERSION = 1
    U64_MAX = 2
    SignerVecs <- MCSigners
    AdminVecs <- MCAdmins
    Thresholds = {0, 1, 2}
    RecoveryInputs = {vault}
    NewAdmins <- MCNewAdmins
    WasmInputs = {w0, w1}
    FeeInputs <- MCFees
    ParamValues <- MCValues
    AssetInputs <- MCAssets
    AnchorInputs <- MCAnchors
    KeyLosses <- MCLosses
SPECIFICATION FairSpec
INVARIANTS TypeOK GovernanceAdminsValid PolicyBounded
PROPERTIES GovernanceQuorumControls PausedFreezesPolicy GovernanceRecovered
CHECK_DEADLOCK FALSE
