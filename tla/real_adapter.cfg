SPECIFICATION Spec
CONSTANTS
    s1 = s1
    v1 = v1
    SigningCalls = {s1}
    VerifyingCalls = {v1}
    Algorithms = {"classical-ed25519", "ml-dsa", "fn-dsa"}
    StandardProfiles <- Profile
    Hashes = {"h1", "h2"}
    KeyVersions = {1, 2}
    Decimal <- MCDecimal
    ChangingFields <- FieldsThatChange
    Backends = {"classical-ed25519", "ml-dsa", "fn-dsa"}
    OqsAlgorithms = {"ml-dsa", "fn-dsa"}
    ShorterAllowed = {"fn-dsa"}
    TestOnly <- TestNames
    Unencodable <- SurrogateNames
    SignJobs <- Jobs
    Keys <- RegistryKeys
    EntryFields <- PresentedFields
    ForgedSignatures <- Forgeries
    InitialVault <- Vault
    RotatedVault <- NextVault
INVARIANTS
    TypeOK
    NoSplicing
    TestMaterialNeverCounts
    GenuineAccepted
    EndsInHierarchy
CHECK_DEADLOCK FALSE
