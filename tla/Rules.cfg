\* Six components, one at a time.
SPECIFICATION RulesSpec
CONSTANTS
    Rules = {"listing", "plan", "delivery", "filter", "circles", "requests"}

    Entries = {0, 1, 2, 3, 4}
    Predicates = {"file", "md"}
    Queries <- MCQueries
    Catalogs <- MCCatalogs
    Refills = 1
    MaxStamp = 4
    MaxTurns = 1

    MaxFilterLength = 16
    MaxFilterPredicates = 3
    MaxFilterTake = 2
    LastDay = 3
    Alphabets <- MCAlphabets
    PlainNames <- MCPlainNames
    Samples <- MCSamples

    MIB = 2
    MULTIPART_TARGET_PART_COUNT = 3
    MULTIPART_MIN_PART_BYTES = 4
    MULTIPART_MAX_PART_BYTES = 9
    MULTIPART_MAX_PART_COUNT = 5
    SINGLE_UPLOAD_MAX_BYTES = 6
    MAX_UPLOAD_BYTES = 40
    Declared = 45

    END_RECORD = 2
    MAX_COMMENT = 2
    ZIP64_LOCATOR = 1
    ZIP64_RECORD = 2
    SIGNATURE = 1
    HEADER = 2
    MAX_16 = 3
    MAX_32 = 9
    MAX_ZIP_DIRECTORY_BYTES = 8
    TAR_BLOCK = 2
    MAX_TAR_READ_BYTES = 10
    MAX_SEVEN_ZIP_BYTES = 9
    Files = {1, 2, 3, 4}
    Sub = 5
    Scenes <- MCScenes
    Reuploaded <- MCReuploaded
    Limits = {1, 2, 3}
    Ranges <- MCRanges
    NoBound <- Minus1
    PageLimit = 2
    MaxRefills = 1
    MaxDisturbances = 1

    ada = ada
    bob = bob
    bot = bot
    bee = bee
    Carbons = {ada, bob}
    Silicons = {bot, bee}
    NoCustodian = nobody
    Helpers = {h1, h2}
    RowTTL = 2
    AnswerTime = 1
    LearnBatch = 1
    Settings <- MCSettings
    MaxCircleTime = 4
    docs = docs
    sheet = sheet
    draft = draft
    planned = planned
    theirs = theirs
    AppCalls = {c1, c2}
    Issuers = {"waveform", "karaoke"}
    FirstParty = {"karaoke"}
    ProofIssuers <- MCProofIssuers
    Proofs <- MCProofs
    Operations = {"p"}
    Contents = {"x", "y"}
    AllEntries = {docs, sheet, draft, planned, theirs}
    FolderEntries = {docs, planned}
    Theirs = {theirs}
    AllPaths = {"w1", "w2", "h1", "h2"}
    FolderAt <- MCFolderAt
    Placed <- MCPlaced
    SecretFiles = {f1, f2}
    Nil = nil
    Menus <- MCMenus
INVARIANTS PlansHold AnswersAreFaithful CirclesHold AppRequestsHold
\* A request ends, and each component has bounds at which it stops.
CHECK_DEADLOCK FALSE
