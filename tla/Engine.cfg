\* The engine crate: the outbox, the store, its views and their broadcast,
\* the debouncer, the request ids and the upload progress; the decoders of
\* the media crate, its raster pool and the audio ring.
SPECIFICATION EngineSpec
CONSTANTS
    \* two pairs of names that no part tells apart
    a1 = a1
    a2 = a2
    b1 = b1
    b2 = b2
    \* the outbox: three operations over two lanes, four claims
    MaxOps = 3
    chat1 = chat1
    chat2 = chat2
    Lanes = {chat1, chat2}
    MaxClaims = 4
    MaxNow = 3
    BaseDelay = 1
    MaxExponent = 1
    \* the store: two copies of the program open the account twice each
    Processes = {a1, a2}
    OpensPerProcess = 2
    Jobs = {b1, b2}
    NoEngine = NoEngine
    MaxMishaps = 1
    MaxAstray = 1
    \* the views: three batches of up to two operations
    Entities = {1, 2}
    Aliases = {"handle"}
    Views = {"chats"}
    Positions = {1, 2}
    MaxBatch = 2
    MaxBatches = 3
    \* the broadcast: two readers that fall behind a channel of two
    BusViews = {"profile", "chats"}
    Writers = {"w1", "w2"}
    Readers = {"r1", "r2"}
    Watches <- WatchesOf
    BusCapacity = 2
    MaxCommits = 4
    \* the debouncer
    Window = 1
    MaxWait = 2
    NoMaxWait = 0
    MaxEdits = 3
    MaxTime = 4
    Capacity = 1
    \* the request ids: a sequence of two, a clock that jumps
    Threads = {"t1", "t2"}
    SequenceMask = 1
    MaxMillis = 2
    MaxIds = 4
    \* the uploads
    Uploads = {"u"}
    Reporters = {"t1", "t2"}
    NoEntry = NoEntry
    TotalBytes = 3
    Epsilon = 2
    MaxReports = 3
    \* the feed: eight videos, up to four on screen, five decoders
    FeedLength = 8
    MaxVisible = 4
    MaxLive = 5
    PreloadAhead = 2
    PreloadBehind = 1
    \* the queue of tracks
    Tracks = {"t1", "t2", "t3"}
    NoTrack = "none"
    \* the raster pool: two threads, two viewers, a queue of one and a
    \* cache that keeps no frame of what nobody draws
    Keys = {"k1", "k2"}
    Frames = {1}
    Workers = {a1, a2}
    AnimationViews = {b1, b2}
    MaximumPending = 1
    CacheCeiling = 0
    MaximumResident = 1
    SequenceCeiling = 1
    DecodedCeiling = 1
    MaxSequences = 2
    MaxRequests = 2
    \* the ring: two slots, indices that wrap at four
    RingCapacity = 2
    IndexModulus = 4
    StreamFrames = 4
    TrimStart = 1
    TrimValid = 2
    SampleRate = 5
    SecondMillis = 2
    MaxBlock = 2
    MaxCallback = 2
    MaxTape = 4
SYMMETRY Symmetric
INVARIANTS
    EngineTypeOK
    OneOwner
    AnswersAreTrue
    TablesAgree
    CaughtUpIsCurrent
    NewestRunsInTime
    IdsIncrease
    NeverFarBehind
    DecodersHold
    FramesAreKept
    HeardInOrder
PROPERTIES
    BackoffIsHonoured
    BatchesAreWhole
    KeepsTheOutboxContract
    IsAChannel
CHECK_DEADLOCK FALSE
