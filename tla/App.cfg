\* The repositories behind the screens, the registry of what is shown, and
\* the window; and what the window draws with: slots to animate
\* and textures.
SPECIFICATION AppSpec
CONSTANTS
    \* the follow button: two profiles, two accounts, six commands
    profile1 = profile1
    profile2 = profile2
    Profiles = {profile1, profile2}
    viewer1 = viewer1
    viewer2 = viewer2
    Viewers = {viewer1, viewer2}
    NoViewer = NoViewer
    NoCall = NoCall
    QueueCapacity = 2
    MaxCommands = 6
    MaxLost = 1
    \* presence: two screens, the account itself among the watched
    Owners = {"chats", "chat"}
    Users = {"me", "u"}
    Accounts = {"me"}
    MaxSent = 3
    MaxDrops = 1
    \* the posts: two pages that overlap, one id that is no number
    Scopes = {"all", "user"}
    Posts = {"p", "q"}
    Members = {"v1", "v2"}
    NoMember = "none"
    Numeric = {"p"}
    InboxRoom = 1
    PageRows = 2
    MaxPostCommands = 4
    \* the sessions: three of one account, one of another
    Identities = {"a", "b"}
    SessionIds = {"s", "t", "u", "x"}
    OwnerOf <- SessionOwners
    CurrentOf <- SessionsHere
    SessionPage = 2
    MaxSessionCommands = 5
    \* the registry: three screens where two fit, two of them sharing a key
    MaxLeases = 2
    MaxClaims = 2
    ScreenOwners = {"o1", "o2", "o3"}
    ScreenKeys = {"o1", "o2", "k"}
    MaxGrants = 4
    MaxDepth = 2
    \* the window: two sections, a conversation and the settings, in every
    \* layout, two screens open besides the roots, one handler between frames
    Sections = {"feed", "chats"}
    Screens = {"onboarding", "sign in", "chat", "settings"}
    SlotOf <- Slots
    Onboarding = "onboarding"
    SignIn = "sign in"
    RailTargets = {"settings"}
    FirstSection = "feed"
    ForwardLimit = 2
    Sidebar = 2
    DetailMin = 3
    Aside = 4
    Hysteresis = 1
    Widths = {3, 5, 9}
    OverlayCapacity = 8
    MaxHeld = 2
    MaxUnseen = 1
    \* the playback hub: room for three animations, or one and a video
    Players = {"a", "b", "c"}
    Kinds = {"lottie", "video"}
    CostOf <- CostsOf
    NominalBudget = 6
    NoGrant = 0
    MaxGranted = 5
    \* the textures: two streams and an atlas of two pages
    Textures = {"s1", "s2"}
    FrameCosts = {1, 3}
    TextureCeiling = 6
    PageCost = 2
    TilesPerPage = 2
    MaxPages = 2
    \* the field: two characters, three edits, one input method
    Characters = {"a", "b", "c", "n"}
    Inserted <- FieldInserted
    Composed <- FieldComposed
    LineBreak = "n"
    MaxLength = 2
    MaxFieldEdits = 3
    \* the caret
    MaxEpoch = 5
    \* the update: three feeds, three refusals
    Feeds <- FeedsOffered
    Policies <- PoliciesGiven
    Nothing = Nothing
    Other = Other
    MaxTroubles = 3
    MaxChecks = 3
SYMMETRY Symmetric
INVARIANTS
    AppTypeOK
    RestingButtonIsTrue
    FollowsAreMeant
    WireFollowsTheScreens
    ListsAreTrue
    RefreshedOncePerCycle
    BackThenForward
    TheWindowAgrees
    DrawingIsPaid
    UndoRunsBack
    OneBlinkCycle
    UpdatesAreSafe
PROPERTIES
    LayoutDoesNotStrobe
CHECK_DEADLOCK FALSE
