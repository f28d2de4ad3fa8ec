SPECIFICATION BackendSpec
SYMMETRY Symmetric
CONSTANTS
    Projects = {"p1", "p2"}
    Clicks = {1, 2}
    Lanes = {1}
    Jobs = {1, 2}
    Keys <- MCKeys
    quota_active_jobs = 1
    quota_active_paid_jobs = 1
    quota_monthly_usd = 1
    quota_projects_per_hour = 1
    quota_projects_total = 1
    max_attempts = 2
    Mishaps = 1
    Exports = {"e1"}
    KindOf <- MCKindOf
    Runs = {r1, r2}
    Spoken = {"c1"}
    Ranges = {"g1"}
    most_items = 1
    export_attempts = 2
    ExportMishaps = 3
    Names = {"root", "ann", "Ann"}
    lower <- MCLower
    Admins = {"root", "ann"}
    Founders = {"root"}
    Calls = {1, 2}
    Changes = 4
    Callers <- MCCallers
    IP_MAX_ATTEMPTS = 3
    IP_WINDOW_SEC = 1
    USER_MAX_ATTEMPTS = 2
    USER_WINDOW_SEC = 3
    SWEEP_EVERY_SEC = 2
    Horizon = 4
    Knocks = 5
    Apis = {"a1", "a2"}
    Boxes = {"b1", "b2"}
    CodeOf <- MCCodeOf
    Heavy = {"b1"}
    Able = {"b1"}
    STALE_SEC = 1
    FORGET_SEC = 1
    Rounds = 2
    Upsets = 1
    Lines = 2
    LineCosts = {1, 2}
    MAX_ANSWER_TOKENS = 2
    Durations = {3, 4}
    MIN_SHORT_DURATION = 2
    MAX_SHORT_COUNT = 4
    DEFAULT_SHORT_COUNT = 2
    Portions = {1, 2}
    MIN_CANDIDATES_PER_CHUNK = 1
    CANDIDATE_SLACK = 0
    longest = 12
    Recordings <- MCRecordings
    max_chunk_sec = 6
    min_chunk_sec = 2
    overlap_sec = 1
    Takes <- MCTakes
    Segments <- MCSegments
    ClipLengths = {6, 13, 15}
    LengthsWanted = {0, 30, 55, 90}
    most_clips = 4
    fps = 20
    xfade_batch = 3
    min_split_frames = 2
    Scenes <- MCScenes
    gap = 1
    pad = 2
    Sources <- MCSources
    Marks <- MCMarks
    Proposals <- MCProposals
    MIN_DURATION = 12
    MAX_DURATION = 18
    MIN_CUTS = 2
    MAX_CUTS = 3
    MAX_SNAP_SEGMENTS = 2
    CUT_PAD = 1
    Speeches <- MCSpeeches
    most_words = 2
    MIN_SEGMENT_SEC = 2
    MAX_SEGMENT_SEC = 5
    Instances = {"a1", "a2"}
    Readers = {"b1"}
    Secrets = {"s", "t"}
    Variables <- MCVariables
    Entries = 3
    Sayings <- MCSayings
    Drafts <- MCDrafts
    Timelines <- MCTimelines
    Orders = {1, 2}
    Turns = 3
INVARIANTS
    BackendTypeOK
    AccountWithinLimits OvershootBounded
    ListedIsStored VoiceIsBoughtOnce
    SessionsEnd AnAdminIsLeftUnlessTwoClose
    LimitIsExact
    SchemaIsMet
    SettledByItsOwn
    BatchesAreSeamless CaptionsInSync
    DubIsInTime
    AUsableShortIsBuilt RepairKeepsTheStory
    TranscriptHoldsTheSpeech
    JobsUseTheKeyEntered
    ExportIsAsAsked
PROPERTIES RenderersAnswer EveryTurnAdvances
CHECK_DEADLOCK FALSE
