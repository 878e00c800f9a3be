SPECIFICATION BackgroundSpec
CONSTANTS
    a = a
    b = b
    r1 = r1
    ra = ra
    rb = rb
    t1 = t1
    w1 = w1
    c1 = c1
    c2 = c2
    Devices = {a, b}
    Tasks = {t1}
    Skew <- Drifting
    Tolerance = 1
    GuestDevices = {}
    OldVersions = FALSE
    MaxTime = 2
    ReadingDevices = {a, b}
    Cycles <- FirstCycles
    Instants <- FewInstants
    LastPage = 2
    Faults = {"abandon", "meta", "stops", "records"}
    MaxEvents = 2
    Writers = {a, b}
    MaxTexts = 2
    MaxInstant = 2
    SyncStops = 1
    SettingsDevices = {a, b}
    SettingKinds = {"choice", "guide"}
    LastInstant = 3
    LostCalls = 1
    Holders = {a, b}
    MaxKeys = 2
    KeyFaults = 2
    MaxRetries = 2
    MaxSessions = 3
    SyncEvents = 3
    Retries = 2
    Slots = {1, 2}
    ReminderEvents = 3
    Reports = {r1}
    Workers = {a, b}
    MaxAttempts = 2
    OutboxFaults = 2
    SyncWrites = {w1}
    Cases = {c1, c2}
    MaxWrong = 1
    Reciters = {ra, rb}
    Surahs = 2
    Ayahs = 3
    Recorded <- OneGap
    Fallback = ra
    NoReciter = NoReciter
    Starts <- FirstAyah
    MaxPlaybackEvents = 3
INVARIANTS
    BackgroundTypeOK
    LosesOnlyTheUnread
    NewestChoiceKept
    OwnKeyIsFinished
    OldCiphertextIsRemoved
    SyncsOneAtATime
    ChangeIsPickedUp
    AutoNotStranded
    RemindersFollow
    OutboxOneLiveSend
    NoDataOfTheDeleted
    CompletedMeansDeleted
    AyahShownIsHeard
PROPERTIES
    Converges
    DevicesConverge
    ReflectionsConverge
    SettingsConverge
    RetriesEnd
    PreparedOrStalled
    OutboxOutcomeStands
    OutboxSettles
    NewestCodeVerifies
\* The parts come to an end: the reader's changes are bounded, jobs end.
CHECK_DEADLOCK FALSE
