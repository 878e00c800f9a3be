SPECIFICATION PlaybackSpec
CONSTANTS
    ra = ra
    rb = rb
    Reciters = {ra, rb}
    Surahs = 2
    Ayahs = 2
    Recorded <- OneGap
    Fallback = ra
    NoReciter = NoReciter
    Starts <- LastOfTheFirst
    MaxPlaybackEvents = 3
PROPERTIES
    PausedStaysPaused
CHECK_DEADLOCK FALSE
