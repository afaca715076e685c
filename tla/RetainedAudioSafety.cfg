SPECIFICATION FairSpec
CONSTANTS
    Decks = {d1}
    Users = {u1, u2}
    Nobody = nobody
    FirstOwner = u1
    MaxRecordings = 2
    MaxDeletes = 2
    MaxRestores = 1
    MaxTransfers = 1
    MaxCrashes = 1
    MaxFaults = 1
    MaxDisturbances = 3
INVARIANT RecordingHasAudio
INVARIANT GaugeNeverUnderstates
INVARIANT GaugeOnlyCountsFindableAudio
PROPERTY PurgedAudioIsCredited
PROPERTY ExpiredIsRemoved
CHECK_DEADLOCK FALSE
