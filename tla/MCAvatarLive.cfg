CONSTANTS
    user = user
    Users <- MCUsers
    Avatars <- TwoSizes
    NoAvatar = NoAvatar
    MaxOutstanding = 1
    CacheSize = 2
    MaxPictures = 1
    MaxSessions = 2
    MaxWorkers = 2
SPECIFICATION LiveSpec
PROPERTIES
    AvatarArrives
    StopReturns
CHECK_DEADLOCK FALSE
