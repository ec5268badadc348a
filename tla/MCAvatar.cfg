CONSTANTS
    user = user
    Users <- MCUsers
    Avatars <- ThreeSizes
    NoAvatar = NoAvatar
    MaxOutstanding = 2
    CacheSize = 2
    MaxPictures = 1
    MaxSessions = 2
    MaxWorkers = 2
SPECIFICATION Spec
INVARIANTS
    CallsLoadedProvider
    TransferredOnce
    PromiseHeld
    RightFaceDrawn
    PicturesCurrent
CHECK_DEADLOCK FALSE
