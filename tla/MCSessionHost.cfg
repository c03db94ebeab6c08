CONSTANTS
    lockedUser = lockedUser
    appleUser = appleUser
    plainUser = plainUser
    NoUser = NoUser
    Users <- MCUsers
    FaceIDUsers <- MCFaceIDUsers
    AppleUsers <- MCAppleUsers
    HasProfileUpdater = FALSE
    HasLocationUsage = TRUE
    DeviceHasBiometry = TRUE
    MaxRequests = 1
SPECIFICATION FairSpec
INVARIANTS
    TypeOK
    SessionAgreement
    OneScreen
    OnboardingIsWired
    WalkthroughBeforeSession
PROPERTIES
    LaunchShowsAScreen
    ImplementsSession
