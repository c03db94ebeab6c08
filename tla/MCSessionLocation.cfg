CONSTANTS
    lockedUser = lockedUser
    appleUser = appleUser
    plainUser = plainUser
    NoUser = NoUser
    Users <- MCUsers
    FaceIDUsers <- MCFaceIDUsers
    AppleUsers <- MCAppleUsers
    HasProfileUpdater = TRUE
    HasLocationUsage = TRUE
    DeviceHasBiometry = FALSE
    MaxRequests = 1
SPECIFICATION Spec
INVARIANTS
    MainIsRemembered
    LocationWriteIsFinal
