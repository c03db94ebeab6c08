CONSTANTS
    lockedUser = lockedUser
    appleUser = appleUser
    plainUser = plainUser
    NoUser = NoUser
    Users <- MCUsers
    FaceIDUsers <- MCFaceIDUsers
    AppleUsers <- MCAppleUsers
    HasProfileUpdater = FALSE
    HasLocationUsage = FALSE
    DeviceHasBiometry = TRUE
    MaxRequests = 1
SPECIFICATION Spec
PROPERTY ResyncLogsOutGoneAccounts
