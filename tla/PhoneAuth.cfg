SPECIFICATION Spec
CONSTANTS
    OtpCount = 2
    MaxInFlight = 2
INVARIANTS
    ScreenFollowsContactPoint
    CodeHasVerification
    CodeInOrder
