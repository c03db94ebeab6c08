SPECIFICATION FairSpec
CONSTANTS
    OtpCount = 1
    MaxInFlight = 2
    MaxRequests = 2
    Countries = {us, mx}
    DefaultCountry = us
INVARIANTS
    TypeOK
    OKLeavesReset
    FlagNamesTheCode
PROPERTIES
    ImplementsPhoneAuth
    ResetIsHeard
