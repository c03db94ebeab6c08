SPECIFICATION Spec
CONSTANTS
    MaxLength = 7
    MaxName = 3
INVARIANTS
    TypeOK
    AccountIsStrong
    PhonePasswordLogsIn
