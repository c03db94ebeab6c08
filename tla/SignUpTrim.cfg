SPECIFICATION Spec
CONSTANTS
    MaxLength = 7
    MaxName = 3
INVARIANT
    SignUpPasswordLogsIn
