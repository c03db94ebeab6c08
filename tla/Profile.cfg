SPECIFICATION Spec
CONSTANTS
    Names = {"one", "two"}
    MaxPictures = 2
    MaxWrites = 3
    MaxLogins = 2
INVARIANTS
    ShownIsUsers
    SettledAgreement
PROPERTY
    PicturesInOrder
