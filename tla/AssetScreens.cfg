SPECIFICATION Spec
CONSTANTS
    Assets = {goog, amzn, btc}
    Priced = {goog, amzn}
    MaxLength = 3
    NoAsset = NoAsset
INVARIANTS
    StoredIsTapped
    StarShowsStore
    ListMissesNothing
    TradeHasAmount
PROPERTIES
    OthersKeepTheirOrder
