CONSTANTS
    Sizes = {1, 2}
    DefaultSize = 2
    MaxSize = 3
    LastPage = 4
    Items = {1, 2, 3}
    Samples <- MCSamples
    Contents <- MCContents
    Books <- MCBooks
    Addresses <- MCAddresses
    MaxChosen = 1
    MaxCached = 1
    MaxEdits = 1
SPECIFICATION Spec
INVARIANTS AddressKeepsQuery QueriesAccepted WalkShowsAll EmptyMeansNothingFits PositionsAgree ScoresDecide
CHECK_DEADLOCK FALSE
