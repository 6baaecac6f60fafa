CONSTANTS
    Requests = {r1, r2}
    Offers <- MCOffers
    Listings <- MCListings
    Batches <- MCBatches
    Own = {"mine"}
    NoModel = NoModel
    MaxStarts = 3
    MaxRenames = 1
SPECIFICATION FreeSpec
SYMMETRY Symmetry
CHECK_DEADLOCK FALSE
INVARIANTS
    SyncFills
    GeneralDiffers
