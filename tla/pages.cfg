SPECIFICATION FairSpec
CONSTANTS
    Kinds <- AllKinds
    Slots = {1, 2}
    MaxRequests <- TwoForSome
    MaxVersion <- TwoForUsers
INVARIANTS ConfirmedOnce ReadYourWrites
PROPERTIES RefusedOnlyIfOutdated DoesWhatItSaid BusyEnds LeavesAfterRemoval
