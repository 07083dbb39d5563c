SPECIFICATION Spec
INVARIANTS NamesServed OnlineWatched LeasesFollowed RequestEndsOnce TimeKept
PROPERTY EveryQueryAnswered
CHECK_DEADLOCK FALSE
