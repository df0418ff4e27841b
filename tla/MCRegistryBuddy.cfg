SPECIFICATION FairSpec
CONSTANTS
    Streams = {p}
    Archives <- MCArchives
    Pings = {h}
    Lost = Lost
    None = None
INVARIANTS TypeOK EndMeansWhole Reproducible HashMeansPushed ZipReleased
PROPERTIES ImplementsService SignalEnds CloseReturns TarsEnd
CHECK_DEADLOCK FALSE
