SPECIFICATION MergeSpec
CONSTANTS
    manifest = manifest
    file = file
    Absent = Absent
    Plain = {x, y, z}
    Paths <- MCPaths
    FileValues <- MCValues
    Compared <- MCCompared
INVARIANTS
    NothingLostSilently
    SidesAgree
PROPERTIES
    RemergeStable
CHECK_DEADLOCK FALSE
