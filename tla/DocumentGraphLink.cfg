\* A page links to another; the other is deleted, or appears.
SPECIFICATION DocumentSpec
CONSTANTS
    Paths <- MCPaths
    Contents <- MCContents
    MaxRuns = 3
    Widths <- MCWidths
    None = None
INVARIANTS
    ALinkMayMove
CHECK_DEADLOCK FALSE
