SPECIFICATION Spec
CONSTANTS
    CHUNKS = 3
    VERSIONS = 3
    Null = Null
INVARIANTS
    OneVersion
    HashIsOfFile
    CleanRunWritesAll
PROPERTIES
    OnlyConnectedRunsTruncate
    RunsEnd
