SPECIFICATION Spec
CONSTANTS
    Attempts = 2
    Formats = {"sse", "ollama", "json"}
    MaxLines = 5
    TrailingLines = FALSE
INVARIANTS
    TypeOK
    RelayIsFaithful
PROPERTIES
    ImplementsClientStream
CHECK_DEADLOCK FALSE
