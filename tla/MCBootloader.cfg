SPECIFICATION Spec
CONSTANTS
    Byte <- MCByte
    ERASED = 255
    BUFSIZE = 4
    PAGE = 2
    PAGES = 4
    CHUNK = 3
    WRAP = 4
    EXIT_DELAY = 1
    Starts <- MCStarts
    Chunks <- MCChunks
    Checksums <- MCChecksums
    Delays <- MCDelays
    MaxPackets = 7
    MaxRestarts = 1
INVARIANTS
    TypeOK
    ImageFlashed
    LineSignals
PROPERTY LineReleased
\* The boot loader waits for packets, and the application for a reset.
CHECK_DEADLOCK FALSE
