SPECIFICATION Spec
CONSTANTS
    MAX_CODE_LENGTH = 6
    MAX_CLUSTERS = 2
    CHUNK = 4
    Pulses <- MCPulses
    Pauses <- MCPauses
    Crc <- MCCrc
INVARIANTS
    RecordingFits
    ExactRecording
    ReadIsRecording
PROPERTIES
    DecodesToNearest
    RecordingEnds
