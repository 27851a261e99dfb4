\* As MCCodec.cfg, with a server whose jsonb binary format is version 2:
\* recv_impl<jsonb> reads the version byte and does not look at it.
CONSTANTS
    Types <- MCTypes
    IntVals <- MCIntVals
    FloatVals <- MCFloatVals
    TextVals <- MCTextVals
    MaxElems = 2
    JsonbVersions = {1, 2}
SPECIFICATION Spec
\* A column is received once; the trip then ends.
CHECK_DEADLOCK FALSE
INVARIANTS
    NoSilentCorruption
