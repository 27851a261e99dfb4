\* One column sent and received back for every type and value of MCCodec,
\* with every alteration of the frame a server of the current jsonb
\* format version may produce.
CONSTANTS
    Types <- MCTypes
    IntVals <- MCIntVals
    FloatVals <- MCFloatVals
    TextVals <- MCTextVals
    MaxElems = 2
    JsonbVersions = {1}
SPECIFICATION Spec
\* A column is received once; the trip then ends.
CHECK_DEADLOCK FALSE
INVARIANTS
    TypeOK
    RoundTrip
    SizeExact
    NoSilentCorruption
