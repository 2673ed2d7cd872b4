SPECIFICATION Spec
CONSTANTS
    Requests = {r1, r2}
    Names = {gzip, br}
    Encoders = {e1, e2}
    Nobody = Nobody
    Identity = Identity
    MaxSets = 2
    MaxCalls = 3
SYMMETRY Symmetry
INVARIANTS TypeOK StreamsStayApart DecodesToTheBody OnlyAnEarlyFlushMisleads LastSetEncoderEncodes
CHECK_DEADLOCK FALSE
