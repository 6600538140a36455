SPECIFICATION MCSpec
CONSTANTS
    Events = {d1, e1}
    Decisions = {d1}
    Projectors = {p1, p2}
    SqliteOwner = p1
    MaxAttempts = 2
    BatchSize = 2
    MaxStops = 1
    Emitters = {m1, m2}
    Series = {x, y, z}
    None = None
    SeriesLimit = 2
    QueueSize = 2
    ChunkSizes = {1, 2}
    Threshold = 2
    MaxOffers = 3
    MaxFlips = 2
INVARIANTS ProjectionSound ExportAccounted
PROPERTIES TelemetrySettles
CHECK_DEADLOCK FALSE
