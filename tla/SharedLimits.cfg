SPECIFICATION SharedSpec
CONSTANTS
    Writers = {w1, w2, w3, w4}
    Limit = 3
    ContendedAttempts = 2
    MaxFailures = 2
    Renders = {r1, r2}
    RenderConcurrency = 1
    StatusCodes = {200, 404}
INVARIANTS
    EveryGrantCounted
PROPERTIES
    ImplementsAllowance
    ImplementsRendering
