CONSTANTS
    GangSize = 3
    CallTypes <- MCTypes
    CallOptions <- MCOptions
    MaxFrames = 4
SPECIFICATION CallSpec
INVARIANT
    TaskLanesAsLaunched
