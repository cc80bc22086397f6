CONSTANTS
    MaxSaves = 3
    MaxJobs = 3
    Nothing = Nothing
SPECIFICATION MapSpec
INVARIANT MapTypeOK
PROPERTIES
    MapLoadsLikeOne
    MapFollows
\* Nobody edits any more: the bound is reached.
CHECK_DEADLOCK FALSE
