SPECIFICATION FairSpec
CONSTANTS
    Searchers = {s1, s2, s3}
    Interval = 2
    MaxRetries = 2
PROPERTIES
    Spacing
    EveryoneIsServed
