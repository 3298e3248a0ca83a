CONSTANTS
    m1 = m1
    m2 = m2
    m3 = m3
    Models = {m1, m2, m3}
    Listings <- MCListings
    Hidden = {m3}
    Bad = Bad
    None = None
    Team = 2
    MaxPages = 3
    MaxModels = 3
    MaxNoise = 1
    MaxFetches = 3
SPECIFICATION Spec
PROPERTIES ChecksEverySelection FetchEnds
CHECK_DEADLOCK FALSE
