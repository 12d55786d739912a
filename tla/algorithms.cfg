SPECIFICATION Spec
CONSTANTS
    Dimensions = {1, 2}
    DefaultDimensions = {1}
    Facts <- MCFacts
    Criteria <- MCCriteria
    EvidenceDimension <- MCEvidenceDimension
    SingleUnits = 6
    ShardUnits = 6
    MaxDrafts = 4
    MaxInsights = 1
    MaxGaps = 1
    Within <- MCWithin
    LegacyDims = {1, 2}
    MaxProfiles = 3
    MaxClaims = 3
INVARIANTS
    
    AcceptedOutputPasses
    
    
    ContextIsOwn
    
    SearchIsHonest
    MissionGoesOn
CHECK_DEADLOCK FALSE
