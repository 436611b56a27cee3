\* The rates of a plan cannot be read.
CONSTANTS
    Instances <- MCInstances
    TypeOf <- MCTypeOf
    FamilyOf <- MCFamilyOf
    RegionOf <- MCRegionOf
    Linux = {"g1", "g2", "g3", "m1"}
    BlockOf <- MCBlockOf
    GPUTypes = {"large", "small"}
    Regions <- MCRegions
    Plans <- MCPlans
    Kind <- MCKind
    PlanFamily <- MCPlanFamily
    PlanRegion <- MCPlanRegion
    Rate <- MCRate
    Fleets <- MCFleets
    Counts = {0}
    Commitments = {300}
SPECIFICATION Spec
INVARIANT
    NoErrorMeansComplete
