SPECIFICATION Spec
CONSTANTS
    i1 = i1
    i2 = i2
    Images <- TwoImages
    OptionSets <- AllOptions
    EarlierStores <- SomeStores
INVARIANTS
    LocalOnlyStaysLocal
    SuccessMeansVersion
    VersionsWereValidated
PROPERTIES
    BuildEnds
