SPECIFICATION Spec
CONSTANTS
    Uuids = {u1}
    Values <- TwoValues
    Failing <- AllSaves
    AddKnown = FALSE
INVARIANT TypeOK
INVARIANT LookupsAgree
INVARIANT CleanIsStored
INVARIANT SavedSurvives
PROPERTY RemovedIsForgotten
