SPECIFICATION Spec
CONSTANTS
    Sim <- Distance
    M = 1
    EfConstruction = 2
    WaveDivisor = 1
    Id = {a, b}
    Vector = {0, 1, 4, 9}
    MaxLevel = 1
    BruteForceBelow = 2
    DropFloats = {FALSE, TRUE}
    MaxWrites = 4
    MaxSaves = 1
    NoFile = NoFile
    Torn = Torn
SYMMETRY Symmetry
INVARIANTS
    TypeOK
    LinksSound
    GraphAgrees
    AnswersAreBest
    UndefinedOnlyThere
PROPERTY IsMap
