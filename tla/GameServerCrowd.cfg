SPECIFICATION Spec
CONSTANTS
    Players = {p1, p2}
    Seeds <- TestSeeds
    Handlers = {h1, h2}
    MaxGames = 1
    MaxSize = 4
    Orderly = FALSE
    AfterRaces = FALSE
SYMMETRY SymmetryOfNames
INVARIANTS OnlyWhereAsked MembersKept
