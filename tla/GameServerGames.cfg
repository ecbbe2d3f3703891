SPECIFICATION ServerSpec
CONSTANTS
    Players = {p1}
    Seeds <- TestSeeds
    Handlers = {h1, h2}
    MaxGames = 2
    MaxSize = 6
    Orderly = TRUE
    AfterRaces = FALSE
INVARIANTS TypesOK NoDoubles MembersKept AnsweredJoinsShown StopReachesFeed
PROPERTIES FeedRuns
