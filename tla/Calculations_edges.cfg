SPECIFICATION AskSpec
CONSTANTS
    DueInputs <- MCDueInputs
    MatchInputs <- MCMatchInputs
    BookInputs <- MCBookInputs
    SeriesInputs <- MCSeriesInputs
    ReadingInputs <- MCReadingInputs
    PlacingInputs <- MCPlacingInputs
    Text = {"p", "q", "r", "u", "v", "w"}
    Floor = 85
    RatioPercent = 90
    MinimumTransactions = 2
INVARIANTS
    DueDatesAgree
    MatchingIsComplete
    SeriesIsLookup
    DiscrepanciesExplain
    DatesRecovered
    CorrectionsReturn
CHECK_DEADLOCK FALSE
