\* The components whose work must come to an end; the others stand still.
CONSTANTS
    Focuses = {"sessions", "signup", "prices"}
    SesRequests = {r1, r2}
    SesPasswords = {1, 2}
    SesIds = {1}
    SesTokens = {}
    MaxResets = 0
    MaxAttempts = 2
    SgnRequests = {r1, r2}
    SgnUsers = {1, 2}
    SgnTokens = {1, 2}
    TfaRequests = {r1, r2}
    MaxSetups = 3
    PflRequests = {r1, r2}
    PflIds = {1, 2, 3}
    PflNames = {"Main", "A"}
    WlRequests = {r1, r2}
    WlSymbols = {"a", "b"}
    MaxOrder = 3
    MaxAdds = 3
    MaxAsked = 2
    LrnRequests = {r1, r2}
    Questions = 4
    MaxAnswered = 3
    StrRequests = {r1, r2}
    StrUsers = {"u", "v"}
    StrIds = {1, 2}
    StrTexts = {1, 2}
    MaxForks = 1
    NtfRequests = {r1, r2}
    NtfKinds = {"price", "news"}
    NtfIds = {1, 2}
    PurRequests = {r1, r2}
    MaxDividends = 3
    PrcTasks = {r1, r2}
    PrcDates = {1, 2}
    Closes = {10000, 20000}
    ActionKinds = {"split"}
    Amount = 2500
    Enough = 2
    MaxFetches = 2
    LastDay = 5
    MonthLength = 2
    MaxNetworkRetries = 3
    MinDelay = 1
    Lookback = 2
    Announcements <- MCAnnouncements
    AlrtRequests = {r1, r2}
    DayBars <- MCDayBars
    VolumeDays = 1
    MaxDays = 4
    Members = {u1, u2}
    MinSamples = 2
    Worths = {0}
    CchRequests = {r1, r2}
    Ttl = 2
    MaxLoad = 1
    MaxTime = 6
    MaxVersions = 2
    MacValues = {1, 2}
    LastDate = 2
    MaxShown = 3
SPECIFICATION LiveSpec
PROPERTIES LockoutEnds CanVerify AdjustedSettles
CHECK_DEADLOCK FALSE
