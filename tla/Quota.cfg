SPECIFICATION QuotaSpec
CONSTANTS
    Tracker = {s1, s2}
    MonthlyQuotaCredits = 3
    GlobalMax = 2
    Cost = 2
    QueryCredits = 2
    MaxMonth = 1
    MaxQueries = 4
INVARIANTS
    QuotaTypeOK
    LimitsKept
    ExpiryExplained
