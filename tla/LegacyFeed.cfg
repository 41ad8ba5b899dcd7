SPECIFICATION FeedSpec
CONSTANTS
    t1 = t1
    t2 = t2
    i1 = i1
    p1 = p1
    v1 = v1
    Nothing = Nothing
    Tabs <- MCTabs
    Incidents <- MCIncidents
    Reports <- MCReports
    Visits <- MCVisits
    Pages <- MCPages
    MaxSaves = 2
    MaxOpens = 2
    MaxFaults = 1
INVARIANTS QuietTablesCurrent OneStream FeedNeverAbandoned
CHECK_DEADLOCK FALSE
