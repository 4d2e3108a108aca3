SPECIFICATION ReconciliationSpec
CONSTANTS
    ca = ca
    cb = cb
    cc = cc
    t1 = t1
    t2 = t2
    t3 = t3
    t4 = t4
    t5 = t5
    t6 = t6
    o1 = o1
    o2 = o2
    l1 = l1
    None = None
    Handlers = {h1}
    Touchpoints = {t1, t2, t3, t4, t5, t6}
    TouchOf <- Touches
    Campaigns = {ca, cb, cc}
    Opportunities = {o1, o2}
    Leads = {l1}
    Amounts = {0, 70, 100}
    Batches <- RecentReturn
    EspoRecords = {}
    MatchLimit = 4
    LedgerLimit = 5
    MaxRecords = 1
    Scale = 60
CHECK_DEADLOCK FALSE
INVARIANT LastTouchIsLatest
