SPECIFICATION Spec
CONSTANTS
    h1 = h1
    h2 = h2
    e1 = e1
    e2 = e2
    m1 = m1
    m2 = m2
    m3 = m3
    m4 = m4
    c1 = c1
    c2 = c2
    Handlers = {h1, h2}
    Events = {e1, e2}
    Contents = {1, 2}
    Campaigns = {c1, c2}
    Contract <- ContractOfFirst
    Registrations = {m1, m2, m3, m4}
    CampaignOf <- TwoCampaigns
    Matches <- BroadAndNarrow
    MappingLimit = 2
    MaxOps = 4
    MaxDeaths = 1
CHECK_DEADLOCK FALSE
INVARIANTS Consistent AnsweredIsKept
PROPERTY LedgerIsImmutable
SYMMETRY HandlerSymmetry
