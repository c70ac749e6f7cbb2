SPECIFICATION MCSpec
CONSTANTS
    common = common
    premium = premium
    s1 = s1
    s2 = s2
    k1 = k1
    k2 = k2
    c1 = c1
    c2 = c2
    Plans = {common, premium}
    FreePlan = common
    Unlimited = Unlimited
    TokenLimit <- TierTokens
    Slots = {s1, s2}
    Flows = {"generate", "chat", "forward"}
    RequestLimit <- AttendantLimit
    Providers = 2
    Months = 1
    MaxRequests = 2
    Shops = {k1, k2}
    Sold = {"PREMIUM"}
    Taken = 2
    Calls = {c1, c2}
    MaxSubs = 2
SYMMETRY UsageSymmetry
INVARIANTS
    OvershootBound
    AnsweredMeteredOnce
    OnePlan
