SPECIFICATION ServicesSpec
CONSTANTS
    Devices = {"d1", "d2"}
    Batches <- VoyageBatches
    Earlier <- Boarding
    Tokens = {"good", "dead"}
    Choices = {{"administrative"}}
    Invalid = {"dead"}
    Configured = {"d1", "d2"}
    Tasks = {t1, t2}
    Deadline = 1
    ExpireAfter = 1
    PushMaxNow = 1
    MaxSyncs = 2
    MaxChanges = 2
    MaxLosses = 1
    None = None
    Grants = {1, 2}
    MaxGrants = 1
    Lives = {2}
    DeleteAfter = 3
    Scopes = {"sailor", "group"}
    Creators = {c1, c2}
    Publishers = {p1, p2}
    Snapshots <- SomeSnapshots
    Ahead = 1
    PositionAge = 1
    HelpAge = 1
    FreshFor = 0
    DelayedFor = 1
    GrantMaxNow = 2
    Unmade = Unmade
    Gone = Gone
    Ids = {"s1", "s2"}
    Submissions <- SomeSubmissions
    Catalogue = {"x"}
    Submitters = {u1, u2}
    Reviewers = {m1, m2}
    Actions = {"approve", "reject", "request_changes", "supersede"}
    Retention = 0
    DiscoveryMaxNow = 1
    Absent = Absent
    Purged = Purged
    Raters = {r1, r2}
    MinimumResponses = 5
    MaxAnswers = 12
    Codes = {"111111", "222222"}
    PlanCodes = {"PLAN1", "PLAN2"}
    Invites <- SomeInvites
    JoinTokens = {"t1"}
    Registrars = {g1, g2}
    Routes = {"north", "south"}
    CodeLife = 1
    PlanLife = 1
    MaxPlans = 2
    CodeMaxNow = 1
    Nobody = Nobody
    Addresses = {"a1", "a2", "a3"}
    AddressLimit <- TwoEach
    GlobalLimit <- TwoForAll
    MaxLookups = 4
    LookupMaxNow = 2
    Areas = {"north", "south"}
    Travellers = {k1, k2, k3}
    CacheLife = 2
    CacheMax = 1
    TrafficMaxNow = 2
    Empty = Empty
INVARIANTS RejectedNeverPublished
CHECK_DEADLOCK FALSE
