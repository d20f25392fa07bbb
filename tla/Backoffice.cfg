SPECIFICATION PartSpec
CONSTANTS
    Requests = {q1, q2}
    None = None
    Users = {u1, u2, u3}  Owner = u1  Assigned = {u3}
    Roles = {"manager", "agent"}  Limit <- RoleLimit  MaxUserRequests = 4
    Otps = {i1, i2}  Addresses = {"address"}  AddressOf <- AddressOfAll
    MaxAttempts = 2  MaxCodes = 2  MaxCodeRequests = 5
    Appointments = {i1, i2}  Days = {1, 2}  DayLength = 3  Offset = 1  Lengths = {1, 2}
    Hours <- OpeningHours  MaxBookings = 3
    TTL = 1  MaxFetch = 0  MaxTime = 2  MaxReads = 2
    Pipelines = {i1, i2}  Stages = {a1, a2}  Readers = {u1}  MaxCatalogueWrites = 4  MaxFailures = 1
    Slugs = {"trial", "pro"}  MaxPlanWrites = 2
    Leads = {l1}  Contacts = {i1, i2}  Assignees = {a1, a2}  LeadLabels = {b1}
    LeadStatuses = {"active", "won"}  LeadStages = {"s1", "s2"}  NoLead = NoLead  MaxLeadRequests = 4
    Instances = {q1, q2}  Starts = {0, 17, 26, 45, 71}  MaxBoots = 2  MaxReverts = 2
INVARIANTS OfficeTypeOK AccountsExplained CodesExplained BookingsExplained AnswersKept SchemaExplained
    
PROPERTIES CachesBounded StepsExplained
SYMMETRY Symmetry
CHECK_DEADLOCK FALSE
