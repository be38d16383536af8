SPECIFICATION Spec
CONSTANTS
    password = password
    cards = cards
    card = card
    number = number
    email = email
    i0 = i0
    auditStore = auditStore
    truncated = truncated
    name = name
    note = note
    secret = secret
    open = open
    large = large
    date = date
    oddity = oddity
    bigint = bigint
    undef = undef
    null = null
    isoText = isoText
    lucid = lucid
    http = http
    nowhere = nowhere
    request = request
    job = job
    ann = ann
    nullId = nullId
    unnamed = unnamed
    acme = acme
    zeta = zeta
    Keys <- MCKeys
    Values <- MCValues
    Dates = {date}
    Odd = {oddity}
    BigInts = {bigint}
    Undefined = undef
    Null = null
    Large = {large}
    Mode = "mask"
    Fields = {email}
    AuditStore = auditStore
    Truncated = truncated
    Stores = {lucid, http}
    Default = lucid
    Nowhere = nowhere
    Requests = {request}
    Jobs = {job}
    Guest = guest
    Persons = {ann, nullId}
    NullId = nullId
    Unnamed = unnamed
    UserOf <- MCUserOf
    Tenants = {acme, zeta}
    NoTenant = noTenant
    Resolvable <- MCResolvable
    BadTenant = badTenant
    Configs <- MCConfigs
    Global <- MCGlobal
    Local <- MCLocal
    Inputs <- MCInputs
    AuthInput <- MCAuthInput
    Columns <- MCColumns
    Hidden = {password}
    Excluded = {}
    Rows <- MCRows
    Iso = isoText
    Scopes <- MCScopes
    Patches <- MCPatches
INVARIANTS
    SecretsAreSealed
    ReadBack
    PlainEventsArrive
    EventsAreTrue
CHECK_DEADLOCK FALSE
