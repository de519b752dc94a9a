\* Two browsers, two people, two requests in flight, two handshakes.
SPECIFICATION FairSpec
CONSTANTS
    b1 = b1
    b2 = b2
    alice = alice
    bob = bob
    i1 = i1
    i2 = i2
    h1 = h1
    h2 = h2
    gTeachers = gTeachers
    gClass = gClass
    none = none
    NoHandshake = none
    NoBrowser = none
    Nobody = none
    NoClass = none
    Browsers <- TwoBrowsers
    People <- TwoPeople
    Uses <- SomeUses
    Slots <- TwoSlots
    Handshakes <- TwoHandshakes
    Modes <- BothModes
    Production = FALSE
    Groups <- TwoGroups
    GroupSettings <- Settings
    Token <- Tokens
    Classes <- OneClass
    AutoCreate = TRUE
    Demo <- OneDemo
    AdminCreations <- Creations
    MaxIds = 2
INVARIANTS
    TypeOK
    SessionIsOwn
    SessionHasRow
    RoleAgrees
    AccountsExplained
PROPERTIES
    LogoutForgets
    RequestsEnd
