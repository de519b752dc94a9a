\* One request, two handlers, no restart; reading the expired actor raises, as
\* it does under SQLAlchemy's asyncio extension.
SPECIFICATION FairSpec
CONSTANTS
    r1 = r1
    h1 = h1
    h2 = h2
    h3 = h3
    none = none
    NoRequest = none
    Requests <- OneRequest
    Handlers <- TwoHandlers
    PatchStatuses <- NoPatch
    ExpiredRead <- AsyncRead
    MaxRestarts = 0
PROPERTIES
    FailureIsRecorded
