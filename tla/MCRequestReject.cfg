\* One request, two handlers, no PATCH and no restart: a rejection against an
\* approval of the same request.
SPECIFICATION Spec
CONSTANTS
    r1 = r1
    h1 = h1
    h2 = h2
    h3 = h3
    none = none
    NoRequest = none
    Requests <- OneRequest
    Handlers <- TwoHandlers
    PatchStatuses <- NoPatch
    ExpiredRead <- AsyncRead
    MaxRestarts = 0
PROPERTIES
    RefusedOnlyWhenPending
