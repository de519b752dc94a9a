\* One request and three handlers: any interleaving of three HTTP requests about
\* the same VM request, and one restart of the server.
SPECIFICATION FairSpec
CONSTANTS
    r1 = r1
    h1 = h1
    h2 = h2
    h3 = h3
    none = none
    NoRequest = none
    Requests <- OneRequest
    Handlers <- ThreeHandlers
    PatchStatuses <- ClosingPatch
    ExpiredRead <- AnyRead
    MaxRestarts = 1
INVARIANTS
    TypeOK
    LaunchOnce
    ClaimableIsUntouched
    ProvisionedHasVms
PROPERTIES
    HandlersTerminate
    ImplementsProvisionOnce
