SPECIFICATION Spec
CONSTANTS
    box = box
    text = text
    more = more
    on = on
    bad = bad
    Field <- MCField
    None = None
    Offer <- MCOffer
    Valid <- MCValid
    Deps <- MCDeps
    Initial <- MCInitial
    Keep <- MCKeep
    Decl <- MCDecl
    MaxSends = 2
    MaxOthers = 1
    MaxFaults = 1
    MaxReloads = 1
    Slots = 2
INVARIANT TypeOK
INVARIANT DepsShown
INVARIANT SentValid
INVARIANT AnnouncedKept
PROPERTY SeenIsSent
PROPERTY AddKeeps
PROPERTY StagedKept
PROPERTY ChainEnds
PROPERTY StagedApplied
CHECK_DEADLOCK FALSE
