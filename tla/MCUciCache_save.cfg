SPECIFICATION Spec
CONSTANTS
    net = net
    cfg1 = cfg1
    new1 = new1
    opt = opt
    a = a
    Typed <- MCTyped
    Drawn <- MCDrawn
    Temp <- MCTemp
    Opt <- MCOpt
    Val <- MCVal
    None = None
    NoSection = NoSection
    NoName = NoName
    MaxEdits = 3
    MaxSaves = 2
    MaxLoads = 1
    MaxForeign = 1
    MaxFaults = 1
INVARIANT TypeOK
INVARIANT SaveFaithful
INVARIANT CacheFresh
PROPERTY SaveRoundTrip
PROPERTY OnlyEdited
PROPERTY ReadYourWrites
PROPERTY DocSpec
PROPERTY OverlayEnds
CHECK_DEADLOCK FALSE
