SPECIFICATION Spec
CONSTANTS
    own = own
    rdr = rdr
    adm = adm
    PUBLIC = PUBLIC
    Users = {own, rdr, adm}
    Admins = {adm}
    Founder = own
    Levels = {"edit"}
    Edges <- MCEdges
    PlotNodes = {2}
    Maps <- MCMaps
    MaxMapId = 2
    MaxGroupId = 1
    MaxNodeId = 2
    MAX_MAPS = 2
    MAX_NODE_DEPTH = 1
    PageLimit = 1
    MaxReaders = 1
CONSTRAINT MCFew
CONSTRAINT MCQuiet
CONSTRAINT MCTwoMaps
INVARIANTS
    TypeOK
    AnswersWereSeen
    HiddenParentsUnnamed
    PagesMissNothing
PROPERTIES
    TakingAwayHides
