SPECIFICATION FairSpec
CONSTANTS
    ann = ann
    bob = bob
    amy = amy
    ben = ben
    ax = ax
    bx = bx
    acme = acme
    sub = sub
    NoEmail = NoEmail
    Clients = {ann, bob}
    Names = {amy, ben}
    Emails = {ax, bx}
    SsoOrgs = {acme}
    Identities = {sub}
    Forms <- MCForms
    Profiles <- MCProfiles
    MaxUserId = 2
    MaxState = 2
    MaxCode = 2
INVARIANTS
    TypeOK
    AllOrNothing
    AnsweredOnce
    AnswersAreTrue
    OneAccountPerSubject
    OneTokenPerFlow
    TokensNameTheirOwner
PROPERTIES
    EveryRequestAnswered
