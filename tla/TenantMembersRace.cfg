SPECIFICATION Spec
CONSTANTS
    ann = ann
    bob = bob
    cyd = cyd
    s1 = s1
    s2 = s2
    s3 = s3
    Users = {ann, bob, cyd}
    Sessions = {s1, s2, s3}
    Caller <- MCCaller
    Superusers = {}
    InOrg = {ann, bob}
    Founder = ann
    LoweringAlone = FALSE
INVARIANT HasAdmin
