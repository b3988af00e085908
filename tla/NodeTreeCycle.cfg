SPECIFICATION Spec
CONSTANTS
    ann = ann
    bob = bob
    t1 = t1
    t2 = t2
    m1 = m1
    m2 = m2
    g1 = g1
    g2 = g2
    Clients = {ann, bob}
    Tenants = {t1, t2}
    Maps = {m1, m2}
    TenantOf <- MCTenantOf
    Groups = {g1}
    GroupTenant <- MCGroupTenant
    Members <- MCMembers
    Admins <- MCAdmins
    Superusers = {ann}
    Managers <- MCManagers
    Edits <- MCEdits
    MAX_NODE_DEPTH = 2
    MAX_NODES_PER_MAP = 2
    MAX_CASCADE = 2
    MaxNodeId = 2
    RelocateAlone = FALSE
    BesideMove = {"create", "move", "copy", "setvis", "delete"}
    BesideRelocation = {"create", "move", "copy", "setvis", "delete"}
INVARIANTS
    Acyclic
