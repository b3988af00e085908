SPECIFICATION Spec
CONSTANTS
    ann = ann
    bob = bob
    t1 = t1
    t2 = t2
    m1 = m1
    m2 = m2
    g1 = g1
    g2 = g2
    g3 = g3
    Clients = {ann, bob}
    Tenants = {t1, t2}
    Maps = {m1, m2}
    TenantOf <- MCTenantOf
    Groups = {g1, g2, g3}
    GroupTenant <- MCGroupTenant
    Members <- MCMembers
    Views <- MCViews
    Edits <- MCEdits
    Editors <- MCEditors
    Admins <- MCAdmins
    Managers <- MCManagers
    MaxNodeId = 2
    MAX_NOTES_PER_MAP = 1
    MaxNoteId = 2
    MaxEdgeId = 1
    MaxPlotId = 1
CONSTRAINT MCOneKind
SYMMETRY MCSymmetry
INVARIANTS
    TypeOK
    NoDangling
    EdgeEndsMet
    NoteTagsOfVisited
    PlotsInTenant
PROPERTIES
    NoteTagsWhole
    CreatedNotesWithinCap
