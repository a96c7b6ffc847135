CONSTANTS
    admin = admin other = other org = org
    g1 = g1 g2 = g2 q1 = q1 q2 = q2
    Roles <- TwoRoles
    Standard <- TwoRoles
    Orgs <- OneOrg
    Wide = Wide
    Rows <- TwoRows
    Requests <- TwoRequests
    NoRole = NoRole NoScope = NoScope NoRow = NoRow NoService = NoService
SPECIFICATION Spec
SYMMETRY Symmetry
INVARIANT TypeOK
INVARIANT FeedTellsRole
INVARIANT DefaultIsAllowed
