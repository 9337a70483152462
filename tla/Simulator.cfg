SPECIFICATION Spec
CONSTANTS
    tenant = tenant  shared = shared  fake = fake
    s1 = s1  s2 = s2  r1 = r1  r2 = r2
    Tenants = {tenant, shared}
    Fakes = {shared, fake}
    FakeNamed = {fake}
    Requests = {s1, s2}
    Resets = {r1, r2}
    NoChat = NoChat
    NoOne = NoOne
    MaxId = 3
INVARIANTS
    TypeOK
    RowsBelongTogether
PROPERTIES
    WhatsAppRowsStay
SYMMETRY Symmetry
CHECK_DEADLOCK FALSE
