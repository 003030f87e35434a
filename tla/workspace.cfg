CONSTANTS
    Folder = {d1, d2, d3}
    Name = {q1, q2}
    Chat = {c1}
    Copy = {k1, k2}
    Creator = {t1}
    Top = Top
    NoCopy = NoCopy
    NoName = NoName
    RecursionLimit = 4
    User = {u1, u2, u3}
    Group = {g1}
    Callback = {b1}
    NoUser = NoUser
    File = {p1, p2}
    Thread = {q1, q2}
    Loop = Loop
SPECIFICATION WorkspaceSpec
SYMMETRY Symmetry
CHECK_DEADLOCK FALSE
INVARIANT TypeOK
INVARIANT PrimaryAdmin
INVARIANT OneFounder
INVARIANT MembersExist
INVARIANT SettledStays
PROPERTY DeletedFromBelow
PROPERTY AcknowledgedDeletion
PROPERTY OnlyOverlapTwins
PROPERTY Withdrawn
