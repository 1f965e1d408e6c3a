\* Directory, gateway and task items.
SPECIFICATION FairSpec
CONSTANTS
    ann = ann  bob = bob  cy = cy
    home = home  away = away
    d1 = d1  d2 = d2  n1 = n1  n2 = n2
    k1 = k1  s1 = s1  s2 = s2  g1 = g1  g2 = g2
    t1 = t1  i1 = i1  i2 = i2  i3 = i3
    c1 = c1  c2 = c2  c3 = c3  a1 = a1  a2 = a2  a3 = a3  f1 = f1  f2 = f2
    r1 = r1  r2 = r2
    User = {ann, bob, cy}
    Org = {home, away}
    Home = home
    Department = {d1, d2}
    Name = {n1, n2}
    Instance = {g1, g2}
    Token = {k1}
    Socket = {s1, s2}
    Task = {t1}
    SubTask = {i1, i2, i3}
    Comment = {c1, c2, c3}
    Attachment = {a1, a2, a3}
    FileName = {f1, f2}
    FileOf <- MCFileOf
    Request = {r1, r2}
    Nil = Nil
    Gone = Gone
    Load <- MCLoad
INVARIANTS TypeOK ListsAndDetailsAgree FilesStay
PROPERTIES SocketsAreAccountedFor SocketsCatchUp
CHECK_DEADLOCK FALSE
