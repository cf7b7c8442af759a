SPECIFICATION Spec
CONSTANTS
    bob = bob
    far = far
    up = up
    heart = heart
    r1 = r1
    r2 = r2
    None = None
    Cleared = Cleared
    Local = {bob}
    Remote = {far}
    Emoji = {up, heart}
    Req = {r1, r2}
    Hash = {1, 2}
    MaxTime = 4
    MaxRows = 3
SYMMETRY Symmetry
INVARIANTS
    TypeOK
    ShowsTheNewest
    GrantedIsShown
PROPERTY
    ReadTimeStands
