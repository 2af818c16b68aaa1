SPECIFICATION DrawSpec
CONSTANTS
    p1 = p1
    p2 = p2
    p3 = p3
    r1 = r1
    r2 = r2
    None = none
    Player = {p1, p2, p3}
    Request = {r1, r2}
    BracketLimit = 2
SYMMETRY Interchange
INVARIANTS
    OneBracket
    AdvancedWithItsBracket
PROPERTY NoGroupsAfterBracket
