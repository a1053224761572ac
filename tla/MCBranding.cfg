SPECIFICATION Spec
CONSTANTS
    Sessions = {s1, s2}
    Admins = {s1}
    Themes = {v1, c1}
    ConsoleThemes = {c1}
    Slots = {i1, i2}
    None = None
    Unset = Unset
    c1 = c1
    i1 = i1
    i2 = i2
    s1 = s1
    s2 = s2
    v1 = v1
SYMMETRY Symmetry
INVARIANTS
    TypeOK
    PublishedWasSaved
    MessageIsTrue
