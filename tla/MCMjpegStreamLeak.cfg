SPECIFICATION StreamSpec
CONSTANTS
    Subs = {s1, s2}
    Sups = {p1, p2}
    Nil = Nil
    MayClose = FALSE
INVARIANTS
    TornDownWhenUnwatched
