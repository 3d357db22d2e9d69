CONSTANTS
    Posters = {p, q}
    Readers = {r}
    Posts = 2
    Full = TRUE
    Crashes = TRUE
SPECIFICATION Spec
INVARIANT TypeOK
INVARIANT Intact
PROPERTY Heard
CHECK_DEADLOCK FALSE
