SPECIFICATION Spec
CONSTANTS
    Addr = {a1, a2, a3}
    NULL = NULL
    Text = {t1, t2}
    MaxContacts = 4
INVARIANTS WellLinked
PROPERTIES ImplementsBook
CHECK_DEADLOCK FALSE
