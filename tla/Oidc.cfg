SPECIFICATION Spec
CONSTANTS
    Subjects = {s1}
    Identities <- SomeIdentities
    States = {t1}
    Sessions = {i1, i2}
    Flows = {f1, f2}
    Requests = {r1}
    MaxTime = 2
    LoginTtl = 1
    SessionTtl = 2
    TouchAge = 1
    OpenAreas = {"public-read"}
    None = None
INVARIANTS OneSessionPerLogin AdmittedIsEntitled
PROPERTIES SubjectsNeverPart DisabledStays
SYMMETRY Interchangeable
