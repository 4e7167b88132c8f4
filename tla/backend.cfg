SPECIFICATION Spec
CONSTANTS
    s1 = s1
    s2 = s2
    Supervisors = {s1, s2}
    Arguments <- MCArguments
    Faults = TRUE
INVARIANTS
    TypeOK
    EndsClean
PROPERTIES
    StopsOnlyItsOwn
    StopsWhenAsked
    StrangersAnswerSettles
