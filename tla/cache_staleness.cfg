SPECIFICATION Spec
CONSTANTS
    g1 = g1
    g2 = g2
    s1 = s1
    m1 = m1
    s2 = s2
    Gets = {g1, g2}
    Searches = {s1, s2}
    Mutations = {m1}
    TTL = 1
    Timeout = 1
    RedisFails = TRUE
    MaxTime = 3
SYMMETRY ReadSymmetry
PROPERTIES StalenessBounded AnswersBounded
CHECK_DEADLOCK FALSE
