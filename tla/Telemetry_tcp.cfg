SPECIFICATION FairSpec
CONSTANTS
    Clients = {c1, c2}
    Descriptors = {3, 5, 6}
    listener = 4
    Backlog = 2
INVARIANTS
    TypeOK
    DescriptorsOpen
PROPERTIES
    AnswersFresh
    Answered
