CONSTANTS
    s1 = s1
    s2 = s2
    s3 = s3
    Sessions = {s1, s2, s3}
    Listed = {s1}
    MaxQuestions = 2
    MaxVisits = 3
    MaxFaults = 1
SPECIFICATION PageSpec
SYMMETRY Symmetry
INVARIANTS
    PageTypeOK
    
    NewChatStartsEmpty
CHECK_DEADLOCK FALSE
