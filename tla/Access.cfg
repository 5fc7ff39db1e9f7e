SPECIFICATION FairSpec
CONSTANTS
    a = a
    b = b
    users = users
    teams = teams
    members = members
    books = books
    Call <- TwoCalls
    Credential <- Credentials
    Config <- Settings
    Name <- Names
    Kind <- Kinds
    Serializer <- Serializers
    Meta <- Metas
    Limit = 1
    MaxWindow = 2
    MaxFaults = 1
CHECK_DEADLOCK FALSE
INVARIANT BudgetKept
INVARIANT DecisionLogged
INVARIANT OutcomeIsHonest
INVARIANT StopIsGraceful
PROPERTY CallsReturn
