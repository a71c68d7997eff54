\* A world of 3 columns and 3 rows that begins at row 1, two roles.
CONSTANTS
    Roles = {"r1", "r2"}
    XBegin = 1
    XEnd = 4
    YBegin = 1
    YEnd = 4
    XCount = 3
    YCount = 3
    MaxPlaces = 2
    Id <- MCId
    Name <- MCName
    Goods = {"apple", "bad"}
    NotUtf8 = {"bad"}
    OtherNames <- MCOtherNames
    MaxServices = 1
SPECIFICATION Spec
INVARIANTS SightIsAdjacent AddedRolesStayAlive RepliesAnswerTheCall
CHECK_DEADLOCK FALSE
