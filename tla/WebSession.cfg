SPECIFICATION Spec
CONSTANTS
    Users = {"ann"}
    NoUser = NoUser
    Anon = Anon
    Restricted = {"/interfaces"}
    MaxActs = 2
INVARIANTS
    TypeOK
    AgreeWhenQuiet
    NotStranded
PROPERTIES
    OauthReturns
    LogoutArrives
CHECK_DEADLOCK FALSE
