\* Every interruption, power loss included.
SPECIFICATION Spec
CONSTANTS
    Tokens = {t1, t2, t3}
    NoTokens = NoTokens
INVARIANTS
    SessionIsStored
    IdentityKnown
PROPERTIES
    RegisterSpec
