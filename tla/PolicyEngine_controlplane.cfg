SPECIFICATION FairSpec
CONSTANTS
    Caller = {c1}
    PolicySpec <- MCPolicySpec
    MaxList = 1
    Ask <- MCAsk
    Answers = {"object"}
PROPERTY PoliciesArrive
