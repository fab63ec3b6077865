SPECIFICATION Spec
CONSTANTS
    Finding <- MCFinding
    FatalRules = {"OC1101"}
    Policies <- MCPolicies
    LastDay = 2
    MaxFindings = 2
    NoBaseline = NoBaseline
INVARIANTS FatalSurvives RatchetHolds NewGateBounds
PROPERTIES TimeNeverHelps
