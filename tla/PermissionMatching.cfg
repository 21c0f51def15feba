\* Two rules with every pattern, tool and argument.
SPECIFICATION Spec
CONSTANTS
    one = one
    oneString = oneString
    other = other
    textOne = textOne
    textOther = textOther
    exact = exact
    broken = broken
    Tools = {read, write}
    Names = {path}
    Values = {one, oneString, other}
    Texts = {textOne, textOther}
    Patterns = {exact, broken}
    Ids = {rule1, rule2}
    Priorities = {0, 1}
    Text <- MCText
    Fullmatch <- MCFullmatch
    Invalid = {broken}
    Wildcard = Wildcard
    Absent = Absent
    NoPattern = NoPattern
    NoRule = NoRule
    MaxRules = 2
CHECK_DEADLOCK FALSE
INVARIANTS
    DecisionExplained
    OrderIrrelevant
PROPERTIES
    DenyNeverAllows
