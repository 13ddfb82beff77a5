\* Every pair of strings of up to four components.
CONSTANTS
    MaxSize = 3
    Absent = Absent
    MaxComponent = 1
    MaxParts = 4
SPECIFICATION Spec
INVARIANTS
    CompareIsLexicographic
    PrefixIsUpperBound
CHECK_DEADLOCK FALSE
