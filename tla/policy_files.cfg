CONSTANTS
    Values = {v1, v2}
    None = None
    MaxCrashes = 2
SPECIFICATION Spec
INVARIANTS NoDanglingReference RunFindsPolicies
PROPERTY SavesAreAtomic
