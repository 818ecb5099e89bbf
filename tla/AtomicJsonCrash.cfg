SPECIFICATION Spec
CONSTANTS
    None = None
    Torn = Torn
    Proc = {p1}
    Value = {v1, v2, v3}
    Faults = {"crash", "error"}
    MaxDamage = 0
INVARIANT TypeOK
 
