SPECIFICATION Spec
CONSTANTS
    Files = {f1}
    Runs = {r1, r2}
    Contents = {c1, c2}
    Configs = {k1}
    NoKey = NoKey
INVARIANTS
    EntriesExact
