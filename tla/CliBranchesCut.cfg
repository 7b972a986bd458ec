SPECIFICATION Spec
CONSTANTS
    Branches = {main, b1, b2}
    Main = main
    Tables = {t}
    None = None
    Torn = Torn
    MaxHistory = 2
INVARIANTS AdoptedIsWhole
