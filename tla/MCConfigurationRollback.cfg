SPECIFICATION ConfigSpec
CONSTANTS
    Addresses = {a1}
    Options = {o1}
    Mechanisms = {"none", "own"}
    MaxID = 1
    ImportSize = 1
    NoDial = NoDial
PROPERTY
    RollsBackBothDomains
