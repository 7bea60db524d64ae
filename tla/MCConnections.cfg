SPECIFICATION ServicesSpec
CONSTANTS
    Addresses = {a1}
    AllAddresses = {a1}
    AllOptions = {o1, o2}
    AllMechanisms = {"none", "acl"}
    Options = {o1}
    Mechanisms = {"none", "own"}
    MaxID = 2
    ImportSize = 1
    NoDial = NoDial
INVARIANTS
    OnlineIffOpen
    ClientMatchesProfile
    FileAgrees
    OneDefault
    NextIDFresh
    ActiveIsOpen
    NoStaleCredentials
PROPERTY
    ReconnectOwed
    RollbackRestoresIds
