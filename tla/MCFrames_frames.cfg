\* Epochs of this host and of others over four keys of three bits.
CONSTANTS
    Depth = 3
    Key = {0, 1, 2, 4}
    Value = {"a", "b"}
    RegistryLeaf = "r"
    Absent = Absent
    Panic = Panic
    NoWitness = NoWitness
    KeyBit <- MCKeyBit
    SmtWitness <- MCSmtWitness
    MaxRows = 2
SPECIFICATION Spec
INVARIANTS TypeOK RootsStand HostRowsFold StepsAreExact
