CONSTANTS
    Workers = {w1, w2}
    MaxAccount = 2
    MaxService = 2
    Profiles = {p1, p2}
    NewProfiles = {p1}
    Imports <- EmptyOrImported
    MaxChanges = 2
    None = None
SYMMETRY Interchangeable
SPECIFICATION Spec
INVARIANTS TypeOK SequencesExact NoDuplicates
PROPERTIES FullIsFull NothingUndone SwitchesReal ImplementsNumbering
