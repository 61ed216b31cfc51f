\* Two requests at once, an import, two starts, an edit by hand or a lost key.
SPECIFICATION Spec
SYMMETRY MCSymmetry
CONSTANTS
    Values = {2, 3}
    Startable <- MCStartable
    Connected <- MCConnected
    Enabled <- MCEnabled
    Default = 2
    Found <- MCFound
    Web = {q1, q2}
    MaxSaves = 2
    MaxStarts = 2
    MaxForeign = 1
INVARIANTS
    SecretsAreReadable
    StartsAgain
PROPERTIES
    NothingUnseenIsReplaced
CHECK_DEADLOCK FALSE
