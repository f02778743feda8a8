SPECIFICATION StartSpec
CONSTANTS
    Procs = {p1, p2, p3}
    Agents = {p1, p2, p3}
    Passphrases = {s1, s2}
    ImportedKey = ImportedKey
    None = None
    Dead = Dead
    Other = Other
    NoFile = NoFile
SYMMETRY ProcSymmetry
CHECK_DEADLOCK FALSE
INVARIANTS
    OneWrappedKey
    SocketDirIsPrivate
PROPERTIES
    WrongPassphraseReplacesNothing
    LiveSocketIsNotRemoved
