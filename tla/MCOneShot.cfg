SPECIFICATION MCSpec
CONSTANTS
    Jobs <- MCJobs
    MaxSecrets = 2
    PipeCap = 2
    Existing = Existing
    Torn = Torn
    None = None
    Machines = {m1, m2}
    Names <- MCNames
    Passphrases <- MCPassphrases
    Records <- MCRecords
    MaxItems = 3
    Redaction <- MCRedaction
    MaxBody = 7
    Hex <- MCHex
    Unreserved <- MCUnreserved
    Fetches <- MCFetches
    Injects <- MCInjects
    Documents <- MCDocuments
    Signs <- MCSigns
    MaxStdinSecret = 3
    Order = 11
    Bytes <- MCBytes
CHECK_DEADLOCK FALSE
INVARIANTS
    CommandGetsAllOrNothing
    InjectedFileIsWhole
    NoPlaintextIsLeft
    EnvelopesAreNotTransplanted
    SealedValuesStayReadable
    ExportsRestoreTheirKey
    RedactionIsExact
    CredentialIsSentOnceAndWhole
    DotenvReadsBack
    ImportReadsItsFields
    SignaturesVerify
PROPERTY
    PipeIsNeverStuck
