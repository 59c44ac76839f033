SPECIFICATION FairSpec
CONSTANTS
    Collections = {a, b}
    mail = mail
    later = later
    sent = sent
    Keys = {mail, later, sent}
    Pages <- MCPages
    Streams <- MCStreams
    MaxItemAttempts = 2
    Poison = {sent}
    Requested = 0
    MinCadence = 1
    MaxCadence = 2
    MaxCrashes = 1
    NoJob = NoJob
    NoPlan = NoPlan
INVARIANTS
    TypeOK
    NothingSkipped
    RecordedByOneCommit
    HistoryNeverInterrupts
PROPERTIES
    MailIsRead
