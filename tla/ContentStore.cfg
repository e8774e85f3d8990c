\* Two writers, two payloads, two files, crashes and outages: put_bytes
\* implements ImmutableStore, and every call of a live process returns.
CONSTANTS
    Raw = {r1, r2}
    Writers = {w1, w2}
    Inodes = {i1, i2}
    Size = 2
    NoFile = NoFile
    Junk = Junk
SPECIFICATION FairSpec
INVARIANTS TypeOK PublishedWhole
PROPERTIES NoLeftovers NeverReplaced PutReturns ImplementsImmutableStore
CHECK_DEADLOCK TRUE
