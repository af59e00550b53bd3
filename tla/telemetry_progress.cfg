\* No fault, and a flush for every delivery; two keys, a reading that is published twice, an untimed and a malformed message.
CONSTANTS
    m1 = m1  m2 = m2  m3 = m3  m4 = m4  m5 = m5
    r1 = r1  r2 = r2  r3 = r3
    k1 = k1  k2 = k2
    Messages = {m1, m2, m4, m5}
    Readings = {r1, r3}
    Keys = {k1, k2}
    Malformed = {m5}
    Untimed = {m4}
    NoMessage = NoMessage
    ReadingOf <- MCReadingOf
    KeyOf <- MCKeyOf
    Capacity = 1
    MaxAckPending = 2
    MaxRedeliveries = 1
    MaxFlushes = 4
    MaxFaults = 0
SPECIFICATION FairSpec
INVARIANTS
    NothingForgotten
    ManifestComplete
PROPERTIES
    EveryReadingStored
\* The stream is finite and the worker waits for ever once it is handled.
CHECK_DEADLOCK FALSE
