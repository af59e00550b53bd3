\* Two missions, overlapping retries and altered bytes on s1, a web upload, three faults.
CONSTANTS
    s1 = s1  s2 = s2  s3 = s3
    a = a  b = b
    u1 = u1  u2 = u2  u3 = u3  h1 = h1
    m1 = m1  m2 = m2
    f1 = f1
    Absent = Absent
    Short = Short
    Segments = {s1, s3}
    Contents = {a, b}
    Uploads = {u1, u2, h1}
    HttpUploads = {h1}
    Resuming = {u2}
    Contended = {s1}
    Garbled = {s1}
    Missions = {m1, m2}
    Finalizes = {f1}
    Seg <- MCSeg
    Sha <- MCSha
    MissionOf <- MCMissionOf
    Wants <- MCWants
    MaxFaults = 3
SPECIFICATION Spec
INVARIANTS
    TypeOK
    CommittedContent
    StagedOrCommitted
    LaunchedInputsCommitted
PROPERTIES
    ImplementsContract
