\* Two different recordings are uploaded, one after the other, as segment s1.
CONSTANTS
    s1 = s1  s2 = s2  s3 = s3
    a = a  b = b
    u1 = u1  u2 = u2  u3 = u3  h1 = h1
    m1 = m1  m2 = m2
    f1 = f1
    Absent = Absent
    Short = Short
    Segments = {s1}
    Contents = {a, b}
    Uploads = {u1, u2}
    HttpUploads = {}
    Resuming = {}
    Contended = {}
    Garbled = {}
    Missions = {m1}
    Finalizes = {}
    Seg <- MCSeg
    Sha <- MCConflictingSha
    MissionOf <- MCMissionOf
    Wants <- MCWants
    MaxFaults = 1
SPECIFICATION Spec
INVARIANT CommittedContent
