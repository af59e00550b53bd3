\* Progress: overlapping retries and altered bytes on s1, one client for s2, no web upload, bounded faults.
CONSTANTS
    s1 = s1  s2 = s2  s3 = s3
    a = a  b = b
    u1 = u1  u2 = u2  u3 = u3  h1 = h1
    m1 = m1  m2 = m2
    f1 = f1
    Absent = Absent
    Short = Short
    Segments = {s1, s2}
    Contents = {a, b}
    Uploads = {u1, u2, u3}
    HttpUploads = {}
    Resuming = {u2}
    Contended = {s1}
    Garbled = {s1}
    Missions = {m1}
    Finalizes = {f1}
    Seg <- MCSeg
    Sha <- MCSha
    MissionOf <- MCMissionOf
    Wants <- MCWants
    MaxFaults = 2
SPECIFICATION FairSpec
PROPERTIES
    EveryUploadAcked
    EveryFinalizeAnswered
