\* One client that resumes its upload of s1 at the offset it is given.
CONSTANTS
    s1 = s1  s2 = s2  s3 = s3
    a = a  b = b
    u1 = u1  u2 = u2  u3 = u3  h1 = h1
    m1 = m1  m2 = m2
    f1 = f1
    Absent = Absent
    Short = Short
    Segments = {s1}
    Contents = {a, b}
    Uploads = {u2}
    HttpUploads = {}
    Resuming = {u2}
    Contended = {}
    Garbled = {}
    Missions = {m1}
    Finalizes = {}
    Seg <- MCSeg
    Sha <- MCSha
    MissionOf <- MCMissionOf
    Wants <- MCWants
    MaxFaults = 1
SPECIFICATION FairSpec
PROPERTY EveryUploadAcked
