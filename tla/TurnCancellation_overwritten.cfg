CONSTANTS
    Turn = {t1, t2}
    Stop = {s1, s2}
    ProcessOf <- AllApart
    MaxFaults = 0
    Nobody = Nobody
SPECIFICATION FairSpec
PROPERTIES StopIsRecorded
