SPECIFICATION FairSpec
CONSTANTS
    MaxKeys = 2
    MaxVer = 1
    MaxFails = 1
    MaxRestarts = 0
PROPERTIES
    QuitEnds
    ShowsEmulator
