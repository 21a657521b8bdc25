CONSTANTS
    Wrap = 40
    Second = 3
    Times <- RestartTimes
    Malformed = Malformed
    NoTime = NoTime
    MaxMail = 2
SPECIFICATION Spec
PROPERTY NotTwiceASecond
