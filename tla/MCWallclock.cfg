CONSTANTS
    Wrap = 9
    Second = 3
    Times <- MCTimes
    Malformed = Malformed
    NoTime = NoTime
    MaxMail = 2
SPECIFICATION FairSpec
PROPERTIES ShownIsTrue ChainBegunByStartOnly TwiceASecondOnly 
