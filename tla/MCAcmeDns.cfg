SPECIFICATION FairSpec
CONSTANTS
    apex = apex
    wildcard = wildcard
    deep = deep
    Challenges <- MCChallenges
    Names <- MCNames
    NameOf <- MCNameOf
    Base <- MCBase
    Setups <- MCSetups
    MaxFailures = 1
    NoCall = NoCall
INVARIANTS PresentedIsStored LeaksNeedFailures
PROPERTIES PresentedIsAnswered
CHECK_DEADLOCK FALSE
