SPECIFICATION Spec
CONSTANTS
    TTL = 45
    Every = 15
    Fast = 3
    Turn = 45
    Lead = 60
    MaxMisses = 2
    Prompt = 13
    Early = 16
    Tolerated = 1
INVARIANTS LapsesHaveACause OutageIsBounded
