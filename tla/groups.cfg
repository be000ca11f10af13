SPECIFICATION GroupsFairSpec
CONSTANTS
    alice = alice
    bob = bob
    Users = {alice, bob}
    Names = {team}
    Keys = {k1, k2}
    NoWork = NoWork
    Founders = {alice}
    Circles = {{}, {bob}}
    MaxMsgs = 2
INVARIANTS
    SenderShown
    RightGroup
PROPERTY
    MembersHear
CHECK_DEADLOCK FALSE
