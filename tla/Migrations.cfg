SPECIFICATION FairSpec
CONSTANTS
    Sessions = {s1, s2}
    Tasks = {t1, t2}
    Messages = {asked, answered, either}
    asked = asked
    answered = answered
    either = either
    RolesOf <- SomeRoles
    Latest = 3
    MaxFaults = 1
INVARIANTS
    Linked
    RefusedIsAmbiguous
PROPERTIES
    UpgradedWhole
    UpgradeableIsServed
CHECK_DEADLOCK FALSE
