SPECIFICATION LiveSpec
CONSTANTS
    Prismatic = {"arm"}
    Wrist = {"wrist"}
    LinkJoint <- MCLinkJoint
    Resolves <- MCResolves
    Reach = 1
    Hold = 0
    MaxInbox = 1
INVARIANTS
    TypeOK
    StopMeansStill
    ReportedIsStopped
PROPERTIES
    StopsEnd
    CollisionsStop
