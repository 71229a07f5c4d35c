CONSTANTS
    Requests = {r1, r2}
    Undefined = Undefined
    Empty = Empty
    Nothing = Nothing
    SuperStop = TRUE
    NotificationsLength = 2
    MaxNotifications = 3
SPECIFICATION FairSpec
INVARIANTS TypeOK PendingHasEntry StopRejectsAll LatestNotifications ResultIsOwn AtMostOnce
PROPERTIES ImplementsRpc CallsSettle
