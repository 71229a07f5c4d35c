CONSTANTS
    Requests = {r1, r2}
    Undefined = Undefined
    Empty = Empty
    Nothing = Nothing
    SuperStop = FALSE
    NotificationsLength = 2
    MaxNotifications = 1
SPECIFICATION Spec
INVARIANT StopRejectsAll
