SPECIFICATION WorldsSpec
CONSTANTS
    m1 = m1
    m2 = m2
    event = event
    c1 = c1
    c2 = c2
    u1 = u1
    org = org
    hello = hello
    connector = connector
    Conns <- TwoConns
    Rooms <- OneRoom
    Room = org
    Senders <- AllSenders
    Announcers <- OneConnector
    Job = Job
    SendNow = SendNow
    Reminder <- TwoReminders
    Stored = {}
    Messages <- AllMessages
    News <- OneEvent
    Hello = hello
    UserOf <- SameUser
    NoReminder = NoReminder
    MaxQueue = 1
    Limit = 1
    MaxFaults = 1
    RowsDecode = TRUE
INVARIANTS
    TypeOK
    NoGhosts
    OnlyDeadPruned
    FiredPerFault
    SentWasAnnounced
PROPERTIES
    GoneIsUnregistered
    RoomIsReached
