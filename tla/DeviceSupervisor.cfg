CONSTANTS
    Heartbeat = TRUE
    None = None
    Off = Off
    QueueSize = 2
    MaxEvents = 2
SPECIFICATION FairSpec
PROPERTY ServerCatchesUp
