\* The inotify producer crashes, others fill the queue, files come and go.
SPECIFICATION FairSpec
CONSTANTS
    Sources = {"asyncinotify", "udev", "kmsg"}
    Fragile = {"asyncinotify"}
    Backoffs <- OneDelay
    ResetAfter = 1
    QueueSize = 1
    Window = 1
    MaxInbox = 2
INVARIANTS
    TailerFollows
    WriterFollows
PROPERTIES
    ComesBack
