SPECIFICATION FairSpec
CONSTANTS
    NumSlots = 2
    Clients = {c1, c2}
    Early = {c1}
    Server = server
    Nobody = nobody
    MaxMessages = 2
    Leavers = {c1}
    MaxTimeouts = 1
    MaxBacklog = 1
INVARIANTS TypeOK TextsRelayed SameTextsEverywhere NeverTwice SleepsOnlyWhenDone
PROPERTIES MessagesAreRead KnockersGetIn QueueDrains
