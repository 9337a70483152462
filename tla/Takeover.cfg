SPECIFICATION FairSpec
CONSTANTS
    c1 = c1  c2 = c2
    m1 = m1  m2 = m2  m3 = m3  m4 = m4
    b1 = b1  b2 = b2  b3 = b3
    Chats = {c1}
    MessageIds = {m1, m2, m3}
    Batches = {b1, b2}
    OutboundIds <- MCOutboundIds
    ChatOf <- TakeoverChat
    MessagesOf <- TakeoverMessages
    NoRequest = NoRequest
    MaxAttempts = 2
    Parts = 2
    MaxLosses = 1
    MaxOperations = 1
    MaxCrashes = 1
INVARIANTS
    TypeOK
    SendingIsWriting
    SendsPassTheGates
PROPERTIES
    TakeoverSticks
    AckedMessagesAreStored
    ImplementsTransactions
    WriterReleases
