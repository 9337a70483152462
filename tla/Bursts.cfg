SPECIFICATION FairSpec
CONSTANTS
    c1 = c1  c2 = c2
    m1 = m1  m2 = m2  m3 = m3  h1 = h1
    Chats = {c1, c2}
    Messages = {m1, m2, m3, h1}
    FromMe = {h1}
    ChatOf <- TwoChats
    Timestamp <- Times
    MaxTries = 1
    CanStop = TRUE
INVARIANTS
    TypeOK
    TimersMatchBuffers
    OnePlace
    PostedInOrder
    ShutdownPostsBuffers
PROPERTIES
    MessagesSettle
