SPECIFICATION Spec
CONSTANTS
    c1 = c1  c2 = c2
    m1 = m1  m2 = m2  m3 = m3  m4 = m4
    b1 = b1  b2 = b2  b3 = b3
    Chats = {c1, c2}
    MessageIds = {m1, m2, m3}
    Batches = {b1, b2, b3}
    OutboundIds <- MCOutboundIds
    ChatOf <- TwoChatsChat
    MessagesOf <- TwoChatsMessages
    NoRequest = NoRequest
    MaxAttempts = 1
    Parts = 2
    MaxLosses = 0
    MaxOperations = 2
    MaxCrashes = 1
INVARIANTS
    OneRecordedReply
    WriterIsolation
