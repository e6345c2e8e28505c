\* Two byte values, so that a misplaced byte shows; packets shorter than the
\* buffer, so that a burst can lose its first packet; a stream longer than the
\* buffer, so that writes are refused; and a timer and packets so long that a
\* frame goes out before it fires and leaves room for new data: one byte is
\* outstanding, the room is 3 of 4 bytes.
CONSTANTS
    Byte = {1, 2}
    Chunks <- MCChunks
    BufSize = 5
    MaxPacket = 4
    MinSendSize = 1
    AckUnit = 2
    MaxRetransmit = 2
    MaxStream = 6
SPECIFICATION FairSpec
CONSTRAINT FewDatagrams
INVARIANTS
    BufferIsUnacked
    NoBadAck
    TimerGuardsOutstanding
PROPERTIES
    RefinesByteStream
    EverythingAcked
