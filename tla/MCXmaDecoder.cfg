SPECIFICATION XmaFairSpec
CONSTANTS
    PacketBits = 9
    HeaderBits = 2
    LengthBits = 2
    Subframes = 2
    Forever = 3
    RingBlocks = 3
    Voices <- MCVoices
    MaxHeard = 16
    Resets = 1
INVARIANTS
    XmaTypeOK
    HeardIsTheVoice
    LockKeepsDecoderOut
PROPERTIES
    UnreadBlocksKept
    EverythingHeard
