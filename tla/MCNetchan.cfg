CONSTANTS
    SequenceModulus = 16
    FragmentSize = 2
    MaxMessageLength = 4
    MaxMessages = 3
SPECIFICATION Spec
INVARIANTS
    IInv
    SentInOrderAccepted
PROPERTIES
    AcceptedLeaves
    ChannelSpec
CHECK_DEADLOCK FALSE
