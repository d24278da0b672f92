SPECIFICATION Spec
CONSTANTS
    Unset = Unset
    Invalid = Invalid
    Skipped = Skipped
    NoReply = NoReply
    Numeral <- MCNumeral
    LowerCase <- MCLowerCase
    HostOf <- MCHostOf
    Spelling <- MCSpelling
    Yields <- MCYields
    Failing <- MCFailing
    Piece = 2
    JsonTexts <- MCJsonTexts
    Campaigns <- MCCampaigns
    Replies <- MCReplies
    SampleCap = 2
    ReservoirSize = 2
INVARIANTS
    PrefixSearched
CHECK_DEADLOCK FALSE
