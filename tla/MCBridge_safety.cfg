SPECIFICATION Spec
CONSTANTS
    PlainKeys = {"name"}
    RadioTextKeys = {"x_ssid1", "x_channel"}
    RadioFlagKeys = {"x_enable_ssid1"}
    execution_order <- MCOrder
    Texts <- MCTexts
    AutoText = AutoText
    ZeroText = ZeroText
    a = a
    b = b
    ls = ls
    cat = cat
    ping = ping
    Commands = {ls, cat, ping}
    HangingCommands = {ping}
    Cursors <- MCCursors
    CursorOf <- MCCursorOf
    Desires <- MCDesires
    FieldSettings <- MCField
    Factory <- MCFactory
    MaxDisturbances = 2
    Nil = Nil
    Empty = Empty
    Unread = Unread
INVARIANTS
    TypeOK
    RadioFollowsFlash
    PictureIsTrue
    ReplyIsCarriedOut
    BackoffIsEarned
    IInv
PROPERTIES
    OutputHeardBeforeNext
