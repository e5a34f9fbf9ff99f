\* Claims that are violated, one at a time: TLC stops at the first, so comment
\* out the others.
SPECIFICATION DialogSpec
CONSTANT MaxMessages = 2
INVARIANT DialogCanType
INVARIANT HiddenOverlayLetsGo
INVARIANT WindowReturns
INVARIANT WarningIsSeen
PROPERTY EveryAttemptAnswered
