SPECIFICATION DialogSpec
CONSTANT MaxMessages = 3
INVARIANT DialogTypeOK
INVARIANT OverlayHasKeyboard
PROPERTY AttemptAnswered
