SPECIFICATION OwpSpec
CONSTANTS
    SessionIdent = 7
    MaxFramePayload = 2
    Limits <- MCLimits
    Frames <- MCFrames
INVARIANTS FlagsAgree
PROPERTIES ImplementsLifecycle
