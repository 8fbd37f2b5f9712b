CONSTANTS
    MaxGen <- MCMaxGen
    EmptyWriteApplied <- MCEmptyWriteApplied
SPECIFICATION Spec
INVARIANTS
    TypeOK
    TimerNotAfterCallback
    RecordedOptionsLive
