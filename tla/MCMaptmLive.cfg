CONSTANTS
    MaxGen <- MCMaxGen
    EmptyWriteApplied <- MCEmptyWriteApplied
SPECIFICATION Spec
PROPERTY
    IPv4Provided
