SPECIFICATION TermSpec
CONSTANTS
    Finals <- MCFinals
    CSIParams <- MCCSIParams
    Packets <- KeysAndArrows
    MaxLine = 3
PROPERTIES
    EditsLikeLineEditor
