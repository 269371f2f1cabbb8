\* The four lexer sources over texts of up to two characters.
CONSTANTS
    EOF = EOF
    NONE = NONE
    Kinds = {"file", "stream", "char", "string"}
    Inputs <- MCInputs
    Starts <- MCStarts
    Bytes = {"a", "z"}
SPECIFICATION Spec
\* A lexer may stop reading at any point.
CHECK_DEADLOCK FALSE
PROPERTY ImplementsReader
