SPECIFICATION Spec
CONSTANTS
    n1 = n1
    n2 = n2
    n3 = n3
    BufferHead = buffer_head
    Nodes = {n1, n2, n3}
    Nothing = nothing
    InitLines = 2
    MaxUndo = 3
    MayFail = TRUE
    MayInterrupt = {"r", "other"}
INVARIANTS RingSound UndoSound Accounted
SYMMETRY Symmetry
VIEW Editing
PROPERTIES ImplementsEdLines
