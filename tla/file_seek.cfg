SPECIFICATION Spec
CONSTANTS
    Byte = {0, 1}
    Zero = 0
    BufferSize = 2
    MaxSize = 4
    MaxCount = 3
    WriteSeeks = TRUE
    Faults = FALSE
PROPERTY SeekArrives
