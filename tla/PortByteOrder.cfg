SPECIFICATION Spec
CONSTANTS
    ByteBits = 8
    Params <- V6Plus
    LittleEndian = TRUE
    Flow = {f1}
    None = None
INVARIANT OwnPorts
