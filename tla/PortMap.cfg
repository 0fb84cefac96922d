SPECIFICATION Spec
CONSTANTS
    ByteBits = 2
    Params <- AllParams
    LittleEndian = FALSE
    Flow = {f1, f2}
    None = None
INVARIANT TypeOK
INVARIANT OwnPorts
INVARIANT AnswersReachFlow
INVARIANT NoSharedPort
INVARIANT AllPortsUsable
INVARIANT ChecksumsHold
