SPECIFICATION Spec
CONSTANT Parts = 2
PROPERTY HandshakeEnds
CHECK_DEADLOCK FALSE
