CONSTANTS
    Structs = {k1, k2, k3}
    None = None
    Listener = Listener
    AuthTimeout = 0
    MaxConns = 2
    MaxPackets = 1
SPECIFICATION DrainSpec
PROPERTIES DrainedCloses
