CONSTANTS
    Structs = {k1, k2, k3}
    None = None
    Listener = Listener
    AuthTimeout = 1
    MaxConns = 3
    MaxPackets = 2
SPECIFICATION Spec
INVARIANTS TypeOK FreeSound EventFresh ToldOnce PointersLive UnauthedSound
PROPERTIES UnauthedCloses CloseNoticed
