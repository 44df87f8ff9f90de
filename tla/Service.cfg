SPECIFICATION Spec
CONSTANT MaxClients = 3
INVARIANTS TypeOK WriterUsesLiving ListenerKept ReleasedOnce
PROPERTY StopEnds
