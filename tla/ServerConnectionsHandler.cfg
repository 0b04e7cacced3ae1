CONSTANTS
    c1 = c1
    c2 = c2
    Clients = {c1, c2}
    Fds = {1, 2, 3}
    MaxEvents = 2
    SendBuffer = 1
    MaxRequests <- Requests
    None = None
SPECIFICATION Spec
INVARIANT HandlerAlive
