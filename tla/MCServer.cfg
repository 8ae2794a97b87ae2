\* The server ends, or waits for a signal.
SPECIFICATION Spec
CHECK_DEADLOCK FALSE
CONSTANTS
    socket = socket
    file = file
    Clients = {c1, c2}
    Others = {socket, file}
    Sockets = {socket}
INVARIANTS
    StopsCleanly
PROPERTIES
    ServeEnds
