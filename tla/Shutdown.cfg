SPECIFICATION ShutdownFairSpec
CONSTANTS
    Listeners = {http, tls}
    Endpoints = {admin}
    Conns = {c1, c2, c3}
    None = None
    MaxConnections = 2
    Grace = 1
INVARIANTS SlotsConserved AtMostOneLateAccept
PROPERTIES ExitsUnlessSlotsStayTaken
