CONSTANTS
    c1 = c1  c2 = c2  q1 = q1  q2 = q2  lh = lh
    e1 = e1  e2 = e2  a1 = a1  a2 = a2  b1 = b1
    None = None  NoClient = NoClient
    Clients <- MCClients
    Questions = {q1}
    Localhost = lh
    IfaceOrder <- MCIfaceOrder
    Servers <- MCServers
    Ring <- MCRing
    Addr <- MCAddr
    Route <- MCRoute
    BindToDevice = TRUE
    ClientQids = {0}
    NQid = 2
    MaxSockets = 4
    ForwardTimeout = 1
    RetryInterval = 1
    SpHosts = {}
    QueryPrefix <- MCQueryPrefix
    DefIfaces = {}
    SendFailable = {}
    SocketFailures = TRUE
    DontknowAnswers = {FALSE, TRUE}
    Lossy = FALSE
    MaxRequests = 2
    MaxRetries = 0
SPECIFICATION Spec
INVARIANT SocketAccounting
