CONSTANTS
    e0 = e0  e1 = e1  e2 = e2  ex = ex
    a1 = a1  a2 = a2  a3 = a3  b1 = b1  b2 = b2  c1 = c1  h1 = h1
    None = None
    Ifaces <- MCIfaces
    Servers <- MCServers
    Ring <- MCRing
SPECIFICATION TopoSpec
INVARIANT NextActiveCorrect
INVARIANT CurrentIsActive
