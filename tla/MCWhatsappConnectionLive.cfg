SPECIFICATION FairSpec
CONSTANTS
    h1 = h1
    h2 = h2
    Handlers = {h1, h2}
    Offered = {"connect", "qr"}
    MaxNews = 1
    MaxRestarts = 0
PROPERTIES
    ScanIsNoticed
VIEW LiveView
