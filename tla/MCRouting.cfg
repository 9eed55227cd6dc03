SPECIFICATION RSpec
CONSTANTS
    Caddyfiles <- MCCaddyfiles
    RequestHosts <- MCRequestHosts
    RequestPaths <- MCRequestPaths
    HTTPPort = "80"
    HTTPSPort = "443"
    Port = "2015"
    Faults = {"acme", "files"}
INVARIANTS RedirectsRight  TableClean InBounds LimitKept 
