SPECIFICATION Spec
CONSTANTS
    Caddyfiles <- MCCaddyfiles
    RequestHosts <- MCRequestHosts
    RequestPaths <- MCRequestPaths
    HTTPPort = "80"
    HTTPSPort = "443"
    Port = "2015"
    Faults = {"acme", "files"}
INVARIANT EverySiteServed
