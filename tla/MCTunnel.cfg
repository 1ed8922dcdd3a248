SPECIFICATION Spec
CONSTANTS
    Writers = {"veth", "alive"}
    Tags = {1, 2}
    MaxPayload = 10
    BufSize = 8
    Base = 4
    Text = 3
    MaxFrames = 3
    Messages <- Session
    Ping = 1
    Raw = 2
    Peers = {"far", "near"}
    Far = "far"
    IPs <- PeerIPs
    Address <- PeerAddress
    Routes <- Routers
    Broadcast <- Everyone
    BatchSize = 2
    Dests = {"a", "b", "lan", "all"}
    Batches <- DeviceBatches
    MaxPackets = 3
INVARIANTS
    NeverForged
    InOrderUntilSplit
    CutOnlyInMixedBatch
    ReachesItsPeers
PROPERTIES
    DatagramsIndependent
CHECK_DEADLOCK FALSE
