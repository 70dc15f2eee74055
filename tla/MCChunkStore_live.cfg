SPECIFICATION FairSpec
CONSTANTS
    h1 = h1
    h2 = h2
    w1 = w1
    w2 = w2
    Hash <- MCHash
    Shard = {0, 1}
    ShardOf <- MCShardOf
    Path <- MCOneName
    Agent = {"a", "b"}
    AgentOf <- MCOneNameOf
    Bodies <- MCOneBody
    Worker = {w1, w2}
    LinkingAgents = {}
    PurgedAgents = {}
    BatchSize = 1
    Retention = 0
    MaxClock = 2
    MaxInode = 1
PROPERTIES RequestsReturn GarbageCollected
