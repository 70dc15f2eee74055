SPECIFICATION Spec
CONSTANTS
    h1 = h1
    h2 = h2
    w1 = w1
    w2 = w2
    Hash <- MCHash
    Shard = {0, 1}
    ShardOf <- MCShardOf
    Path <- MCLinked
    Agent = {"a", "b"}
    AgentOf <- MCLinkedOf
    Bodies <- MCBodies
    Worker = {w1, w2}
    LinkingAgents = {"b"}
    PurgedAgents = {"b"}
    BatchSize = 1
    Retention = 1
    MaxClock = 2
    MaxInode = 2
SYMMETRY MCSymmetry
INVARIANTS TypeOK RefcountExact ReferencedChunksPresent LocksProtect
PROPERTY ImplementsFileStore
