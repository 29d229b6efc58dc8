SPECIFICATION FairSpec
CONSTANT MaxEvents = 2
INVARIANTS TypeOK RootHasMutexes ConnectedIsTrue
PROPERTIES LeafSheds RootAnnounces LogReturns
