SPECIFICATION FairSpec
CONSTANTS
    Clients = {ana, ben}
    Active = {ana}
    Places <- MCPlaces
    Spawns <- MCSpawns
    CellSize = 2
    Elos = {1200, 1216}
    QueueSize = 2
    MaxIDs = 3
INVARIANTS
    TypeOK
    SceneReached
PROPERTIES
    PicturesSettle
