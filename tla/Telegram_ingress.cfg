CONSTANTS
    a = a
    d1 = d1
    d2 = d2
    d3 = d3
    NoTask = NoTask
    Delivery = {d1, d2, d3}
    PartOf <- FirstAgain
    NoAlbum = NoAlbum
    MaxUpdate = 4
    AlbumOf <- OneAlbum
    Poison = {1}
    Limit = 3
    MaxFaults = 2
    MaxAlbumFaults = 1
SPECIFICATION EitherSpec
INVARIANTS UpdatesAreKept AlbumsAreWhole
PROPERTIES NobodyIsStarved PartsReachAHandler
