SPECIFICATION FairSpec
CONSTANTS
    Machines = {m1, m2, m3}
    Writers = {m1, m2}
    Folder = Folder
    None = None
    AtOnce = FALSE
    MaxResets = 1
    MaxWords = 1
    MaxDoors = 1
    Mishaps = {"crash", "late", "emptied"}
    MaxMishaps = 1
INVARIANT TypeOK
 
PROPERTY ComesToOneStore
