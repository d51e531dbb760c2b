SPECIFICATION Spec
CONSTANTS
    gui = gui
    tagcache = tagcache
    audio = audio
    storage = storage
    pictureflow = pictureflow
    Gui = gui
    Stoppers = {gui, audio}
    Players = {audio}
    Ackers = {}
    Plugins = {pictureflow}
    MaxSeq = 2
    MaxUsbQueue = 1
INVARIANT HandoverInv
INVARIANT ExclusiveStorage
PROPERTY ResumesOnMountedDisk
PROPERTY ImplementsDiskHandover
