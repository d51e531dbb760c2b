SPECIFICATION FairSpec
CONSTANTS
    gui = gui
    tagcache = tagcache
    audio = audio
    storage = storage
    pictureflow = pictureflow
    Gui = gui
    Stoppers = {gui}
    Players = {}
    Ackers = {storage}
    Plugins = {}
    MaxSeq = 2
    MaxUsbQueue = 1
INVARIANT AckAccounting
INVARIANT ToldTheTruth
PROPERTY HandoverCompletes
PROPERTY BackInBusiness
PROPERTY CableSettles
