SPECIFICATION FairSpec
CONSTANTS
    gui = gui
    tagcache = tagcache
    audio = audio
    storage = storage
    pictureflow = pictureflow
    Gui = gui
    Stoppers = {gui, audio}
    Players = {audio}
    Ackers = {}
    Plugins = {}
    MaxSeq = 1
    MaxUsbQueue = 1
PROPERTY BackInBusiness
