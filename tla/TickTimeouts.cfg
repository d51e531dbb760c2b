SPECIFICATION Spec
CONSTANTS
    debounce = debounce
    hpDetect = hpDetect
    charger = charger
    fade = fade
    TimeoutTick = timeoutTick
    None = None
    Timeouts = {debounce, hpDetect, charger}
    Tasks = {fade}
    MaxTimeouts = 2
    MaxTasks = 2
    Modulus = 8
    MaxInterval = 2
SYMMETRY Alike
INVARIANT ListsExact
INVARIANT OverdueBounded
PROPERTY ImplementsAlarms
