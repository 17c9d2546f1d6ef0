SPECIFICATION Spec
CONSTANTS
    Goal = {often, once}
    Recurring = {often}
    Job = {j1, j2, j3, j4}
    None = None
    Every = 2
    Cooldown = 2
    Hour = 1
    MaxPerHour = 2
    Day = 2
    MaxPerDay = 2
    FailureThreshold = 1
    Delays = {1}
    MaxArms = 2
    MaxRestarts = 1
    MaxMishaps = 1
INVARIANTS CyclesBounded NoSleeper OneCyclePerWake
PROPERTIES CooldownKept
