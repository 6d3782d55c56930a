\* Two readers, up to three calls of init, both build profiles.
SPECIFICATION FairSpec
CONSTANTS
    Boot = Boot
    Readers = {r1, r2}
    Maps = {m1, m2}
    Torn = Torn
    MaxInits = 3
INVARIANTS
    FlagMeansReady
    NeverTorn
    OneMap
PROPERTIES
    SomeIsFinal
    EventuallySome
