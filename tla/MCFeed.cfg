\* Up to three key events of three kinds, and four changes of the list.
SPECIFICATION Spec
CONSTANTS
    Whats = {w1, w2}
    Slugs = {"goal", "yellow-red-card", "start-delay"}
    Texts = {t1}
    Comps <- Shown
    MaxFeed = 3
    MaxEdits = 4
    Null = Null
SYMMETRY Alike
INVARIANTS LogMirrorsFeed NoWedge DriftStaysLoud
PROPERTIES ErrorOnce
