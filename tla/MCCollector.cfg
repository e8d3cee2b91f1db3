\* A daemon and another opener of the file, a live and two replayed providers.
SPECIFICATION Spec
CONSTANTS
    m1 = m1
    m2 = m2
    daemon = daemon
    other = other
    table = table
    column = column
    index = index
    later = later
    side = side
    Openers = {daemon, other}
    Library <- LibraryOf
    CoreParts = {table, column, index, later}
    TableOf <- Table
    PackParts = {side}
    Since <- SinceOf
    Null = Null
    Daemon = daemon
    Matches = {m1, m2}
    Replayed = m1
    EventCount = 2
    Minute <- MinuteOf
    Kinds = {"live", "step", "paced"}
    Responses = {"ok", "timeout", "missingKey"}
    LiveSnapshots <- Shows
    MaxBackoff = 4
    Torn = Torn
INVARIANTS OpenedComplete SessionKept ReplayComplete
PROPERTIES MaintainerAdmitted StopsEventually FlushNotRetried
