\* Three processes on one port; kills, lost connections, a foreign listener.
CONSTANTS
    Users = {u1, u2, u3}
    MaxSpawns = 3
SPECIFICATION FairSpec
INVARIANTS
    TypeOK
    NoSshLeftBehind
PROPERTIES
    WaitingEnds
CHECK_DEADLOCK FALSE
