\* Two processes start together, with one stop between them.
CONSTANTS
    Procs = {p1, p2}
    altered = altered
    rebuilt = rebuilt
    created = created
    removed = removed
    kept = kept
    gained = gained
    lost = lost
    guarded = guarded
    Tables = {altered, rebuilt, created, removed}
    Cols = {kept, gained, lost, guarded}
    Absent = Absent
    Before <- OldSchema
    Wanted <- NewSchema
    Stubborn <- RefusedDrops
    Protected <- GuardedColumns
    Referenced = {altered}
    Indexed = {altered, created}
    Busy = {rebuilt}
    OldRow = OldRow
    NewRow = NewRow
    MaxStops = 1
SPECIFICATION Spec
INVARIANTS TypeOK RowsKept VersionHonest
PROPERTY EachComesUp
CHECK_DEADLOCK FALSE
