\* Any three documents: a report, its correction and the correction of that.
CONSTANTS
    Id = {1, 2, 3}
    Period = {1}
    Time = {1, 2, 3}
SPECIFICATION Spec
INVARIANTS OrderIndependent NoPeriodLost
