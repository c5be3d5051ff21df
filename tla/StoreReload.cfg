\* Three callers, so that one can join the follow-up of a second while the
\* third reloads.  No symmetry: EveryCallReturns is a liveness property.
CONSTANTS
    Caller = {c1, c2, c3}
    None = None
    MaxChanges = 2
SPECIFICATION Spec
INVARIANTS TypeOK ServedByLaterReload OneFollowUp
PROPERTIES NeverGoesBack EveryCallReturns
