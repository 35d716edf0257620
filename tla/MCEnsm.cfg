\* Every sequence of calls, every platform, the pins free to move.
SPECIFICATION Spec
INVARIANTS TypeOK RunsWhereForced StateHeld SynthFollows TrackingReturns SleepsDark
