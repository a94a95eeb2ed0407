SPECIFICATION Spec
CONSTANT Needed = 1
INVARIANT BusyLocksDefer
