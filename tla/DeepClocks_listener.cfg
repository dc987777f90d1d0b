SPECIFICATION DeepSpec
CONSTANT MaxChanges = 4
INVARIANT ListenerKeepsClock
