SPECIFICATION Spec
INVARIANTS FixComplete FixStable
