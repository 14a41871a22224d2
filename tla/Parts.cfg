SPECIFICATION Spec
INVARIANTS ProcessesExact MatchingExact TimingExact ModelsExact ArraysExact
PROPERTY ProcessesGoOn
CHECK_DEADLOCK FALSE
