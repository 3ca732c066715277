SPECIFICATION Spec
CONSTANT Lines <- SomeLines
INVARIANTS UnregisteredMasked
PROPERTIES TimerServed LoneIrqServed
