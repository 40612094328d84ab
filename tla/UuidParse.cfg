SPECIFICATION Spec
CONSTANT Inputs <- MCInputs
INVARIANT RoundTrip
INVARIANT AcceptsExactly
