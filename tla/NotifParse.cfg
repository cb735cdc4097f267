CONSTANTS
    MaxFrame = 8
    MaxVal = 2
SPECIFICATION Spec
INVARIANT AcceptsWellFormed
INVARIANT IterYieldsFrameSamples
