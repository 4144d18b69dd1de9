CONSTANTS
  Pods = {1, 2}
  Gens = {1, 2, 3}
SPECIFICATION Spec
INVARIANT AcceptedIsHeld
INVARIANT OneWriter
INVARIANT AuthCurrent
PROPERTY FreshOnlyFenced
