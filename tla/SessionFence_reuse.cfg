CONSTANTS
  Pods = {1, 2}
  Gens = {1, 2, 3}
SPECIFICATION Spec
INVARIANT GenerationOnce
