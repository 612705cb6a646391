\* Two registries of at most three tags each: every operation interleaved,
\* the counter never wraps.
CONSTANTS
  Instances = {i1, i2}
  UidWidth = 2
  MaxRegistries = 2
  MaxTagsPerRegistry = 3

SPECIFICATION Spec

INVARIANT TypeOK

