\* One registry issuing more tags than its 2-bit counter can number.
CONSTANTS
  Instances = {i1, i2}
  UidWidth = 2
  MaxRegistries = 1
  MaxTagsPerRegistry = 5

SPECIFICATION Spec

INVARIANT TagsUnique
