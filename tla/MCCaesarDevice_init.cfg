\* does a failing caesar_init leave anything behind?
CONSTANTS
  t1 = t1  t2 = t2  f1 = f1  f2 = f2  b1 = b1  b2 = b2
  Tasks = {t1, t2}
  Files = {f1, f2}
  Blocks = {b1, b2}
  Minors = {0, 1, 2}
  NULL = NULL
  BUFFER_SIZE = 2
  Texts <- EdgeTexts
  Garbage <- Zeros
  translate_shift = 1
SPECIFICATION Spec
SYMMETRY Symmetric
INVARIANTS
  FailedInitCleansUp
CHECK_DEADLOCK FALSE
