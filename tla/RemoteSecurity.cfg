SPECIFICATION Spec
CONSTANTS
  Codes = {c1, c2}
  Tokens = {t1, t2, t3, t4}
  Null = Null
  MAX_TOKENS_COUNT = 2
  MAX_FAILED_ATTEMPTS = 2
SYMMETRY Symmetry
INVARIANTS TokensAreSound GrantsAreUseful
