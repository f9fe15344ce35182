SPECIFICATION Spec
CONSTANTS
  ArgMod = 13
  IntMod = 10
  DefaultLast = 8
  MAX_THREADS_MEMCAGE = 3
  Online = 2
INVARIANTS
  TypeOK
  ProperRange
  RequestHonoured
  AffinityEven
