CONSTANTS
  Kinds = {"mix"}
  t1 = t1
  t2 = t2
  Threads = {t1, t2}
  a1 = a1
  a2 = a2
  ArrayIds = {a1, a2}
  Static = Static
SPECIFICATION MixSpec
PROPERTY CallsReturn
