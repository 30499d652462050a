SPECIFICATION Spec
CONSTANTS
  Workers = {w1, w2}
  Processes = {daemon}
  Home <- OneHome
  Targets = {t1, t2}
  Versions = {v1}
  Upstream = {vendor, other}
  Local = local
  NoOne = NoOne
  NoRecord = NoRecord
SYMMETRY Symmetry
PROPERTIES
  RequirementIsKept
  ImplementsStore
