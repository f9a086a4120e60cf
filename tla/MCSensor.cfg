\* Two CPUs, a ring of two records, two arguments; the second exec has no
\* terminal, the third is excluded; the strings of the first can be read.
CONSTANTS
  Cpus = {cpu1, cpu2}
  Capacity = 2
  MaxArgs = 2
  MaxExecs = 3
  Ttyless = {2}
  Excluded = {3}
  Resident = {1}
SPECIFICATION Spec
INVARIANTS
  OwnDataOnly
PROPERTIES
  ImplementsExecStream
  EndsOnSignal
