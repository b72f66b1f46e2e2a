\* Two test cases, one of them a seed; the process is killed twice.
CONSTANTS
  Case = {c1, c2}
  Seeds = {c1}
  Crash = {k1}
  Target = {"A", "B"}
  MaxKills = 2
  MaxExits = 2
SPECIFICATION Spec
PROPERTY FoundIsAlwaysKept
