\* Three test cases, one of them a seed, one crash, two builds of the target;
\* the process is killed three times, and twice ends by itself or starts afresh.
CONSTANTS
  Case = {c1, c2, c3}
  Seeds = {c1}
  Crash = {k1}
  Target = {"A", "B"}
  MaxKills = 3
  MaxExits = 2
SPECIFICATION FairSpec
INVARIANT CrashesAreKept
PROPERTIES FoundIsKept FastResumeFits ResumeWorks
