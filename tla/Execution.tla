----------------------------- MODULE Execution ------------------------------
(***************************************************************************)
(* What afl_fsrv_run_target (src/afl-forkserver.c) promises its callers,   *)
(* without pipes, futexes, signals or processes: one test case at a time   *)
(* is handed over, the target executes it at most once, the call returns   *)
(* only when the target no longer executes it, and the result is what      *)
(* happened to the target.                                                 *)
(***************************************************************************)
EXTENDS Integers

CONSTANTS
  IdleDeaths,   \* the target may die while it waits for its next test case
  ExecFailures, \* the target is executed anew each time, and that may fail
  MaxRuns       \* bound: number of test cases executed

VARIABLES
  run,       \* number of the current test case
  phase,     \* "idle", "requested", "executing", "ended" or "over"
  returned,  \* the target came to the end of its iteration on it
  death,     \* how the target died during this run, or "none"
  verdict    \* fsrv_run_result_t of the last completed run

vars == <<run, phase, returned, death, verdict>>

Deaths == {"exit", "crash", "killed"}

Forget == returned' = FALSE /\ death' = "none"

Init ==
  /\ run = 0 /\ phase = "idle" /\ verdict = "none"
  /\ returned = FALSE /\ death = "none"

(* afl_fsrv_run_target is called. *)
Begin ==
  /\ phase = "idle" /\ run < MaxRuns
  /\ run' = run + 1
  /\ phase' = "requested"
  /\ verdict' = "none"
  /\ Forget

(* The target takes the test case, once. *)
Execute ==
  /\ phase = "requested"
  /\ phase' = "executing"
  /\ Forget
  /\ UNCHANGED <<run, verdict>>

(* The iteration returns, which may be the target's last act, or the target *)
(* dies in the middle of it.                                               *)
End ==
  /\ phase = "executing"
  /\ phase' = "ended"
  /\ \/ returned' = TRUE  /\ death' \in {"none", "exit"}
     \/ returned' = FALSE /\ death' \in Deaths
  /\ UNCHANGED <<run, verdict>>

(* A target that has returned from the iteration may still die before the  *)
(* result is read, and so may one that has not yet taken the test case;    *)
(* another can then take its place.                                        *)
LateDeath ==
  /\ phase \in {"requested", "ended"} /\ death = "none"
  /\ death' \in IF IdleDeaths THEN Deaths ELSE {"exit", "killed"}
  /\ UNCHANGED <<run, phase, returned, verdict>>

(* The results that may be reported.  The timer may expire at any moment,  *)
(* so a timeout is always possible; nothing else is a matter of choice.    *)
Results ==
  {"TMOUT"}
    \cup (IF ExecFailures THEN {"ERROR"} ELSE {})
    \cup (IF phase = "ended" /\ (returned \/ death = "exit")
          THEN {"OK"} ELSE {})
    \cup (IF death = "crash" THEN {"CRASH"} ELSE {})
    \cup (IF phase = "requested" /\ IdleDeaths THEN {"OK", "CRASH"} ELSE {})

(* The call returns. *)
Report ==
  /\ phase \in {"requested", "ended"}
  /\ verdict' \in Results
  /\ phase' = "idle"
  /\ Forget
  /\ UNCHANGED run

(* The session ends, or the fuzzer gives up on a dead fork server. *)
Stop ==
  /\ phase' = "over"
  /\ Forget
  /\ UNCHANGED <<run, verdict>>

Next == Begin \/ Execute \/ End \/ LateDeath \/ Report \/ Stop

Spec == Init /\ [][Next]_vars
=============================================================================
