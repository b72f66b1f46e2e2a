----------------------------- MODULE ForkServer -----------------------------
(***************************************************************************)
(* One execution engine of AFL++: the fuzzer (afl_fsrv_run_target in       *)
(* src/afl-forkserver.c), the fork server inside the target                *)
(* (__afl_start_forkserver) and the forked child (__afl_persistent_loop),  *)
(* the last two in instrumentation/afl-compiler-rt.o.c.                    *)
(*                                                                         *)
(* The three processes share two pipes (ctl: fuzzer to server, st: server  *)
(* to fuzzer) and, in futex mode, one 32 bit word, child_sync, on which    *)
(* fuzzer and child sleep and wake each other.  Signals are delivered some *)
(* time after kill() returns.  Every step between two accesses to shared   *)
(* state is one action.                                                    *)
(***************************************************************************)
EXTENDS Integers, Sequences

CONSTANTS
  UseFutex,     \* fsrv->use_futex: both sides agreed on the sync word
  Persistent,   \* the target runs an __AFL_LOOP
  Faux,         \* afl_fauxsrv_execv serves instead of the runtime
  KillSignal,   \* fsrv->child_kill_signal, AFL_KILL_SIGNAL
  FsrvSignal,   \* fsrv->fsrv_kill_signal, AFL_FORK_SERVER_KILL_SIGNAL
  CatchesTerm,  \* the target may catch or block SIGTERM
  MaxCycles,    \* argument of __AFL_LOOP
  Faults,       \* which failures of the environment happen
  MaxRuns       \* bound: number of test cases executed

AllFaults == {"idleDeath", "forkFails", "fuzzerDies", "userStop"}

ASSUME ConstantsAssumption ==
  /\ UseFutex \in BOOLEAN /\ Persistent \in BOOLEAN /\ Faux \in BOOLEAN
  /\ UseFutex => Persistent     \* AFL_CHILD_SYNC_SHM is exported only then
  /\ Faux => ~Persistent
  /\ KillSignal \in {"SIGKILL", "SIGTERM"}
  /\ FsrvSignal \in {"SIGKILL", "SIGTERM"}
  /\ CatchesTerm \in BOOLEAN
  /\ MaxCycles \in Nat \ {0}
  /\ Faults \subseteq AllFaults
  /\ MaxRuns \in Nat

VARIABLES
  (* the fuzzer *)
  fpc, run, child_pid, last_run_timed_out, write_value, fval, child_status,
  verdict, stop_soon,
  (* shared between the processes *)
  child_sync, ctl, st, exec_fail,
  (* the fork server *)
  spc, was_killed, child_stopped, status,
  (* the child *)
  cpc, cpid, cycle_cnt, expected, input, wstatus, pending,
  (* history: what really happened *)
  done,      \* the last test case whose iteration ran to its end
  expired,   \* the timer of the current run fired
  died_at    \* value of run when the last child died

fuzzerData == <<run, child_pid, last_run_timed_out, write_value, fval,
                child_status, verdict, stop_soon>>
fuzzer     == <<fpc, fuzzerData>>
shared     == <<child_sync, ctl, st, exec_fail>>
serverData == <<was_killed, child_stopped, status>>
server     == <<spc, serverData>>
childData  == <<cpid, cycle_cnt, expected, input, wstatus, pending>>
child      == <<cpc, childData>>
history    == <<done, expired, died_at>>
vars       == <<fuzzer, shared, server, child, history>>

-----------------------------------------------------------------------------
(* Values                                                                  *)

(* afl_child_state_t *)
IDLE   == "AFL_CHILD_IDLE"
RUN    == "AFL_CHILD_RUN"
DONE   == "AFL_CHILD_DONE"
EXITED == "AFL_CHILD_EXITED"
SyncState == {IDLE, RUN, DONE, EXITED}

(* What waitpid reports: a normal exit, a crash of the target's own doing  *)
(* (a fatal signal, or an exit code configured to count as one), death by  *)
(* the fuzzer's kill signal, or a stop.                                    *)
DeathStatus == {"exit", "crash", "killed"}
WaitStatus  == DeathStatus \cup {"stopped"}

(* fsrv_run_result_t; "none" before the first run *)
Verdict == {"none", "OK", "TMOUT", "CRASH", "ERROR"}

(* The two kinds of 4 byte values the server writes to the status pipe.    *)
PidMsg(p)    == [kind |-> "pid",    pid |-> p, status |-> "exit"]
StatusMsg(s) == [kind |-> "status", pid |-> 0, status |-> s]
Msg == [kind : {"pid", "status"}, pid : Nat, status : WaitStatus]

(* The fuzzer is no longer executing test cases. *)
Over == fpc \in {"ended", "stopped", "fatal", "dead"}

Alive == cpc \notin {"none", "zombie"}

-----------------------------------------------------------------------------
(* Processes and signals                                                   *)

(* kill(p, sig): sent to the child if p is its pid and it still exists.  A *)
(* SIGTERM does not replace a SIGKILL already on its way.                  *)
Kill(p, sig) ==
  pending' = IF p = cpid /\ Alive /\ pending # "SIGKILL" THEN sig ELSE pending

(* The child terminates with wait status s and becomes a zombie.           *)
Die(s) ==
  /\ cpc' = "zombie"
  /\ wstatus' = s
  /\ pending' = "none"
  /\ died_at' = run

(* FUTEX_WAKE: a sleeper returns to the top of its loop.                   *)
WakesNobody(pc) == pc                                             \* mutant
Woken(pc) == IF pc = "asleep" THEN "load" ELSE pc

(* The kernel delivers a pending signal.  SIGTERM waits while the child is *)
(* stopped; a target that catches it goes on, its system call interrupted, *)
(* or exits from the handler.                                              *)
Deliver ==
  /\ Alive /\ pending # "none"
  /\ \/ /\ pending = "SIGKILL" \/ cpc # "stopped"
        /\ Die("killed")
     \/ /\ pending = "SIGTERM" /\ CatchesTerm /\ cpc # "stopped"
        /\ pending' = "none"
        /\ cpc' = IF cpc = "asleep" THEN "load" ELSE cpc
        /\ UNCHANGED <<wstatus, died_at>>
  /\ UNCHANGED <<fuzzer, shared, server, cpid, cycle_cnt, expected, input,
                 done, expired>>

-----------------------------------------------------------------------------
(* The fuzzer: afl_fsrv_run_target                                         *)

(* classify_result: EXEC_FAIL_SIG, timeout, crash, success, in this order. *)
ClassifyCrashFirst(s) ==                                          \* mutant
  IF exec_fail THEN "ERROR"
  ELSE IF s \in {"crash", "killed"} THEN "CRASH"
  ELSE IF last_run_timed_out THEN "TMOUT" ELSE "OK"
Classify(s) ==
  IF exec_fail THEN "ERROR"
  ELSE IF last_run_timed_out THEN "TMOUT"
  ELSE IF s \in {"crash", "killed"} THEN "CRASH" ELSE "OK"

(* A pipe to the dead server fails: FATAL, unless the user stopped us.     *)
AlwaysFatal == fpc' = "fatal"                                     \* mutant
CommunicationFails ==
  fpc' = IF stop_soon THEN "stopped" ELSE "fatal"

(* The signal that ends an overdue child.                                  *)
ForgetsToKill == UNCHANGED pending                                \* mutant
KillOverdue == Kill(child_pid, KillSignal)

(* The test case is written, trace_bits cleared, and the persistent child  *)
(* reused over the sync word if there is one.                              *)
StartRun ==
  /\ fpc = "idle" /\ run < MaxRuns /\ ~stop_soon
  /\ run' = run + 1
  /\ write_value' = last_run_timed_out
  /\ exec_fail' = FALSE
  /\ expired' = FALSE
  /\ verdict' = "none"
  /\ fpc' = IF UseFutex /\ child_pid > 0 THEN "check" ELSE "request"
  /\ UNCHANGED <<child_pid, last_run_timed_out, fval, child_status,
                 stop_soon, child_sync, ctl, st, server, child, done,
                 died_at>>

(* EXITED already there: the child died between two runs.                  *)
AfterCheck == IF child_sync = EXITED THEN "readStatus" ELSE "signal"

CheckSync ==
  /\ fpc = "check"
  /\ fpc' = AfterCheck
  /\ UNCHANGED <<fuzzerData, shared, server, child, history>>

SignalRun ==
  /\ fpc = "signal"
  /\ child_sync' = RUN
  /\ fpc' = "wakeChild"
  /\ UNCHANGED <<fuzzerData, ctl, st, exec_fail, server, child, history>>

(* FUTEX_WAKE by the fuzzer, after storing RUN or after giving up.         *)
WakeChild ==
  /\ fpc \in {"wakeChild", "giveUpWake"}
  /\ fpc' = IF fpc = "wakeChild" THEN "load" ELSE "giveUpKill"
  /\ cpc' = Woken(cpc)
  /\ UNCHANGED <<fuzzerData, shared, server, childData, history>>

(* afl_futex_wait: the top of the loop.                                    *)
LoadSync ==
  /\ fpc = "load"
  /\ fval' = child_sync
  /\ \/ /\ child_sync = DONE
        /\ fpc' = "idle"
        /\ verdict' = IF exec_fail THEN "ERROR" ELSE "OK"
     \/ /\ child_sync = EXITED
        /\ fpc' = "readStatus"
        /\ UNCHANGED verdict
     \/ /\ child_sync \in {IDLE, RUN} /\ (last_run_timed_out \/ stop_soon)
        /\ fpc' = IF child_pid > 0 THEN "giveUp" ELSE "readStatus"
        /\ UNCHANGED verdict
     \/ /\ child_sync \in {IDLE, RUN} /\ ~last_run_timed_out /\ ~stop_soon
        /\ fpc' = "enter"
        /\ UNCHANGED verdict
  /\ UNCHANGED <<run, child_pid, last_run_timed_out, write_value,
                 child_status, stop_soon, shared, server, child, history>>

(* FUTEX_WAIT_BITSET compares the word and sleeps in one step.             *)
EnterWait ==
  /\ fpc = "enter"
  /\ fpc' = IF child_sync = fval THEN "asleep" ELSE "load"
  /\ UNCHANGED <<fuzzerData, shared, server, child, history>>

(* The absolute deadline passes, or the sleep is interrupted.              *)
FutexTimeout ==
  /\ fpc = "asleep"
  /\ last_run_timed_out' = TRUE
  /\ expired' = TRUE
  /\ fpc' = "load"
  /\ UNCHANGED <<run, child_pid, write_value, fval, child_status, verdict,
                 stop_soon, shared, server, child, done, died_at>>

FutexInterrupted ==
  /\ fpc = "asleep"
  /\ fpc' = "load"
  /\ UNCHANGED <<fuzzerData, shared, server, child, history>>

(* Timed out or stopped: EXITED is stored, and woken, before the signal.   *)
GiveUp ==
  /\ fpc = "giveUp"
  /\ child_sync' = EXITED
  /\ fpc' = "giveUpWake"
  /\ UNCHANGED <<fuzzerData, ctl, st, exec_fail, server, child, history>>

GiveUpKill ==
  /\ fpc = "giveUpKill"
  /\ KillOverdue
  /\ fpc' = "readStatus"
  /\ UNCHANGED <<fuzzerData, shared, server, cpc, cpid, cycle_cnt,
                 expected, input, wstatus, history>>

(* read_status_or_escalate: a bounded read, then SIGKILL and a blocking    *)
(* one.  Only the first looks at stop_soon.                                *)
ReadStatus ==
  /\ fpc \in {"readStatus", "escalated"}
  /\ st # <<>>
  /\ IF fpc = "readStatus" /\ stop_soon
     THEN /\ fpc' = "stopped"
          /\ UNCHANGED <<child_status, st>>
     ELSE /\ child_status' = Head(st).status
          /\ st' = Tail(st)
          /\ fpc' = "reset"
  /\ UNCHANGED <<run, child_pid, last_run_timed_out, write_value, fval,
                 verdict, stop_soon, child_sync, ctl, exec_fail, server,
                 child, history>>

NoEscalation == UNCHANGED pending                                 \* mutant
Escalate == Kill(child_pid, "SIGKILL")

NoSecondRead ==                                                   \* mutant
  /\ fpc = "readStatus"
  /\ st = <<>> /\ spc # "dead"
  /\ Escalate
  /\ fpc' = "reset"
  /\ UNCHANGED <<fuzzerData, shared, server, cpc, cpid, cycle_cnt,
                 expected, input, wstatus, history>>

GraceExpires ==
  /\ fpc = "readStatus"
  /\ st = <<>> /\ spc # "dead"
  /\ Escalate
  /\ fpc' = "escalated"
  /\ UNCHANGED <<fuzzerData, shared, server, cpc, cpid, cycle_cnt,
                 expected, input, wstatus, history>>

(* The child is written off and the word reset; then the status is judged. *)
ResetSync ==
  /\ fpc = "reset"
  /\ child_pid' = -1
  /\ child_sync' = IDLE
  /\ verdict' = Classify(child_status)
  /\ fpc' = "idle"
  /\ UNCHANGED <<run, last_run_timed_out, write_value, fval, child_status,
                 stop_soon, ctl, st, exec_fail, server, child, history>>

(* No child to reuse: ask the server for one, telling it whether the last  *)
(* run timed out.                                                          *)
RequestKeepsFlag ==                                               \* mutant
  /\ fpc = "request"
  /\ IF spc = "dead"
     THEN CommunicationFails /\ UNCHANGED ctl
     ELSE ctl' = Append(ctl, write_value) /\ fpc' = "readPid"
  /\ UNCHANGED <<fuzzerData, child_sync, st, exec_fail, server, child,
                 history>>

Request ==
  /\ fpc = "request"
  /\ IF spc = "dead"
     THEN CommunicationFails /\ UNCHANGED <<last_run_timed_out, ctl>>
     ELSE /\ ctl' = Append(ctl, write_value)
          /\ last_run_timed_out' = FALSE
          /\ fpc' = "readPid"
  /\ UNCHANGED <<run, child_pid, write_value, fval, child_status, verdict,
                 stop_soon, child_sync, st, exec_fail, server, child,
                 history>>

(* A new child needs no RUN: it starts with the first iteration.           *)
SignalNewChild == IF UseFutex THEN "signal" ELSE "pipeWait"       \* mutant
AfterPid == IF UseFutex THEN "load" ELSE "pipeWait"

ReadPid ==
  /\ fpc = "readPid"
  /\ st # <<>>
  /\ child_pid' = Head(st).pid
  /\ st' = Tail(st)
  /\ fpc' = AfterPid
  /\ UNCHANGED <<run, last_run_timed_out, write_value, fval, child_status,
                 verdict, stop_soon, child_sync, ctl, exec_fail, server,
                 child, history>>

(* The status arrives in time, or after the kill.                          *)
PipeStatus ==
  /\ fpc \in {"pipeWait", "pipeKilled"}
  /\ st # <<>>
  /\ IF fpc = "pipeWait" /\ stop_soon
     THEN /\ fpc' = "stopped"
          /\ UNCHANGED <<child_pid, child_status, verdict, st>>
     ELSE /\ child_status' = Head(st).status
          /\ st' = Tail(st)
          /\ child_pid' = IF child_status' = "stopped" THEN child_pid ELSE -1
          /\ verdict' = Classify(child_status')
          /\ fpc' = "idle"
  /\ UNCHANGED <<run, last_run_timed_out, write_value, fval, stop_soon,
                 child_sync, ctl, exec_fail, server, child, history>>

(* poll() gives up; the status may still arrive before the kill.           *)
PipeTimeout ==
  /\ fpc = "pipeWait"
  /\ st = <<>> /\ spc # "dead"
  /\ expired' = TRUE
  /\ fpc' = "pipeKill"
  /\ UNCHANGED <<fuzzerData, shared, server, child, done, died_at>>

PipeKill ==
  /\ fpc = "pipeKill"
  /\ KillOverdue
  /\ child_pid' = -1
  /\ last_run_timed_out' = TRUE
  /\ fpc' = "pipeKilled"
  /\ UNCHANGED <<run, write_value, fval, child_status, verdict, stop_soon,
                 shared, server, cpc, cpid, cycle_cnt, expected, input,
                 wstatus, history>>

(* End of file on the status pipe.                                         *)
ReadFails ==
  /\ fpc \in {"readPid", "readStatus", "escalated", "pipeWait", "pipeKilled"}
  /\ st = <<>> /\ spc = "dead"
  /\ CommunicationFails
  /\ UNCHANGED <<fuzzerData, shared, server, child, history>>

-----------------------------------------------------------------------------
(* The fork server: the loop of __afl_start_forkserver and                 *)
(* afl_fauxsrv_execv                                                       *)

(* A stopped child that was killed is written off, one that was not is     *)
(* resumed, and otherwise a new one is forked.                             *)
AfterCtl(killed) ==
  IF ~child_stopped THEN "clear" ELSE IF killed THEN "reap" ELSE "cont"

ReadCtl ==
  /\ spc = "read" /\ ctl # <<>>
  /\ was_killed' = Head(ctl)
  /\ ctl' = Tail(ctl)
  /\ spc' = AfterCtl(Head(ctl))
  /\ child_stopped' = FALSE
  /\ UNCHANGED <<fuzzer, child_sync, st, exec_fail, status, child, history>>

(* waitpid(child_pid, &status, 0): only a death satisfies it.              *)
ReapReports ==                                                    \* mutant
  /\ spc = "reap" /\ cpc = "zombie"
  /\ cpc' = "none"
  /\ status' = wstatus
  /\ spc' = "relay"
  /\ UNCHANGED <<fuzzer, shared, was_killed, child_stopped, childData, history>>

Reap ==
  /\ spc = "reap" /\ cpc = "zombie"
  /\ cpc' = "none"
  /\ spc' = "clear"
  /\ UNCHANGED <<fuzzer, shared, serverData, childData, history>>

(* The stale EXITED of the previous child is removed before the fork.      *)
StaleSync == child_sync                                           \* mutant
ForkSync == IF UseFutex THEN IDLE ELSE child_sync

ClearSync ==
  /\ spc = "clear"
  /\ child_sync' = ForkSync
  /\ spc' = "fork"
  /\ UNCHANGED <<fuzzer, ctl, st, exec_fail, serverData, child, history>>

Fork ==
  /\ spc = "fork"
  /\ cpc' = "run"
  /\ cpid' = cpid + 1
  /\ cycle_cnt' = MaxCycles
  /\ input' = run
  /\ pending' = "none"
  /\ spc' = "writePid"
  /\ UNCHANGED <<fuzzer, shared, serverData, expected, wstatus, history>>

ForkFails ==
  /\ "forkFails" \in Faults /\ spc = "fork"
  /\ spc' = "dead"
  /\ UNCHANGED <<fuzzer, shared, serverData, child, history>>

(* SIGCONT: a stopped child takes up the next test case.                   *)
Continue ==
  /\ spc = "cont"
  /\ IF cpc = "stopped"
     THEN cpc' = "run" /\ input' = run
     ELSE UNCHANGED <<cpc, input>>
  /\ spc' = "writePid"
  /\ UNCHANGED <<fuzzer, shared, serverData, cpid, cycle_cnt, expected,
                 wstatus, pending, history>>

WritePid ==
  /\ spc = "writePid"
  /\ st' = Append(st, PidMsg(cpid))
  /\ spc' = "wait"
  /\ UNCHANGED <<fuzzer, child_sync, ctl, exec_fail, serverData, child,
                 history>>

(* waitpid(child_pid, &status, is_persistent ? WUNTRACED : 0)              *)
WaitChild ==
  /\ spc = "wait"
  /\ \/ /\ cpc = "zombie"
        /\ status' = wstatus
        /\ cpc' = "none"
        /\ UNCHANGED child_stopped
     \/ /\ cpc = "stopped" /\ Persistent
        /\ status' = "stopped"
        /\ child_stopped' = TRUE
        /\ UNCHANGED cpc
  /\ spc' = "relay"
  /\ UNCHANGED <<fuzzer, shared, was_killed, childData, history>>

(* The status goes into the pipe before the word says EXITED.              *)
Relay ==
  /\ spc = "relay"
  /\ st' = Append(st, StatusMsg(status))
  /\ spc' = IF UseFutex /\ ~child_stopped THEN "exited" ELSE "read"
  /\ UNCHANGED <<fuzzer, child_sync, ctl, exec_fail, serverData, child,
                 history>>

StoreExited ==
  /\ spc = "exited"
  /\ child_sync' = EXITED
  /\ spc' = "wakeFuzzer"
  /\ UNCHANGED <<fuzzer, ctl, st, exec_fail, serverData, child, history>>

(* FUTEX_WAKE(1) wakes one of the sleepers on the word, whichever it is.   *)
Sleepers == {p \in {"fuzzer", "child"} :
               IF p = "fuzzer" THEN fpc = "asleep" ELSE cpc = "asleep"}

WakeFuzzer ==
  /\ spc = "wakeFuzzer"
  /\ \E p \in IF Sleepers = {} THEN {"nobody"} ELSE Sleepers :
       /\ fpc' = IF p = "fuzzer" THEN "load" ELSE fpc
       /\ cpc' = IF p = "child"  THEN "load" ELSE cpc
  /\ spc' = "read"
  /\ UNCHANGED <<fuzzerData, shared, serverData, childData, history>>

(* at_exit, the SIGTERM handler of the runtime, having killed the child:   *)
(* it reaps it and leaves.                                                 *)
AtExit ==
  /\ spc = "atExit" /\ ~Alive
  /\ cpc' = "none"
  /\ spc' = "dead"
  /\ UNCHANGED <<fuzzer, shared, serverData, childData, history>>

-----------------------------------------------------------------------------
(* The child: __afl_persistent_loop around one iteration of the target     *)

(* --cycle_cnt: another iteration follows.                                 *)
OneLoopTooMany == Persistent /\ cycle_cnt > 0                     \* mutant
LoopsAgain == Persistent /\ cycle_cnt > 1

(* The iteration returns.  cycle_cnt counts down to the end of the loop;   *)
(* before that the child reports over the word, or stops itself, for which *)
(* it must first have taken any signal already sent to it.                 *)
Finish ==
  /\ cpc = "run"
  /\ ~UseFutex /\ LoopsAgain => pending = "none"
  /\ done' = input
  /\ IF LoopsAgain
     THEN /\ cycle_cnt' = cycle_cnt - 1
          /\ cpc' = IF UseFutex THEN "cas" ELSE "stopped"
          /\ expected' = RUN
          /\ UNCHANGED <<wstatus, pending, died_at>>
     ELSE Die("exit") /\ UNCHANGED <<cycle_cnt, expected>>
  /\ UNCHANGED <<fuzzer, shared, server, cpid, input, expired>>

(* The target crashes, or exits on its own, in the middle of an iteration. *)
Crash ==
  /\ cpc = "run"
  /\ \E s \in {"crash", "exit"} : Die(s)
  /\ UNCHANGED <<fuzzer, shared, server, cpid, cycle_cnt, expected, input,
                 done, expired>>

(* The faux server's child could not execute the target.                   *)
ExecFails ==
  /\ Faux /\ cpc = "run"
  /\ exec_fail' = TRUE
  /\ Die("exit")
  /\ UNCHANGED <<fuzzer, child_sync, ctl, st, server, cpid, cycle_cnt,
                 expected, input, done, expired>>

(* One compare-and-swap of the loop that publishes DONE.                   *)
CompareExchange ==
  /\ cpc = "cas"
  /\ IF child_sync = expected
     THEN /\ child_sync' = DONE
          /\ cpc' = "wake"
          /\ UNCHANGED <<expected, wstatus, pending, died_at>>
     ELSE /\ expected' = child_sync
          /\ UNCHANGED child_sync
          /\ IF child_sync = EXITED THEN Die("exit")
             ELSE UNCHANGED <<cpc, wstatus, pending, died_at>>
  /\ UNCHANGED <<fuzzer, ctl, st, exec_fail, server, cpid, cycle_cnt,
                 input, done, expired>>

ChildWake ==
  /\ cpc = "wake"
  /\ fpc' = Woken(fpc)
  /\ cpc' = "load"
  /\ UNCHANGED <<fuzzerData, shared, server, childData, history>>

(* Waiting while the word is DONE; EXITED asks for a clean exit.           *)
IgnoresExited ==                                                  \* mutant
  /\ cpc = "load"
  /\ IF child_sync = DONE
     THEN cpc' = "enter" /\ UNCHANGED input
     ELSE cpc' = "run" /\ input' = run
  /\ UNCHANGED <<fuzzer, shared, server, cpid, cycle_cnt, expected,
                 wstatus, pending, history>>

ChildLoad ==
  /\ cpc = "load"
  /\ \/ /\ child_sync = DONE
        /\ cpc' = "enter"
        /\ UNCHANGED <<input, wstatus, pending, died_at>>
     \/ /\ child_sync = EXITED
        /\ Die("exit")
        /\ UNCHANGED input
     \/ /\ child_sync \in {IDLE, RUN}
        /\ cpc' = "run"
        /\ input' = run
        /\ UNCHANGED <<wstatus, pending, died_at>>
  /\ UNCHANGED <<fuzzer, shared, server, cpid, cycle_cnt, expected, done,
                 expired>>

ChildEnter ==
  /\ cpc = "enter"
  /\ cpc' = IF child_sync = DONE THEN "asleep" ELSE "load"
  /\ UNCHANGED <<fuzzer, shared, server, childData, history>>

(* The waiting child dies: another thread of the target, the OOM killer.   *)
IdleDeath ==
  /\ "idleDeath" \in Faults
  /\ cpc \in {"wake", "load", "enter", "asleep", "stopped"}
  /\ \E s \in {"crash", "exit"} : Die(s)
  /\ UNCHANGED <<fuzzer, shared, server, cpid, cycle_cnt, expected, input,
                 done, expired>>

-----------------------------------------------------------------------------
(* The end of the session                                                  *)

(* Which children die with the server: those of the faux server asked for  *)
(* SIGKILL on their parent's death; the runtime kills its own in at_exit.  *)
NeverSignalled == FALSE                                           \* mutant
HasPdeathsig == Faux

HandlerKills(next) == next = "atExit"

NoHandler ==                                                      \* mutant
  /\ spc' = "dead"
  /\ Kill(child_pid, KillSignal)
  /\ UNCHANGED <<serverData, cpc, cpid, cycle_cnt, expected, input, wstatus>>

(* Both kills, of the child if its pid is known and of the server.         *)
KillBoth ==
  /\ spc' = IF spc = "dead" \/ FsrvSignal = "SIGKILL" \/ Faux
            THEN "dead" ELSE "atExit"
  /\ pending' =
       IF ~Alive \/ pending = "SIGKILL" THEN pending
       ELSE IF HandlerKills(spc') \/ HasPdeathsig THEN "SIGKILL"
       ELSE IF child_pid = cpid THEN KillSignal
       ELSE pending
  /\ UNCHANGED <<serverData, cpc, cpid, cycle_cnt, expected, input, wstatus>>

(* handle_stop_sig: the flag first, then the kills.                        *)
UserStop ==
  /\ "userStop" \in Faults /\ ~Over /\ ~stop_soon
  /\ stop_soon' = TRUE
  /\ KillBoth
  /\ UNCHANGED <<fpc, run, child_pid, last_run_timed_out, write_value,
                 fval, child_status, verdict, shared, history>>

(* afl_fsrv_kill, called between two runs.                                 *)
Shutdown ==
  /\ fpc = "idle" /\ (run = MaxRuns \/ stop_soon)
  /\ KillBoth
  /\ child_pid' = -1
  /\ fpc' = "ended"
  /\ UNCHANGED <<run, last_run_timed_out, write_value, fval, child_status,
                 verdict, stop_soon, shared, history>>

(* The fuzzer is killed; PR_SET_PDEATHSIG takes the server with it.        *)
FuzzerDies ==
  /\ "fuzzerDies" \in Faults /\ ~Over
  /\ fpc' = "dead"
  /\ UNCHANGED <<fuzzerData, shared, server, child, history>>

ParentDeathSignal ==
  /\ fpc \in {"dead", "fatal"} /\ spc # "dead"
  /\ spc' = "dead"
  /\ pending' = IF HasPdeathsig /\ Alive THEN "SIGKILL" ELSE pending
  /\ UNCHANGED <<fuzzer, shared, serverData, cpc, cpid, cycle_cnt,
                 expected, input, wstatus, history>>

(* Nothing is left to do once the fuzzer has ended.                        *)
Terminated ==
  /\ Over /\ spc = "dead"
  /\ UNCHANGED vars

-----------------------------------------------------------------------------
Init ==
  /\ fpc = "idle" /\ run = 0 /\ child_pid = -1 /\ last_run_timed_out = FALSE
  /\ write_value = FALSE /\ fval = IDLE /\ child_status = "exit"
  /\ verdict = "none" /\ stop_soon = FALSE
  /\ child_sync = IDLE /\ ctl = <<>> /\ st = <<>> /\ exec_fail = FALSE
  /\ spc = "read" /\ was_killed = FALSE /\ child_stopped = FALSE
  /\ status = "exit"
  /\ cpc = "none" /\ cpid = 0 /\ cycle_cnt = MaxCycles /\ expected = RUN
  /\ input = 0 /\ wstatus = "exit" /\ pending = "none"
  /\ done = 0 /\ expired = FALSE /\ died_at = 0

FuzzerNext ==
  \/ StartRun \/ CheckSync \/ SignalRun \/ WakeChild \/ LoadSync \/ EnterWait
  \/ FutexTimeout \/ FutexInterrupted \/ GiveUp \/ GiveUpKill \/ ReadStatus
  \/ GraceExpires \/ ResetSync \/ Request \/ ReadPid \/ PipeStatus
  \/ PipeTimeout \/ PipeKill \/ ReadFails \/ Shutdown

ServerNext ==
  \/ ReadCtl \/ Reap \/ ClearSync \/ Fork \/ ForkFails \/ Continue \/ WritePid
  \/ WaitChild \/ Relay \/ StoreExited \/ WakeFuzzer \/ AtExit

ChildNext ==
  \/ Finish \/ Crash \/ ExecFails \/ CompareExchange \/ ChildWake \/ ChildLoad
  \/ ChildEnter \/ IdleDeath

Next ==
  \/ FuzzerNext \/ ServerNext \/ ChildNext \/ Deliver
  \/ UserStop \/ FuzzerDies \/ ParentDeathSignal \/ Terminated

Spec == Init /\ [][Next]_vars

(* Every process that can take a step eventually takes one, the kernel      *)
(* delivers signals, and the clock runs: the deadline of a futex sleep is  *)
(* absolute, so interruptions cannot put it off for ever.  Nothing is      *)
(* assumed of the target itself, which may loop for ever.                  *)
Fairness ==
  /\ WF_vars(FuzzerNext /\ ~StartRun /\ ~FutexInterrupted)
  /\ SF_vars(FutexTimeout)
  /\ WF_vars(ServerNext /\ ~ForkFails)
  /\ WF_vars(CompareExchange \/ ChildWake \/ ChildLoad \/ ChildEnter)
  /\ WF_vars(Deliver)
  /\ WF_vars(ParentDeathSignal)

FairSpec == Spec /\ Fairness

-----------------------------------------------------------------------------
(* Properties                                                              *)

ControlTypes ==
  /\ fpc \in {"idle", "check", "signal", "wakeChild", "load", "enter", "asleep",
              "giveUp", "giveUpWake", "giveUpKill", "readStatus", "escalated",
              "reset", "request", "readPid", "pipeWait", "pipeKill",
              "pipeKilled", "ended", "stopped", "fatal", "dead"}
  /\ spc \in {"read", "reap", "clear", "fork", "cont", "writePid", "wait",
              "relay", "exited", "wakeFuzzer", "atExit", "dead"}
  /\ cpc \in {"none", "run", "cas", "wake", "load", "enter", "asleep", "stopped",
              "zombie"}

ValueTypes ==
  /\ fval \in SyncState /\ child_sync \in SyncState /\ expected \in SyncState
  /\ child_status \in WaitStatus /\ status \in WaitStatus
  /\ wstatus \in DeathStatus
  /\ verdict \in Verdict
  /\ pending \in {"none", "SIGTERM", "SIGKILL"}

NumberTypes ==
  /\ run \in 0 .. MaxRuns /\ child_pid \in Nat \cup {-1} /\ cpid \in Nat
  /\ cycle_cnt \in 1 .. MaxCycles
  /\ input \in 0 .. MaxRuns /\ done \in 0 .. MaxRuns /\ died_at \in 0 .. MaxRuns

FlagTypes ==
  /\ last_run_timed_out \in BOOLEAN /\ write_value \in BOOLEAN
  /\ stop_soon \in BOOLEAN /\ exec_fail \in BOOLEAN
  /\ was_killed \in BOOLEAN /\ child_stopped \in BOOLEAN
  /\ expired \in BOOLEAN

PipeTypes == ctl \in Seq(BOOLEAN) /\ st \in Seq(Msg)

(* Every variable has its type; cycle_cnt never reaches zero, which is     *)
(* where the child leaves its loop.                                        *)
TypeOK == ControlTypes /\ ValueTypes /\ NumberTypes /\ FlagTypes /\ PipeTypes

(* A run is reported as timed out only if its own timer expired.           *)
TimeoutIsReal ==
  fpc = "idle" /\ verdict = "TMOUT" => expired

(* The server's report that the child has exited is never overwritten by   *)
(* the next RUN: the fuzzer looks at the word first.                       *)
ExitNotOverwritten == [][child_sync = EXITED => child_sync' # RUN]_vars

(* A test case is never replaced while a child may be reading it, and a    *)
(* child never executes any but the current one.                           *)
NoTornInput ==
  cpc = "run" /\ ~Over => fpc # "idle" /\ input = run

(* Both ends of the status pipe agree on what comes next: the fuzzer never *)
(* takes a wait status for a pid or a pid for a wait status.               *)
PipesInSync ==
  /\ fpc = "readPid" /\ st # <<>> => Head(st).kind = "pid"
  /\ fpc \in {"readStatus", "escalated", "pipeWait", "pipeKill", "pipeKilled"}
       /\ st # <<>> => Head(st).kind = "status"

(* The fuzzer signals only a child that ran out of time: a stale EXITED    *)
(* must not get the next child killed.  A child that stopped itself just   *)
(* before the signal is still condemned, and reaped before the next fork.  *)
InnocentSpared ==
  pending # "none" /\ ~stop_soon /\ ~Over =>
    last_run_timed_out \/ (write_value /\ (child_stopped \/ spc = "reap"))

(* FUTEX_WAKE wakes one sleeper, so two must never sleep on the word.      *)
OneSleeper == ~(fpc = "asleep" /\ cpc = "asleep")

(* The compare-and-swap loop iterates at most twice: once it has seen      *)
(* IDLE, the word is still IDLE or the child is told to exit.              *)
CasTwice ==
  cpc = "cas" /\ expected # RUN /\ ~Over => child_sync \in {expected, EXITED}

(* Only a server that cannot fork makes the fuzzer abort; the death of the *)
(* server after a stop requested by the user never does.                   *)
NoFatal == fpc = "fatal" => "forkFails" \in Faults /\ ~stop_soon

(* The run in progress, as the caller of afl_fsrv_run_target sees it.      *)
RunPhase ==
  IF Over THEN "over"
  ELSE IF fpc = "idle" THEN "idle"
  ELSE IF cpc = "run" THEN "executing"
  ELSE IF input = run THEN "ended" ELSE "requested"

RunReturned == RunPhase = "ended" /\ done = run

RunDeath ==
  IF RunPhase \in {"ended", "requested"} /\ ~Alive /\ died_at = run
  THEN wstatus ELSE "none"

Exec == INSTANCE Execution WITH
          IdleDeaths <- "idleDeath" \in Faults, ExecFailures <- Faux,
          phase <- RunPhase, returned <- RunReturned, death <- RunDeath

(* The three processes together implement Execution: each test case is     *)
(* executed at most once, the call does not return while the target is     *)
(* still executing, and the result is what happened to the target.         *)
ImplementsExecution == Exec!Spec

InRun == fpc # "idle" /\ ~Over

(* Whatever the target does, every run comes back.                         *)
RunReturns == InRun ~> ~InRun

(* The session over, no child of the target stays behind.                  *)
NothingLeftBehind == Over ~> ~Alive

=============================================================================
