-------------------------- MODULE ForkServerProofs --------------------------
(***************************************************************************)
(* What else ForkServer keeps, for every mode, signal, fault and bound,    *)
(* given that its processes stay in step: only an overdue child is killed, *)
(* only a failing fork makes the fuzzer abort, and over the pipes a        *)
(* timeout is a timeout.  The last three sections prove what liveness      *)
(* rests on: no child is forgotten, no wait without a limit is in vain,    *)
(* and no wake-up is lost.                                                 *)
(***************************************************************************)
EXTENDS ForkServerInvariant

-----------------------------------------------------------------------------
(* Signals and departures                                                  *)

(* During a session the server leaves because it was told to, or because   *)
(* it could not fork.                                                      *)
Departed ==
  /\ ~Over /\ spc \in Gone =>
       stop_soon \/ ("forkFails" \in Faults /\ spc = "dead")
  /\ NoFatal

(* A signal is on its way only to a child that exists and whose run timed  *)
(* out; once the next run has begun, the server has been told, or is about *)
(* to be, to reap that child first.                                        *)
Condemned ==
  /\ fpc = "readPid" /\ write_value
  /\ (ctl # <<>> /\ child_stopped) \/ spc = "reap"

Justified ==
  /\ pending # "none" => last_run_timed_out \/ Condemned
  /\ fpc = "request" => write_value = last_run_timed_out
  /\ fpc \in {"giveUp", "giveUpWake", "giveUpKill"} => last_run_timed_out
  /\ fpc \in {"readStatus", "escalated"} /\ Alive => last_run_timed_out

Signals ==
  /\ pending # "none" => Alive
  /\ ~Over /\ ~stop_soon => Justified

SInv == IInv /\ Departed /\ Signals

-----------------------------------------------------------------------------
(* The server's departure                                                  *)

(* Every step keeps the reasons for which a server leaves.                 *)
LEMMA DepartedStep ==
  ASSUME Departed, [Next]_vars
  PROVE  Departed'
<1> USE DEF Departed, NoFatal, Over, Gone, vars, fuzzerData, fuzzer, shared,
            serverData, server
<1>1. CASE FuzzerNext
  <2>1. CASE StartRun BY <2>1 DEF StartRun
  <2>2. CASE CheckSync BY <2>2 DEF CheckSync, AfterCheck
  <2>3. CASE SignalRun BY <2>3 DEF SignalRun
  <2>4. CASE WakeChild BY <2>4 DEF WakeChild
  <2>5. CASE LoadSync BY <2>5 DEF LoadSync
  <2>6. CASE EnterWait BY <2>6 DEF EnterWait
  <2>7. CASE FutexTimeout BY <2>7 DEF FutexTimeout
  <2>8. CASE FutexInterrupted BY <2>8 DEF FutexInterrupted
  <2>9. CASE GiveUp BY <2>9 DEF GiveUp
  <2>10. CASE GiveUpKill BY <2>10 DEF GiveUpKill
  <2>11. CASE ReadStatus BY <2>11 DEF ReadStatus
  <2>12. CASE GraceExpires BY <2>12 DEF GraceExpires
  <2>13. CASE ResetSync BY <2>13 DEF ResetSync
  <2>14. CASE Request BY <2>14 DEF Request, CommunicationFails
  <2>15. CASE ReadPid BY <2>15 DEF ReadPid, AfterPid
  <2>16. CASE PipeStatus BY <2>16 DEF PipeStatus
  <2>17. CASE PipeTimeout BY <2>17 DEF PipeTimeout
  <2>18. CASE PipeKill BY <2>18 DEF PipeKill
  <2>19. CASE ReadFails BY <2>19 DEF ReadFails, CommunicationFails
  <2>20. CASE Shutdown BY <2>20 DEF Shutdown, KillBoth
  <2> HIDE DEF Departed
  <2> QED BY Zenon, <1>1, <2>1, <2>2, <2>3, <2>4, <2>5, <2>6, <2>7, <2>8, <2>9, <2>10,
    <2>11, <2>12, <2>13, <2>14, <2>15, <2>16, <2>17, <2>18, <2>19, <2>20 DEF
      FuzzerNext
<1>2. CASE ServerNext
  <2>1. CASE ReadCtl BY <2>1 DEF ReadCtl, AfterCtl
  <2>2. CASE Reap BY <2>2 DEF Reap
  <2>3. CASE ClearSync BY <2>3 DEF ClearSync
  <2>4. CASE Fork BY <2>4 DEF Fork
  <2>5. CASE ForkFails BY <2>5 DEF ForkFails
  <2>6. CASE Continue BY <2>6 DEF Continue
  <2>7. CASE WritePid BY <2>7 DEF WritePid
  <2>8. CASE WaitChild BY <2>8 DEF WaitChild
  <2>9. CASE Relay BY <2>9 DEF Relay
  <2>10. CASE StoreExited BY <2>10 DEF StoreExited
  <2>11. CASE WakeFuzzer BY <2>11 DEF WakeFuzzer, Sleepers
  <2>12. CASE AtExit BY SMTT(30), <2>12 DEF AtExit
  <2> QED BY <1>2, <2>1, <2>2, <2>3, <2>4, <2>5, <2>6, <2>7, <2>8, <2>9, <2>10,
    <2>11, <2>12 DEF ServerNext
<1>3. CASE ChildNext \/ Deliver
  <2>1. CASE Finish BY <2>1 DEF Finish
  <2>2. CASE Crash BY <2>2 DEF Crash
  <2>3. CASE ExecFails BY <2>3 DEF ExecFails
  <2>4. CASE CompareExchange BY <2>4 DEF CompareExchange
  <2>5. CASE ChildWake BY <2>5 DEF ChildWake, Woken
  <2>6. CASE ChildLoad BY <2>6 DEF ChildLoad
  <2>7. CASE ChildEnter BY <2>7 DEF ChildEnter
  <2>8. CASE IdleDeath BY <2>8 DEF IdleDeath
  <2>9. CASE Deliver BY <2>9 DEF Deliver
  <2> QED BY <1>3, <2>1, <2>2, <2>3, <2>4, <2>5, <2>6, <2>7, <2>8, <2>9 DEF
    ChildNext
<1>4. CASE UserStop BY <1>4 DEF UserStop, KillBoth
<1>5. CASE FuzzerDies BY <1>5 DEF FuzzerDies
<1>6. CASE ParentDeathSignal BY <1>6 DEF ParentDeathSignal
<1>7. CASE Terminated \/ UNCHANGED vars
  <2>1. UNCHANGED vars BY <1>7 DEF Terminated
  <2> QED BY <2>1
<1> HIDE DEF Departed, vars
<1> QED BY Zenon, <1>1, <1>2, <1>3, <1>4, <1>5, <1>6, <1>7 DEF Next

-----------------------------------------------------------------------------
(* The signals to the child                                                *)

(* The fuzzer sends a signal only to a child whose run timed out, and      *)
(* knows it to exist.                                                      *)
LEMMA FuzzerSignals ==
  ASSUME SInv, ~Over, ~Over', FuzzerNext
  PROVE  Signals'
<1>1. /\ TypeOK /\ Modes /\ Ledger /\ Parent /\ Word
      /\ Departed /\ (pending # "none" => Alive) /\ (~stop_soon => Justified)
  BY DEF SInv, IInv, InStep, Signals
<1>2. SUFFICES /\ (pending # "none" => Alive)'
               /\ ~stop_soon' => Justified'
  BY DEF Signals
<1> USE <1>1
    DEF Justified, Condemned, Alive, fuzzerData, fuzzer, shared, serverData,
        server, childData, child, history
<1>3. CASE StartRun BY <1>3 DEF StartRun
<1>4. CASE CheckSync
  <2>1. child_sync = EXITED => ~Alive
    BY <1>4
    DEF CheckSync, Modes, Word, Active, Executing, Waiting, HotPC, TypeOK,
        ControlTypes
  <2> QED BY <1>4, <2>1 DEF CheckSync, AfterCheck
<1>5. CASE SignalRun BY <1>5 DEF SignalRun
<1>6. CASE WakeChild BY <1>6 DEF WakeChild, Woken
<1>7. CASE LoadSync
  <2>1. (child_sync = EXITED => ~Alive) /\ child_pid > 0
    BY <1>7
    DEF LoadSync, Modes, Word, Active, Executing, Waiting, HotPC, TypeOK,
        ControlTypes
  <2> QED BY <1>7, <2>1 DEF LoadSync
<1>8. CASE EnterWait BY <1>8 DEF EnterWait
<1>9. CASE FutexTimeout BY <1>9 DEF FutexTimeout
<1>10. CASE FutexInterrupted BY <1>10 DEF FutexInterrupted
<1>11. CASE GiveUp BY <1>11 DEF GiveUp
<1>12. CASE GiveUpKill BY <1>12 DEF GiveUpKill, KillOverdue, Kill
<1>13. CASE ReadStatus BY <1>13 DEF ReadStatus
<1>14. CASE GraceExpires BY <1>14 DEF GraceExpires, Escalate, Kill
<1>15. CASE ResetSync BY <1>15 DEF ResetSync
<1>16. CASE Request
  <2>1. spc # "dead" /\ fpc = "request" /\ fpc' = "readPid"
    BY SMTT(30), <1>16 DEF Request, CommunicationFails, Over
  <2>2. ctl' # <<>>
    BY <1>16, <2>1, Control DEF Request, Ledger, NoChild
  <2>3. ASSUME pending # "none", ~stop_soon
        PROVE  child_stopped /\ write_value
    <3>1. cpc = "stopped"
      BY <2>1, <2>3
      DEF Parent, Active, Executing, Waiting, NoChild, TypeOK, ControlTypes
    <3>2. spc = "read"
      BY <2>1, <2>3, <3>1
      DEF Ledger, NoChild, Served, Gone, Departed, Parent, Over
    <3>3. child_stopped BY <3>1, <3>2 DEF Parent
    <3>4. write_value BY <2>1, <2>3
    <3> QED BY <3>3, <3>4
  <2> QED BY <1>16, <2>1, <2>2, <2>3 DEF Request
<1>17. CASE ReadPid
  <2>1. ctl = <<>> /\ spc # "reap"
    BY <1>17, Messages DEF ReadPid, Ledger, Served, Gone
  <2> QED BY <1>17, <2>1 DEF ReadPid, AfterPid
<1>18. CASE PipeStatus BY <1>18 DEF PipeStatus
<1>19. CASE PipeTimeout BY <1>19 DEF PipeTimeout
<1>20. CASE PipeKill BY <1>20 DEF PipeKill, KillOverdue, Kill
<1>21. CASE ReadFails BY <1>21 DEF ReadFails, CommunicationFails, Over
<1>22. CASE Shutdown BY <1>22 DEF Shutdown, Over
<1> HIDE DEF Justified, Alive
<1> QED BY Zenon, <1>3, <1>4, <1>5, <1>6, <1>7, <1>8, <1>9, <1>10, <1>11, <1>12,
  <1>13, <1>14, <1>15, <1>16, <1>17, <1>18, <1>19, <1>20, <1>21, <1>22 DEF
    FuzzerNext

(* The server tells a condemned child from its successor.                  *)
LEMMA ServerSignals ==
  ASSUME SInv, ~Over, ~Over', ServerNext
  PROVE  Signals'
<1>1. /\ TypeOK /\ Modes /\ Ledger /\ Parent /\ Word
      /\ Departed /\ (pending # "none" => Alive) /\ (~stop_soon => Justified)
  BY DEF SInv, IInv, InStep, Signals
<1>2. SUFFICES /\ (pending # "none" => Alive)'
               /\ ~stop_soon' => Justified'
  BY DEF Signals
<1> USE <1>1
    DEF Justified, Condemned, Alive, fuzzerData, fuzzer, shared, serverData,
        server, childData, child, history
<1>3. CASE ReadCtl
  <2>1. fpc = "readPid" /\ ctl = <<write_value>>
    BY <1>3
    DEF ReadCtl, Ledger, AwaitsStatus, NoChild, HotPC, PipePC, Over, TypeOK,
        ControlTypes
  <2>2. spc' = AfterCtl(write_value) BY <1>3, <2>1, Control DEF ReadCtl
  <2> QED BY ZenonT(30), <1>3, <2>1, <2>2 DEF ReadCtl, AfterCtl
<1>4. CASE Reap BY <1>4 DEF Reap
<1>5. CASE ClearSync BY <1>5 DEF ClearSync, ForkSync
<1>6. CASE Fork
  <2>1. fpc = "readPid" /\ fpc' = fpc /\ pending' = "none"
    BY <1>6
    DEF Fork, Ledger, AwaitsStatus, NoChild, HotPC, PipePC, Served, Gone, Over,
        TypeOK, ControlTypes
  <2> QED BY SMTT(30), <2>1
<1>7. CASE ForkFails BY <1>7 DEF ForkFails
<1>8. CASE Continue BY <1>8 DEF Continue
<1>9. CASE WritePid BY <1>9 DEF WritePid
<1>10. CASE WaitChild BY <1>10 DEF WaitChild
<1>11. CASE Relay BY <1>11 DEF Relay
<1>12. CASE StoreExited BY SMTT(30), <1>12 DEF StoreExited
<1>13. CASE WakeFuzzer BY <1>13 DEF WakeFuzzer, Sleepers
<1>14. CASE AtExit BY <1>14 DEF AtExit
<1> HIDE DEF Justified, Alive
<1> QED BY Zenon, <1>3, <1>4, <1>5, <1>6, <1>7, <1>8, <1>9, <1>10, <1>11, <1>12,
  <1>13, <1>14 DEF ServerNext

(* A child that dies takes its pending signal with it.                     *)
LEMMA ChildSignals ==
  ASSUME SInv, ~Over, ~Over', ChildNext \/ Deliver
  PROVE  Signals'
<1>1. /\ TypeOK /\ Modes /\ Ledger /\ Parent /\ Word
      /\ Departed /\ (pending # "none" => Alive) /\ (~stop_soon => Justified)
  BY DEF SInv, IInv, InStep, Signals
<1>2. SUFFICES /\ (pending # "none" => Alive)'
               /\ ~stop_soon' => Justified'
  BY DEF Signals
<1> USE <1>1
    DEF Justified, Condemned, Alive, fuzzerData, fuzzer, shared, serverData,
        server, childData, child, history
<1>3. CASE Finish BY <1>3 DEF Finish, Die, LoopsAgain
<1>4. CASE Crash BY <1>4 DEF Crash, Die
<1>5. CASE ExecFails BY <1>5 DEF ExecFails, Die
<1>6. CASE CompareExchange BY <1>6 DEF CompareExchange, Die
<1>7. CASE ChildWake BY <1>7 DEF ChildWake, Woken
<1>8. CASE ChildLoad BY <1>8 DEF ChildLoad, Die
<1>9. CASE ChildEnter BY <1>9 DEF ChildEnter
<1>10. CASE IdleDeath BY SMTT(30), <1>10 DEF IdleDeath, Die
<1>11. CASE Deliver BY <1>11 DEF Deliver, Die
<1> QED BY <1>3, <1>4, <1>5, <1>6, <1>7, <1>8, <1>9, <1>10, <1>11 DEF ChildNext

(* A step that changes nothing keeps the invariant.                        *)
LEMMA SignalsStutter ==
  ASSUME Signals, UNCHANGED vars
  PROVE  Signals'
BY DEF Signals, Justified, Condemned, Alive, Over, vars, fuzzerData, fuzzer,
       shared, serverData, server, childData, child, history

(* A session that is over only keeps a dead child from being signalled.    *)
LEMMA LateSignals ==
  ASSUME SInv, Over', [Next]_vars
  PROVE  Signals'
<1> SUFFICES (pending # "none" => Alive)' BY DEF Signals
<1>1. pending # "none" => Alive BY DEF SInv, Signals
<1> USE <1>1
    DEF Alive, Kill, KillOverdue, Escalate, KillBoth, Die, vars, fuzzerData,
        fuzzer, shared, serverData, server, childData, child, history
<1>2. CASE FuzzerNext
  <2>1. CASE StartRun BY <2>1 DEF StartRun
  <2>2. CASE CheckSync BY <2>2 DEF CheckSync
  <2>3. CASE SignalRun BY <2>3 DEF SignalRun
  <2>4. CASE WakeChild BY <2>4 DEF WakeChild, Woken
  <2>5. CASE LoadSync BY <2>5 DEF LoadSync
  <2>6. CASE EnterWait BY <2>6 DEF EnterWait
  <2>7. CASE FutexTimeout BY <2>7 DEF FutexTimeout
  <2>8. CASE FutexInterrupted BY <2>8 DEF FutexInterrupted
  <2>9. CASE GiveUp BY <2>9 DEF GiveUp
  <2>10. CASE GiveUpKill BY <2>10 DEF GiveUpKill
  <2>11. CASE ReadStatus BY <2>11 DEF ReadStatus
  <2>12. CASE GraceExpires BY <2>12 DEF GraceExpires
  <2>13. CASE ResetSync BY <2>13 DEF ResetSync
  <2>14. CASE Request BY <2>14 DEF Request
  <2>15. CASE ReadPid BY <2>15 DEF ReadPid
  <2>16. CASE PipeStatus BY <2>16 DEF PipeStatus
  <2>17. CASE PipeTimeout BY <2>17 DEF PipeTimeout
  <2>18. CASE PipeKill BY <2>18 DEF PipeKill
  <2>19. CASE ReadFails BY <2>19 DEF ReadFails
  <2>20. CASE Shutdown BY <2>20 DEF Shutdown
  <2> QED BY SMTT(30), <1>2, <2>1, <2>2, <2>3, <2>4, <2>5, <2>6, <2>7, <2>8, <2>9, <2>10,
    <2>11, <2>12, <2>13, <2>14, <2>15, <2>16, <2>17, <2>18, <2>19, <2>20 DEF
      FuzzerNext
<1>3. CASE ServerNext
  <2>1. CASE ReadCtl BY <2>1 DEF ReadCtl
  <2>2. CASE Reap BY <2>2 DEF Reap
  <2>3. CASE ClearSync BY <2>3 DEF ClearSync
  <2>4. CASE Fork BY <2>4 DEF Fork
  <2>5. CASE ForkFails BY <2>5 DEF ForkFails
  <2>6. CASE Continue BY <2>6 DEF Continue
  <2>7. CASE WritePid BY <2>7 DEF WritePid
  <2>8. CASE WaitChild BY <2>8 DEF WaitChild
  <2>9. CASE Relay BY <2>9 DEF Relay
  <2>10. CASE StoreExited BY <2>10 DEF StoreExited
  <2>11. CASE WakeFuzzer BY <2>11 DEF WakeFuzzer, Sleepers
  <2>12. CASE AtExit BY <2>12 DEF AtExit
  <2> QED BY SMTT(30), <1>3, <2>1, <2>2, <2>3, <2>4, <2>5, <2>6, <2>7, <2>8, <2>9, <2>10,
    <2>11, <2>12 DEF ServerNext
<1>4. CASE ChildNext \/ Deliver
  <2>1. CASE Finish BY <2>1 DEF Finish
  <2>2. CASE Crash BY <2>2 DEF Crash
  <2>3. CASE ExecFails BY <2>3 DEF ExecFails
  <2>4. CASE CompareExchange BY <2>4 DEF CompareExchange
  <2>5. CASE ChildWake BY <2>5 DEF ChildWake
  <2>6. CASE ChildLoad BY <2>6 DEF ChildLoad
  <2>7. CASE ChildEnter BY <2>7 DEF ChildEnter
  <2>8. CASE IdleDeath BY <2>8 DEF IdleDeath
  <2>9. CASE Deliver BY <2>9 DEF Deliver
  <2> HIDE DEF Alive
  <2> QED BY Zenon, <1>4, <2>1, <2>2, <2>3, <2>4, <2>5, <2>6, <2>7, <2>8, <2>9 DEF
    ChildNext
<1>5. CASE UserStop BY <1>5 DEF UserStop
<1>6. CASE FuzzerDies BY <1>6 DEF FuzzerDies
<1>7. CASE ParentDeathSignal BY <1>7 DEF ParentDeathSignal
<1>8. CASE Terminated \/ UNCHANGED vars BY <1>8 DEF Terminated
<1> QED BY <1>2, <1>3, <1>4, <1>5, <1>6, <1>7, <1>8 DEF Next

(* Together: every step keeps the invariant on signals.                    *)
LEMMA SignalsStep ==
  ASSUME SInv, [Next]_vars
  PROVE  Signals'
<1>1. CASE Over' BY <1>1, LateSignals
<1>2. CASE ~Over'
  <2>1. ~Over BY <1>2, OverStays
  <2>2. CASE FuzzerNext BY <1>2, <2>1, <2>2, FuzzerSignals
  <2>3. CASE ServerNext BY <1>2, <2>1, <2>3, ServerSignals
  <2>4. CASE ChildNext \/ Deliver BY <1>2, <2>1, <2>4, ChildSignals
  <2>5. CASE UserStop
    BY <2>5
    DEF UserStop, KillBoth, SInv, Signals, Alive, shared, history
  <2>6. CASE FuzzerDies \/ ParentDeathSignal \/ Terminated
    BY <1>2, <2>1, <2>6 DEF FuzzerDies, ParentDeathSignal, Terminated, Over
  <2>7. CASE UNCHANGED vars BY <2>7, SignalsStutter DEF SInv
  <2> QED BY <2>2, <2>3, <2>4, <2>5, <2>6, <2>7 DEF Next
<1> QED BY <1>1, <1>2

-----------------------------------------------------------------------------
(* The theorems                                                            *)

(* The strengthened invariant about signals is an invariant.               *)
LEMMA SignalsInvariant == Spec => []SInv
<1>1. Init => Departed /\ Signals
  BY DEF Init, Departed, NoFatal, Signals, Justified, Over, Gone
<1>2. IInv /\ IInv' /\ Departed /\ Signals /\ [Next]_vars => (Departed /\
  Signals)'
  BY DepartedStep, SignalsStep DEF SInv
<1> QED BY <1>1, <1>2, StaysInStep, PTL DEF Spec, SInv

(* Whatever the order of events, the fuzzer signals no child but one whose *)
(* run timed out, and the next child is never hit by a late signal.        *)
THEOREM OnlyOverdueKilled == Spec => []InnocentSpared
<1>1. SInv => InnocentSpared
  BY DEF SInv, Signals, Justified, Condemned, InnocentSpared
<1> QED BY <1>1, SignalsInvariant, PTL

(* afl_fsrv_run_target aborts with FATAL only when the server could not    *)
(* fork, never because of a stop the user asked for.                       *)
THEOREM FatalOnlyOnFailedFork == Spec => []NoFatal
<1>1. SInv => NoFatal BY DEF SInv, Departed
<1> QED BY <1>1, SignalsInvariant, PTL

-----------------------------------------------------------------------------
(* The timer of a run over the pipes                                       *)

(* last_run_timed_out is cleared by the request for a child and set again  *)
(* only after poll() has given up in this run.                             *)
Timer ==
  ~UseFutex /\ ~Over =>
    /\ fpc \in {"readPid", "pipeWait"} => ~last_run_timed_out
    /\ fpc \in {"pipeKill", "pipeKilled"} => expired
    /\ fpc = "idle" /\ verdict = "TMOUT" => expired

(* Every step keeps the reason for the flag.                               *)
LEMMA TimerStep ==
  ASSUME IInv, Timer, [Next]_vars
  PROVE  Timer'
<1> SUFFICES ASSUME ~UseFutex, ~Over, ~Over'
             PROVE  Timer'
  BY OverStays DEF Timer
<1>1. fpc \notin HotPC \cup {"reset"} BY DEF IInv, InStep, Modes
<1> USE DEF Timer, vars, fuzzerData, fuzzer, history
<1>2. CASE FuzzerNext
  <2>1. CASE StartRun BY <2>1 DEF StartRun
  <2>2. CASE Request BY <2>2 DEF Request, CommunicationFails, Over
  <2>3. CASE ReadPid BY <2>3 DEF ReadPid, AfterPid
  <2>4. CASE PipeStatus BY <2>4 DEF PipeStatus, Classify, Over
  <2>5. CASE PipeTimeout BY <2>5 DEF PipeTimeout
  <2>6. CASE PipeKill BY <2>6 DEF PipeKill
  <2>7. CASE ReadFails \/ Shutdown
    BY <2>7 DEF ReadFails, CommunicationFails, Shutdown, Over
  <2> QED BY ZenonT(30), <1>1, <1>2, <2>1, <2>2, <2>3, <2>4, <2>5, <2>6, <2>7
    DEF FuzzerNext, HotPC, CheckSync, SignalRun, WakeChild, LoadSync, EnterWait,
        FutexTimeout, FutexInterrupted, GiveUp, GiveUpKill, ReadStatus,
        GraceExpires, ResetSync
<1>3. CASE ServerNext
  BY ZenonT(30), <1>1, <1>3
  DEF HotPC, ServerNext, ReadCtl, Reap, ClearSync, Fork, ForkFails, Continue,
      WritePid, WaitChild, Relay, StoreExited, WakeFuzzer, Sleepers, AtExit
<1>4. CASE ChildNext \/ Deliver
  BY ZenonT(30), <1>1, <1>4
  DEF HotPC, ChildNext, Finish, Crash, ExecFails, CompareExchange, ChildWake,
      Woken, ChildLoad, ChildEnter, IdleDeath, Deliver
<1>5. CASE UserStop \/ FuzzerDies \/ ParentDeathSignal \/ Terminated
  BY <1>5 DEF UserStop, FuzzerDies, ParentDeathSignal, Terminated, Over
<1> QED BY <1>2, <1>3, <1>4, <1>5 DEF Next

(* Without the sync word a run is reported as timed out only if its own    *)
(* timer expired: the flag of an earlier run is never taken for it.        *)
THEOREM TimeoutsAreReal ==
  ASSUME ~UseFutex
  PROVE  Spec => []TimeoutIsReal
<1>1. Init => Timer BY DEF Init, Timer
<1>2. Timer => TimeoutIsReal BY DEF Timer, TimeoutIsReal, Over
<1>3. IInv /\ Timer /\ [Next]_vars => Timer' BY TimerStep
<1> QED BY <1>1, <1>2, <1>3, StaysInStep, PTL DEF Spec

-----------------------------------------------------------------------------
(* Nobody is left behind                                                   *)

(* SIGKILL, which no target can catch, is on its way to a child that still *)
(* exists.                                                                 *)
Doomed == Alive => pending = "SIGKILL"

(* What the server knows of its child also when the fuzzer is gone.        *)
Family ==
  /\ spc \in {"clear", "fork", "exited", "wakeFuzzer"} => cpc = "none"
  /\ spc \in {"reap", "cont"} => cpc \in {"stopped", "zombie"}
  /\ spc \in {"relay", "read"} =>
       cpc \in IF child_stopped THEN {"stopped", "zombie"} ELSE {"none"}
  /\ child_stopped => spc \in {"relay", "read"} \cup Gone

(* Somebody sees to the child of a server that leaves: the kernel, if the  *)
(* child asked for it, or at_exit, if the server is told to leave by a     *)
(* fuzzer that lives and by a signal that can be handled.                  *)
CaredFor ==
  Faux \/ (FsrvSignal = "SIGTERM" /\ fpc \notin {"fatal", "dead"})

Orphans ==
  /\ Family
  /\ stop_soon \/ fpc \in {"ended", "stopped"} => spc \in Gone
  /\ spc \in Gone /\ CaredFor => Doomed

(* The end of a session: whatever the child was doing when it came, and    *)
(* whether or not the fuzzer knew its pid, it has died or is about to.     *)
NobodyForgotten ==
  /\ fpc \in {"ended", "stopped"} /\ (FsrvSignal = "SIGTERM" \/ Faux) => Doomed
  /\ spc = "dead" /\ Faux => Doomed

(* Every step keeps it.                                                    *)
LEMMA OrphansStep ==
  ASSUME Orphans, [Next]_vars
  PROVE  Orphans'
<1> USE DEF Orphans, Family, CaredFor, Doomed, Gone, Alive, vars, fuzzerData,
            fuzzer, shared, serverData, server, childData, child, history
<1>1. CASE FuzzerNext
  <2>1. CASE StartRun BY <2>1 DEF StartRun
  <2>2. CASE CheckSync BY <2>2 DEF CheckSync, AfterCheck
  <2>3. CASE SignalRun BY <2>3 DEF SignalRun
  <2>4. CASE WakeChild BY <2>4 DEF WakeChild, Woken
  <2>5. CASE LoadSync BY <2>5 DEF LoadSync
  <2>6. CASE EnterWait BY <2>6 DEF EnterWait
  <2>7. CASE FutexTimeout BY <2>7 DEF FutexTimeout
  <2>8. CASE FutexInterrupted BY <2>8 DEF FutexInterrupted
  <2>9. CASE GiveUp BY <2>9 DEF GiveUp
  <2>10. CASE GiveUpKill BY <2>10 DEF GiveUpKill, KillOverdue, Kill
  <2>11. CASE ReadStatus BY <2>11 DEF ReadStatus
  <2>12. CASE GraceExpires BY <2>12 DEF GraceExpires, Escalate, Kill
  <2>13. CASE ResetSync BY <2>13 DEF ResetSync
  <2>14. CASE Request BY <2>14 DEF Request, CommunicationFails
  <2>15. CASE ReadPid BY <2>15 DEF ReadPid, AfterPid
  <2>16. CASE PipeStatus BY <2>16 DEF PipeStatus
  <2>17. CASE PipeTimeout BY <2>17 DEF PipeTimeout
  <2>18. CASE PipeKill BY <2>18 DEF PipeKill, KillOverdue, Kill
  <2>19. CASE ReadFails BY <2>19 DEF ReadFails, CommunicationFails
  <2>20. CASE Shutdown
    BY <2>20 DEF Shutdown, KillBoth, HandlerKills, HasPdeathsig
  <2> HIDE DEF Orphans
  <2> QED
    BY Zenon, <1>1, <2>1, <2>2, <2>3, <2>4, <2>5, <2>6, <2>7, <2>8, <2>9,
       <2>10, <2>11, <2>12, <2>13, <2>14, <2>15, <2>16, <2>17, <2>18, <2>19,
       <2>20
    DEF FuzzerNext
<1>2. CASE ServerNext
  <2>1. CASE ReadCtl BY <2>1 DEF ReadCtl, AfterCtl
  <2>2. CASE Reap BY <2>2 DEF Reap
  <2>3. CASE ClearSync BY <2>3 DEF ClearSync
  <2>4. CASE Fork BY <2>4 DEF Fork
  <2>5. CASE ForkFails BY <2>5 DEF ForkFails
  <2>6. CASE Continue BY <2>6 DEF Continue
  <2>7. CASE WritePid BY <2>7 DEF WritePid
  <2>8. CASE WaitChild BY SMTT(30), <2>8 DEF WaitChild
  <2>9. CASE Relay BY <2>9 DEF Relay
  <2>10. CASE StoreExited BY <2>10 DEF StoreExited
  <2>11. CASE WakeFuzzer BY <2>11 DEF WakeFuzzer, Sleepers
  <2>12. CASE AtExit BY <2>12 DEF AtExit
  <2> HIDE DEF Orphans
  <2> QED
    BY Zenon, <1>2, <2>1, <2>2, <2>3, <2>4, <2>5, <2>6, <2>7, <2>8, <2>9,
       <2>10, <2>11, <2>12
    DEF ServerNext
<1>3. CASE ChildNext \/ Deliver
  <2>1. CASE Finish BY <2>1 DEF Finish, Die
  <2>2. CASE Crash BY <2>2 DEF Crash, Die
  <2>3. CASE ExecFails BY <2>3 DEF ExecFails, Die
  <2>4. CASE CompareExchange BY <2>4 DEF CompareExchange, Die
  <2>5. CASE ChildWake BY <2>5 DEF ChildWake, Woken
  <2>6. CASE ChildLoad BY <2>6 DEF ChildLoad, Die
  <2>7. CASE ChildEnter BY <2>7 DEF ChildEnter
  <2>8. CASE IdleDeath BY <2>8 DEF IdleDeath, Die
  <2>9. CASE Deliver BY <2>9 DEF Deliver, Die
  <2> HIDE DEF Orphans
  <2> QED
    BY Zenon, <1>3, <2>1, <2>2, <2>3, <2>4, <2>5, <2>6, <2>7, <2>8, <2>9
    DEF ChildNext
<1>4. CASE UserStop
  BY <1>4 DEF UserStop, KillBoth, HandlerKills, HasPdeathsig
<1>5. CASE FuzzerDies BY <1>5 DEF FuzzerDies
<1>6. CASE ParentDeathSignal BY <1>6 DEF ParentDeathSignal, HasPdeathsig
<1>7. CASE Terminated \/ UNCHANGED vars
  <2>1. UNCHANGED vars BY <1>7 DEF Terminated
  <2> QED BY <2>1
<1> HIDE DEF Orphans, vars
<1> QED BY Zenon, <1>1, <1>2, <1>3, <1>4, <1>5, <1>6, <1>7 DEF Next

(* afl_fsrv_kill and handle_stop_sig forget no child: once the session has *)
(* ended, a child that still exists has a SIGKILL on its way from at_exit, *)
(* or from the kernel where prctl(PR_SET_PDEATHSIG) asked for it, also     *)
(* when its pid had not reached the fuzzer yet.  (fork() and the server's  *)
(* assignment of the pid are one step here.)                               *)
THEOREM NobodyIsForgotten == Spec => []NobodyForgotten
<1>1. Init => Orphans
  BY DEF Init, Orphans, Family, CaredFor, Doomed, Gone, Alive
<1>2. Orphans /\ [Next]_vars => Orphans' BY OrphansStep
<1>3. Orphans => NobodyForgotten
  BY DEF Orphans, CaredFor, NobodyForgotten, Gone
<1> QED BY <1>1, <1>2, <1>3, PTL DEF Spec

-----------------------------------------------------------------------------
(* A wait without a limit ends                                             *)

(* The fuzzer has sent, or told the server that it has sent, the last      *)
(* signal to a child that ran out of time.                                 *)
Overdue ==
  \/ fpc = "escalated"
  \/ /\ ~UseFutex /\ KillSignal = "SIGKILL"
     /\ \/ fpc = "pipeKilled"
        \/ fpc \in {"idle", "request"} /\ last_run_timed_out
        \/ fpc = "readPid" /\ write_value /\ (ctl # <<>> \/ spc = "reap")

(* It is the right child that got it, and it will not survive.             *)
Sentenced ==
  ~Over =>
    /\ Overdue => Doomed
    /\ fpc \in {"pipeWait", "pipeKill"} => child_pid = cpid
    /\ fpc = "request" => write_value = last_run_timed_out
    /\ spc = "reap" => write_value

(* Three waits have no limit: the second read of read_status_or_escalate,  *)
(* the read after the kill over the pipes, and the server's waitpid for    *)
(* the child the fuzzer says it killed.                                    *)
WaitsEnd ==
  ~Over =>
    /\ fpc = "escalated" => Doomed
    /\ KillSignal = "SIGKILL" =>
         (fpc = "pipeKilled" => Doomed) /\ (spc = "reap" => Doomed)

(* A new child appears only while the fuzzer waits for its pid.            *)
LEMMA ForkIsAwaited ==
  ASSUME IInv, ~Over, spc = "fork"
  PROVE  fpc = "readPid" /\ ctl = <<>>
BY Messages
DEF IInv, InStep, Ledger, AwaitsStatus, NoChild, HotPC, PipePC, Served, Gone,
    Over, TypeOK, ControlTypes

(* So does the server's wait for a child that was killed.                  *)
LEMMA ReapIsAwaited ==
  ASSUME IInv, ~Over, spc = "reap"
  PROVE  fpc = "readPid" /\ ~UseFutex
BY Messages
DEF IInv, InStep, Modes, Ledger, AwaitsStatus, NoChild, HotPC, PipePC, Served,
    Gone, Over, TypeOK, ControlTypes

(* The fuzzer keeps it.                                                    *)
LEMMA FuzzerSentences ==
  ASSUME IInv, Timer, Sentenced, ~Over, ~Over', FuzzerNext
  PROVE  Sentenced'
<1>1. /\ Overdue => Doomed
      /\ fpc \in {"pipeWait", "pipeKill"} => child_pid = cpid
      /\ fpc = "request" => write_value = last_run_timed_out
      /\ spc = "reap" => write_value
  BY DEF Sentenced
<1>2. spc = "reap" => fpc = "readPid" /\ ~UseFutex BY ReapIsAwaited
<1>3. fpc \in HotPC \cup {"reset"} => UseFutex /\ child_pid = cpid
  BY DEF IInv, InStep, Modes
<1>4. fpc \in PipePC => ~UseFutex BY DEF IInv, InStep, Modes
<1> USE <1>1, <1>2, <1>3, <1>4
    DEF Sentenced, Overdue, Doomed, Alive, HotPC, PipePC, fuzzerData, fuzzer,
        shared, serverData, server, childData, child, history
<1>5. CASE StartRun BY <1>5 DEF StartRun
<1>6. CASE CheckSync BY <1>6 DEF CheckSync, AfterCheck
<1>7. CASE SignalRun BY <1>7 DEF SignalRun
<1>8. CASE WakeChild BY <1>8 DEF WakeChild
<1>9. CASE LoadSync BY <1>9 DEF LoadSync
<1>10. CASE EnterWait BY <1>10 DEF EnterWait
<1>11. CASE FutexTimeout BY <1>11 DEF FutexTimeout
<1>12. CASE FutexInterrupted BY <1>12 DEF FutexInterrupted
<1>13. CASE GiveUp BY <1>13 DEF GiveUp
<1>14. CASE GiveUpKill BY <1>14 DEF GiveUpKill
<1>15. CASE ReadStatus BY <1>15 DEF ReadStatus
<1>16. CASE GraceExpires BY Zenon, <1>16 DEF GraceExpires, Escalate, Kill
<1>17. CASE ResetSync BY <1>17 DEF ResetSync
<1>18. CASE Request
  BY <1>18 DEF Request, CommunicationFails, Over
<1>19. CASE ReadPid
  <2>1. st = PidOnly \/ st = Both
    BY Zenon, <1>19 DEF ReadPid, IInv, InStep, Ledger
  <2>2. Head(st).pid = cpid BY SMTT(30), <2>1, Reads DEF PidMsg
  <2>3. spc # "reap"
    BY Zenon, <1>19, Messages DEF ReadPid, IInv, InStep, Ledger, Served, Gone
  <2> QED BY Zenon, <1>19, <2>2, <2>3 DEF ReadPid, AfterPid
<1>20. CASE PipeStatus BY <1>20 DEF PipeStatus, Timer, Over
<1>21. CASE PipeTimeout BY <1>21 DEF PipeTimeout
<1>22. CASE PipeKill BY <1>22 DEF PipeKill, KillOverdue, Kill
<1>23. CASE ReadFails BY <1>23 DEF ReadFails, CommunicationFails, Over
<1>24. CASE Shutdown BY <1>24 DEF Shutdown, Over
<1> HIDE DEF Sentenced
<1> QED
  BY Zenon, <1>5, <1>6, <1>7, <1>8, <1>9, <1>10, <1>11, <1>12, <1>13, <1>14, <1>15,
     <1>16, <1>17, <1>18, <1>19, <1>20, <1>21, <1>22, <1>23, <1>24
  DEF FuzzerNext

(* So does the server, which forks the next child only after the last one  *)
(* is gone.                                                                *)
LEMMA ServerSentences ==
  ASSUME IInv, Sentenced, ~Over, ~Over', ServerNext
  PROVE  Sentenced'
<1>1. /\ Overdue => Doomed
      /\ fpc \in {"pipeWait", "pipeKill"} => child_pid = cpid
      /\ fpc = "request" => write_value = last_run_timed_out
      /\ spc = "reap" => write_value
  BY DEF Sentenced
<1> USE <1>1
    DEF Sentenced, Overdue, Doomed, Alive, fuzzerData, fuzzer, shared,
        serverData, server, childData, child, history
<1>2. CASE ReadCtl
  <2>1. fpc = "readPid" /\ ctl = <<write_value>>
    BY Zenon, <1>2
    DEF ReadCtl, IInv, InStep, Ledger, AwaitsStatus, NoChild, HotPC, PipePC,
        Over, TypeOK, ControlTypes
  <2>2. spc' = AfterCtl(write_value) /\ ctl' = <<>>
    BY <1>2, <2>1, Control DEF ReadCtl
  <2> QED BY <1>2, <2>1, <2>2 DEF ReadCtl, AfterCtl
<1>3. CASE Reap BY <1>3 DEF Reap
<1>4. CASE ClearSync BY <1>4 DEF ClearSync
<1>5. CASE Fork
  <2>1. fpc = "readPid" /\ ctl = <<>> BY <1>5, ForkIsAwaited DEF Fork
  <2> QED BY Zenon, <1>5, <2>1 DEF Fork
<1>6. CASE ForkFails BY <1>6 DEF ForkFails
<1>7. CASE Continue BY <1>7 DEF Continue
<1>8. CASE WritePid BY <1>8 DEF WritePid
<1>9. CASE WaitChild BY Zenon, <1>9 DEF WaitChild
<1>10. CASE Relay BY <1>10 DEF Relay
<1>11. CASE StoreExited BY <1>11 DEF StoreExited
<1>12. CASE WakeFuzzer BY Zenon, <1>12 DEF WakeFuzzer, Sleepers
<1>13. CASE AtExit BY <1>13 DEF AtExit
<1> HIDE DEF Sentenced
<1> QED
  BY Zenon, <1>2, <1>3, <1>4, <1>5, <1>6, <1>7, <1>8, <1>9, <1>10, <1>11, <1>12, <1>13
  DEF ServerNext

(* And the child, which no longer gets away.                               *)
LEMMA ChildSentences ==
  ASSUME IInv, Sentenced, ~Over, ~Over', ChildNext \/ Deliver
  PROVE  Sentenced'
<1>1. /\ Overdue => Doomed
      /\ fpc \in {"pipeWait", "pipeKill"} => child_pid = cpid
      /\ fpc = "request" => write_value = last_run_timed_out
      /\ spc = "reap" => write_value
  BY DEF Sentenced
<1> USE <1>1
    DEF Sentenced, Overdue, Doomed, Alive, fuzzerData, fuzzer, shared,
        serverData, server, childData, child, history
<1>2. CASE Finish BY Zenon, <1>2 DEF Finish, Die
<1>3. CASE Crash BY <1>3 DEF Crash, Die
<1>4. CASE ExecFails BY <1>4 DEF ExecFails, Die
<1>5. CASE CompareExchange BY <1>5 DEF CompareExchange, Die
<1>6. CASE ChildWake BY Zenon, <1>6 DEF ChildWake, Woken
<1>7. CASE ChildLoad BY Zenon, <1>7 DEF ChildLoad, Die
<1>8. CASE ChildEnter BY <1>8 DEF ChildEnter
<1>9. CASE IdleDeath BY <1>9 DEF IdleDeath, Die
<1>10. CASE Deliver BY Zenon, <1>10 DEF Deliver, Die
<1> HIDE DEF Sentenced
<1> QED
  BY Zenon, <1>2, <1>3, <1>4, <1>5, <1>6, <1>7, <1>8, <1>9, <1>10 DEF ChildNext

(* Hence every step.                                                       *)
LEMMA SentencedStep ==
  ASSUME IInv, Timer, Sentenced, [Next]_vars
  PROVE  Sentenced'
<1> SUFFICES ASSUME ~Over, ~Over'
             PROVE  Sentenced'
  BY OverStays DEF Sentenced
<1>1. CASE FuzzerNext BY <1>1, FuzzerSentences
<1>2. CASE ServerNext BY <1>2, ServerSentences
<1>3. CASE ChildNext \/ Deliver BY <1>3, ChildSentences
<1> USE DEF Sentenced, Overdue, Doomed, Alive, vars, fuzzerData, fuzzer, shared,
            serverData, server, childData, child, history
<1>4. CASE UserStop BY <1>4 DEF UserStop, KillBoth
<1>5. CASE FuzzerDies \/ ParentDeathSignal \/ Terminated
  BY Zenon, <1>5 DEF FuzzerDies, ParentDeathSignal, Terminated, Over
<1>6. CASE UNCHANGED vars BY <1>6
<1> HIDE DEF Sentenced, vars
<1> QED BY Zenon, <1>1, <1>2, <1>3, <1>4, <1>5, <1>6 DEF Next

(* Whenever the fuzzer reads a status without a time limit, and whenever   *)
(* the server waits for the death of a child, that child is dead or has a  *)
(* SIGKILL on its way, and so the wait ends.  Over the pipes this needs    *)
(* the default kill signal: a stopped child never takes a SIGTERM.         *)
THEOREM UnlimitedWaitsEnd == Spec => []WaitsEnd
<1>1. Init => Timer BY DEF Init, Timer
<1>2. Init => Sentenced BY DEF Init, Sentenced, Overdue
<1>3. IInv /\ Timer /\ [Next]_vars => Timer' BY TimerStep
<1>4. IInv /\ Timer /\ Sentenced /\ [Next]_vars => Sentenced'
  BY SentencedStep
<1>5. ASSUME IInv, Sentenced PROVE WaitsEnd
  <2> SUFFICES ASSUME ~Over
               PROVE  /\ fpc = "escalated" => Doomed
                      /\ KillSignal = "SIGKILL" =>
                           /\ fpc = "pipeKilled" => Doomed
                           /\ spc = "reap" => Doomed
    BY DEF WaitsEnd
  <2>1. fpc = "escalated" => Doomed BY <1>5 DEF Sentenced, Overdue
  <2>2. KillSignal = "SIGKILL" /\ fpc = "pipeKilled" => Doomed
    BY <1>5 DEF Sentenced, Overdue, IInv, InStep, Modes, PipePC
  <2>3. KillSignal = "SIGKILL" /\ spc = "reap" => Doomed
    BY <1>5, ReapIsAwaited DEF Sentenced, Overdue
  <2> QED BY <2>1, <2>2, <2>3
<1> QED BY <1>1, <1>2, <1>3, <1>4, <1>5, StaysInStep, PTL DEF Spec

-----------------------------------------------------------------------------
(* No wake-up is lost                                                      *)

(* While no child dies between two runs, and until the user stops the      *)
(* fuzzer: DONE means a child that waits, and the fuzzer holds such a      *)
(* child before it stores RUN, so the server's EXITED is never overwritten *)
(* and is seen, or wakes the fuzzer up.                                    *)
Awake ==
  UseFutex /\ ~Over /\ ~stop_soon =>
    /\ pending # "none" => fpc \in {"readStatus", "escalated"}
    /\ fpc \in {"check", "signal"} \/ (fpc = "idle" /\ child_pid > 0) =>
         child_sync = DONE
    /\ child_sync = DONE => Waiting
    /\ \/ fpc \in {"wakeChild", "load", "enter", "asleep", "giveUp"}
       \/ fpc = "readPid" /\ st # <<>>
       => (spc \in {"wakeFuzzer", "read"} => child_sync = EXITED)
    /\ fpc = "asleep" => spc # "read"
    /\ spc \in Gone => fpc = "readPid" /\ st = <<>>

(* The sleeping fuzzer waits for a target that still executes, or somebody *)
(* is on the way to its wake-up: the child that publishes DONE, the child  *)
(* that has yet to take the test case up, or the server with a child that  *)
(* died.                                                                   *)
WakeupComes ==
  fpc = "asleep" /\ ~stop_soon =>
    \/ cpc \in {"run", "cas", "wake"}
    \/ cpc \in {"load", "enter"} /\ child_sync # DONE
    \/ cpc = "zombie" /\ spc = "wait"
    \/ spc \in {"relay", "exited", "wakeFuzzer"}

(* stop_soon is never taken back.                                          *)
LEMMA StopStays ==
  ASSUME stop_soon, [Next]_vars
  PROVE  stop_soon'
<1> USE DEF vars, fuzzer, fuzzerData
<1>1. CASE FuzzerNext
  BY ZenonT(30), <1>1
  DEF FuzzerNext, StartRun, CheckSync, SignalRun, WakeChild, LoadSync,
      EnterWait, FutexTimeout, FutexInterrupted, GiveUp, GiveUpKill, ReadStatus,
      GraceExpires, ResetSync, Request, ReadPid, PipeStatus, PipeTimeout,
      PipeKill, ReadFails, Shutdown
<1>2. CASE ServerNext
  BY ZenonT(30), <1>2
  DEF ServerNext, ReadCtl, Reap, ClearSync, Fork, ForkFails, Continue, WritePid,
      WaitChild, Relay, StoreExited, WakeFuzzer, AtExit
<1>3. CASE ChildNext \/ Deliver
  BY ZenonT(30), <1>3
  DEF ChildNext, Finish, Crash, ExecFails, CompareExchange, ChildWake,
      ChildLoad, ChildEnter, IdleDeath, Deliver
<1>4. CASE UserStop \/ FuzzerDies \/ ParentDeathSignal \/ Terminated
  BY Zenon, <1>4 DEF UserStop, FuzzerDies, ParentDeathSignal, Terminated
<1>5. CASE UNCHANGED vars BY <1>5
<1> QED BY <1>1, <1>2, <1>3, <1>4, <1>5 DEF Next

(* A server whose child is at work has not reported its end.               *)
LEMMA AtWork ==
  ASSUME Parent, cpc \notin {"none", "stopped", "zombie"}
  PROVE  spc \notin {"wakeFuzzer", "read"}
BY DEF Parent

(* Steps of the fuzzer.                                                    *)
LEMMA FuzzerAwake ==
  ASSUME SInv, Awake, UseFutex, ~Over, ~Over', ~stop_soon, FuzzerNext
  PROVE  Awake'
<1>1. /\ pending # "none" => fpc \in {"readStatus", "escalated"}
      /\ fpc \in {"check", "signal"} \/ (fpc = "idle" /\ child_pid > 0) =>
           child_sync = DONE
      /\ child_sync = DONE => Waiting
      /\ \/ fpc \in {"wakeChild", "load", "enter", "asleep", "giveUp"}
         \/ fpc = "readPid" /\ st # <<>>
         => (spc \in {"wakeFuzzer", "read"} => child_sync = EXITED)
      /\ fpc = "asleep" => spc # "read"
      /\ spc \in Gone => fpc = "readPid" /\ st = <<>>
  BY DEF Awake
<1>2. Modes /\ Ledger /\ Parent /\ Word /\ Sleep BY DEF SInv, IInv, InStep
<1>3. pending # "none" => Alive BY DEF SInv, Signals
<1>4. fpc \notin PipePC BY <1>2 DEF Modes
<1> USE <1>1
    DEF Awake, Waiting, Gone, IDLE, RUN, DONE, EXITED, fuzzerData, fuzzer,
        shared, serverData, server, childData, child, history
<1>5. CASE StartRun BY <1>5 DEF StartRun
<1>6. CASE CheckSync BY <1>6 DEF CheckSync, AfterCheck
<1>7. CASE SignalRun
  <2>1. spc \notin {"wakeFuzzer", "read"}
    BY <1>1, <1>2, <1>7, AtWork DEF SignalRun
  <2> QED BY <1>7, <2>1 DEF SignalRun
<1>8. CASE WakeChild BY <1>8 DEF WakeChild, Woken
<1>9. CASE LoadSync BY <1>9 DEF LoadSync
<1>10. CASE EnterWait BY Zenon, <1>2, <1>10 DEF EnterWait, Sleep
<1>11. CASE FutexTimeout BY <1>11 DEF FutexTimeout
<1>12. CASE FutexInterrupted BY <1>12 DEF FutexInterrupted
<1>13. CASE GiveUp BY <1>13 DEF GiveUp
<1>14. CASE GiveUpKill BY <1>14 DEF GiveUpKill
<1>15. CASE ReadStatus
  <2>1. st = StatusOnly /\ spc \in Served
    BY Zenon, <1>2, <1>15 DEF ReadStatus, Ledger, AwaitsStatus, HotPC
  <2>2. cpc = "none" BY <1>2, <2>1 DEF Served, Parent, Modes
  <2>3. pending = "none" BY <1>3, <2>2 DEF Alive
  <2>4. child_sync = EXITED BY <1>2, <1>15 DEF ReadStatus, Word
  <2> QED BY Zenon, <1>15, <2>1, <2>3, <2>4 DEF ReadStatus, Served
<1>16. CASE GraceExpires BY <1>16 DEF GraceExpires
<1>17. CASE ResetSync BY SMTT(30), <1>17 DEF ResetSync
<1>18. CASE Request
  <2>1. st = <<>> BY Zenon, <1>2, <1>18 DEF Request, Ledger, NoChild
  <2> QED BY <1>18, <2>1 DEF Request, CommunicationFails, Over
<1>19. CASE ReadPid BY <1>19 DEF ReadPid, AfterPid
<1>20. CASE PipeStatus \/ PipeTimeout \/ PipeKill
  BY Zenon, <1>4, <1>20 DEF PipeStatus, PipeTimeout, PipeKill, PipePC
<1>21. CASE ReadFails BY <1>21 DEF ReadFails, CommunicationFails, Over
<1>22. CASE Shutdown BY Zenon, <1>22 DEF Shutdown, Over
<1> HIDE DEF Awake
<1> QED
  BY Zenon, <1>5, <1>6, <1>7, <1>8, <1>9, <1>10, <1>11, <1>12, <1>13, <1>14, <1>15,
     <1>16, <1>17, <1>18, <1>19, <1>20, <1>21, <1>22
  DEF FuzzerNext

(* Steps of the server, which stores EXITED before it wakes the fuzzer.    *)
LEMMA ServerAwake ==
  ASSUME SInv, Awake, UseFutex, ~Over, ~Over', ~stop_soon, ServerNext
  PROVE  Awake'
<1>1. /\ pending # "none" => fpc \in {"readStatus", "escalated"}
      /\ fpc \in {"check", "signal"} \/ (fpc = "idle" /\ child_pid > 0) =>
           child_sync = DONE
      /\ child_sync = DONE => Waiting
      /\ \/ fpc \in {"wakeChild", "load", "enter", "asleep", "giveUp"}
         \/ fpc = "readPid" /\ st # <<>>
         => (spc \in {"wakeFuzzer", "read"} => child_sync = EXITED)
      /\ fpc = "asleep" => spc # "read"
      /\ spc \in Gone => fpc = "readPid" /\ st = <<>>
  BY DEF Awake
<1>2. Modes /\ Ledger /\ Parent /\ Word /\ Sleep BY DEF SInv, IInv, InStep
<1>3. spc \in {"clear", "fork"} => fpc = "readPid" /\ st = <<>>
  BY <1>2, Messages
  DEF Ledger, AwaitsStatus, NoChild, HotPC, PipePC, Served, Gone, Over, SInv,
      IInv, TypeOK, ControlTypes
<1> USE <1>1
    DEF Awake, Waiting, Gone, IDLE, RUN, DONE, EXITED, fuzzerData, fuzzer,
        shared, serverData, server, childData, child, history
<1>4. CASE ReadCtl
  <2>1. spc' = "clear" BY <1>2, <1>4 DEF ReadCtl, AfterCtl, Modes
  <2> QED BY Zenon, <1>4, <2>1 DEF ReadCtl
<1>5. CASE Reap \/ Continue BY Zenon, <1>2, <1>5 DEF Reap, Continue, Modes
<1>6. CASE ClearSync BY Zenon, <1>3, <1>6 DEF ClearSync, ForkSync
<1>7. CASE Fork
  <2>1. child_sync = IDLE BY Zenon, <1>2, <1>7 DEF Fork, Word
  <2> QED BY Zenon, <1>3, <1>7, <2>1 DEF Fork
<1>8. CASE ForkFails BY Zenon, <1>3, <1>8 DEF ForkFails
<1>9. CASE WritePid BY Zenon, <1>9 DEF WritePid
<1>10. CASE WaitChild BY Zenon, <1>10 DEF WaitChild
<1>11. CASE Relay
  <2>1. spc' = "exited" BY Zenon, <1>2, <1>11 DEF Relay, Modes
  <2> QED BY Zenon, <1>11, <2>1 DEF Relay
<1>12. CASE StoreExited
  <2>1. child_sync # DONE BY Zenon, <1>2, <1>12 DEF StoreExited, Parent
  <2> QED BY Zenon, <1>12, <2>1 DEF StoreExited
<1>13. CASE WakeFuzzer
  <2>1. cpc = "none" BY Zenon, <1>2, <1>13 DEF WakeFuzzer, Parent
  <2>2. /\ fpc' = IF fpc = "asleep" THEN "load" ELSE fpc
        /\ cpc' = cpc /\ spc' = "read"
    BY Zenon, <1>13, <2>1 DEF WakeFuzzer, Sleepers
  <2> QED BY Zenon, <1>13, <2>1, <2>2 DEF WakeFuzzer
<1>14. CASE AtExit BY Zenon, <1>14 DEF AtExit, Alive
<1> HIDE DEF Awake
<1> QED
  BY Zenon, <1>4, <1>5, <1>6, <1>7, <1>8, <1>9, <1>10, <1>11, <1>12, <1>13, <1>14
  DEF ServerNext

(* Steps of a child that does not die while it waits.                      *)
LEMMA ChildAwake ==
  ASSUME "idleDeath" \notin Faults, SInv, Awake, UseFutex, ~Over, ~Over',
         ~stop_soon, ChildNext \/ Deliver
  PROVE  Awake'
<1>1. /\ pending # "none" => fpc \in {"readStatus", "escalated"}
      /\ fpc \in {"check", "signal"} \/ (fpc = "idle" /\ child_pid > 0) =>
           child_sync = DONE
      /\ child_sync = DONE => Waiting
      /\ \/ fpc \in {"wakeChild", "load", "enter", "asleep", "giveUp"}
         \/ fpc = "readPid" /\ st # <<>>
         => (spc \in {"wakeFuzzer", "read"} => child_sync = EXITED)
      /\ fpc = "asleep" => spc # "read"
      /\ spc \in Gone => fpc = "readPid" /\ st = <<>>
  BY DEF Awake
<1>2. Modes /\ Ledger /\ Parent /\ Word /\ Sleep BY DEF SInv, IInv, InStep
<1> USE <1>1
    DEF Awake, Waiting, Gone, IDLE, RUN, DONE, EXITED, fuzzerData, fuzzer,
        shared, serverData, server, childData, child, history
<1>3. CASE Finish BY Zenon, <1>3 DEF Finish, Die
<1>4. CASE Crash BY <1>4 DEF Crash, Die
<1>5. CASE ExecFails BY <1>5 DEF ExecFails, Die
<1>6. CASE CompareExchange
  <2>1. spc \notin {"wakeFuzzer", "read"}
    BY Zenon, <1>2, <1>6, AtWork DEF CompareExchange
  <2> QED BY Zenon, <1>6, <2>1 DEF CompareExchange, Die
<1>7. CASE ChildWake BY <1>7 DEF ChildWake, Woken
<1>8. CASE ChildLoad BY Zenon, <1>8 DEF ChildLoad, Die
<1>9. CASE ChildEnter BY <1>9 DEF ChildEnter
<1>10. CASE IdleDeath BY Zenon, <1>10 DEF IdleDeath
<1>11. CASE Deliver
  <2>1. child_sync = EXITED BY Zenon, <1>2, <1>11 DEF Deliver, Word
  <2>2. pending' = "none" BY Zenon, <1>11 DEF Deliver, Die
  <2> QED BY Zenon, <1>11, <2>1, <2>2 DEF Deliver
<1> HIDE DEF Awake
<1> QED
  BY Zenon, <1>3, <1>4, <1>5, <1>6, <1>7, <1>8, <1>9, <1>10, <1>11 DEF ChildNext

(* Hence every step.                                                       *)
LEMMA AwakeStep ==
  ASSUME "idleDeath" \notin Faults, SInv, Awake, [Next]_vars
  PROVE  Awake'
<1> SUFFICES ASSUME UseFutex, ~Over', ~stop_soon'
             PROVE  Awake'
  BY DEF Awake
<1>1. ~Over BY OverStays
<1>2. ~stop_soon BY StopStays
<1>3. CASE FuzzerNext BY <1>1, <1>2, <1>3, FuzzerAwake
<1>4. CASE ServerNext BY <1>1, <1>2, <1>4, ServerAwake
<1>5. CASE ChildNext \/ Deliver BY <1>1, <1>2, <1>5, ChildAwake
<1>6. CASE UserStop BY <1>6 DEF UserStop
<1>7. CASE FuzzerDies \/ ParentDeathSignal \/ Terminated
  BY <1>1, <1>7 DEF FuzzerDies, ParentDeathSignal, Terminated, Over
<1>8. CASE UNCHANGED vars
  BY Zenon, <1>1, <1>2, <1>8
  DEF Awake, Waiting, vars, fuzzerData, fuzzer, shared, serverData, server,
      childData, child, history
<1> QED BY Zenon, <1>3, <1>4, <1>5, <1>6, <1>7, <1>8 DEF Next

(* As long as no child dies while it waits for a test case, the fuzzer     *)
(* never sleeps in afl_futex_wait for nothing: its deadline is needed only *)
(* against a target that does not return.                                  *)
THEOREM NoWakeupIsLost ==
  ASSUME "idleDeath" \notin Faults
  PROVE  Spec => []WakeupComes
<1>1. Init => Awake BY SMTT(30) DEF Init, Awake, Gone, IDLE, DONE
<1>2. SInv /\ Awake /\ [Next]_vars => Awake' BY AwakeStep
<1>3. ASSUME SInv, Awake PROVE WakeupComes
  <2> SUFFICES ASSUME fpc = "asleep", ~stop_soon
               PROVE  \/ cpc \in {"run", "cas", "wake"}
                      \/ cpc \in {"load", "enter"} /\ child_sync # DONE
                      \/ cpc = "zombie" /\ spc = "wait"
                      \/ spc \in {"relay", "exited", "wakeFuzzer"}
    BY DEF WakeupComes
  <2>1. ~Over BY DEF Over
  <2>2. TypeOK /\ Modes /\ Ledger /\ Parent /\ Word /\ Sleep
    BY <1>3, <2>1 DEF SInv, IInv, InStep
  <2>3. UseFutex BY <2>2 DEF Modes, HotPC
  <2>4. spc \in {"wait", "relay", "exited", "wakeFuzzer"}
    BY <1>3, <2>1, <2>2, <2>3
    DEF Awake, Ledger, AwaitsStatus, HotPC, Served, Gone
  <2>5. CASE spc = "wait"
    <3>1. cpc \notin {"none", "stopped", "asleep"}
      BY <2>2, <2>3, <2>5 DEF Parent, Modes, Sleep
    <3>2. cpc \in {"load", "enter"} => child_sync # DONE BY <2>2 DEF Sleep
    <3> QED BY <2>2, <2>5, <3>1, <3>2 DEF TypeOK, ControlTypes
  <2> QED BY <2>4, <2>5
<1> QED BY <1>1, <1>2, <1>3, SignalsInvariant, PTL DEF Spec

(* The fuzzer about to store RUN holds a child that said DONE, also when   *)
(* it has been stopped meanwhile.                                          *)
HoldsDone == ~Over /\ fpc \in {"check", "signal"} => child_sync = DONE

(* Every step keeps that.                                                  *)
LEMMA HoldsDoneStep ==
  ASSUME SInv, Orphans, Awake, HoldsDone, [Next]_vars
  PROVE  HoldsDone'
<1> SUFFICES ASSUME ~Over', fpc' \in {"check", "signal"}
             PROVE  child_sync' = DONE
  BY DEF HoldsDone
<1>1. ~Over BY OverStays
<1>2. Modes /\ Input BY <1>1 DEF SInv, IInv, InStep
<1> USE DEF vars, fuzzerData, fuzzer, shared, history
<1>3. CASE FuzzerNext
  <2>1. CASE StartRun
    <3>1. UseFutex /\ fpc = "idle" /\ child_pid > 0 /\ ~stop_soon
      BY <2>1 DEF StartRun
    <3> QED BY <1>1, <2>1, <3>1 DEF StartRun, Awake
  <2>2. CASE CheckSync BY <1>1, <2>2 DEF CheckSync, HoldsDone
  <2> QED
    BY <1>3, <2>1, <2>2, ZenonT(30)
    DEF FuzzerNext, SignalRun, WakeChild, LoadSync, EnterWait, FutexTimeout,
        FutexInterrupted, GiveUp, GiveUpKill, ReadStatus, GraceExpires,
        ResetSync, Request, CommunicationFails, ReadPid, AfterPid, PipeStatus,
        PipeTimeout, PipeKill, ReadFails, Shutdown
<1>4. CASE ServerNext
  <2>1. fpc' = fpc
    BY ZenonT(30), <1>4
    DEF ServerNext, ReadCtl, Reap, ClearSync, Fork, ForkFails, Continue,
        WritePid, WaitChild, Relay, StoreExited, WakeFuzzer, AtExit
  <2>2. child_sync = DONE BY <1>1, <2>1 DEF HoldsDone
  <2>3. UseFutex BY <1>2, <2>1 DEF Modes, HotPC
  <2>4. spc \notin {"clear", "exited"}
    <3>1. CASE stop_soon BY <3>1 DEF Orphans, Gone
    <3>2. CASE ~stop_soon
      <4>1. Waiting BY <1>1, <2>2, <2>3, <3>2 DEF Awake
      <4> QED BY <4>1 DEF Waiting, Orphans, Family
    <3> QED BY <3>1, <3>2
  <2> QED
    BY <1>4, <2>2, <2>4, ZenonT(30)
    DEF ServerNext, ReadCtl, Reap, ClearSync, Fork, ForkFails, Continue,
        WritePid, WaitChild, Relay, StoreExited, WakeFuzzer, AtExit
<1>5. CASE ChildNext \/ Deliver
  <2>1. fpc' = fpc
    BY ZenonT(30), <1>5
    DEF ChildNext, Finish, Crash, ExecFails, CompareExchange, ChildWake, Woken,
        ChildLoad, ChildEnter, IdleDeath, Deliver
  <2>2. child_sync = DONE /\ cpc # "cas"
    BY <1>1, <1>2, <2>1 DEF HoldsDone, Input, Executing
  <2> QED
    BY <1>5, <2>2, ZenonT(30)
    DEF ChildNext, Finish, Crash, ExecFails, CompareExchange, ChildWake,
        ChildLoad, ChildEnter, IdleDeath, Deliver
<1>6. CASE UserStop \/ FuzzerDies \/ ParentDeathSignal \/ Terminated
  BY Zenon, <1>1, <1>6
  DEF HoldsDone, UserStop, FuzzerDies, ParentDeathSignal, Terminated, Over
<1>7. CASE UNCHANGED vars BY <1>1, <1>7 DEF HoldsDone
<1> QED BY Zenon, <1>3, <1>4, <1>5, <1>6, <1>7 DEF Next

(* Only a child that dies between two runs has its EXITED overwritten by   *)
(* the fuzzer's RUN: otherwise the word still says DONE at that store.     *)
THEOREM ExitKeptWithoutIdleDeath ==
  ASSUME "idleDeath" \notin Faults
  PROVE  Spec => ExitNotOverwritten
<1>1. Init => Awake /\ Orphans /\ HoldsDone
  BY DEF Init, Awake, Orphans, Family, CaredFor, Doomed, Gone, Alive, HoldsDone,
         IDLE, DONE
<1>2. SInv /\ Awake /\ Orphans /\ HoldsDone /\ [Next]_vars
        => Awake' /\ Orphans' /\ HoldsDone'
  BY AwakeStep, OrphansStep, HoldsDoneStep
<1>3. HoldsDone /\ [Next]_vars => [child_sync = EXITED => child_sync' # RUN]_vars
  <2> SUFFICES ASSUME HoldsDone, Next, child_sync = EXITED, child_sync' = RUN
               PROVE  FALSE
    OBVIOUS
  <2>1. ~SignalRun BY DEF SignalRun, HoldsDone, Over, EXITED, DONE
  <2> USE DEF IDLE, RUN, DONE, EXITED, vars, fuzzerData, fuzzer, shared, history
  <2>2. ~FuzzerNext
    BY ZenonT(30), <2>1
    DEF FuzzerNext, StartRun, CheckSync, WakeChild, LoadSync, EnterWait,
        FutexTimeout, FutexInterrupted, GiveUp, GiveUpKill, ReadStatus,
        GraceExpires, ResetSync, Request, ReadPid, PipeStatus, PipeTimeout,
        PipeKill, ReadFails, Shutdown
  <2>3. ~ServerNext
    BY ZenonT(30) DEF ServerNext, ReadCtl, Reap, ClearSync, ForkSync, Fork, ForkFails,
        Continue, WritePid, WaitChild, Relay, StoreExited, WakeFuzzer, AtExit
  <2>4. ~(ChildNext \/ Deliver)
    BY ZenonT(30) DEF ChildNext, Finish, Crash, ExecFails, CompareExchange, ChildWake,
        ChildLoad, ChildEnter, IdleDeath, Deliver
  <2>5. ~(UserStop \/ FuzzerDies \/ ParentDeathSignal \/ Terminated)
    BY Zenon DEF UserStop, FuzzerDies, ParentDeathSignal, Terminated
  <2> QED BY Zenon, <2>2, <2>3, <2>4, <2>5 DEF Next
<1> QED BY <1>1, <1>2, <1>3, SignalsInvariant, PTL DEF Spec, ExitNotOverwritten
=============================================================================
