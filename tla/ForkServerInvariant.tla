------------------------- MODULE ForkServerInvariant ------------------------
(***************************************************************************)
(* The invariant that ties the three processes of ForkServer together, for *)
(* every mode, signal, fault and bound: the variables keep their types, no *)
(* step of any process loses step with the other two, and what follows:    *)
(* no torn input, pipes in sync, one sleeper, a short swap loop.           *)
(***************************************************************************)
EXTENDS ForkServer, TLAPS, SequenceTheorems

-----------------------------------------------------------------------------
(* Type correctness                                                        *)

(* What is read from and written to the pipes has the right type.          *)
LEMMA PipeFacts ==
  ASSUME TypeOK
  PROVE  /\ ctl # <<>> => Head(ctl) \in BOOLEAN /\ Tail(ctl) \in Seq(BOOLEAN)
         /\ Append(ctl, write_value) \in Seq(BOOLEAN)
         /\ st # <<>> => /\ Head(st).pid \in Nat
                         /\ Head(st).status \in WaitStatus
                         /\ Tail(st) \in Seq(Msg)
         /\ Append(st, PidMsg(cpid)) \in Seq(Msg)
         /\ Append(st, StatusMsg(status)) \in Seq(Msg)
<1>1. /\ ctl # <<>> => Head(ctl) \in BOOLEAN /\ Tail(ctl) \in Seq(BOOLEAN)
      /\ Append(ctl, write_value) \in Seq(BOOLEAN)
  BY DEF TypeOK, PipeTypes, FlagTypes
<1>2. st # <<>> => Head(st) \in Msg /\ Tail(st) \in Seq(Msg)
  BY DEF TypeOK, PipeTypes
<1>3. PidMsg(cpid) \in Msg /\ StatusMsg(status) \in Msg
  BY DEF TypeOK, NumberTypes, ValueTypes, PidMsg, StatusMsg, Msg, WaitStatus,
         DeathStatus
<1>4. /\ Append(st, PidMsg(cpid)) \in Seq(Msg)
      /\ Append(st, StatusMsg(status)) \in Seq(Msg)
  BY <1>3 DEF TypeOK, PipeTypes
<1> QED BY <1>1, <1>2, <1>4 DEF Msg

(* A child that dies leaves a wait status and the number of the run.       *)
LEMMA DieType ==
  ASSUME TypeOK, NEW s \in DeathStatus, Die(s)
  PROVE  /\ cpc' = "zombie" /\ wstatus' \in DeathStatus /\ pending' = "none"
         /\ died_at' \in 0 .. MaxRuns
BY DEF TypeOK, NumberTypes, Die

(* A signal sent is one of the two signals.                                *)
LEMMA KillType ==
  ASSUME TypeOK, NEW p, NEW sig \in {"SIGTERM", "SIGKILL"}, Kill(p, sig)
  PROVE  pending' \in {"none", "SIGTERM", "SIGKILL"}
BY SMTT(30) DEF TypeOK, ValueTypes, Kill

(* Every step of afl_fsrv_run_target keeps the types.                      *)
LEMMA FuzzerType ==
  ASSUME TypeOK, FuzzerNext
  PROVE  TypeOK'
<1> USE ConstantsAssumption DEF TypeOK, ControlTypes, ValueTypes, NumberTypes,
      FlagTypes, PipeTypes, SyncState, IDLE, RUN, DONE, EXITED, DeathStatus,
      WaitStatus, Verdict, fuzzerData, fuzzer, shared, serverData, server,
      childData, child, history
<1>1. CASE StartRun
  <2>1. FlagTypes' BY <1>1, Zenon DEF StartRun
  <2>2. NumberTypes' BY <1>1 DEF StartRun
  <2>3. (ControlTypes /\ ValueTypes /\ PipeTypes)' BY <1>1 DEF StartRun
  <2> QED BY <2>1, <2>2, <2>3
<1>2. CASE CheckSync BY <1>2 DEF CheckSync, AfterCheck
<1>3. CASE SignalRun BY <1>3 DEF SignalRun
<1>4. CASE WakeChild BY <1>4 DEF WakeChild, Woken
<1>5. CASE LoadSync BY <1>5 DEF LoadSync
<1>6. CASE EnterWait BY <1>6 DEF EnterWait
<1>7. CASE FutexTimeout BY <1>7 DEF FutexTimeout
<1>8. CASE FutexInterrupted BY <1>8 DEF FutexInterrupted
<1>9. CASE GiveUp BY <1>9 DEF GiveUp
<1>10. CASE GiveUpKill BY <1>10, KillType DEF GiveUpKill, KillOverdue
<1>11. CASE ReadStatus
  <2>1. CASE fpc = "readStatus" /\ stop_soon BY <1>11, <2>1 DEF ReadStatus
  <2>2. CASE ~(fpc = "readStatus" /\ stop_soon)
    <3>1. PipeTypes' BY <1>11, <2>2, PipeFacts, Zenon DEF ReadStatus
    <3>2. (ControlTypes /\ ValueTypes /\ NumberTypes /\ FlagTypes)'
      BY <1>11, <2>2, PipeFacts DEF ReadStatus
    <3> QED BY <3>1, <3>2
  <2> QED BY <2>1, <2>2
<1>12. CASE GraceExpires BY <1>12, KillType DEF GraceExpires, Escalate
<1>13. CASE ResetSync BY <1>13 DEF ResetSync, Classify
<1>14. CASE Request
  <2>1. PipeTypes' BY Zenon, <1>14, PipeFacts DEF Request
  <2>2. FlagTypes' BY <1>14, Zenon DEF Request
  <2>3. (ControlTypes /\ ValueTypes /\ NumberTypes)'
    BY <1>14 DEF Request, CommunicationFails
  <2> QED BY <2>1, <2>2, <2>3
<1>15. CASE ReadPid BY <1>15, PipeFacts DEF ReadPid, AfterPid
<1>16. CASE PipeStatus
  <2>1. CASE fpc = "pipeWait" /\ stop_soon BY <1>16, <2>1 DEF PipeStatus
  <2>2. CASE ~(fpc = "pipeWait" /\ stop_soon)
    <3>1. PipeTypes' BY <1>16, <2>2, PipeFacts, Zenon DEF PipeStatus
    <3>2. ValueTypes' BY <1>16, <2>2, PipeFacts DEF PipeStatus, Classify
    <3>3. (ControlTypes /\ NumberTypes /\ FlagTypes)'
      BY <1>16, <2>2 DEF PipeStatus
    <3> QED BY <3>1, <3>2, <3>3
  <2> QED BY <2>1, <2>2
<1>17. CASE PipeTimeout BY <1>17 DEF PipeTimeout
<1>18. CASE PipeKill BY <1>18, KillType DEF PipeKill, KillOverdue
<1>19. CASE ReadFails BY <1>19 DEF ReadFails, CommunicationFails
<1>20. CASE Shutdown BY SMTT(30), <1>20 DEF Shutdown, KillBoth
<1> HIDE DEF TypeOK
<1> QED
  BY <1>1, <1>2, <1>3, <1>4, <1>5, <1>6, <1>7, <1>8, <1>9, <1>10, <1>11, <1>12,
     <1>13, <1>14, <1>15, <1>16, <1>17, <1>18, <1>19, <1>20, Zenon DEF FuzzerNext

(* Every step of the server loop keeps the types.                          *)
LEMMA ServerType ==
  ASSUME TypeOK, ServerNext
  PROVE  TypeOK'
<1> USE ConstantsAssumption DEF TypeOK, ControlTypes, ValueTypes, NumberTypes,
      FlagTypes, PipeTypes, SyncState, IDLE, RUN, DONE, EXITED, DeathStatus,
      WaitStatus, Verdict, fuzzerData, fuzzer, shared, serverData, server,
      childData, child, history
<1>1. CASE ReadCtl
  <2>1. FlagTypes' BY <1>1, PipeFacts, Zenon DEF ReadCtl
  <2>2. PipeTypes' BY <1>1, PipeFacts DEF ReadCtl
  <2>3. (ValueTypes /\ NumberTypes)' BY <1>1 DEF ReadCtl
  <2>4. ControlTypes' BY <1>1 DEF ReadCtl, AfterCtl
  <2> QED BY <2>1, <2>2, <2>3, <2>4
<1>2. CASE Reap BY <1>2 DEF Reap
<1>3. CASE ClearSync BY <1>3 DEF ClearSync, ForkSync
<1>4. CASE Fork BY <1>4 DEF Fork
<1>5. CASE ForkFails BY <1>5 DEF ForkFails
<1>6. CASE Continue BY <1>6 DEF Continue
<1>7. CASE WritePid BY <1>7, PipeFacts DEF WritePid
<1>8. CASE WaitChild
  <2>1. FlagTypes' BY <1>8, Zenon DEF WaitChild
  <2>2. (ControlTypes /\ ValueTypes /\ NumberTypes /\ PipeTypes)'
    BY <1>8 DEF WaitChild
  <2> QED BY <2>1, <2>2
<1>9. CASE Relay BY <1>9, PipeFacts DEF Relay
<1>10. CASE StoreExited BY <1>10 DEF StoreExited
<1>11. CASE WakeFuzzer
  <2>1. PICK p : /\ fpc' = IF p = "fuzzer" THEN "load" ELSE fpc
                 /\ cpc' = IF p = "child" THEN "load" ELSE cpc
    BY <1>11, Zenon DEF WakeFuzzer
  <2> QED BY <1>11, <2>1 DEF WakeFuzzer
<1>12. CASE AtExit BY <1>12 DEF AtExit
<1> HIDE DEF TypeOK
<1> QED
  BY <1>1, <1>2, <1>3, <1>4, <1>5, <1>6, <1>7, <1>8, <1>9, <1>10, <1>11, <1>12,
     Zenon DEF ServerNext

(* Every step of the child, and the delivery of a signal to it, keeps the  *)
(* types.                                                                  *)
LEMMA ChildType ==
  ASSUME TypeOK, ChildNext \/ Deliver
  PROVE  TypeOK'
<1> USE ConstantsAssumption DEF TypeOK, ControlTypes, ValueTypes, NumberTypes,
      FlagTypes, PipeTypes, SyncState, IDLE, RUN, DONE, EXITED, DeathStatus,
      WaitStatus, Verdict, fuzzerData, fuzzer, shared, serverData, server,
      childData, child, history
<1>1. CASE Finish BY <1>1, DieType DEF Finish, LoopsAgain
<1>2. CASE Crash BY <1>2, DieType DEF Crash
<1>3. CASE ExecFails BY <1>3, DieType DEF ExecFails
<1>4. CASE CompareExchange BY <1>4, DieType DEF CompareExchange
<1>5. CASE ChildWake BY <1>5 DEF ChildWake, Woken
<1>6. CASE ChildLoad BY <1>6, DieType DEF ChildLoad
<1>7. CASE ChildEnter BY <1>7 DEF ChildEnter
<1>8. CASE IdleDeath BY <1>8, DieType DEF IdleDeath
<1>9. CASE Deliver BY <1>9, DieType DEF Deliver
<1> HIDE DEF TypeOK
<1> QED
  BY <1>1, <1>2, <1>3, <1>4, <1>5, <1>6, <1>7, <1>8, <1>9, Zenon DEF ChildNext

(* The steps at the end of a session do as well, hence every step.         *)
LEMMA TypeStep ==
  ASSUME TypeOK, [Next]_vars
  PROVE  TypeOK'
<1> USE ConstantsAssumption DEF TypeOK, ControlTypes, ValueTypes, NumberTypes,
      FlagTypes, PipeTypes, fuzzerData, fuzzer, shared, serverData, server,
      childData, child, history
<1>1. CASE UserStop
  <2>1. (FlagTypes /\ PipeTypes)' BY <1>1 DEF UserStop, KillBoth
  <2>2. (ControlTypes /\ ValueTypes /\ NumberTypes)'
    BY <1>1 DEF UserStop, KillBoth
  <2> QED BY <2>1, <2>2
<1>2. CASE FuzzerDies BY <1>2 DEF FuzzerDies
<1>3. CASE ParentDeathSignal BY <1>3 DEF ParentDeathSignal
<1>4. CASE Terminated \/ UNCHANGED vars
  <2>0. UNCHANGED vars BY <1>4 DEF Terminated
  <2>1. (FlagTypes /\ PipeTypes)' BY <2>0 DEF vars
  <2>2. ControlTypes' BY <2>0 DEF vars
  <2>3. ValueTypes' BY <2>0 DEF vars
  <2>4. NumberTypes' BY <2>0 DEF vars
  <2> QED BY <2>1, <2>2, <2>3, <2>4
<1> HIDE DEF TypeOK
<1> QED
  BY <1>1, <1>2, <1>3, <1>4, FuzzerType, ServerType, ChildType, Zenon DEF Next

(* A fork server that has just been started has them.                      *)
LEMMA TypeInit == Init => TypeOK
<1> SUFFICES ASSUME Init PROVE TypeOK OBVIOUS
<1>1. FlagTypes BY Zenon DEF Init, FlagTypes
<1>2. PipeTypes BY DEF Init, PipeTypes
<1>3. NumberTypes BY ConstantsAssumption DEF Init, NumberTypes
<1>4. ControlTypes BY DEF Init, ControlTypes
<1>5. ValueTypes
  BY DEF Init, ValueTypes, SyncState, IDLE, RUN, WaitStatus, DeathStatus,
    Verdict
<1> QED BY <1>1, <1>2, <1>3, <1>4, <1>5 DEF TypeOK

(* In every mode the variables keep their types; in particular cycle_cnt   *)
(* of __afl_persistent_loop never wraps below one.                         *)
THEOREM TypeCorrect == Spec => []TypeOK
BY TypeInit, TypeStep, PTL DEF Spec

-----------------------------------------------------------------------------
(* Where the three processes can be                                        *)

(* The fuzzer in a run over the sync word, and in one over the pipes.      *)
HotPC  == {"check", "signal", "wakeChild", "load", "enter", "asleep", "giveUp",
           "giveUpWake", "giveUpKill", "readStatus", "escalated"}
PipePC == {"pipeWait", "pipeKill", "pipeKilled"}

(* The server between two requests, and the server told to leave.          *)
Served == {"read", "exited", "wakeFuzzer"}
Gone   == {"atExit", "dead"}

(* The child executing, and the child waiting for its next test case.      *)
Executing == cpc \in {"run", "cas"}
Waiting   == cpc \in {"wake", "load", "enter", "asleep"}
Active    == Executing \/ Waiting

(* The contents of the status pipe.                                        *)
PidOnly    == <<PidMsg(cpid)>>
StatusOnly == <<StatusMsg(status)>>
Both       == <<PidMsg(cpid), StatusMsg(status)>>

(* The fuzzer has been given a pid and not yet the end of that child.      *)
AwaitsStatus ==
  \/ fpc \in HotPC \cup PipePC
  \/ fpc = "idle" /\ UseFutex /\ child_pid > 0

(* The fuzzer has no child: it is between two of them.                     *)
NoChild ==
  \/ fpc \in {"request", "reset"}
  \/ fpc = "idle" /\ ~AwaitsStatus

-----------------------------------------------------------------------------
(* The inductive invariant, in parts.  All of it speaks of a session that  *)
(* goes on: once the fuzzer is gone, nobody cares.                         *)

Modes ==
  /\ fpc \in HotPC \cup {"reset"} => UseFutex /\ child_pid = cpid /\ cpid > 0
  /\ fpc \in PipePC => ~UseFutex
  /\ UseFutex /\ fpc \in {"request", "readPid"} => child_pid = -1
  /\ UseFutex /\ fpc = "idle" => child_pid = -1 \/ (child_pid = cpid /\ cpid > 0)
  /\ UseFutex => cpc # "stopped" /\ ~child_stopped /\ spc \notin {"reap", "cont"}
  /\ ~UseFutex => /\ cpc # "cas" /\ ~Waiting /\ child_sync = IDLE
                  /\ spc \notin {"exited", "wakeFuzzer"}

(* Both pipes hold exactly what the positions of the two ends say.         *)
Ledger ==
  /\ fpc = "readPid" =>
       \/ ctl = <<write_value>> /\ st = <<>> /\ spc \in Served \cup Gone
       \/ ctl = <<>> /\ st = <<>>
            /\ spc \in {"reap", "clear", "fork", "cont", "writePid"} \cup Gone
       \/ ctl = <<>> /\ st = PidOnly /\ spc \in {"wait", "relay"} \cup Gone
       \/ ctl = <<>> /\ st = Both /\ spc \in Served \cup Gone
  /\ AwaitsStatus =>
       /\ ctl = <<>>
       /\ \/ st = <<>> /\ spc \in {"wait", "relay"} \cup Gone
          \/ st = StatusOnly /\ spc \in Served \cup Gone
  /\ NoChild => ctl = <<>> /\ st = <<>> /\ spc \in Served \cup Gone

(* The server knows what its child is doing.                               *)
Parent ==
  /\ spc \in {"clear", "fork", "exited", "wakeFuzzer"} => cpc = "none"
  /\ spc \in {"reap", "cont"} => cpc \in {"stopped", "zombie"}
  /\ spc \in {"relay", "read"} =>
       cpc \in IF child_stopped THEN {"stopped", "zombie"} ELSE {"none"}
  /\ spc \in {"writePid", "wait"} => cpc # "none"
  /\ child_stopped => spc \in {"relay", "read"} \cup Gone
  /\ cpc # "none" \/ spc = "relay" \/ st # <<>> => cpid > 0
  /\ Active => ~NoChild /\ st \in {<<>>, PidOnly}
                /\ (fpc = "readPid" => ctl = <<>>)

(* The sync word says who has to move.                                     *)
Word ==
  /\ child_sync = RUN =>
       fpc \in {"wakeChild", "load", "enter", "asleep", "giveUp"}
  /\ Active /\ child_sync = EXITED =>
       fpc \in {"giveUpWake", "giveUpKill", "readStatus", "escalated"}
  /\ fpc \in {"giveUpWake", "giveUpKill", "readStatus", "escalated", "reset"} =>
       child_sync = EXITED
  /\ Executing => child_sync # DONE
  /\ Waiting => child_sync # IDLE
  /\ cpc = "cas" => /\ expected \in {RUN, IDLE}
                    /\ expected = IDLE => child_sync \in {IDLE, EXITED}
  /\ child_sync = DONE => ~NoChild
  /\ spc = "fork" => child_sync = IDLE

(* A child executes the test case of the run in progress, and no test case *)
(* is taken twice.                                                         *)
Input ==
  /\ done <= input /\ input <= run /\ died_at <= run
  /\ Executing => input = run /\ fpc \notin {"idle", "check", "signal"}
  /\ cpc = "run" => done < run
  /\ cpc = "cas" => done = run
  /\ fpc \in {"request", "check", "signal"} => input < run
  /\ fpc = "readPid" /\ ctl # <<>> => input < run
  /\ fpc = "readPid" /\ spc \in {"reap", "clear", "fork", "cont"} => input < run
  /\ child_sync = RUN /\ Waiting => input < run
  /\ child_sync = DONE /\ fpc \notin {"check", "signal"} => done = run

(* A sleeper will be woken, and never are there two.                       *)
Sleep ==
  /\ cpc = "asleep" => child_sync = DONE \/ fpc \in {"wakeChild", "giveUpWake"}
  /\ fpc = "asleep" /\ cpc \in {"load", "enter", "asleep"} => child_sync # DONE
  /\ fpc \in {"enter", "asleep"} => fval \in {IDLE, RUN}

InStep == ~Over => Modes /\ Ledger /\ Parent /\ Word /\ Input /\ Sleep
IInv == TypeOK /\ InStep

-----------------------------------------------------------------------------
(* The contents of the pipes                                               *)

(* The pipe as a sequence: the second message follows the first.           *)
LEMMA AppendOne ==
  ASSUME NEW S, NEW a \in S, NEW b \in S
  PROVE  Append(<<a>>, b) = <<a, b>>
<1> DEFINE s == Append(<<a>>, b)
           t == <<a, b>>
<1>1. <<a>> \in Seq(S) /\ t \in Seq(S) OBVIOUS
<1>2. s \in Seq(S) BY <1>1
<1>3. Len(s) = 2 /\ Len(t) = 2 BY <1>1
<1>4. s[1] = a /\ s[2] = b /\ t[1] = a /\ t[2] = b BY <1>1
<1>5. \A i \in 1 .. Len(s) : s[i] = t[i] BY <1>3, <1>4
<1> HIDE DEF s, t
<1>6. s = t BY <1>1, <1>2, <1>3, <1>5, SeqEqual
<1> QED BY <1>6 DEF s, t

(* The four possible contents of the status pipe differ.                   *)
LEMMA Messages ==
  /\ PidOnly # <<>> /\ StatusOnly # <<>> /\ Both # <<>>
  /\ PidOnly # StatusOnly /\ PidOnly # Both /\ StatusOnly # Both
<1>1. PidOnly # <<>> /\ StatusOnly # <<>> /\ Both # <<>>
  BY DEF PidOnly, StatusOnly, Both
<1>2. Len(PidOnly) = 1 /\ Len(StatusOnly) = 1 /\ Len(Both) = 2
  BY DEF PidOnly, StatusOnly, Both
<1>3. PidOnly # Both /\ StatusOnly # Both BY <1>2
<1>4. PidOnly[1].kind = "pid" /\ StatusOnly[1].kind = "status"
  BY DEF PidOnly, StatusOnly, PidMsg, StatusMsg
<1>5. PidOnly # StatusOnly BY <1>4
<1> QED BY <1>1, <1>3, <1>5

(* What reading takes from it, and what writing adds to it.                *)
LEMMA Reads ==
  /\ Head(PidOnly) = PidMsg(cpid) /\ Tail(PidOnly) = <<>>
  /\ Head(StatusOnly) = StatusMsg(status) /\ Tail(StatusOnly) = <<>>
  /\ Head(Both) = PidMsg(cpid) /\ Tail(Both) = StatusOnly
<1>1. Head(PidOnly) = PidMsg(cpid) /\ Tail(PidOnly) = <<>> BY DEF PidOnly
<1>2. Head(StatusOnly) = StatusMsg(status) /\ Tail(StatusOnly) = <<>>
  BY DEF StatusOnly
<1>3. Head(Both) = PidMsg(cpid) BY DEF Both
<1>4. Tail(Both) = StatusOnly BY DEF Both, StatusOnly
<1> QED BY <1>1, <1>2, <1>3, <1>4

(* What the status pipe holds after the server has written to it.          *)
LEMMA Writes ==
  ASSUME TypeOK
  PROVE  /\ Append(<<>>, PidMsg(cpid)) = PidOnly
         /\ Append(<<>>, StatusMsg(status)) = StatusOnly
         /\ Append(PidOnly, StatusMsg(status)) = Both
<1>1. Append(<<>>, PidMsg(cpid)) = PidOnly BY DEF PidOnly
<1>2. Append(<<>>, StatusMsg(status)) = StatusOnly BY DEF StatusOnly
<1>3. PidMsg(cpid) \in Msg /\ StatusMsg(status) \in Msg
  BY DEF TypeOK, NumberTypes, ValueTypes, PidMsg, StatusMsg, Msg, WaitStatus,
         DeathStatus
<1>4. Append(PidOnly, StatusMsg(status)) = Both
  BY <1>3, AppendOne DEF PidOnly, Both
<1> QED BY <1>1, <1>2, <1>4

(* What the pipe may hold changes only with the child's pid and its        *)
(* status.                                                                 *)
LEMMA Same ==
  /\ cpid' = cpid => PidOnly' = PidOnly
  /\ status' = status => StatusOnly' = StatusOnly
  /\ cpid' = cpid /\ status' = status => Both' = Both
BY DEF PidOnly, StatusOnly, Both, PidMsg, StatusMsg

(* A request is one word in the control pipe.                              *)
LEMMA Control ==
  ASSUME NEW v
  PROVE  /\ Append(<<>>, v) = <<v>> /\ <<v>> # <<>>
         /\ Head(<<v>>) = v /\ Tail(<<v>>) = <<>>
OBVIOUS

(* A child that dies takes no test case.                                   *)
LEMMA InputDies ==
  ASSUME TypeOK, Input, cpc' = "zombie", died_at' = run,
         UNCHANGED <<fpc, run, child_sync, ctl, spc, input, done>>
  PROVE  Input'
<1>1. run <= run BY DEF TypeOK, NumberTypes
<1> QED BY <1>1 DEF Input, Executing, Waiting

(* A child takes the test case of the run, which was not taken before.     *)
LEMMA InputTaken ==
  ASSUME TypeOK, Input, input < run, cpc' = "run", input' = run,
         UNCHANGED <<fpc, run, child_sync, done, died_at>>,
         fpc \notin {"idle", "check", "signal", "request"}, child_sync # DONE,
         fpc = "readPid" =>
           ctl' = <<>> /\ spc' \notin {"reap", "clear", "fork", "cont"}
  PROVE  Input'
<1>1. done < run /\ done <= run /\ run <= run
  BY DEF Input, TypeOK, NumberTypes
<1> QED BY <1>1 DEF Input, Executing, Waiting

-----------------------------------------------------------------------------
(* The processes stay in step                                              *)

(* What the invariant says of the server and of the child.                 *)
Partners == <<spc, child_stopped, status, cpc, cpid, expected, input, done, died_at>>

(* The fuzzer goes from one place to the next and touches nothing else     *)
(* that the invariant speaks of.                                           *)
LEMMA FuzzerMoves ==
  ASSUME Modes, Ledger, Parent, Word, Input, Sleep,
         UNCHANGED <<Partners, run, child_pid, write_value, fval, child_sync, ctl, st>>,
         \/ fpc = "check" /\ fpc' = AfterCheck
         \/ fpc = "enter" /\ fpc' = (IF child_sync = fval THEN "asleep" ELSE "load")
         \/ fpc = "asleep" /\ fpc' = "load"
         \/ fpc = "giveUpKill" /\ fpc' = "readStatus"
         \/ fpc = "readStatus" /\ fpc' = "escalated"
         \/ fpc = "pipeWait" /\ fpc' = "pipeKill"
  PROVE  (Modes /\ Ledger /\ Parent /\ Word /\ Input /\ Sleep)'
<1> USE DEF Partners, AfterCheck, HotPC, PipePC, Executing, Waiting, Active,
            IDLE, RUN, DONE, EXITED
<1>1. Modes' BY DEF Modes
<1>2. AwaitsStatus /\ AwaitsStatus' /\ ~NoChild' /\ fpc' # "readPid"
  BY DEF AwaitsStatus, NoChild
<1>3. Ledger' BY <1>2, Same DEF Ledger
<1>4. Parent' BY <1>2, Same DEF Parent
<1>5. Word' BY <1>2 DEF Word
<1>6. Input' BY DEF Input
<1>7. Sleep' BY DEF Sleep
<1> QED BY <1>1, <1>3, <1>4, <1>5, <1>6, <1>7

(* No step of the fuzzer loses step with the other two processes: one case *)
(* per action, one step per part of the invariant.                         *)
LEMMA FuzzerInStep ==
  ASSUME TypeOK, Modes, Ledger, Parent, Word, Input, Sleep, ~Over',
         FuzzerNext
  PROVE  (Modes /\ Ledger /\ Parent /\ Word /\ Input /\ Sleep)'
<1> DEFINE Goal == (Modes /\ Ledger /\ Parent /\ Word /\ Input /\ Sleep)'
<1> SUFFICES Goal
  OBVIOUS
<1> USE DEF HotPC, PipePC, Served, Gone, Executing, Waiting, Active, AwaitsStatus,
            NoChild, IDLE, RUN, DONE, EXITED, Partners
<1>1. ASSUME StartRun PROVE Goal
  <2>1. /\ UNCHANGED <<Partners, child_pid, child_sync, ctl, st, fval>>
        /\ fpc = "idle" /\ run' = run + 1
        /\ fpc' = IF UseFutex /\ child_pid > 0 THEN "check" ELSE "request"
    BY <1>1 DEF StartRun, server, serverData, child, childData
  <2>2. Modes'
    <3>1. CASE UseFutex /\ child_pid > 0
      BY <2>1, <3>1 DEF Modes
    <3>2. CASE ~(UseFutex /\ child_pid > 0)
      BY <2>1, <3>2 DEF Modes
    <3> QED BY <3>1, <3>2
  <2>3. Ledger' BY <2>1, Same DEF Ledger
  <2>4. Parent' BY <2>1, Same DEF Parent
  <2>5. Word' BY <2>1 DEF Word
  <2>6. Input'
    <3>1. done \in Int /\ input \in Int /\ run \in Int /\ died_at \in Int
      BY ConstantsAssumption DEF TypeOK, NumberTypes
    <3> QED BY <2>1, <3>1 DEF Modes, Word, Input
  <2>7. Sleep' BY <2>1 DEF Sleep
  <2> QED BY <2>2, <2>3, <2>4, <2>5, <2>6, <2>7
<1>2. ASSUME SignalRun PROVE Goal
  <2>1. /\ UNCHANGED <<Partners, run, child_pid, write_value, fval, ctl, st>>
        /\ fpc = "signal" /\ fpc' = "wakeChild" /\ child_sync' = RUN
    BY <1>2 DEF SignalRun, fuzzerData, server, serverData, child, childData, history
  <2>2. Modes' BY <2>1 DEF Modes
  <2>3. Ledger' BY <2>1, Same DEF Ledger
  <2>4. Parent' BY <2>1, Same DEF Parent
  <2>5. Word' BY Zenon, <2>1, Messages DEF Modes, Ledger, Parent, Word, Input
  <2>6. Input' BY <2>1 DEF Input
  <2>7. Sleep' BY <2>1 DEF Sleep
  <2> QED BY <2>2, <2>3, <2>4, <2>5, <2>6, <2>7
<1>3. ASSUME WakeChild PROVE Goal
  <2>1. /\ UNCHANGED <<spc, child_stopped, status, cpid, expected, input, done, died_at>>
        /\ UNCHANGED <<run, child_pid, write_value, fval, child_sync, ctl, st>>
        /\ fpc \in {"wakeChild", "giveUpWake"}
        /\ fpc' = IF fpc = "wakeChild" THEN "load" ELSE "giveUpKill"
        /\ cpc' = IF cpc = "asleep" THEN "load" ELSE cpc
    BY <1>3 DEF WakeChild, Woken, fuzzerData, shared, server, serverData, childData, history
  <2>2. Modes' BY <2>1 DEF Modes
  <2>3. Ledger' BY <2>1, Same DEF Ledger
  <2>4. Parent' BY <2>1, Same DEF Parent
  <2>5. Word' BY <2>1 DEF Word
  <2>6. Input' BY <2>1 DEF Input
  <2>7. Sleep' BY <2>1 DEF Sleep
  <2> QED BY <2>2, <2>3, <2>4, <2>5, <2>6, <2>7
<1>4. ASSUME LoadSync PROVE Goal
  <2>1. /\ UNCHANGED <<Partners, run, child_pid, write_value, child_sync, ctl, st>>
        /\ fpc = "load" /\ fval' = child_sync
        /\ \/ child_sync = DONE /\ fpc' = "idle"
           \/ child_sync = EXITED /\ fpc' = "readStatus"
           \/ child_sync \in {IDLE, RUN} /\ fpc' = "giveUp"
           \/ child_sync \in {IDLE, RUN} /\ fpc' = "enter"
    BY <1>4 DEF LoadSync, Modes, shared, server, serverData, child, childData, history
  <2>2. Modes' BY <2>1 DEF Modes
  <2>3. Ledger' BY <2>1, Same DEF Modes, Ledger
  <2>4. Parent' BY <2>1, Same DEF Modes, Parent
  <2>5. Word' BY <2>1 DEF Modes, Word
  <2>6. Input' BY <2>1 DEF Modes, Word, Input
  <2>7. Sleep' BY <2>1 DEF Sleep
  <2> QED BY <2>2, <2>3, <2>4, <2>5, <2>6, <2>7
<1>5. ASSUME GiveUp PROVE Goal
  <2>1. /\ UNCHANGED <<Partners, run, child_pid, write_value, fval, ctl, st>>
        /\ fpc = "giveUp" /\ fpc' = "giveUpWake" /\ child_sync' = EXITED
    BY <1>5 DEF GiveUp, fuzzerData, server, serverData, child, childData, history
  <2>2. Modes' BY <2>1 DEF Modes
  <2>3. Ledger' BY <2>1, Same DEF Ledger
  <2>4. Parent' BY <2>1, Same DEF Parent
  <2>5. Word' BY <2>1, Messages DEF Modes, Ledger, Parent, Word
  <2>6. Input' BY <2>1 DEF Input
  <2>7. Sleep' BY <2>1 DEF Sleep
  <2> QED BY <2>2, <2>3, <2>4, <2>5, <2>6, <2>7
<1>6. ASSUME ReadStatus PROVE Goal
  <2>1. /\ UNCHANGED <<Partners, run, child_pid, write_value, fval, child_sync, ctl>>
        /\ fpc \in {"readStatus", "escalated"} /\ fpc' = "reset"
        /\ st # <<>> /\ st' = Tail(st)
    BY <1>6 DEF ReadStatus, Over, server, serverData, child, childData, history
  <2>2. /\ st = StatusOnly /\ st' = <<>> /\ ctl = <<>>
        /\ spc \in Served \cup Gone
    BY <2>1, Reads DEF Ledger
  <2>3. Modes' BY <2>1 DEF Modes
  <2>4. Ledger' BY <2>1, <2>2 DEF Ledger
  <2>5. ~Active BY <2>2, Messages DEF Parent
  <2>6. Parent' BY <2>1, <2>2, <2>5 DEF Modes, Parent
  <2>7. Word' BY <2>1, <2>5 DEF Word
  <2>8. Input' BY <2>1 DEF Input
  <2>9. Sleep' BY <2>1 DEF Sleep
  <2> QED BY <2>3, <2>4, <2>6, <2>7, <2>8, <2>9
<1>7. ASSUME ResetSync PROVE Goal
  <2>1. /\ UNCHANGED <<Partners, run, write_value, fval, ctl, st>>
        /\ fpc = "reset" /\ fpc' = "idle" /\ child_pid' = -1 /\ child_sync' = IDLE
    BY <1>7 DEF ResetSync, server, serverData, child, childData, history
  <2>2. Modes' BY <2>1 DEF Modes
  <2>3. Ledger' BY <2>1, Same DEF Ledger
  <2>4. Parent' BY <2>1, Same DEF Parent
  <2>5. Word' BY <2>1 DEF Parent, Word
  <2>6. Input' BY <2>1 DEF Modes, Word, Input
  <2>7. Sleep' BY <2>1 DEF Modes, Word, Sleep
  <2> QED BY <2>2, <2>3, <2>4, <2>5, <2>6, <2>7
<1>8. ASSUME Request PROVE Goal
  <2>1. /\ UNCHANGED <<Partners, run, child_pid, write_value, fval, child_sync, st>>
        /\ fpc = "request" /\ fpc' = "readPid" /\ ctl' = Append(ctl, write_value)
    BY <1>8 DEF Request, CommunicationFails, Over, server, serverData, child, childData, history
  <2>2. /\ ctl = <<>> /\ ctl' = <<write_value>> /\ st = <<>>
        /\ spc \in Served \cup Gone
    BY <2>1, Control DEF Ledger
  <2>3. Modes' BY <2>1 DEF Modes
  <2>4. Ledger' BY <2>1, <2>2 DEF Ledger
  <2>5. ~Active BY <2>1 DEF Parent
  <2>6. Parent' BY <2>1, <2>2, <2>5, Same DEF Parent
  <2>7. Word' BY <2>1 DEF Word
  <2>8. Input' BY <2>1 DEF Input
  <2>9. Sleep' BY <2>1 DEF Sleep
  <2> QED BY <2>3, <2>4, <2>6, <2>7, <2>8, <2>9
<1>9. ASSUME ReadPid PROVE Goal
  <2>1. /\ UNCHANGED <<Partners, run, write_value, fval, child_sync, ctl>>
        /\ fpc = "readPid" /\ fpc' = IF UseFutex THEN "load" ELSE "pipeWait"
        /\ st # <<>> /\ st' = Tail(st) /\ child_pid' = Head(st).pid
    BY <1>9 DEF ReadPid, AfterPid, server, serverData, child, childData, history
  <2>2. /\ ctl = <<>> /\ child_pid' = PidMsg(cpid).pid
        /\ \/ st = PidOnly /\ st' = <<>> /\ spc \in {"wait", "relay"} \cup Gone
           \/ st = Both /\ st' = StatusOnly /\ spc \in Served \cup Gone
    BY <2>1, Reads DEF Ledger
  <2>3. child_pid' = cpid BY <2>2 DEF PidMsg
  <2>4. cpid > 0 BY <2>1 DEF Parent
  <2>5. Modes' BY <2>1, <2>3, <2>4 DEF Modes
  <2>6. Ledger' BY Zenon, <2>1, <2>2, Same DEF Ledger
  <2>7. Active => st' = <<>> BY <2>2, Messages DEF Parent
  <2>8. Parent' BY <2>1, <2>2, <2>4, <2>7 DEF Parent
  <2>9. Word' BY <2>1 DEF Word
  <2>10. Input' BY <2>1 DEF Input
  <2>11. Sleep' BY <2>1 DEF Sleep
  <2> QED BY <2>5, <2>6, <2>8, <2>9, <2>10, <2>11
<1>10. ASSUME PipeStatus PROVE Goal
  <2>1. /\ UNCHANGED <<Partners, run, write_value, fval, child_sync, ctl>>
        /\ fpc \in {"pipeWait", "pipeKilled"} /\ fpc' = "idle"
        /\ st # <<>> /\ st' = Tail(st)
    BY <1>10 DEF PipeStatus, Over, server, serverData, child, childData, history
  <2>2. /\ st = StatusOnly /\ st' = <<>> /\ ctl = <<>>
        /\ spc \in Served \cup Gone
    BY <2>1, Reads DEF Ledger
  <2>3. ~UseFutex BY <2>1 DEF Modes
  <2>4. Modes' BY <2>1, <2>3 DEF Modes
  <2>5. Ledger' BY <2>1, <2>2, <2>3 DEF Ledger
  <2>6. ~Active BY <2>2, Messages DEF Parent
  <2>7. Parent' BY <2>1, <2>2, <2>6 DEF Parent
  <2>8. Word' BY <2>1, <2>3, <2>6 DEF Modes, Word
  <2>9. Input' BY <2>1, <2>3, <2>6 DEF Modes, Input
  <2>10. Sleep' BY <2>1 DEF Sleep
  <2> QED BY <2>4, <2>5, <2>7, <2>8, <2>9, <2>10
<1>11. ASSUME PipeKill PROVE Goal
  <2>1. /\ UNCHANGED <<Partners, run, write_value, fval, child_sync, ctl, st>>
        /\ fpc = "pipeKill" /\ fpc' = "pipeKilled"
    BY <1>11 DEF PipeKill, shared, server, serverData, history
  <2>2. Modes' BY <2>1 DEF Modes
  <2>3. Ledger' BY <2>1, Same DEF Ledger
  <2>4. Parent' BY <2>1, Same DEF Parent
  <2>5. Word' BY <2>1 DEF Word
  <2>6. Input' BY <2>1 DEF Input
  <2>7. Sleep' BY <2>1 DEF Sleep
  <2> QED BY <2>2, <2>3, <2>4, <2>5, <2>6, <2>7
<1>12. ASSUME CheckSync \/ EnterWait \/ FutexInterrupted PROVE Goal
  BY <1>12, FuzzerMoves DEF CheckSync, EnterWait, FutexInterrupted, fuzzerData, shared,
       server, serverData, child, childData, history
<1>13. ASSUME FutexTimeout \/ PipeTimeout PROVE Goal
  BY <1>13, FuzzerMoves DEF FutexTimeout, PipeTimeout, fuzzerData, shared, server,
       serverData, child, childData, history
<1>14. ASSUME GiveUpKill \/ GraceExpires PROVE Goal
  BY <1>14, FuzzerMoves DEF GiveUpKill, GraceExpires, fuzzerData, shared, server,
       serverData, history
<1>15. ASSUME ReadFails \/ Shutdown PROVE Goal
  BY <1>15 DEF ReadFails, CommunicationFails, Shutdown, Over
<1> HIDE DEF Goal
<1> QED
  BY <1>1, <1>2, <1>3, <1>4, <1>5, <1>6, <1>7, <1>8, <1>9, <1>10, <1>11, <1>12,
     <1>13, <1>14, <1>15, Zenon DEF FuzzerNext

-----------------------------------------------------------------------------
(* The processes stay in step                                              *)

(* What the invariant says of the fuzzer, and of the child.                *)
FuzzerPart == <<fpc, run, child_pid, write_value, fval>>
ChildPart  == <<cpc, cpid, expected, input, done, died_at>>

(* No step of the fork server does.                                        *)
LEMMA ServerInStep ==
  ASSUME TypeOK, Modes, Ledger, Parent, Word, Input, Sleep, ~Over',
         ServerNext
  PROVE  (Modes /\ Ledger /\ Parent /\ Word /\ Input /\ Sleep)'
<1> DEFINE Goal == (Modes /\ Ledger /\ Parent /\ Word /\ Input /\ Sleep)'
<1> SUFFICES Goal
  OBVIOUS
<1> USE DEF HotPC, PipePC, Served, Gone, Executing, Waiting, Active, AwaitsStatus,
            NoChild, IDLE, RUN, DONE, EXITED, FuzzerPart, ChildPart
<1>1. ASSUME ReadCtl PROVE Goal
  <2>1. /\ UNCHANGED <<FuzzerPart, ChildPart, child_sync, st, status>>
        /\ spc = "read" /\ ctl # <<>> /\ ctl' = Tail(ctl) /\ ~child_stopped'
        /\ spc' \in IF child_stopped THEN {"reap", "cont"} ELSE {"clear"}
    BY <1>1 DEF ReadCtl, AfterCtl, fuzzer, fuzzerData, child, childData, history
  <2>2. Modes' BY <2>1 DEF Modes
  <2>3. Ledger' BY Zenon, <2>1, Same, Control DEF Ledger
  <2>4. Parent'
    <3>1. cpc \in IF child_stopped THEN {"stopped", "zombie"} ELSE {"none"}
      BY <2>1 DEF Parent
    <3> QED BY <2>1, <3>1 DEF Parent
  <2>5. Word' BY <2>1 DEF Word
  <2>6. Input' BY <2>1 DEF Input
  <2>7. Sleep' BY <2>1 DEF Sleep
  <2> QED BY <2>2, <2>3, <2>4, <2>5, <2>6, <2>7
<1>2. ASSUME Reap \/ ForkFails \/ AtExit PROVE Goal
  <2>1. /\ UNCHANGED <<FuzzerPart, cpid, expected, input, done, died_at, child_sync,
                       ctl, st, child_stopped, status>>
        /\ \/ spc = "reap" /\ spc' = "clear" /\ cpc' = "none"
           \/ spc = "fork" /\ spc' = "dead" /\ cpc' = cpc
           \/ spc = "atExit" /\ spc' = "dead" /\ cpc' = "none"
    BY <1>2
    DEF Reap, ForkFails, AtExit, fuzzer, fuzzerData, shared, serverData, child,
        childData, history
  <2>2. Modes' BY <2>1 DEF Modes
  <2>3. Ledger' BY <2>1, Same DEF Ledger
  <2>4. Parent' BY <2>1, Same DEF Parent
  <2>5. Word' BY <2>1 DEF Word
  <2>6. Input' BY <2>1 DEF Input
  <2>7. Sleep' BY <2>1 DEF Sleep
  <2> QED BY <2>2, <2>3, <2>4, <2>5, <2>6, <2>7
<1>3. ASSUME ClearSync PROVE Goal
  <2>1. /\ UNCHANGED <<FuzzerPart, ChildPart, ctl, st, child_stopped, status>>
        /\ spc = "clear" /\ spc' = "fork"
        /\ child_sync' = IF UseFutex THEN IDLE ELSE child_sync
    BY <1>3 DEF ClearSync, ForkSync, fuzzer, fuzzerData, serverData, child,
         childData, history
  <2>2. Modes' BY <2>1 DEF Modes
  <2>3. Ledger' BY <2>1, Same DEF Ledger
  <2>4. Parent' BY <2>1, Same DEF Parent
  <2>5. cpc = "none" /\ fpc = "readPid"
    BY <2>1, Messages DEF Ledger, Parent, Over, TypeOK, ControlTypes
  <2>6. Word' BY Zenon, <2>1, <2>5 DEF Modes, Word
  <2>7. Input' BY <2>1, <2>5 DEF Input
  <2>8. Sleep' BY <2>1, <2>5 DEF Sleep
  <2> QED BY <2>2, <2>3, <2>4, <2>6, <2>7, <2>8
<1>4. ASSUME Fork PROVE Goal
  <2>1. /\ UNCHANGED <<FuzzerPart, expected, done, died_at, child_sync, ctl, st,
                       child_stopped, status>>
        /\ spc = "fork" /\ spc' = "writePid"
        /\ cpc' = "run" /\ cpid' = cpid + 1 /\ input' = run
    BY <1>4 DEF Fork, fuzzer, fuzzerData, shared, serverData, history
  <2>2. fpc = "readPid" /\ ctl = <<>> /\ st = <<>>
    BY <2>1, Messages DEF Over, TypeOK, ControlTypes, Ledger
  <2>3. Modes' BY <2>1, <2>2 DEF Modes
  <2>4. Ledger' BY Zenon, <2>1, <2>2 DEF Ledger
  <2>5. cpid' > 0 BY <2>1 DEF TypeOK, NumberTypes
  <2>6. Parent' BY Zenon, <2>1, <2>2, <2>5 DEF Parent
  <2>7. child_sync = IDLE BY <2>1 DEF Word
  <2>8. Word' BY <2>1, <2>2, <2>7 DEF Word
  <2>9. input < run BY <2>1, <2>2 DEF Input
  <2>10. Input' BY <2>1, <2>2, <2>7, <2>9, InputTaken
  <2>11. Sleep' BY <2>1, <2>2 DEF Sleep
  <2> QED BY <2>3, <2>4, <2>6, <2>8, <2>10, <2>11
<1>5. ASSUME Continue PROVE Goal
  <2>1. /\ UNCHANGED <<FuzzerPart, cpid, expected, done, died_at, child_sync, ctl,
                       st, child_stopped, status>>
        /\ spc = "cont" /\ spc' = "writePid"
        /\ \/ cpc = "stopped" /\ cpc' = "run" /\ input' = run
           \/ cpc # "stopped" /\ cpc' = cpc /\ input' = input
    BY <1>5 DEF Continue, fuzzer, fuzzerData, shared, serverData, history
  <2>2. fpc = "readPid" /\ ctl = <<>> /\ st = <<>>
    BY Zenon, <2>1, Messages DEF Over, TypeOK, ControlTypes, Ledger
  <2>3. Modes' BY <2>1, <2>2 DEF Modes
  <2>4. Ledger' BY Zenon, <2>1, <2>2 DEF Ledger
  <2>5. Parent' BY Zenon, <2>1, <2>2 DEF Parent
  <2>6. Word' BY <2>1, <2>2 DEF Modes, Word
  <2>7. input < run /\ child_sync = IDLE BY <2>1, <2>2 DEF Modes, Input
  <2>8. cpc \in {"stopped", "zombie"} BY <2>1 DEF Parent
  <2>9. Input'
    <3>1. CASE cpc = "stopped"
      <4>1. cpc' = "run" /\ input' = run BY <2>1, <3>1
      <4> QED BY <2>1, <2>2, <2>7, <4>1, InputTaken
    <3>2. CASE cpc = "zombie"
      <4>1. cpc' = "zombie" /\ input' = input BY <2>1, <3>2
      <4> QED BY <2>1, <2>2, <2>7, <4>1 DEF Input
    <3> QED BY <2>8, <3>1, <3>2
  <2>10. Sleep' BY <2>1, <2>2 DEF Sleep
  <2> QED BY <2>3, <2>4, <2>5, <2>6, <2>9, <2>10
<1>6. ASSUME WritePid PROVE Goal
  <2>1. /\ UNCHANGED <<FuzzerPart, ChildPart, child_sync, ctl, child_stopped, status>>
        /\ spc = "writePid" /\ spc' = "wait" /\ st' = Append(st, PidMsg(cpid))
    BY <1>6 DEF WritePid, fuzzer, fuzzerData, serverData, child, childData, history
  <2>2. fpc = "readPid" /\ ctl = <<>> /\ st = <<>>
    BY <2>1, Messages DEF Over, TypeOK, ControlTypes, Ledger
  <2>3. st' = PidOnly' BY <2>1, <2>2, Same, Writes
  <2>4. Modes' BY <2>1, <2>2 DEF Modes
  <2>5. Ledger' BY Zenon, <2>1, <2>2, <2>3 DEF Ledger
  <2>6. Parent' BY Zenon, <2>1, <2>2, <2>3 DEF Parent
  <2>7. Word' BY <2>1, <2>2 DEF Word
  <2>8. Input' BY <2>1, <2>2 DEF Input
  <2>9. Sleep' BY <2>1, <2>2 DEF Sleep
  <2> QED BY <2>4, <2>5, <2>6, <2>7, <2>8, <2>9
<1>7. ASSUME WaitChild PROVE Goal
  <2>1. /\ UNCHANGED <<FuzzerPart, cpid, expected, input, done, died_at, child_sync,
                       ctl, st>>
        /\ spc = "wait" /\ spc' = "relay"
        /\ \/ cpc = "zombie" /\ cpc' = "none" /\ child_stopped' = child_stopped
           \/ cpc = "stopped" /\ cpc' = cpc /\ child_stopped'
    BY <1>7 DEF WaitChild, fuzzer, fuzzerData, shared, childData, history
  <2>2. /\ fpc = "readPid" => ctl = <<>> /\ st = PidOnly
        /\ AwaitsStatus => ctl = <<>> /\ st = <<>>
        /\ ~NoChild
    BY Zenon, <2>1, Messages DEF Ledger
  <2>3. ~child_stopped /\ cpid > 0 BY <2>1 DEF Parent
  <2>4. PidOnly' = PidOnly BY <2>1, Same
  <2>5. Modes' BY <2>1 DEF Modes
  <2>6. Ledger' BY Zenon, <2>1, <2>2, <2>4, Messages DEF Ledger
  <2>7. Parent' BY <2>1, <2>2, <2>3, <2>4 DEF Parent
  <2>8. Word' BY Zenon, <2>1 DEF Word
  <2>9. Input' BY Zenon, <2>1 DEF Input
  <2>10. Sleep' BY <2>1 DEF Sleep
  <2> QED BY <2>5, <2>6, <2>7, <2>8, <2>9, <2>10
<1>8. ASSUME Relay PROVE Goal
  <2>1. /\ UNCHANGED <<FuzzerPart, ChildPart, child_sync, ctl, child_stopped, status>>
        /\ spc = "relay" /\ st' = Append(st, StatusMsg(status))
        /\ spc' = IF UseFutex /\ ~child_stopped THEN "exited" ELSE "read"
    BY <1>8 DEF Relay, fuzzer, fuzzerData, serverData, child, childData, history
  <2>2. Modes' BY <2>1 DEF Modes
  <2>3. Ledger' BY Zenon, <2>1, Same, Writes DEF Ledger
  <2>4. Parent' BY Zenon, <2>1, Same, Writes DEF Parent
  <2>5. Word' BY <2>1 DEF Word
  <2>6. Input' BY <2>1 DEF Input
  <2>7. Sleep' BY <2>1 DEF Sleep
  <2> QED BY <2>2, <2>3, <2>4, <2>5, <2>6, <2>7
<1>9. ASSUME StoreExited PROVE Goal
  <2>1. /\ UNCHANGED <<FuzzerPart, ChildPart, ctl, st, child_stopped, status>>
        /\ spc = "exited" /\ spc' = "wakeFuzzer" /\ child_sync' = EXITED
    BY <1>9 DEF StoreExited, fuzzer, fuzzerData, serverData, child, childData, history
  <2>2. cpc = "none" /\ UseFutex BY <2>1 DEF Modes, Parent
  <2>3. Modes' BY <2>1, <2>2 DEF Modes
  <2>4. Ledger' BY Zenon, <2>1, Same DEF Ledger
  <2>5. Parent' BY Zenon, <2>1, Same DEF Parent
  <2>6. Word' BY <2>1, <2>2 DEF Word
  <2>7. Input' BY <2>1, <2>2 DEF Input
  <2>8. Sleep' BY <2>1, <2>2 DEF Sleep
  <2> QED BY <2>3, <2>4, <2>5, <2>6, <2>7, <2>8
<1>10. ASSUME WakeFuzzer PROVE Goal
  <2>1. cpc = "none" BY <1>10 DEF WakeFuzzer, Parent
  <2>2. /\ UNCHANGED <<ChildPart, run, child_pid, write_value, fval, child_sync, ctl,
                       st, child_stopped, status>>
        /\ spc = "wakeFuzzer" /\ spc' = "read"
        /\ fpc' = fpc \/ (fpc = "asleep" /\ fpc' = "load")
    BY <1>10, <2>1
    DEF WakeFuzzer, Sleepers, fuzzerData, shared, serverData, childData, history
  <2>3. Modes' BY <2>2 DEF Modes
  <2>4. Ledger' BY Zenon, <2>2, Same DEF Ledger
  <2>5. Parent' BY Zenon, <2>1, <2>2, Same DEF Modes, Parent
  <2>6. Word' BY Zenon, <2>1, <2>2 DEF Word
  <2>7. Input' BY <2>1, <2>2 DEF Input
  <2>8. Sleep' BY <2>1, <2>2 DEF Sleep
  <2> QED BY <2>3, <2>4, <2>5, <2>6, <2>7, <2>8
<1> HIDE DEF Goal
<1> QED
  BY <1>1, <1>2, <1>3, <1>4, <1>5, <1>6, <1>7, <1>8, <1>9, <1>10, Zenon
  DEF ServerNext

(* The death of a child leaves nobody out of step.                         *)
LEMMA ChildDies ==
  ASSUME TypeOK, Modes, Ledger, Parent, Word, Input, Sleep,
         UNCHANGED <<FuzzerPart, child_sync, ctl, st, spc, child_stopped, status,
                     cpid, input>>,
         cpc # "none", cpc' = "zombie", died_at' = run,
         done' = done \/ (cpc = "run" /\ done' = input)
  PROVE  (Modes /\ Ledger /\ Parent /\ Word /\ Input /\ Sleep)'
<1> USE DEF FuzzerPart, Executing, Waiting, Active
<1>1. AwaitsStatus' = AwaitsStatus /\ NoChild' = NoChild
  BY DEF AwaitsStatus, NoChild
<1>2. Modes' BY DEF Modes
<1>3. Ledger' BY Zenon, <1>1, Same DEF Ledger
<1>4. Parent' BY <1>1, Same DEF Parent
<1>5. Word' BY <1>1 DEF Word
<1>6. Input'
  <2>1. CASE done' = done BY <2>1, InputDies
  <2>2. CASE cpc = "run" /\ done' = input
    <3>1. child_sync # DONE BY <2>2 DEF Word
    <3>2. input \in Int /\ run \in Int /\ run <= run /\ input <= input
      BY DEF TypeOK, NumberTypes
    <3> QED BY <2>2, <3>1, <3>2 DEF Input
  <2> QED BY <2>1, <2>2
<1>7. Sleep' BY DEF Sleep
<1> QED BY <1>2, <1>3, <1>4, <1>5, <1>6, <1>7

(* No step of the child loses step either, nor does the delivery of a      *)
(* signal to it.                                                           *)
LEMMA ChildInStep ==
  ASSUME TypeOK, Modes, Ledger, Parent, Word, Input, Sleep, ~Over',
         ChildNext \/ Deliver
  PROVE  (Modes /\ Ledger /\ Parent /\ Word /\ Input /\ Sleep)'
<1> DEFINE Goal == (Modes /\ Ledger /\ Parent /\ Word /\ Input /\ Sleep)'
<1> SUFFICES Goal
  OBVIOUS
<1> USE DEF Executing, Waiting, Active, IDLE, RUN, DONE, EXITED, FuzzerPart
<1>1. ASSUME Finish PROVE Goal
  <2>1. /\ UNCHANGED <<FuzzerPart, child_sync, ctl, st, spc, child_stopped, status,
                       cpid, input>>
        /\ cpc = "run" /\ done' = input
        /\ \/ cpc' = "zombie" /\ died_at' = run
           \/ UseFutex /\ cpc' = "cas" /\ expected' = RUN /\ died_at' = died_at
           \/ ~UseFutex /\ cpc' = "stopped" /\ died_at' = died_at
    BY <1>1 DEF Finish, Die, fuzzer, fuzzerData, shared, server, serverData
  <2>2. CASE cpc' = "zombie" /\ died_at' = run BY <2>1, <2>2, ChildDies
  <2>3. CASE cpc' # "zombie"
    <3>1. AwaitsStatus' = AwaitsStatus /\ NoChild' = NoChild
      BY <2>1 DEF AwaitsStatus, NoChild
    <3>2. Modes' BY <2>1, <2>3 DEF Modes
    <3>3. Ledger' BY Zenon, <2>1, <3>1, Same DEF Ledger
    <3>4. Parent' BY <2>1, <2>3, <3>1, Same DEF Parent
    <3>5. Word' BY <2>1, <2>3, <3>1 DEF Word
    <3>6. input = run /\ child_sync # DONE /\ input <= input
      BY <2>1 DEF Word, Input, TypeOK, NumberTypes
    <3>7. Input' BY <2>1, <2>3, <3>6 DEF Input
    <3>8. Sleep' BY <2>1, <2>3 DEF Sleep
    <3> QED BY <3>2, <3>3, <3>4, <3>5, <3>7, <3>8
  <2> QED BY <2>1, <2>2, <2>3
<1>2. ASSUME Crash \/ ExecFails \/ IdleDeath PROVE Goal
  <2>1. /\ UNCHANGED <<FuzzerPart, child_sync, ctl, st, spc, child_stopped, status,
                       cpid, input, done>>
        /\ cpc # "none" /\ cpc' = "zombie" /\ died_at' = run
    BY Zenon, <1>2 DEF Crash, ExecFails, IdleDeath, Die, fuzzer, fuzzerData, shared, server,
         serverData
  <2> QED BY <2>1, ChildDies
<1>3. ASSUME CompareExchange PROVE Goal
  <2>1. /\ UNCHANGED <<FuzzerPart, ctl, st, spc, child_stopped, status, cpid, input,
                       done>>
        /\ cpc = "cas"
        /\ \/ /\ child_sync = expected /\ child_sync' = DONE /\ cpc' = "wake"
              /\ UNCHANGED <<expected, died_at>>
           \/ /\ child_sync # expected /\ child_sync # EXITED
              /\ expected' = child_sync
              /\ UNCHANGED <<child_sync, cpc, died_at>>
           \/ child_sync' = child_sync /\ cpc' = "zombie" /\ died_at' = run
    BY <1>3 DEF CompareExchange, Die, fuzzer, fuzzerData, server, serverData
  <2>2. CASE child_sync' = child_sync /\ cpc' = "zombie" /\ died_at' = run
    BY <2>1, <2>2, ChildDies
  <2>3. CASE cpc' # "zombie"
    <3>1. AwaitsStatus' = AwaitsStatus /\ NoChild' = NoChild
      BY <2>1 DEF AwaitsStatus, NoChild
    <3>2. Modes' BY <2>1, <2>3 DEF Modes
    <3>3. Ledger' BY Zenon, <2>1, <3>1, Same DEF Ledger
    <3>4. Parent' BY Zenon, <2>1, <2>3, <3>1, Same DEF Parent
    <3>5. Word'
      <4>1. /\ ~NoChild /\ spc # "fork"
            /\ child_sync # DONE /\ expected \in {RUN, IDLE}
        BY <2>1 DEF Parent, Word
      <4>2. child_sync \in {IDLE, RUN, EXITED}
        BY <4>1 DEF TypeOK, ValueTypes, SyncState
      <4> QED BY <2>1, <2>3, <3>1, <4>1, <4>2 DEF Word
    <3>6. Input' BY <2>1, <2>3 DEF Input
    <3>7. Sleep' BY <2>1, <2>3 DEF Sleep
    <3> QED BY <3>2, <3>3, <3>4, <3>5, <3>6, <3>7
  <2> QED BY <2>1, <2>2, <2>3
<1>4. ASSUME ChildWake PROVE Goal
  <2>1. /\ UNCHANGED <<run, child_pid, write_value, fval, child_sync, ctl, st, spc,
                       child_stopped, status, cpid, expected, input, done, died_at>>
        /\ cpc = "wake" /\ cpc' = "load"
        /\ fpc' = IF fpc = "asleep" THEN "load" ELSE fpc
    BY <1>4 DEF ChildWake, Woken, fuzzerData, shared, server, serverData, childData,
         history
  <2>2. AwaitsStatus' = AwaitsStatus /\ NoChild' = NoChild
    BY <2>1 DEF AwaitsStatus, NoChild, HotPC
  <2>3. Modes' BY <2>1 DEF Modes, HotPC, PipePC
  <2>4. Ledger' BY Zenon, <2>1, <2>2, Same DEF Ledger
  <2>5. Parent' BY Zenon, <2>1, <2>2, Same DEF Parent
  <2>6. Word' BY <2>1, <2>2 DEF Word
  <2>7. Input' BY <2>1 DEF Input
  <2>8. Sleep' BY <2>1 DEF Sleep
  <2> QED BY <2>3, <2>4, <2>5, <2>6, <2>7, <2>8
<1>5. ASSUME ChildLoad PROVE Goal
  <2>1. /\ UNCHANGED <<FuzzerPart, child_sync, ctl, st, spc, child_stopped, status,
                       cpid, expected, done>>
        /\ cpc = "load"
        /\ \/ /\ child_sync = DONE /\ cpc' = "enter"
              /\ UNCHANGED <<input, died_at>>
           \/ cpc' = "zombie" /\ died_at' = run /\ input' = input
           \/ /\ child_sync \in {IDLE, RUN} /\ cpc' = "run" /\ input' = run
              /\ died_at' = died_at
    BY Zenon, <1>5 DEF ChildLoad, Die, fuzzer, fuzzerData, shared, server, serverData
  <2>2. CASE cpc' = "zombie" /\ died_at' = run /\ input' = input
    BY Zenon, <2>1, <2>2, ChildDies
  <2>3. CASE cpc' # "zombie"
    <3>1. AwaitsStatus' = AwaitsStatus /\ NoChild' = NoChild
      BY Zenon, <2>1 DEF AwaitsStatus, NoChild
    <3>2. Modes' BY Zenon, <2>1, <2>3 DEF Modes
    <3>3. Ledger' BY Zenon, <2>1, <3>1, Same DEF Ledger
    <3>4. child_sync = RUN => fpc \in {"wakeChild", "load", "enter", "asleep", "giveUp"}
      BY DEF Word
    <3>5. Parent' BY Zenon, <2>1, <2>3, <3>1, Same DEF Parent
    <3>6. Word' BY Zenon, <2>1, <2>3, <3>1 DEF Word
    <3>7. Input'
      <4>1. CASE cpc' = "enter" BY Zenon, <2>1, <4>1 DEF Input
      <4>2. CASE cpc' = "run"
        <5>1. child_sync = RUN BY <2>1, <4>2 DEF Word
        <5>2. input < run BY <2>1, <5>1 DEF Input
        <5> QED BY <2>1, <3>4, <4>2, <5>1, <5>2, InputTaken
      <4> QED BY <2>1, <2>3, <4>1, <4>2
    <3>8. Sleep' BY <2>1, <2>3 DEF Sleep
    <3> QED BY <3>2, <3>3, <3>5, <3>6, <3>7, <3>8
  <2> QED BY Zenon, <2>1, <2>2, <2>3
<1>6. ASSUME ChildEnter PROVE Goal
  <2>1. /\ UNCHANGED <<FuzzerPart, child_sync, ctl, st, spc, child_stopped, status,
                       cpid, expected, input, done, died_at>>
        /\ cpc = "enter"
        /\ cpc' = IF child_sync = DONE THEN "asleep" ELSE "load"
    BY <1>6 DEF ChildEnter, fuzzer, fuzzerData, shared, server, serverData, childData,
         history
  <2>2. AwaitsStatus' = AwaitsStatus /\ NoChild' = NoChild
    BY <2>1 DEF AwaitsStatus, NoChild
  <2>3. Modes' BY <2>1 DEF Modes
  <2>4. Ledger' BY Zenon, <2>1, <2>2, Same DEF Ledger
  <2>5. Parent' BY Zenon, <2>1, <2>2, Same DEF Parent
  <2>6. Word' BY Zenon, <2>1, <2>2 DEF Word
  <2>7. Input' BY Zenon, <2>1 DEF Input
  <2>8. Sleep' BY <2>1 DEF Sleep
  <2> QED BY <2>3, <2>4, <2>5, <2>6, <2>7, <2>8
<1>7. ASSUME Deliver PROVE Goal
  <2>1. /\ UNCHANGED <<FuzzerPart, child_sync, ctl, st, spc, child_stopped, status,
                       cpid, expected, input, done>>
        /\ cpc # "none"
        /\ \/ cpc' = "zombie" /\ died_at' = run
           \/ cpc' = cpc /\ died_at' = died_at
           \/ cpc = "asleep" /\ cpc' = "load" /\ died_at' = died_at
    BY Zenon, <1>7
    DEF Deliver, Alive, Die, fuzzer, fuzzerData, shared, server, serverData
  <2>2. CASE cpc' = "zombie" /\ died_at' = run BY <2>1, <2>2, ChildDies
  <2>3. CASE /\ cpc' = cpc \/ (cpc = "asleep" /\ cpc' = "load")
             /\ died_at' = died_at
    <3>1. AwaitsStatus' = AwaitsStatus /\ NoChild' = NoChild
      BY <2>1 DEF AwaitsStatus, NoChild
    <3>2. Modes' BY <2>1, <2>3 DEF Modes
    <3>3. Ledger' BY Zenon, <2>1, <3>1, Same DEF Ledger
    <3>4. Parent' BY Zenon, <2>1, <2>3, <3>1, Same DEF Parent
    <3>5. Word' BY <2>1, <2>3, <3>1 DEF Word
    <3>6. Input' BY Zenon, <2>1, <2>3 DEF Input
    <3>7. Sleep' BY <2>1, <2>3 DEF Sleep
    <3> QED BY <3>2, <3>3, <3>4, <3>5, <3>6, <3>7
  <2> QED BY <2>1, <2>2, <2>3
<1> HIDE DEF Goal
<1> QED BY <1>1, <1>2, <1>3, <1>4, <1>5, <1>6, <1>7, Zenon DEF ChildNext

(* Neither does the user's stop signal; the other steps at the end of a    *)
(* session leave nothing to show.                                          *)
LEMMA EndInStep ==
  ASSUME InStep,
         UserStop \/ FuzzerDies \/ ParentDeathSignal \/ Terminated
  PROVE  InStep'
<1>1. CASE UserStop
  <2> SUFFICES ASSUME ~Over'
               PROVE  (Modes /\ Ledger /\ Parent /\ Word /\ Input /\ Sleep)'
    BY DEF InStep
  <2>1. /\ UNCHANGED <<FuzzerPart, ChildPart, child_sync, ctl, st, child_stopped,
                       status>>
        /\ spc' \in Gone
    BY Zenon, <1>1
    DEF UserStop, KillBoth, FuzzerPart, ChildPart, shared, serverData, history, Gone
  <2>2. Modes /\ Ledger /\ Parent /\ Word /\ Input /\ Sleep
    BY <1>1 DEF UserStop, InStep
  <2> USE DEF FuzzerPart, ChildPart, Gone, Executing, Waiting, Active
  <2>3. AwaitsStatus' = AwaitsStatus /\ NoChild' = NoChild
    BY <2>1 DEF AwaitsStatus, NoChild
  <2>4. Modes' BY Zenon, <2>1, <2>2 DEF Modes
  <2>5. Ledger' BY Zenon, <2>1, <2>2, <2>3, Same DEF Ledger
  <2>6. Parent' BY Zenon, <2>1, <2>2, <2>3, Same DEF Parent
  <2>7. Word' BY Zenon, <2>1, <2>2, <2>3 DEF Word
  <2>8. Input' BY Zenon, <2>1, <2>2 DEF Input
  <2>9. Sleep' BY <2>1, <2>2 DEF Sleep
  <2> QED BY <2>4, <2>5, <2>6, <2>7, <2>8, <2>9
<1>2. CASE FuzzerDies \/ ParentDeathSignal
  BY Zenon, <1>2 DEF FuzzerDies, ParentDeathSignal, InStep, Over, fuzzer
<1>3. CASE Terminated
  <2>1. Over /\ UNCHANGED fpc BY <1>3 DEF Terminated, vars, fuzzer
  <2> QED BY <2>1 DEF InStep, Over
<1> QED BY <1>1, <1>2, <1>3

(* A session that is over stays so.                                        *)
LEMMA OverStays ==
  ASSUME Over, [Next]_vars
  PROVE  Over'
<1>1. CASE FuzzerNext
  BY ZenonT(30), <1>1
  DEF FuzzerNext, StartRun, CheckSync, SignalRun, WakeChild, LoadSync, EnterWait,
      FutexTimeout, FutexInterrupted, GiveUp, GiveUpKill, ReadStatus, GraceExpires,
      ResetSync, Request, ReadPid, PipeStatus, PipeTimeout, PipeKill, ReadFails,
      Shutdown, CommunicationFails, Over
<1>2. CASE UNCHANGED fuzzer BY <1>2 DEF fuzzer, Over
<1>3. CASE ReadCtl \/ Reap \/ ClearSync \/ Fork \/ ForkFails \/ Continue
  BY Zenon, <1>2, <1>3 DEF ReadCtl, Reap, ClearSync, Fork, ForkFails, Continue
<1>4. CASE WritePid \/ WaitChild \/ Relay \/ StoreExited \/ AtExit
  BY <1>2, <1>4 DEF WritePid, WaitChild, Relay, StoreExited, AtExit
<1>5. CASE WakeFuzzer BY <1>5 DEF WakeFuzzer, Sleepers, Over
<1>6. CASE ChildNext \/ Deliver
  <2>1. UNCHANGED fuzzer \/ fpc' = Woken(fpc)
    BY ZenonT(30), <1>6
    DEF ChildNext, Finish, Crash, ExecFails, CompareExchange, ChildWake, ChildLoad,
        ChildEnter, IdleDeath, Deliver
  <2> QED BY <1>2, <2>1 DEF Woken, Over
<1>7. CASE UserStop \/ FuzzerDies \/ ParentDeathSignal \/ Terminated
  BY Zenon, <1>2, <1>7 DEF UserStop, FuzzerDies, ParentDeathSignal, Terminated, Over, vars
<1>8. CASE UNCHANGED vars BY <1>2, <1>8 DEF vars
<1> QED BY <1>1, <1>3, <1>4, <1>5, <1>6, <1>7, <1>8 DEF Next, ServerNext

(* A fork server that has just been started is in step.                    *)
LEMMA InStepInit == Init => InStep
<1> SUFFICES ASSUME Init PROVE InStep OBVIOUS
<1> USE ConstantsAssumption
    DEF Init, HotPC, PipePC, Served, Gone, Executing, Waiting, Active,
        AwaitsStatus, NoChild, IDLE, RUN, DONE, EXITED
<1>1. Modes BY DEF Modes
<1>2. Ledger BY DEF Ledger
<1>3. Parent BY DEF Parent
<1>4. Word BY Zenon DEF Word
<1>5. Input BY DEF Input
<1>6. Sleep BY DEF Sleep
<1> QED BY <1>1, <1>2, <1>3, <1>4, <1>5, <1>6 DEF InStep

(* A step that changes nothing keeps the invariant.                        *)
LEMMA InStepStutter ==
  ASSUME InStep, UNCHANGED vars
  PROVE  InStep'
<1>1. /\ UNCHANGED <<FuzzerPart, ChildPart, child_sync, ctl, st>>
      /\ UNCHANGED <<spc, child_stopped, status>>
  BY DEF vars, fuzzerData, fuzzer, shared, serverData, server, childData, child,
         history, FuzzerPart, ChildPart
<1> USE <1>1 DEF FuzzerPart, ChildPart
<1>2. Over' = Over BY DEF Over
<1>3. /\ AwaitsStatus' = AwaitsStatus /\ NoChild' = NoChild
      /\ Executing' = Executing /\ Waiting' = Waiting /\ Active' = Active
  BY DEF AwaitsStatus, NoChild, Executing, Waiting, Active
<1>4. Modes' = Modes BY <1>3 DEF Modes
<1>5. Ledger' = Ledger BY Zenon, <1>3, Same DEF Ledger
<1>6. Parent' = Parent BY Zenon, <1>3, Same DEF Parent
<1>7. Word' = Word BY Zenon, <1>3 DEF Word
<1>8. Input' = Input BY Zenon, <1>3 DEF Input
<1>9. Sleep' = Sleep BY DEF Sleep
<1> QED BY <1>2, <1>4, <1>5, <1>6, <1>7, <1>8, <1>9, Zenon DEF InStep

(* In every mode, whatever the target does and whenever signals, timeouts  *)
(* and stops arrive, the fuzzer, the fork server and the child agree on    *)
(* which of them moves next, on what the pipes hold and on the test case.  *)
THEOREM StaysInStep == Spec => []IInv
<1>1. Init => IInv BY TypeInit, InStepInit DEF IInv
<1>2. IInv /\ [Next]_vars => IInv'
  <2> SUFFICES ASSUME IInv, [Next]_vars PROVE IInv'
    OBVIOUS
  <2>1. TypeOK' BY TypeStep DEF IInv
  <2>2. CASE UNCHANGED vars BY <2>1, <2>2, InStepStutter DEF IInv
  <2>3. CASE FuzzerNext
    BY <2>1, <2>3, OverStays, FuzzerInStep DEF IInv, InStep
  <2>4. CASE ServerNext
    BY <2>1, <2>4, OverStays, ServerInStep DEF IInv, InStep
  <2>5. CASE ChildNext \/ Deliver
    BY <2>1, <2>5, OverStays, ChildInStep DEF IInv, InStep
  <2>6. CASE UserStop \/ FuzzerDies \/ ParentDeathSignal \/ Terminated
    BY <2>1, <2>6, EndInStep DEF IInv
  <2> QED BY <2>2, <2>3, <2>4, <2>5, <2>6 DEF Next
<1> QED BY <1>1, <1>2, PTL DEF Spec

-----------------------------------------------------------------------------
(* What follows from it                                                    *)

(* A child executes only the test case of the run in progress, and never   *)
(* while the fuzzer is free to write the next one.                         *)
THEOREM InputNeverTorn == Spec => []NoTornInput
<1>1. IInv => NoTornInput
  BY DEF IInv, InStep, Input, Executing, NoTornInput
<1> QED BY <1>1, StaysInStep, PTL

(* afl_fsrv_run_target never reads a status where the server wrote a pid,  *)
(* nor a pid where it wrote a status.                                      *)
THEOREM PipesStayInSync == Spec => []PipesInSync
<1>1. ASSUME IInv PROVE PipesInSync
  <2>1. CASE fpc = "readPid" /\ st # <<>>
    <3>1. st = PidOnly \/ st = Both
      BY <1>1, <2>1 DEF IInv, InStep, Over, Ledger
    <3>2. Head(st) = PidMsg(cpid) BY <3>1, Reads
    <3> QED BY <2>1, <3>2 DEF PipesInSync, PidMsg
  <2>2. CASE /\ fpc \in {"readStatus", "escalated", "pipeWait", "pipeKill",
                         "pipeKilled"}
             /\ st # <<>>
    <3>1. st = StatusOnly
      BY <1>1, <2>2 DEF IInv, InStep, Over, Ledger, AwaitsStatus, HotPC, PipePC
    <3>2. Head(st) = StatusMsg(status) BY <3>1, Reads
    <3> QED BY <2>2, <3>2 DEF PipesInSync, StatusMsg
  <2> QED BY <2>1, <2>2 DEF PipesInSync
<1> QED BY <1>1, StaysInStep, PTL

(* Fuzzer and child never sleep on child_sync together, so the single      *)
(* waiter each FUTEX_WAKE wakes is the one that must go on.                *)
THEOREM NeverTwoSleepers == Spec => []OneSleeper
<1>1. IInv => OneSleeper
  BY DEF IInv, InStep, Over, Sleep, OneSleeper, DONE
<1> QED BY <1>1, StaysInStep, PTL

(* The compare-and-swap loop of __afl_persistent_loop ends after a second  *)
(* attempt.                                                                *)
THEOREM CasLoopEnds == Spec => []CasTwice
<1>1. IInv => CasTwice
  BY DEF IInv, InStep, Word, CasTwice, RUN, IDLE, EXITED
<1> QED BY <1>1, StaysInStep, PTL
=============================================================================
