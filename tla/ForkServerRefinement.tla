------------------------ MODULE ForkServerRefinement ------------------------
(***************************************************************************)
(* Proof that ForkServer implements Execution, on top of the invariants of *)
(* ForkServerProofs: whatever the fuzzer, the fork server and the child    *)
(* do, each test case is executed at most once and the result              *)
(* afl_fsrv_run_target returns is what happened to the target.  The last   *)
(* section says so in terms of the child.                                  *)
(***************************************************************************)
EXTENDS ForkServerProofs

-----------------------------------------------------------------------------
(* The invariant                                                           *)

(* A wait status is on its way to the fuzzer; it is that of a death.       *)
OnItsWay   == spc = "relay" \/ st \in {StatusOnly, Both}
DeathComes == OnItsWay /\ status # "stopped"

(* A child that is dead although it was not executing the test case of     *)
(* this run died while it waited, or was killed over a timeout.            *)
OutOfTurn == input < run \/ fpc = "idle" \/ child_sync = DONE \/ child_stopped
Excused   == "idleDeath" \in Faults \/ last_run_timed_out

(* A stop takes the server with it; a child that took the test case of     *)
(* this run and is dead died in this run; a child the server sees stopped  *)
(* has finished the test case of this run.                                 *)
Grounds ==
  /\ exec_fail => Faux
  /\ input = run /\ ~Alive => died_at = run
  /\ UseFutex => status # "stopped"
  /\ stop_soon => spc \in Gone
  /\ ~stop_soon /\ spc \in Gone => cpc = "none" /\ st = <<>> /\ fpc = "readPid"
  /\ cpc = "stopped" /\ spc \in {"writePid", "wait"} => done = run /\ input = run

(* The zombie that waits to be reaped.                                     *)
Zombie ==
  ~stop_soon /\ cpc = "zombie" =>
    /\ wstatus = "killed" => last_run_timed_out \/ Condemned
    /\ OutOfTurn => Excused \/ Condemned

(* The status in the pipe, and the status the fuzzer has read.             *)
Reported ==
  /\ OnItsWay /\ status = "stopped" => done = run /\ input = run
  /\ DeathComes => /\ status = wstatus /\ cpc = "none"
                   /\ status = "killed" => last_run_timed_out
                   /\ OutOfTurn => Excused
  /\ fpc = "reset" => /\ child_status = wstatus /\ cpc = "none"
                      /\ child_status = "killed" => last_run_timed_out
                      /\ input < run => Excused

Truth == ~Over => Grounds /\ Zombie /\ Reported
TInv  == SInv /\ Truth

-----------------------------------------------------------------------------
(* Every step keeps it                                                     *)

(* The fuzzer takes no status but that of the child it asked for.          *)
LEMMA FuzzerTruth ==
  ASSUME TInv, ~Over, ~Over', FuzzerNext
  PROVE  (Grounds /\ Zombie /\ Reported)'
<1>0. /\ TypeOK /\ Modes /\ Ledger /\ Parent /\ Word /\ Input
      /\ Departed /\ (~stop_soon => Justified)
      /\ Grounds /\ Zombie /\ Reported
  BY DEF TInv, SInv, IInv, InStep, Signals, Truth
<1> USE <1>0, Same DEF HotPC, PipePC, Served, Gone, Executing, Waiting, Active,
        AwaitsStatus, NoChild, Alive, Condemned, OnItsWay, DeathComes, OutOfTurn,
        Excused, IDLE, RUN, DONE, EXITED, fuzzerData, fuzzer, shared, serverData,
        server, childData, child, history
<1>1. CASE StartRun
  <2>1. Grounds'
    BY <1>1 DEF StartRun, Grounds, Modes, Ledger, Input, TypeOK, NumberTypes
  <2>2. Zombie' BY <1>1 DEF StartRun, Zombie
  <2>3. Reported' BY <1>1, Messages DEF StartRun, Reported, Ledger, Grounds
  <2> QED BY <2>1, <2>2, <2>3
<1>2. CASE CheckSync
  <2>1. Grounds' BY <1>2 DEF CheckSync, Grounds
  <2>2. Zombie' BY <1>2 DEF CheckSync, AfterCheck, Zombie
  <2>3. Reported' BY <1>2 DEF CheckSync, AfterCheck, Reported
  <2> QED BY <2>1, <2>2, <2>3
<1>3. CASE SignalRun
  <2>1. Grounds' BY <1>3 DEF SignalRun, Grounds
  <2>2. Zombie' BY <1>3 DEF SignalRun, Zombie
  <2>3. Reported' BY <1>3 DEF SignalRun, Reported
  <2> QED BY <2>1, <2>2, <2>3
<1>4. CASE WakeChild
  <2>1. Grounds' BY <1>4 DEF WakeChild, Woken, Grounds
  <2>2. Zombie' BY <1>4 DEF WakeChild, Woken, Zombie
  <2>3. Reported' BY <1>4 DEF WakeChild, Woken, Reported
  <2> QED BY <2>1, <2>2, <2>3
<1>5. CASE LoadSync
  <2>1. Grounds' BY <1>5 DEF LoadSync, Grounds
  <2>2. Zombie' BY <1>5 DEF LoadSync, Zombie
  <2>3. Reported' BY <1>5 DEF LoadSync, Reported
  <2> QED BY <2>1, <2>2, <2>3
<1>6. CASE EnterWait
  <2>1. Grounds' BY <1>6 DEF EnterWait, Grounds
  <2>2. Zombie' BY <1>6 DEF EnterWait, Zombie
  <2>3. Reported' BY <1>6 DEF EnterWait, Reported
  <2> QED BY <2>1, <2>2, <2>3
<1>7. CASE FutexTimeout
  <2>1. Grounds' BY <1>7 DEF FutexTimeout, Grounds
  <2>2. Zombie' BY <1>7 DEF FutexTimeout, Zombie
  <2>3. Reported' BY <1>7 DEF FutexTimeout, Reported
  <2> QED BY <2>1, <2>2, <2>3
<1>8. CASE FutexInterrupted
  <2>1. Grounds' BY <1>8 DEF FutexInterrupted, Grounds
  <2>2. Zombie' BY <1>8 DEF FutexInterrupted, Zombie
  <2>3. Reported' BY <1>8 DEF FutexInterrupted, Reported
  <2> QED BY <2>1, <2>2, <2>3
<1>9. CASE GiveUp
  <2>1. Grounds' BY <1>9 DEF GiveUp, Grounds
  <2>2. Zombie' BY <1>9 DEF GiveUp, Zombie
  <2>3. Reported' BY <1>9 DEF GiveUp, Reported
  <2> QED BY <2>1, <2>2, <2>3
<1>10. CASE GiveUpKill
  <2>1. Grounds' BY <1>10 DEF GiveUpKill, Grounds
  <2>2. Zombie' BY <1>10 DEF GiveUpKill, Zombie
  <2>3. Reported' BY <1>10 DEF GiveUpKill, Reported
  <2> QED BY <2>1, <2>2, <2>3
<1>11. CASE ReadStatus
  <2>1. Grounds' BY <1>11 DEF ReadStatus, Grounds
  <2>2. Zombie' BY <1>11 DEF ReadStatus, Zombie
  <2>3. Reported'
    BY <1>11, Reads DEF ReadStatus, Reported, Modes, Ledger, Grounds,
       StatusMsg
  <2> QED BY <2>1, <2>2, <2>3
<1>12. CASE GraceExpires
  <2>1. Grounds' BY <1>12 DEF GraceExpires, Grounds
  <2>2. Zombie' BY <1>12 DEF GraceExpires, Zombie
  <2>3. Reported' BY <1>12 DEF GraceExpires, Reported
  <2> QED BY <2>1, <2>2, <2>3
<1>13. CASE ResetSync
  <2>1. Grounds' BY <1>13 DEF ResetSync, Grounds
  <2>2. Zombie' BY <1>13 DEF ResetSync, Zombie, Ledger, Parent, Grounds
  <2>3. Reported' BY <1>13, Messages DEF ResetSync, Reported, Ledger
  <2> QED BY <2>1, <2>2, <2>3
<1>14. CASE Request
  <2>1. Grounds' BY <1>14 DEF Request, Grounds
  <2>2. Zombie'
    BY <1>14 DEF Request, Zombie, Ledger, Parent, Grounds, Justified
  <2>3. Reported'
    BY <1>14, Messages DEF Request, CommunicationFails, Reported, Ledger
  <2> QED BY <2>1, <2>2, <2>3
<1>15. CASE ReadPid
  <2>1. Grounds' BY <1>15 DEF ReadPid, Grounds
  <2>2. Zombie' BY <1>15 DEF ReadPid, AfterPid, Zombie, Ledger
  <2>3. Reported'
    BY <1>15, Messages, Reads DEF ReadPid, AfterPid, Reported, Ledger
  <2> QED BY <2>1, <2>2, <2>3
<1>16. CASE PipeStatus
  <2>1. Grounds' BY <1>16 DEF PipeStatus, Grounds
  <2>2. Zombie' BY <1>16 DEF PipeStatus, Zombie, Ledger, Parent, Grounds
  <2>3. Reported' BY <1>16, Messages, Reads DEF PipeStatus, Reported, Ledger
  <2> QED BY <2>1, <2>2, <2>3
<1>17. CASE PipeTimeout
  <2>1. Grounds' BY <1>17 DEF PipeTimeout, Grounds
  <2>2. Zombie' BY <1>17 DEF PipeTimeout, Zombie
  <2>3. Reported' BY <1>17 DEF PipeTimeout, Reported
  <2> QED BY <2>1, <2>2, <2>3
<1>18. CASE PipeKill
  <2>1. Grounds' BY <1>18 DEF PipeKill, Grounds
  <2>2. Zombie' BY <1>18 DEF PipeKill, Zombie
  <2>3. Reported' BY <1>18 DEF PipeKill, Reported
  <2> QED BY <2>1, <2>2, <2>3
<1>19. CASE ReadFails
  BY <1>19 DEF ReadFails, CommunicationFails, Over
<1>20. CASE Shutdown
  BY <1>20 DEF Shutdown, Over
<1> QED BY <1>1, <1>2, <1>3, <1>4, <1>5, <1>6, <1>7, <1>8, <1>9, <1>10, <1>11,
  <1>12, <1>13, <1>14, <1>15, <1>16, <1>17, <1>18, <1>19, <1>20 DEF FuzzerNext

(* The server relays what waitpid told it of the child of this run.        *)
LEMMA ServerTruth ==
  ASSUME TInv, ~Over, ~Over', ServerNext
  PROVE  (Grounds /\ Zombie /\ Reported)'
<1>0. /\ TypeOK /\ Modes /\ Ledger /\ Parent /\ Word /\ Input
      /\ Departed /\ (~stop_soon => Justified)
      /\ Grounds /\ Zombie /\ Reported
  BY DEF TInv, SInv, IInv, InStep, Signals, Truth
<1> USE <1>0, Same DEF HotPC, PipePC, Served, Gone, Executing, Waiting, Active,
        AwaitsStatus, NoChild, Alive, Condemned, OnItsWay, DeathComes, OutOfTurn,
        Excused, IDLE, RUN, DONE, EXITED, fuzzerData, fuzzer, shared, serverData,
        server, childData, child, history
<1>1. CASE ReadCtl
  <2>1. Grounds' BY <1>1 DEF ReadCtl, AfterCtl, Grounds
  <2>2. Zombie' BY <1>1, Control DEF ReadCtl, AfterCtl, Zombie, Ledger
  <2>3. Reported' BY <1>1 DEF ReadCtl, AfterCtl, Reported
  <2> QED BY <2>1, <2>2, <2>3
<1>2. CASE Reap
  <2>1. Grounds' BY <1>2 DEF Reap, Grounds
  <2>2. Zombie' BY <1>2 DEF Reap, Zombie
  <2>3. Reported' BY <1>2 DEF Reap, Reported
  <2> QED BY <2>1, <2>2, <2>3
<1>3. CASE ClearSync
  <2>1. Grounds' BY <1>3 DEF ClearSync, Grounds
  <2>2. Zombie' BY <1>3 DEF ClearSync, ForkSync, Zombie
  <2>3. Reported' BY <1>3 DEF ClearSync, ForkSync, Reported
  <2> QED BY <2>1, <2>2, <2>3
<1>4. CASE Fork
  <2>1. Grounds' BY <1>4 DEF Fork, Grounds
  <2>2. Zombie' BY <1>4 DEF Fork, Zombie
  <2>3. Reported'
    <3>1. st = <<>> /\ fpc = "readPid"
      BY <1>4 DEF Fork, Ledger, Over, TypeOK, ControlTypes
    <3>2. <<>> \notin {StatusOnly', Both'} BY DEF StatusOnly, Both
    <3> QED BY <1>4, <3>1, <3>2 DEF Fork, Reported
  <2> QED BY <2>1, <2>2, <2>3
<1>5. CASE ForkFails
  <2>1. Grounds'
    BY <1>5 DEF ForkFails, Grounds, Ledger, Parent, Over, TypeOK, ControlTypes
  <2>2. Zombie' BY <1>5 DEF ForkFails, Zombie
  <2>3. Reported' BY <1>5 DEF ForkFails, Reported
  <2> QED BY <2>1, <2>2, <2>3
<1>6. CASE Continue
  <2>1. Grounds' BY <1>6 DEF Continue, Grounds
  <2>2. Zombie' BY <1>6 DEF Continue, Zombie
  <2>3. Reported' BY <1>6 DEF Continue, Reported
  <2> QED BY <2>1, <2>2, <2>3
<1>7. CASE WritePid
  <2>1. Grounds' BY <1>7 DEF WritePid, Grounds
  <2>2. Zombie' BY <1>7 DEF WritePid, Zombie
  <2>3. Reported' BY <1>7, Messages, Writes DEF WritePid, Reported
  <2> QED BY <2>1, <2>2, <2>3
<1>8. CASE WaitChild
  <2>1. Grounds'
    BY <1>8 DEF WaitChild, Grounds, Modes, TypeOK, ValueTypes, DeathStatus
  <2>2. Zombie' BY <1>8 DEF WaitChild, Zombie
  <2>3. Reported'
    BY <1>8 DEF WaitChild, Reported, Ledger, Grounds, Zombie, TypeOK,
       ValueTypes, DeathStatus
  <2> QED BY <2>1, <2>2, <2>3
<1>9. CASE Relay
  <2>1. Grounds' BY <1>9 DEF Relay, Grounds
  <2>2. Zombie' BY <1>9 DEF Relay, Zombie
  <2>3. Reported' BY <1>9 DEF Relay, Reported
  <2> QED BY <2>1, <2>2, <2>3
<1>10. CASE StoreExited
  <2>1. Grounds' BY <1>10 DEF StoreExited, Grounds
  <2>2. Zombie' BY <1>10 DEF StoreExited, Zombie
  <2>3. Reported' BY <1>10 DEF StoreExited, Reported
  <2> QED BY <2>1, <2>2, <2>3
<1>11. CASE WakeFuzzer
  <2>1. Grounds' BY <1>11 DEF WakeFuzzer, Grounds
  <2>2. Zombie' BY <1>11 DEF WakeFuzzer, Sleepers, Zombie
  <2>3. Reported' BY <1>11 DEF WakeFuzzer, Sleepers, Reported
  <2> QED BY <2>1, <2>2, <2>3
<1>12. CASE AtExit
  <2>1. Grounds' BY <1>12 DEF AtExit, Grounds
  <2>2. Zombie' BY <1>12 DEF AtExit, Zombie
  <2>3. Reported' BY <1>12 DEF AtExit, Reported
  <2> QED BY <2>1, <2>2, <2>3
<1> QED BY <1>1, <1>2, <1>3, <1>4, <1>5, <1>6, <1>7, <1>8, <1>9, <1>10, <1>11,
  <1>12 DEF ServerNext

(* A child dies in its turn, or for a reason.                              *)
LEMMA ChildTruth ==
  ASSUME TInv, ~Over, ~Over', ChildNext \/ Deliver
  PROVE  (Grounds /\ Zombie /\ Reported)'
<1>0. /\ TypeOK /\ Modes /\ Ledger /\ Parent /\ Word /\ Input
      /\ Departed /\ (~stop_soon => Justified)
      /\ Grounds /\ Zombie /\ Reported
  BY DEF TInv, SInv, IInv, InStep, Signals, Truth
<1> USE <1>0, Same DEF HotPC, PipePC, Served, Gone, Executing, Waiting, Active,
        AwaitsStatus, NoChild, Alive, Condemned, OnItsWay, DeathComes, OutOfTurn,
        Excused, IDLE, RUN, DONE, EXITED, fuzzerData, fuzzer, shared, serverData,
        server, childData, child, history
<1>1. CASE Finish
  <2>1. Grounds' BY <1>1 DEF Finish, Die, Grounds, Input
  <2>2. Zombie'
    BY <1>1 DEF Finish, Die, Zombie, Parent, Input, Grounds, TypeOK,
       NumberTypes
  <2>3. Reported' BY <1>1 DEF Finish, Reported
  <2> QED BY <2>1, <2>2, <2>3
<1>2. CASE Crash
  <2>1. Grounds' BY <1>2 DEF Crash, Die, Grounds
  <2>2. Zombie'
    BY <1>2 DEF Crash, Die, Zombie, Parent, Input, Grounds, TypeOK,
       NumberTypes
  <2>3. Reported' BY <1>2 DEF Crash, Reported
  <2> QED BY <2>1, <2>2, <2>3
<1>3. CASE ExecFails
  <2>1. Grounds' BY <1>3 DEF ExecFails, Die, Grounds
  <2>2. Zombie'
    BY <1>3 DEF ExecFails, Die, Zombie, Parent, Input, Grounds, TypeOK,
       NumberTypes
  <2>3. Reported' BY <1>3 DEF ExecFails, Reported
  <2> QED BY <2>1, <2>2, <2>3
<1>4. CASE CompareExchange
  <2>1. Grounds' BY <1>4 DEF CompareExchange, Die, Grounds
  <2>2. Zombie' BY <1>4 DEF CompareExchange, Zombie, Word, Justified
  <2>3. Reported' BY <1>4 DEF CompareExchange, Reported
  <2> QED BY <2>1, <2>2, <2>3
<1>5. CASE ChildWake
  <2>1. Grounds' BY <1>5 DEF ChildWake, Grounds
  <2>2. Zombie' BY <1>5 DEF ChildWake, Zombie
  <2>3. Reported' BY <1>5 DEF ChildWake, Woken, Reported
  <2> QED BY <2>1, <2>2, <2>3
<1>6. CASE ChildLoad
  <2>1. Grounds' BY <1>6 DEF ChildLoad, Die, Grounds
  <2>2. Zombie' BY <1>6 DEF ChildLoad, Zombie, Word, Justified
  <2>3. Reported' BY <1>6 DEF ChildLoad, Reported
  <2> QED BY <2>1, <2>2, <2>3
<1>7. CASE ChildEnter
  <2>1. Grounds' BY <1>7 DEF ChildEnter, Grounds
  <2>2. Zombie' BY <1>7 DEF ChildEnter, Zombie
  <2>3. Reported' BY <1>7 DEF ChildEnter, Reported
  <2> QED BY <2>1, <2>2, <2>3
<1>8. CASE IdleDeath
  <2>1. Grounds' BY <1>8 DEF IdleDeath, Die, Grounds
  <2>2. Zombie' BY <1>8 DEF IdleDeath, Die, Zombie
  <2>3. Reported' BY <1>8 DEF IdleDeath, Reported
  <2> QED BY <2>1, <2>2, <2>3
<1>9. CASE Deliver
  <2>1. Grounds' BY <1>9 DEF Deliver, Die, Grounds
  <2>2. Zombie' BY <1>9 DEF Deliver, Zombie, Justified
  <2>3. Reported' BY <1>9 DEF Deliver, Reported
  <2> QED BY <2>1, <2>2, <2>3
<1> QED BY <1>1, <1>2, <1>3, <1>4, <1>5, <1>6, <1>7, <1>8, <1>9 DEF ChildNext

(* A step that changes nothing keeps the invariant.                        *)
LEMMA TruthStutter ==
  ASSUME Truth, UNCHANGED vars
  PROVE  Truth'
<1> USE Same
    DEF vars, fuzzerData, fuzzer, shared, serverData, server, childData, child,
        history
<1>1. Over' = Over BY DEF Over
<1>2. Grounds' = Grounds BY DEF Grounds, Alive
<1>3. Zombie' = Zombie BY DEF Zombie, OutOfTurn, Excused, Condemned
<1>4. Reported' = Reported
  BY DEF Reported, OnItsWay, DeathComes, OutOfTurn, Excused
<1> QED BY <1>1, <1>2, <1>3, <1>4 DEF Truth

(* A stop requested by the user silences the server before the child is    *)
(* hit: no status of such a death ever gets into the pipe.                 *)
LEMMA StopTruth ==
  ASSUME TInv, ~Over, UserStop
  PROVE  (Grounds /\ Zombie /\ Reported)'
<1>1. Ledger /\ Grounds /\ Zombie /\ Reported
  BY DEF TInv, SInv, IInv, InStep, Truth
<1> USE <1>1, Same DEF UserStop, KillBoth, Gone, shared, serverData, history
<1>2. Grounds' BY DEF Grounds, Alive
<1>3. Zombie' BY DEF Zombie
<1>4. Reported'
  BY DEF Reported, OnItsWay, DeathComes, OutOfTurn, Excused
<1> QED BY <1>2, <1>3, <1>4

(* Together: every step keeps the invariant.                               *)
LEMMA TruthStep ==
  ASSUME TInv, [Next]_vars
  PROVE  Truth'
<1>1. CASE Over' BY <1>1 DEF Truth
<1>2. CASE ~Over'
  <2>1. ~Over BY <1>2, OverStays
  <2>2. CASE FuzzerNext BY <1>2, <2>1, <2>2, FuzzerTruth DEF Truth
  <2>3. CASE ServerNext BY <1>2, <2>1, <2>3, ServerTruth DEF Truth
  <2>4. CASE ChildNext \/ Deliver BY <1>2, <2>1, <2>4, ChildTruth DEF Truth
  <2>5. CASE UserStop BY <2>1, <2>5, StopTruth DEF Truth
  <2>6. CASE FuzzerDies \/ ParentDeathSignal \/ Terminated
    BY <1>2, <2>1, <2>6 DEF FuzzerDies, ParentDeathSignal, Terminated, Over
  <2>7. CASE UNCHANGED vars BY <2>7, TruthStutter DEF TInv
  <2> QED BY <2>2, <2>3, <2>4, <2>5, <2>6, <2>7 DEF Next
<1> QED BY <1>1, <1>2

(* The invariant about results is an invariant.                            *)
LEMMA TruthInvariant == Spec => []TInv
<1>1. Init => Truth
  <2> SUFFICES ASSUME Init PROVE Truth OBVIOUS
  <2> USE DEF Init
  <2>1. Grounds BY DEF Grounds, Alive, Gone
  <2>2. Zombie BY DEF Zombie
  <2>3. Reported BY Messages DEF Reported, OnItsWay, DeathComes
  <2> QED BY <2>1, <2>2, <2>3 DEF Truth
<1>2. SInv /\ Truth /\ [Next]_vars => Truth'
  BY TruthStep DEF TInv
<1> QED BY <1>1, <1>2, SignalsInvariant, PTL DEF Spec, TInv

-----------------------------------------------------------------------------
(* The steps of Execution                                                  *)

(* A step that moves neither the run nor the child's part in it is none.   *)
LEMMA Unseen ==
  ASSUME ~Over, ~Over', UNCHANGED <<run, verdict, input, done, died_at, wstatus>>,
         (fpc' = "idle") = (fpc = "idle"), (cpc' = "run") = (cpc = "run"),
         Alive' = Alive
  PROVE  UNCHANGED Exec!vars
<1>1. RunPhase' = RunPhase BY DEF RunPhase
<1>2. RunReturned' = RunReturned BY <1>1 DEF RunReturned
<1>3. RunDeath' = RunDeath BY <1>1 DEF RunDeath
<1> QED BY <1>1, <1>2, <1>3 DEF Exec!vars

(* The step that ends the session is a Stop.                               *)
LEMMA Stops ==
  ASSUME Over', UNCHANGED <<run, verdict>>
  PROVE  Exec!Next
<1>1. RunPhase' = "over" BY DEF RunPhase
<1>2. RunReturned' = FALSE /\ RunDeath' = "none"
  BY <1>1 DEF RunReturned, RunDeath
<1> QED BY <1>1, <1>2 DEF Exec!Next, Exec!Stop, Exec!Forget

(* The death of a child that was waiting is a late death, or happens       *)
(* between two runs.                                                       *)
LEMMA LateDeaths ==
  ASSUME TInv, ~Over, ~Over', NEW s \in DeathStatus, Die(s), Alive, cpc # "run",
         s = "crash" => "idleDeath" \in Faults,
         UNCHANGED <<fpc, run, verdict, input, done>>
  PROVE  [Exec!Next]_(Exec!vars)
<1>1. cpc' = "zombie" /\ wstatus' = s /\ died_at' = run BY DEF Die
<1>2. RunPhase' = RunPhase BY <1>1 DEF RunPhase
<1>3. RunReturned' = RunReturned BY <1>2 DEF RunReturned
<1>4. CASE fpc = "idle"
  <2>1. RunPhase = "idle" BY <1>4 DEF RunPhase
  <2>2. RunDeath' = RunDeath BY <1>2, <2>1 DEF RunDeath
  <2> QED BY <1>2, <1>3, <2>2 DEF Exec!vars
<1>5. CASE fpc # "idle"
  <2>1. RunPhase \in {"requested", "ended"} BY <1>5 DEF RunPhase
  <2>2. RunDeath = "none" BY DEF RunDeath
  <2>3. RunDeath' = s BY <1>1, <1>2, <2>1 DEF RunDeath, Alive
  <2> QED BY <1>2, <1>3, <2>1, <2>2, <2>3
    DEF Exec!Next, Exec!LateDeath, Exec!Deaths, DeathStatus
<1> QED BY <1>4, <1>5

(* The end of an execution, by a return or by a death.                     *)
LEMMA ExecutionEnds ==
  ASSUME TInv, ~Over, ~Over', cpc = "run",
         UNCHANGED <<fpc, run, verdict, input>>,
         \/ done' = run /\ cpc' \in {"cas", "stopped"}
         \/ done' = run /\ Die("exit")
         \/ done' = done /\ \E s \in DeathStatus : Die(s)
  PROVE  Exec!Next
<1>1. input = run /\ fpc # "idle" /\ done < run /\ run \in Nat
  BY DEF TInv, SInv, IInv, InStep, Input, Executing, TypeOK, NumberTypes
<1>2. RunPhase = "executing" BY <1>1 DEF RunPhase
<1>3. RunPhase' = "ended" BY <1>1 DEF RunPhase, Die
<1>4. CASE done' = run /\ cpc' \in {"cas", "stopped"}
  <2>1. RunReturned' = TRUE /\ RunDeath' = "none"
    BY <1>3, <1>4 DEF RunReturned, RunDeath, Alive
  <2> QED BY <1>2, <1>3, <2>1 DEF Exec!Next, Exec!End
<1>5. CASE done' = run /\ Die("exit")
  <2>1. RunReturned' = TRUE /\ RunDeath' = "exit"
    BY <1>3, <1>5 DEF RunReturned, RunDeath, Alive, Die
  <2> QED BY <1>2, <1>3, <2>1 DEF Exec!Next, Exec!End
<1>6. CASE done' = done /\ \E s \in DeathStatus : Die(s)
  <2>1. RunReturned' = FALSE /\ RunDeath' \in DeathStatus
    BY <1>1, <1>3, <1>6 DEF RunReturned, RunDeath, Alive, Die
  <2> QED BY <1>2, <1>3, <2>1 DEF Exec!Next, Exec!End, Exec!Deaths, DeathStatus
<1> QED BY <1>4, <1>5, <1>6

(* The child takes the test case: once, since it had not been taken.       *)
LEMMA Taken ==
  ASSUME TInv, ~Over, ~Over', fpc # "idle", cpc # "run", input < run,
         cpc' = "run", UNCHANGED <<fpc, run, verdict>>
  PROVE  Exec!Next
<1>1. input # run BY DEF TInv, SInv, IInv, TypeOK, NumberTypes
<1>2. RunPhase = "requested" /\ RunPhase' = "executing" BY <1>1 DEF RunPhase
<1>3. RunReturned' = FALSE /\ RunDeath' = "none"
  BY <1>2 DEF RunReturned, RunDeath
<1> QED BY <1>2, <1>3 DEF Exec!Next, Exec!Execute, Exec!Forget

(* The call returns with a result Execution allows.                        *)
LEMMA Reports ==
  ASSUME ~Over, ~Over', fpc # "idle", cpc # "run", fpc' = "idle",
         UNCHANGED run, verdict' \in Exec!Results
  PROVE  Exec!Next
<1>1. RunPhase \in {"requested", "ended"} /\ RunPhase' = "idle" BY DEF RunPhase
<1>2. RunReturned' = FALSE /\ RunDeath' = "none"
  BY <1>1 DEF RunReturned, RunDeath
<1> QED BY <1>1, <1>2 DEF Exec!Next, Exec!Report, Exec!Forget

(* A wait status is judged as Execution says, if it is that of a child     *)
(* that stopped after this test case, or of one that died.                 *)
LEMMA Judged ==
  ASSUME TInv, ~Over, fpc # "idle", cpc # "run", NEW s \in WaitStatus,
         \/ s = "stopped" /\ input = run /\ done = run
         \/ /\ s = wstatus /\ cpc = "none"
            /\ s = "killed" => last_run_timed_out
            /\ input < run => Excused
  PROVE  Classify(s) \in Exec!Results
<1>1. /\ Grounds /\ input <= run /\ input \in Int /\ run \in Int
      /\ wstatus \in DeathStatus
  BY DEF TInv, Truth, SInv, IInv, InStep, Input, TypeOK, NumberTypes, ValueTypes
<1>2. CASE exec_fail
  BY <1>1, <1>2 DEF Classify, Grounds, Exec!Results
<1>3. CASE ~exec_fail /\ last_run_timed_out
  BY <1>3 DEF Classify, Exec!Results
<1>4. CASE ~exec_fail /\ ~last_run_timed_out
  <2>1. CASE input = run
    <3>1. RunPhase = "ended" BY <2>1 DEF RunPhase
    <3>2. CASE s = "stopped" /\ done = run
      <4>1. RunReturned BY <3>1, <3>2 DEF RunReturned
      <4>2. Classify(s) = "OK" BY <1>4, <3>2 DEF Classify
      <4> QED BY <3>1, <4>1, <4>2 DEF Exec!Results
    <3>3. CASE s = wstatus /\ cpc = "none" /\ s # "killed"
      <4>1. RunDeath = s BY <1>1, <2>1, <3>1, <3>3 DEF RunDeath, Grounds, Alive
      <4>2. s \in {"exit", "crash"} BY <1>1, <3>3 DEF DeathStatus
      <4> QED BY <1>4, <3>1, <4>1, <4>2 DEF Classify, Exec!Results
    <3> QED BY <1>4, <3>2, <3>3
  <2>2. CASE input < run
    <3>1. RunPhase = "requested" BY <1>1, <2>2 DEF RunPhase
    <3>2. "idleDeath" \in Faults BY <1>1, <1>4, <2>2 DEF Excused
    <3> QED BY <1>4, <3>1, <3>2 DEF Classify, Exec!Results
  <2> QED BY <1>1, <2>1, <2>2
<1> QED BY <1>2, <1>3, <1>4

-----------------------------------------------------------------------------
(* Every step is a step of Execution, or none                              *)

(* afl_fsrv_run_target begins a run, returns its result, or goes on.       *)
LEMMA FuzzerSimulates ==
  ASSUME TInv, ~Over, ~Over', FuzzerNext
  PROVE  [Exec!Next]_(Exec!vars)
<1>0. /\ TypeOK /\ Modes /\ Ledger /\ Parent /\ Word /\ Input
      /\ Grounds /\ Reported
  BY DEF TInv, SInv, IInv, InStep, Truth
<1> USE DEF fuzzerData, fuzzer, shared, serverData, server, childData, child,
        history
<1>1. CASE StartRun
  <2>1. fpc = "idle" /\ fpc' \in {"check", "request"} /\ cpc' = cpc /\ cpc # "run"
    BY <1>0, <1>1 DEF StartRun, Input, Executing
  <2>2. /\ run' = run + 1 /\ run < MaxRuns /\ run \in Nat /\ verdict' = "none"
        /\ input' # run' /\ died_at' # run'
    BY <1>0, <1>1 DEF StartRun, Input, TypeOK, NumberTypes
  <2>3. RunPhase = "idle" /\ RunPhase' = "requested"
    BY <2>1, <2>2 DEF RunPhase, Over
  <2>4. RunReturned' = FALSE /\ RunDeath' = "none"
    BY <2>2, <2>3 DEF RunReturned, RunDeath
  <2> QED BY <2>2, <2>3, <2>4 DEF Exec!Next, Exec!Begin, Exec!Forget
<1>2. CASE CheckSync BY <1>2, Unseen DEF CheckSync, AfterCheck, Alive
<1>3. CASE SignalRun BY <1>3, Unseen DEF SignalRun, Alive
<1>4. CASE WakeChild BY <1>4, Unseen DEF WakeChild, Woken, Alive
<1>5. CASE LoadSync
  <2>1. CASE child_sync = DONE
    <3>1. cpc # "run" /\ input = run /\ done = run /\ run \in Nat
      BY <1>0, <1>5, <2>1
      DEF LoadSync, Word, Input, Executing, TypeOK, NumberTypes
    <3>2. RunPhase = "ended" /\ RunReturned
      BY <1>5, <3>1 DEF LoadSync, RunPhase, RunReturned
    <3>3. verdict' = IF exec_fail THEN "ERROR" ELSE "OK"
      BY <1>5, <2>1 DEF LoadSync, DONE, EXITED, IDLE, RUN
    <3>4. verdict' \in Exec!Results
      BY <1>0, <3>2, <3>3 DEF Grounds, Exec!Results
    <3>5. fpc # "idle" /\ fpc' = "idle" /\ UNCHANGED run
      BY <1>5, <2>1 DEF LoadSync, DONE, EXITED, IDLE, RUN
    <3> QED BY <3>1, <3>4, <3>5, Reports
  <2>2. CASE child_sync # DONE BY <1>5, <2>2, Unseen DEF LoadSync, Alive
  <2> QED BY <2>1, <2>2
<1>6. CASE EnterWait BY <1>6, Unseen DEF EnterWait, Alive
<1>7. CASE FutexTimeout BY <1>7, Unseen DEF FutexTimeout, Alive
<1>8. CASE FutexInterrupted BY <1>8, Unseen DEF FutexInterrupted, Alive
<1>9. CASE GiveUp BY <1>9, Unseen DEF GiveUp, Alive
<1>10. CASE GiveUpKill BY <1>10, Unseen DEF GiveUpKill, Alive
<1>11. CASE ReadStatus BY <1>11, Unseen DEF ReadStatus, Alive
<1>12. CASE GraceExpires BY <1>12, Unseen DEF GraceExpires, Alive
<1>13. CASE ResetSync
  <2>1. /\ child_status = wstatus /\ cpc = "none"
        /\ child_status = "killed" => last_run_timed_out
        /\ input < run => Excused
    BY <1>0, <1>13 DEF ResetSync, Reported
  <2>2. child_status \in WaitStatus BY <1>0 DEF TypeOK, ValueTypes
  <2>3. Classify(child_status) \in Exec!Results
    BY <1>13, <2>1, <2>2, Judged DEF ResetSync
  <2> QED BY <1>13, <2>1, <2>3, Reports DEF ResetSync
<1>14. CASE Request
  BY <1>14, Unseen DEF Request, CommunicationFails, Over, Alive
<1>15. CASE ReadPid BY <1>15, Unseen DEF ReadPid, AfterPid, Alive
<1>16. CASE PipeStatus
  <2>1. fpc \in PipePC /\ fpc # "idle" BY <1>16 DEF PipeStatus, PipePC
  <2>2. st = StatusOnly
    BY Zenon, <1>0, <1>16, <2>1 DEF PipeStatus, Ledger, AwaitsStatus
  <2>3. Head(st).status = status BY <2>2, Reads DEF StatusMsg
  <2>4. /\ verdict' = Classify(status) /\ fpc' = "idle" /\ run' = run
    BY <1>16, <2>3 DEF PipeStatus, Classify, Over
  <2>5. \/ status = "stopped" /\ input = run /\ done = run
        \/ /\ status = wstatus /\ cpc = "none"
           /\ status = "killed" => last_run_timed_out
           /\ input < run => Excused
    BY <1>0, <2>2 DEF Reported, DeathComes, OnItsWay, OutOfTurn
  <2>6. cpc # "run"
    BY <1>0, <2>2, Messages DEF Parent, Active, Executing
  <2>7. status \in WaitStatus BY <1>0 DEF TypeOK, ValueTypes
  <2>8. Classify(status) \in Exec!Results BY <2>1, <2>5, <2>6, <2>7, Judged
  <2> QED BY <2>1, <2>4, <2>6, <2>8, Reports
<1>17. CASE PipeTimeout BY <1>17, Unseen DEF PipeTimeout, Alive
<1>18. CASE PipeKill BY <1>18, Unseen DEF PipeKill, Alive
<1>19. CASE ReadFails BY <1>19 DEF ReadFails, CommunicationFails, Over
<1>20. CASE Shutdown BY <1>20 DEF Shutdown, Over
<1> QED BY <1>1, <1>2, <1>3, <1>4, <1>5, <1>6, <1>7, <1>8, <1>9, <1>10, <1>11,
  <1>12, <1>13, <1>14, <1>15, <1>16, <1>17, <1>18, <1>19, <1>20 DEF FuzzerNext

(* The server starts or continues the execution of a test case, and shows  *)
(* nothing else.                                                           *)
LEMMA ServerSimulates ==
  ASSUME TInv, ~Over, ~Over', ServerNext
  PROVE  [Exec!Next]_(Exec!vars)
<1>0. /\ TypeOK /\ Ledger /\ Parent /\ Input BY DEF TInv, SInv, IInv, InStep
<1> USE DEF fuzzerData, fuzzer, shared, serverData, server, childData, child,
        history
<1>1. CASE ReadCtl BY <1>1, Unseen DEF ReadCtl, Alive
<1>2. CASE Reap BY <1>2, Unseen DEF Reap, Alive
<1>3. CASE ClearSync BY <1>3, Unseen DEF ClearSync, Alive
<1>4. CASE Fork
  <2>1. fpc = "readPid"
    BY Zenon, <1>0, <1>4
    DEF Fork, Ledger, AwaitsStatus, NoChild, HotPC, PipePC, Served, Gone, Over,
        TypeOK, ControlTypes
  <2>2. cpc = "none" /\ input < run BY Zenon, <1>0, <1>4, <2>1 DEF Fork, Parent, Input
  <2> QED BY <1>4, <2>1, <2>2, Taken DEF Fork
<1>5. CASE ForkFails BY <1>5, Unseen DEF ForkFails, Alive
<1>6. CASE Continue
  <2>1. CASE cpc = "stopped"
    <3>1. fpc = "readPid"
      BY Zenon, <1>0, <1>6
      DEF Continue, Ledger, AwaitsStatus, NoChild, HotPC, PipePC, Served, Gone,
          Over, TypeOK, ControlTypes
    <3>2. input < run BY <1>0, <1>6, <3>1 DEF Continue, Input
    <3> QED BY <1>6, <2>1, <3>1, <3>2, Taken DEF Continue
  <2>2. CASE cpc # "stopped" BY <1>6, <2>2, Unseen DEF Continue, Alive
  <2> QED BY <2>1, <2>2
<1>7. CASE WritePid BY <1>7, Unseen DEF WritePid, Alive
<1>8. CASE WaitChild BY <1>8, Unseen DEF WaitChild, Alive
<1>9. CASE Relay BY <1>9, Unseen DEF Relay, Alive
<1>10. CASE StoreExited BY <1>10, Unseen DEF StoreExited, Alive
<1>11. CASE WakeFuzzer BY <1>11, Unseen DEF WakeFuzzer, Sleepers, Alive
<1>12. CASE AtExit BY <1>12, Unseen DEF AtExit, Alive
<1> QED BY <1>1, <1>2, <1>3, <1>4, <1>5, <1>6, <1>7, <1>8, <1>9, <1>10, <1>11,
  <1>12 DEF ServerNext

(* The child returns from the test case, dies, or takes the next one.      *)
LEMMA ChildSimulates ==
  ASSUME TInv, ~Over, ~Over', ChildNext \/ Deliver
  PROVE  [Exec!Next]_(Exec!vars)
<1>0. /\ TypeOK /\ Modes /\ Word /\ Input BY DEF TInv, SInv, IInv, InStep
<1> USE DEF fuzzerData, fuzzer, shared, serverData, server, childData, child,
        history
<1>1. CASE Finish
  <2>1. done' = run
    BY <1>0, <1>1 DEF Finish, Input, Executing
  <2> QED BY <1>1, <2>1, ExecutionEnds DEF Finish
<1>2. CASE Crash BY <1>2, ExecutionEnds DEF Crash, DeathStatus
<1>3. CASE ExecFails BY <1>3, ExecutionEnds DEF ExecFails, DeathStatus
<1>4. CASE CompareExchange
  <2>1. CASE Die("exit")
    BY <1>4, <2>1, LateDeaths DEF CompareExchange, DeathStatus, Alive
  <2>2. CASE ~Die("exit") BY <1>4, <2>2, Unseen DEF CompareExchange, Alive
  <2> QED BY <2>1, <2>2
<1>5. CASE ChildWake BY <1>5, Unseen DEF ChildWake, Woken, Alive
<1>6. CASE ChildLoad
  <2>1. CASE child_sync = DONE
    BY <1>6, <2>1, Unseen DEF ChildLoad, Alive, DONE, EXITED, IDLE, RUN
  <2>2. CASE child_sync = EXITED
    <3>1. Die("exit") /\ input' = input
      BY <1>6, <2>2 DEF ChildLoad, DONE, EXITED, IDLE, RUN
    <3> QED BY <1>6, <3>1, LateDeaths DEF ChildLoad, DeathStatus, Alive
  <2>3. CASE child_sync \in {IDLE, RUN}
    <3>1. cpc = "load" /\ cpc' = "run"
      BY <1>6, <2>3 DEF ChildLoad, DONE, EXITED, IDLE, RUN
    <3>2. child_sync = RUN BY <1>0, <2>3, <3>1 DEF Word, Waiting
    <3>3. input < run /\ fpc # "idle"
      BY <1>0, <3>1, <3>2 DEF Input, Word, Waiting
    <3> QED BY <1>6, <3>1, <3>3, Taken DEF ChildLoad
  <2> QED BY <1>6, <2>1, <2>2, <2>3 DEF ChildLoad
<1>7. CASE ChildEnter BY <1>7, Unseen DEF ChildEnter, Alive
<1>8. CASE IdleDeath
  BY <1>8, LateDeaths DEF IdleDeath, DeathStatus, Alive
<1>9. CASE Deliver
  <2>1. CASE Die("killed") /\ cpc = "run"
    BY Zenon, <1>9, <2>1, ExecutionEnds DEF Deliver, DeathStatus
  <2>2. CASE Die("killed") /\ cpc # "run"
    BY Zenon, <1>9, <2>2, LateDeaths DEF Deliver, DeathStatus
  <2>3. CASE ~Die("killed") BY Zenon, <1>9, <2>3, Unseen DEF Deliver, Alive
  <2> QED BY <2>1, <2>2, <2>3
<1> QED BY <1>1, <1>2, <1>3, <1>4, <1>5, <1>6, <1>7, <1>8, <1>9 DEF ChildNext

(* What ends a session, and what happens after it, changes no result.      *)
LEMMA LastResultStays ==
  ASSUME Over', [Next]_vars
  PROVE  UNCHANGED <<run, verdict>>
<1> USE DEF Over, vars, fuzzerData, fuzzer
<1>1. CASE FuzzerNext
  <2>1. CASE StartRun BY <2>1 DEF StartRun
  <2>2. CASE LoadSync BY <2>2 DEF LoadSync
  <2>3. CASE ResetSync BY <2>3 DEF ResetSync
  <2>4. CASE PipeStatus BY <2>4 DEF PipeStatus
  <2>5. CASE CheckSync \/ SignalRun \/ WakeChild \/ EnterWait \/
            FutexTimeout \/ FutexInterrupted
    BY Zenon, <2>5
    DEF CheckSync, SignalRun, WakeChild, EnterWait, FutexTimeout,
        FutexInterrupted
  <2>6. CASE GiveUp \/ GiveUpKill \/ ReadStatus \/ GraceExpires
    BY Zenon, <2>6
    DEF GiveUp, GiveUpKill, ReadStatus, GraceExpires
  <2>7. CASE Request \/ ReadPid \/ PipeTimeout
    BY Zenon, <2>7
    DEF Request, ReadPid, PipeTimeout
  <2>8. CASE PipeKill \/ ReadFails \/ Shutdown
    BY <2>8
    DEF PipeKill, ReadFails, Shutdown
  <2> QED
    BY <1>1, <2>1, <2>2, <2>3, <2>4, <2>5, <2>6, <2>7, <2>8 DEF FuzzerNext
<1>2. CASE ServerNext
  <2>1. CASE ReadCtl \/ Reap \/ ClearSync \/ Fork
    BY Zenon, <2>1 DEF ReadCtl, Reap, ClearSync, Fork
  <2>2. CASE ForkFails \/ Continue \/ WritePid \/ WaitChild
    BY Zenon, <2>2 DEF ForkFails, Continue, WritePid, WaitChild
  <2>3. CASE Relay \/ StoreExited
    BY <2>3 DEF Relay, StoreExited
  <2>4. CASE WakeFuzzer
    BY <2>4 DEF WakeFuzzer
  <2>5. CASE AtExit
    BY <2>5 DEF AtExit
  <2> QED BY <1>2, <2>1, <2>2, <2>3, <2>4, <2>5 DEF ServerNext
<1>3. CASE ChildNext \/ Deliver
  BY Zenon, <1>3
  DEF ChildNext, Finish, Crash, ExecFails, CompareExchange, ChildWake, ChildLoad,
      ChildEnter, IdleDeath, Deliver
<1>4. CASE UserStop \/ FuzzerDies \/ ParentDeathSignal \/ Terminated
  BY Zenon, <1>4 DEF UserStop, FuzzerDies, ParentDeathSignal, Terminated
<1> QED BY <1>1, <1>2, <1>3, <1>4 DEF Next

(* Together: every step is a step of Execution or changes nothing of it.   *)
LEMMA Simulation ==
  ASSUME TInv, [Next]_vars
  PROVE  [Exec!Next]_(Exec!vars)
<1>1. CASE Over' BY <1>1, LastResultStays, Stops
<1>2. CASE ~Over'
  <2>1. ~Over BY <1>2, OverStays
  <2>2. CASE FuzzerNext BY <1>2, <2>1, <2>2, FuzzerSimulates
  <2>3. CASE ServerNext BY <1>2, <2>1, <2>3, ServerSimulates
  <2>4. CASE ChildNext \/ Deliver BY <1>2, <2>1, <2>4, ChildSimulates
  <2>5. CASE UserStop
    BY Zenon, <1>2, <2>1, <2>5, Unseen DEF UserStop, KillBoth, Alive, history
  <2>6. CASE FuzzerDies \/ ParentDeathSignal \/ Terminated
    BY <1>2, <2>1, <2>6 DEF FuzzerDies, ParentDeathSignal, Terminated, Over
  <2>7. CASE UNCHANGED vars
    BY <1>2, <2>1, <2>7, Unseen
    DEF vars, fuzzer, fuzzerData, child, childData, history, Alive
  <2> QED BY <2>2, <2>3, <2>4, <2>5, <2>6, <2>7 DEF Next
<1> QED BY <1>1, <1>2

(* Fuzzer, fork server and child together implement Execution, in every    *)
(* mode, with every signal and fault, and for any number of test cases:    *)
(* afl_fsrv_run_target has each test case executed at most once, does not  *)
(* return while the target still executes it, and returns OK, CRASH or     *)
(* ERROR only for what happened to the target in this run.                 *)
THEOREM ExecutionImplemented == Spec => ImplementsExecution
<1>1. Init => Exec!Init
  BY DEF Init, Exec!Init, RunPhase, RunReturned, RunDeath, Over
<1>2. TInv /\ [Next]_vars => [Exec!Next]_(Exec!vars)
  BY Simulation
<1> QED BY <1>1, <1>2, TruthInvariant, PTL
  DEF Spec, ImplementsExecution, Exec!Spec

-----------------------------------------------------------------------------
(* What a result says                                                      *)

(* The target died before it took the test case of this run.               *)
NeverTaken == "idleDeath" \in Faults /\ input # run
DiedOf(s)  == ~Alive /\ died_at = run /\ wstatus = s

(* The result of a run, when it is set, in terms of the child.             *)
Earned ==
  verdict' # verdict =>
    /\ verdict' = "CRASH" => DiedOf("crash") \/ NeverTaken
    /\ verdict' = "OK" =>
         \/ input = run /\ cpc # "run" /\ (done = run \/ DiedOf("exit"))
         \/ NeverTaken
    /\ verdict' = "ERROR" => Faux

(* classify_result at the end of afl_fsrv_run_target: a crash is reported  *)
(* only if the child of this run has crashed, never for the signal of the  *)
(* fuzzer itself or for the end of an earlier child; success only for a    *)
(* test case that the child has gone through or left with exit; unless     *)
(* the child died before it took the test case, which the fuzzer cannot    *)
(* tell from a death in this run.                                          *)
THEOREM ResultsAreEarned == Spec => [][Earned]_vars
<1>1. ASSUME TInv, Next PROVE Earned
  <2> SUFFICES ASSUME verdict' # verdict PROVE
        /\ verdict' = "CRASH" => DiedOf("crash") \/ NeverTaken
        /\ verdict' = "OK" =>
             \/ input = run /\ cpc # "run" /\ (done = run \/ DiedOf("exit"))
             \/ NeverTaken
        /\ verdict' = "ERROR" => Faux
    BY DEF Earned
  <2>1. [Exec!Next]_(Exec!vars)
    BY <1>1, Simulation
  <2>2. Exec!Begin \/ Exec!Report
    BY <2>1 DEF Exec!Next, Exec!vars, Exec!Execute, Exec!End, Exec!LateDeath, Exec!Stop
  <2>3. CASE Exec!Begin
    BY <2>3 DEF Exec!Begin
  <2>4. CASE Exec!Report
    <3>1. verdict' \in Exec!Results /\ RunPhase \in {"requested", "ended"}
      BY <2>4 DEF Exec!Report
    <3>2. RunPhase = "requested" => input # run
      BY DEF RunPhase
    <3>3. RunPhase = "ended" => input = run /\ cpc # "run"
      BY DEF RunPhase
    <3>4. RunReturned => done = run
      BY DEF RunReturned
    <3>5. RunDeath = "crash" => DiedOf("crash")
      BY DEF RunDeath, DiedOf
    <3>6. RunDeath = "exit" => DiedOf("exit")
      BY DEF RunDeath, DiedOf
    <3>7. verdict' = "CRASH" =>
            RunDeath = "crash" \/ (RunPhase = "requested" /\ "idleDeath" \in Faults)
      BY <3>1 DEF Exec!Results
    <3>8. verdict' = "OK" =>
            \/ RunPhase = "ended" /\ (RunReturned \/ RunDeath = "exit")
            \/ RunPhase = "requested" /\ "idleDeath" \in Faults
      BY <3>1 DEF Exec!Results
    <3>9. verdict' = "ERROR" => Faux
      BY <3>1 DEF Exec!Results
    <3> QED BY <3>2, <3>3, <3>4, <3>5, <3>6, <3>7, <3>8, <3>9 DEF NeverTaken
  <2> QED BY <2>2, <2>3, <2>4
<1>2. TInv /\ Next => Earned
  BY <1>1
<1> QED BY <1>2, TruthInvariant, PTL DEF Spec
=============================================================================
