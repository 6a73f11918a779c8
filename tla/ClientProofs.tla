---------------------------- MODULE ClientProofs ----------------------------
(***************************************************************************)
(* Proofs about Client, for any number of logs and any names.              *)
(*                                                                         *)
(* The argument: the stage of the main thread tells how far a change of    *)
(* the log has come, and with it whether logfile is NULL, whether the FILE *)
(* in it is open, and whether the name is already the new one.  The flush  *)
(* threads change none of this.                                            *)
(***************************************************************************)
EXTENDS Client, TLAPS

\* A turn of the main loop, outside of the operations on the log.
InTurn == {"get_bit", "process_input", "post_process_input", "setclock"}

\* Where the main thread is, as told by the prompt and by cleanups.
ControlInv ==
  /\ pc \in {"close", "clear"} => input_mode = -1
  /\ input_mode = -1 =>
       pc \in Changing \cup {"post_process_input", "crashed"}
  /\ pc \in {"cleanup", "cleanup_clear"} => cleanups > 0
  /\ pc \in {"open", "create", "set_mode"} => input_mode # 1
  /\ pc = "set_mode" => input_mode = 0
  /\ cleanups > 0 => pc \in {"cleanup", "cleanup_clear", "crashed"}
  /\ toosmall => input_mode = 0
  /\ change_logfile <=> input_mode # 0

\* The log that is open and the name it is shown with.
LogInv ==
  /\ unclosed => pc \in {"cleanup", "exit", "stopped", "crashed"}
  /\ pc = "open" => logfile = NULL /\ name # NoLog
  /\ pc = "create" => logfile # NULL /\ name # NoLog
  /\ pc \in InTurn \cup {"set_mode"} /\ name = NoLog => logfile = NULL
  /\ pc \in InTurn \cup {"set_mode"} /\ name # NoLog =>
       logfile # NULL \/ quit \/ lost

\* A request to quit that stems from a failed operation.
QuitInv ==
  /\ pc \in {"get_bit", "process_input", "post_process_input"} => ~quit
  /\ pc \in InTurn \cup Changing => ~failed \/ quit \/ lost
  /\ pc \in {"open", "create", "set_mode"} /\ input_mode # -1 => ~quit /\ ~failed

\* What the first steps of set_mode_live() obtain.
Obtained(s) == {Steps[i] : i \in 1 .. s - 1} \cap Resources

\* What is held outside of set_mode_live().
HardwareInv ==
  /\ pc \in {"open", "create"} /\ input_mode # -1 => step = 1 /\ held = {}
  /\ pc = "set_mode" => held = Obtained(step)
  /\ pc \in InTurn \cup Changing /\ (input_mode = -1 \/ pc \in InTurn) =>
       held = Lasting
  /\ pc = "cleanup" => held \subseteq Lasting
  /\ pc = "cleanup_clear" => held = {}
  /\ pc \in {"exit", "stopped"} => held = {}

IInv ==
  TypeOK /\ ControlInv /\ Handles /\ LogInv /\ QuitInv /\ HardwareInv

-----------------------------------------------------------------------------
(***************************************************************************)
(* Types.                                                                  *)
(***************************************************************************)
LEMMA InitType == Init => TypeOK
  <1> SUFFICES ASSUME Init PROVE TypeOK
    OBVIOUS
  <1>1. LogTypeOK
    BY MaxLogsAssumption DEF Init, LogInit, LogTypeOK, NULL, Files
  <1>2. pc \in Stages
    BY DEF Init, Stages, Changing
  <1>3. step \in 1 .. LastStep + 1 /\ held \subseteq Resources
    BY DEF Init, LastStep
  <1>4. name \in Names \cup {NoLog} /\ keybuf \in Names \cup {NoLog, Same}
    BY DEF Init
  <1>5. cleanups \in 0 .. 2 /\ input_mode \in {0, 1, -1}
    BY DEF Init
  <1> QED
    BY <1>1, <1>2, <1>3, <1>4, <1>5, Zenon DEF Init, TypeOK

\* The operations on the log.
LEMMA LogType ==
  ASSUME LogTypeOK,
         Fopen \/ FopenFails \/ StartFlusher \/ Write \/ Fclose \/ Clear \/ Exit
  PROVE  LogTypeOK'
  <1> USE MaxLogsAssumption
      DEF LogTypeOK, NULL, Files, fileVars, flusherVars
  <1>1. CASE Fopen
    BY <1>1 DEF Fopen
  <1>2. CASE FopenFails
    BY <1>2 DEF FopenFails
  <1>3. CASE StartFlusher
    BY <1>3 DEF StartFlusher
  <1>4. CASE Write
    BY <1>4 DEF Write
  <1>5. CASE Fclose
    BY <1>5 DEF Fclose
  <1>6. CASE Clear
    BY <1>6 DEF Clear
  <1>7. CASE Exit
    BY <1>7 DEF Exit
  <1> QED
    BY <1>1, <1>2, <1>3, <1>4, <1>5, <1>6, <1>7

LEMMA LogUnchanged ==
  ASSUME LogTypeOK, UNCHANGED logVars
  PROVE  LogTypeOK'
  BY DEF LogTypeOK, logVars, fileVars, flusherVars, Files, NULL

LEMMA MainType ==
  ASSUME TypeOK, ControlInv, Main
  PROVE  TypeOK'
  <1> USE LogUnchanged
      DEF TypeOK, ControlInv, Stages, Changing, promptVars, loopVars, hwVars,
          history, EndChange, LastStep
  <1>1. CASE OpenLog
    BY <1>1, LogType DEF OpenLog, AppendDone
  <1>2. CASE CreateThread
    BY <1>2, LogType DEF CreateThread, AppendDone
  <1>3. CASE SetModeStep
    BY <1>3 DEF SetModeStep
  <1>4. CASE SetModeDone
    BY <1>4 DEF SetModeDone
  <1>5. CASE GetBit
    BY <1>5, LogType DEF GetBit
  <1>6. CASE KeyQuit
    BY <1>6 DEF KeyQuit
  <1>7. CASE KeyLog
    BY <1>7 DEF KeyLog
  <1>8. CASE KeySettime
    BY <1>8 DEF KeySettime
  <1>9. CASE KeyResize
    BY <1>9 DEF KeyResize
  <1>10. CASE KeyEnter
    BY <1>10 DEF KeyEnter
  <1>11. CASE OtherKey
    BY <1>11 DEF OtherKey
  <1>12. CASE PostProcessInput
    BY <1>12 DEF PostProcessInput, NewName
  <1>13. CASE CloseLog
    BY <1>13, LogType DEF CloseLog, Closed
  <1>14. CASE ClearLog
    BY <1>14, LogType DEF ClearLog, Closed
  <1>15. CASE SetClockResult
    BY <1>15 DEF SetClockResult
  <1>16. CASE Cleanup
    <2>1. LogTypeOK'
      BY <1>16, LogType DEF Cleanup
    <2>2. pc' \in Stages /\ cleanups' \in 0 .. 2
      BY <1>16 DEF Cleanup, CleanupDone
    <2>3. unclosed' \in BOOLEAN /\ held' \subseteq Resources
      BY <1>16 DEF Cleanup
    <2> QED
      BY <1>16, <2>1, <2>2, <2>3 DEF Cleanup
  <1>17. CASE CleanupClear
    BY <1>17, LogType DEF CleanupClear, CleanupDone
  <1>18. CASE Stop
    BY <1>18, LogType DEF Stop
  <1> QED
    BY <1>1, <1>2, <1>3, <1>4, <1>5, <1>6, <1>7, <1>8, <1>9, <1>10, <1>11,
       <1>12, <1>13, <1>14, <1>15, <1>16, <1>17, <1>18 DEF Main

LEMMA FlushType ==
  ASSUME TypeOK, NEW i \in Files, FlushThread(i)
  PROVE  TypeOK'
  <1> USE MaxLogsAssumption
      DEF TypeOK, mainVars, promptVars, loopVars, hwVars, history
  <1>1. CASE TestLog(i) /\ UNCHANGED mainVars
    BY <1>1 DEF TestLog, LogTypeOK, Files, NULL, fileVars
  <1>2. CASE Flush(i) /\ UNCHANGED mainVars
    BY <1>2, ZenonT(40) DEF Flush, Flushed, LogTypeOK, Files, NULL, fileVars
  <1>3. CASE UNCHANGED logVars /\ pc' = "crashed"
             /\ UNCHANGED <<name, promptVars, loopVars, cleanups, hwVars, history>>
    BY <1>3, LogUnchanged DEF Stages
  <1> QED
    BY <1>1, <1>2, <1>3 DEF FlushThread

-----------------------------------------------------------------------------
(***************************************************************************)
(* The control of the main thread.                                         *)
(***************************************************************************)
LEMMA MainControl ==
  ASSUME TypeOK, ControlInv, Main
  PROVE  ControlInv'
  <1> USE DEF TypeOK, ControlInv, Stages, Changing, promptVars, loopVars, hwVars,
              history, EndChange
  <1>1. CASE OpenLog \/ CreateThread
    <2>1. CASE pc' = "create"
               /\ UNCHANGED <<name, promptVars, loopVars, cleanups, hwVars, history>>
      BY <1>1, <2>1 DEF OpenLog, CreateThread
    <2>2. ASSUME NEW ok \in BOOLEAN, AppendDone(ok)
          PROVE  ControlInv'
      BY <1>1, <2>2 DEF OpenLog, CreateThread, AppendDone
    <2> QED
      BY <1>1, <2>1, <2>2 DEF OpenLog, CreateThread
  <1>2. CASE SetModeStep \/ SetModeDone \/ GetBit
    BY <1>2 DEF SetModeStep, SetModeDone, GetBit
  <1>3. CASE KeyQuit \/ KeyLog \/ KeySettime \/ KeyResize \/ KeyEnter \/ OtherKey
    BY <1>3 DEF KeyQuit, KeyLog, KeySettime, KeyResize, KeyEnter, OtherKey
  <1>4. CASE PostProcessInput
    BY <1>4 DEF PostProcessInput
  <1>5. CASE CloseLog \/ ClearLog
    BY <1>5 DEF CloseLog, ClearLog, Closed
  <1>6. CASE SetClockResult
    BY <1>6 DEF SetClockResult
  <1>7. CASE Cleanup \/ CleanupClear \/ Stop
    BY <1>7 DEF Cleanup, CleanupClear, Stop, CleanupDone
  <1> QED
    BY <1>1, <1>2, <1>3, <1>4, <1>5, <1>6, <1>7 DEF Main

-----------------------------------------------------------------------------
(***************************************************************************)
(* The log: Handles, and what it rests on.                                 *)
(***************************************************************************)
LEMMA MainHandles ==
  ASSUME LogTypeOK, ControlInv, Handles, LogInv, Main
  PROVE  Handles'
  <1> USE DEF ControlInv, Handles, LogInv, InTurn, Changing, EndChange, NULL,
              logVars, fileVars, flusherVars, history
  <1>1. CASE OpenLog
    <2>1. open = {} /\ ~unclosed /\ dirty = {}
      BY <1>1 DEF OpenLog
    <2>2. CASE Fopen /\ pc' = "create" /\ UNCHANGED history
      BY <2>1, <2>2 DEF Fopen, LogTypeOK
    <2>3. CASE FopenFails /\ AppendDone(FALSE)
      BY <2>1, <2>3 DEF FopenFails, AppendDone
    <2> QED
      BY <1>1, <2>2, <2>3 DEF OpenLog
  <1>2. CASE CreateThread
    BY <1>2 DEF CreateThread, AppendDone, StartFlusher
  <1>3. CASE SetModeStep \/ SetModeDone
    BY <1>3 DEF SetModeStep, SetModeDone
  <1>4. CASE GetBit
    BY <1>4 DEF GetBit, Write
  <1>5. CASE KeyQuit \/ KeyLog \/ KeySettime \/ KeyResize \/ KeyEnter \/ OtherKey
    BY <1>5 DEF KeyQuit, KeyLog, KeySettime, KeyResize, KeyEnter, OtherKey
  <1>6. CASE PostProcessInput
    BY <1>6 DEF PostProcessInput
  <1>7. CASE CloseLog
    BY <1>7 DEF CloseLog, Closed, Fclose
  <1>8. CASE ClearLog
    BY <1>8 DEF ClearLog, Closed, Clear
  <1>9. CASE SetClockResult
    BY <1>9 DEF SetClockResult
  <1>10. CASE Cleanup
    BY <1>10 DEF Cleanup, CleanupDone, Fclose
  <1>11. CASE CleanupClear
    BY <1>11 DEF CleanupClear, CleanupDone, Clear
  <1>12. CASE Stop
    BY <1>12 DEF Stop, Exit
  <1> QED
    BY <1>1, <1>2, <1>3, <1>4, <1>5, <1>6, <1>7, <1>8, <1>9, <1>10, <1>11,
       <1>12 DEF Main

LEMMA MainLog ==
  ASSUME TypeOK, ControlInv, Handles, LogInv, QuitInv, Main
  PROVE  LogInv'
  <1> USE DEF TypeOK, ControlInv, LogInv, QuitInv, InTurn, Changing, EndChange,
              NULL, logVars, fileVars, promptVars, loopVars, history
  <1>1. CASE OpenLog
    BY <1>1 DEF OpenLog, AppendDone, Fopen, FopenFails, LogTypeOK
  <1>2. CASE CreateThread
    BY <1>2 DEF CreateThread, AppendDone, StartFlusher
  <1>3. CASE SetModeStep \/ SetModeDone
    BY <1>3 DEF SetModeStep, SetModeDone
  <1>4. CASE GetBit
    BY <1>4 DEF GetBit, Write
  <1>5. CASE KeyQuit \/ KeyLog \/ KeySettime \/ KeyResize \/ KeyEnter \/ OtherKey
    BY <1>5 DEF KeyQuit, KeyLog, KeySettime, KeyResize, KeyEnter, OtherKey
  <1>6. CASE PostProcessInput
    BY <1>6 DEF PostProcessInput
  <1>7. CASE CloseLog
    BY <1>7 DEF CloseLog, Closed, Fclose
  <1>8. CASE ClearLog
    BY <1>8 DEF ClearLog, Closed, Clear
  <1>9. CASE SetClockResult
    BY <1>9 DEF SetClockResult
  <1>10. CASE Cleanup
    BY <1>10 DEF Cleanup, CleanupDone, Fclose, Handles
  <1>11. CASE CleanupClear
    BY <1>11 DEF CleanupClear, CleanupDone, Clear
  <1>12. CASE Stop
    BY <1>12 DEF Stop, Exit
  <1> QED
    BY <1>1, <1>2, <1>3, <1>4, <1>5, <1>6, <1>7, <1>8, <1>9, <1>10, <1>11,
       <1>12 DEF Main

LEMMA MainQuit ==
  ASSUME TypeOK, ControlInv, QuitInv, Main
  PROVE  QuitInv'
  <1> USE DEF TypeOK, ControlInv, QuitInv, InTurn, Changing, EndChange,
              promptVars, loopVars, history
  <1>1. CASE OpenLog
    BY <1>1 DEF OpenLog, AppendDone
  <1>2. CASE CreateThread
    BY <1>2 DEF CreateThread, AppendDone
  <1>3. CASE SetModeStep \/ SetModeDone \/ GetBit
    BY <1>3 DEF SetModeStep, SetModeDone, GetBit
  <1>4. CASE KeyQuit \/ KeyLog \/ KeySettime \/ KeyResize \/ KeyEnter \/ OtherKey
    BY <1>4 DEF KeyQuit, KeyLog, KeySettime, KeyResize, KeyEnter, OtherKey
  <1>5. CASE PostProcessInput
    BY <1>5 DEF PostProcessInput
  <1>6. CASE CloseLog
    <2>1. CASE logfile = NULL /\ Closed(quit) /\ UNCHANGED failed
      BY <1>6, <2>1 DEF CloseLog, Closed
    <2>2. ASSUME NEW ok \in BOOLEAN,
                 pc' = "clear", quit' = (quit \/ ~ok), failed' = (failed \/ ~ok)
          PROVE  QuitInv'
      BY <1>6, <2>2 DEF CloseLog
    <2> QED
      BY <1>6, <2>1, <2>2 DEF CloseLog
  <1>7. CASE ClearLog
    BY <1>7 DEF ClearLog, Closed
  <1>8. CASE SetClockResult
    BY <1>8 DEF SetClockResult
  <1>9. CASE Cleanup \/ CleanupClear \/ Stop
    BY <1>9 DEF Cleanup, CleanupClear, Stop, CleanupDone
  <1> QED
    BY <1>1, <1>2, <1>3, <1>4, <1>5, <1>6, <1>7, <1>8, <1>9 DEF Main

-----------------------------------------------------------------------------
(***************************************************************************)
(* set_mode_live().                                                        *)
(***************************************************************************)
LEMMA ObtainedStep ==
  ASSUME NEW s \in 1 .. LastStep
  PROVE  Obtained(s + 1) = Obtained(s) \cup ({Steps[s]} \cap Resources)
  BY DEF Obtained, LastStep

\* A step that fails frees the temporary objects of the steps before it.
LEMMA FreesAll ==
  ASSUME NEW s \in 1 .. LastStep
  PROVE  Obtained(s) \ Frees(s) \subseteq Lasting
  <1> USE DEF Steps
  <1>1. CASE s \in 1 .. 4
    BY <1>1 DEF Obtained, Frees, Resources, Temporary, Lasting
  <1>2. CASE s \in 5 .. 7
    BY <1>2 DEF Obtained, Frees, Resources, Temporary, Lasting
  <1>3. CASE s \in 8 .. 9
    BY <1>3 DEF Obtained, Frees, Resources, Temporary, Lasting
  <1>4. CASE s = 10
    BY <1>4 DEF Obtained, Frees, Resources, Temporary, Lasting
  <1> QED
    BY <1>1, <1>2, <1>3, <1>4 DEF LastStep

LEMMA ObtainedAll == Obtained(LastStep + 1) \ Temporary = Lasting
  <1>1. Obtained(11) = Resources
    BY DEF Obtained, Steps, Resources, Temporary, Lasting
  <1> QED
    BY <1>1 DEF LastStep, Resources, Temporary, Lasting

LEMMA MainHardware ==
  ASSUME TypeOK, ControlInv, HardwareInv, Main
  PROVE  HardwareInv'
  <1> USE DEF TypeOK, ControlInv, HardwareInv, InTurn, Changing, EndChange,
              promptVars, hwVars
  <1>1. CASE OpenLog \/ CreateThread
    <2>1. Obtained(1) = {}
      BY DEF Obtained
    <2>2. CASE pc' = "create" /\ UNCHANGED <<promptVars, hwVars>>
      BY <1>1, <2>2 DEF OpenLog, CreateThread
    <2>3. ASSUME NEW ok \in BOOLEAN, AppendDone(ok)
          PROVE  HardwareInv'
      BY <1>1, <2>1, <2>3 DEF OpenLog, CreateThread, AppendDone
    <2> QED
      BY <1>1, <2>2, <2>3 DEF OpenLog, CreateThread
  <1>2. CASE SetModeStep
    BY <1>2, ObtainedStep, FreesAll DEF SetModeStep
  <1>3. CASE SetModeDone
    <2>1. step = LastStep + 1
      BY <1>3 DEF SetModeDone, LastStep
    <2> QED
      BY <1>3, <2>1, ObtainedAll DEF SetModeDone
  <1>4. CASE GetBit
    BY <1>4 DEF GetBit
  <1>5. CASE KeyQuit \/ KeyLog \/ KeySettime \/ KeyResize \/ KeyEnter \/ OtherKey
    BY <1>5 DEF KeyQuit, KeyLog, KeySettime, KeyResize, KeyEnter, OtherKey
  <1>6. CASE PostProcessInput
    BY <1>6 DEF PostProcessInput
  <1>7. CASE CloseLog \/ ClearLog
    BY <1>7 DEF CloseLog, ClearLog, Closed
  <1>8. CASE SetClockResult
    BY <1>8 DEF SetClockResult
  <1>9. CASE Cleanup
    BY <1>9 DEF Cleanup, CleanupDone
  <1>10. CASE CleanupClear \/ Stop
    BY <1>10 DEF CleanupClear, Stop, CleanupDone
  <1> QED
    BY <1>1, <1>2, <1>3, <1>4, <1>5, <1>6, <1>7, <1>8, <1>9, <1>10 DEF Main

-----------------------------------------------------------------------------
(***************************************************************************)
(* The flush threads leave the main thread and the open FILEs alone.       *)
(***************************************************************************)
LEMMA FlushInvariants ==
  ASSUME IInv, NEW i \in Files, FlushThread(i)
  PROVE  ControlInv' /\ Handles' /\ LogInv' /\ QuitInv' /\ HardwareInv'
  <1> USE DEF IInv, promptVars, loopVars, hwVars, history
  <1>1. CASE (TestLog(i) \/ Flush(i)) /\ UNCHANGED mainVars
    <2>1. UNCHANGED <<fileVars, mainVars>> /\ dirty' \subseteq dirty
      BY <1>1 DEF TestLog, Flush, Flushed
    <2>2. Handles'
      BY <2>1 DEF Handles, fileVars, mainVars
    <2>3. ControlInv' /\ LogInv' /\ QuitInv'
      BY <2>1 DEF ControlInv, LogInv, QuitInv, fileVars, mainVars
    <2>4. HardwareInv'
      BY <2>1 DEF HardwareInv, Obtained, mainVars
    <2> QED
      BY <2>2, <2>3, <2>4
  <1>2. CASE UNCHANGED logVars /\ pc' = "crashed"
             /\ UNCHANGED <<name, promptVars, loopVars, cleanups, hwVars, history>>
             /\ UsesClosed(i)
    <2>1. Handles'
      BY <1>2 DEF Handles, logVars, fileVars
    <2>2. LogInv' /\ QuitInv' /\ HardwareInv'
      BY <1>2 DEF LogInv, QuitInv, HardwareInv, InTurn, Changing
    <2>3. ControlInv'
      BY <1>2 DEF ControlInv, Changing
    <2> QED
      BY <2>1, <2>2, <2>3
  <1> QED
    BY <1>1, <1>2 DEF FlushThread

-----------------------------------------------------------------------------
LEMMA InitIInv == Init => IInv
  <1> SUFFICES ASSUME Init PROVE IInv
    OBVIOUS
  <1>1. ControlInv
    BY DEF Init, ControlInv, Changing
  <1>2. Handles /\ LogInv
    BY DEF Init, LogInit, Handles, LogInv, InTurn, NULL
  <1>3. QuitInv
    BY DEF Init, QuitInv, InTurn, Changing
  <1>4. HardwareInv
    BY DEF Init, HardwareInv, InTurn, Changing, Obtained
  <1> QED
    BY InitType, <1>1, <1>2, <1>3, <1>4 DEF IInv

LEMMA NextIInv == IInv /\ [Next]_vars => IInv'
  <1> SUFFICES ASSUME IInv, [Next]_vars PROVE IInv'
    OBVIOUS
  <1>1. CASE Main
    BY <1>1, MainType, MainControl, MainHandles, MainLog, MainQuit, MainHardware
    DEF IInv, TypeOK
  <1>2. ASSUME NEW i \in Files, FlushThread(i) PROVE IInv'
    BY <1>2, FlushType, FlushInvariants DEF IInv
  <1>3. CASE UNCHANGED vars
    <2> USE <1>3 DEF vars, mainVars, promptVars, loopVars, hwVars, history
    <2>1. TypeOK'
      BY LogUnchanged DEF IInv, TypeOK
    <2>2. ControlInv' /\ QuitInv'
      BY DEF IInv, ControlInv, QuitInv
    <2>3. Handles' /\ LogInv'
      BY DEF IInv, Handles, LogInv, logVars, fileVars
    <2>4. HardwareInv'
      BY DEF IInv, HardwareInv, Obtained
    <2> QED
      BY <2>1, <2>2, <2>3, <2>4 DEF IInv
  <1> QED
    BY <1>1, <1>2, <1>3 DEF Next

THEOREM Invariant == Spec => []IInv
  <1> QED
    BY InitIInv, NextIInv, PTL DEF Spec

(***************************************************************************)
(* Type correctness, for any number of logs and any names.                 *)
(***************************************************************************)
THEOREM TypeCorrect == Spec => []TypeOK
  <1>1. IInv => TypeOK
    BY DEF IInv
  <1> QED
    BY Invariant, <1>1, PTL

(***************************************************************************)
(* A prompt never waits behind a terminal that is too small.               *)
(***************************************************************************)
THEOREM PromptAnswered == Spec => []PromptState
  <1>1. IInv => PromptState
    BY DEF IInv, ControlInv, PromptState, Changing
  <1> QED
    BY Invariant, <1>1, PTL

(***************************************************************************)
(* The flush threads find a closed FILE in logfile only while it is being  *)
(* closed, and no FILE is forgotten.                                       *)
(***************************************************************************)
THEOREM HandlesRight == Spec => []Handles
  <1>1. IInv => Handles
    BY DEF IInv
  <1> QED
    BY Invariant, <1>1, PTL

(***************************************************************************)
(* The hardware is held in every turn and released at the end.             *)
(***************************************************************************)
THEOREM HardwareReleased == Spec => []HardwareHeld
  <1>1. IInv => HardwareHeld
    BY DEF IInv, HardwareInv, HardwareHeld, InTurn
  <1> QED
    BY Invariant, <1>1, PTL

(***************************************************************************)
(* From turn to turn the log is the one whose name is shown.               *)
(***************************************************************************)
THEOREM LogNamed == Spec => []LogFollowsName
  <1>1. IInv => LogFollowsName
    BY DEF IInv, LogInv, QuitInv, LogFollowsName, InTurn
  <1> QED
    BY Invariant, <1>1, PTL
=============================================================================
