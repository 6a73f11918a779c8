------------------------------- MODULE Client -------------------------------
(***************************************************************************)
(* The interactive client, src/dcf77pi.c, and the log that it keeps.       *)
(*                                                                         *)
(* Once the program has started, a turn of the main loop receives a bit,   *)
(* handles the keys that were typed (process_input()), carries out a       *)
(* change of the log (post_process_input()) and may set the system clock   *)
(* (process_setclock_result()).  pc is what the main thread does next;     *)
(* where it waits between two steps of an operation on the log, the flush  *)
(* threads can run.  Everything that is only shown is left out, as are the *)
(* characters of the names of logs.                                        *)
(***************************************************************************)
EXTENDS LogFile

CONSTANTS
  Names,     \* the names that logs can have
  NoLog,     \* the empty name, for no log
  Same       \* the name ".", for the present log

ASSUME NamesAssumption == NoLog \notin Names /\ Same \notin Names \cup {NoLog}

VARIABLES
  pc,                \* what the main thread does next
  name,              \* mlr.logfilename, NoLog for NULL too
  keybuf,            \* the name that was typed last
  input_mode,        \* 0, 1: a name is being typed, -1: it was typed
  change_logfile,    \* mlr.change_logfile
  toosmall,          \* the terminal has become too small
  settime,           \* mlr.settime
  quit,              \* mlr.quit
  cleanups,          \* number of calls to cleanup() that are left
  step,              \* of set_mode_live(): which comes next
  held,              \* what set_mode_live() has obtained
  failed,            \* history: an operation on the log has failed
  lost,              \* history: a request to quit was lost
  unclosed           \* history: fclose() has failed in cleanup()

promptVars == <<keybuf, input_mode, change_logfile, toosmall>>
loopVars   == <<settime, quit>>
hwVars     == <<step, held>>
history    == <<failed, lost, unclosed>>
mainVars   == <<pc, name, promptVars, loopVars, cleanups, hwVars, history>>
vars       == <<logVars, mainVars>>

\* Where post_process_input() has called close_logfile() or append_logfile().
Changing == {"close", "clear", "open", "create"}

Stages == Changing \cup
  {"set_mode", "get_bit", "process_input", "post_process_input", "setclock",
   "cleanup", "cleanup_clear", "exit", "stopped", "crashed"}

\* The steps of set_mode_live() that can fail; some obtain an object.
Steps == <<"config", "signal", "chip", "line_settings", "direction", "bias",
           "line_config", "add_settings", "req_config", "line_req">>
LastStep == 10
Temporary == {"line_settings", "line_config", "req_config"}
Lasting   == {"signal", "chip", "line_req"}
Resources == Temporary \cup Lasting

TypeOK ==
  /\ LogTypeOK
  /\ pc \in Stages
  /\ name \in Names \cup {NoLog}
  /\ keybuf \in Names \cup {NoLog, Same}
  /\ input_mode \in {0, 1, -1}
  /\ cleanups \in 0 .. 2
  /\ step \in 1 .. LastStep + 1
  /\ held \subseteq Resources
  /\ change_logfile \in BOOLEAN /\ toosmall \in BOOLEAN
  /\ settime \in BOOLEAN /\ quit \in BOOLEAN
  /\ failed \in BOOLEAN /\ lost \in BOOLEAN /\ unclosed \in BOOLEAN

\* main() starts with the log of the configuration, if there is one.
Init ==
  /\ LogInit
  /\ name \in Names \cup {NoLog}
  /\ pc = IF name = NoLog THEN "set_mode" ELSE "open"
  /\ keybuf = NoLog
  /\ input_mode = 0
  /\ change_logfile = FALSE
  /\ toosmall = FALSE
  /\ settime = FALSE
  /\ quit = FALSE
  /\ cleanups = 0
  /\ step = 1
  /\ held = {}
  /\ failed = FALSE
  /\ lost = FALSE
  /\ unclosed = FALSE

-----------------------------------------------------------------------------
(***************************************************************************)
(* The return of post_process_input(), with mlr.quit = q.                  *)
(***************************************************************************)
EndChange(q) ==
  /\ pc' = "setclock"
  /\ input_mode' = 0
  /\ change_logfile' = FALSE
  /\ quit' = q
  /\ UNCHANGED <<keybuf, toosmall>>

\* Mutant of AppendDone: the error is only shown.
AppendDone_Shown(ok) ==
  /\ failed' = (failed \/ ~ok)
  /\ IF input_mode = -1
       THEN EndChange(quit)
       ELSE /\ pc' = IF ok THEN "set_mode" ELSE "exit"
            /\ UNCHANGED <<promptVars, quit>>
  /\ UNCHANGED <<name, settime, cleanups, hwVars, lost, unclosed>>

(***************************************************************************)
(* What follows a call to append_logfile(): in main() the program ends if  *)
(* it failed, in post_process_input() it shall quit.                       *)
(***************************************************************************)
AppendDone(ok) ==
  /\ failed' = (failed \/ ~ok)
  /\ IF input_mode = -1
       THEN EndChange(quit \/ ~ok)
       ELSE /\ pc' = IF ok THEN "set_mode" ELSE "exit"
            /\ UNCHANGED <<promptVars, quit>>
  /\ UNCHANGED <<name, settime, cleanups, hwVars, lost, unclosed>>

OpenLog ==
  /\ pc = "open"
  /\ \/ /\ Fopen
        /\ pc' = "create"
        /\ UNCHANGED <<name, promptVars, loopVars, cleanups, hwVars, history>>
     \/ FopenFails /\ AppendDone(FALSE)

CreateThread ==
  /\ pc = "create"
  /\ \/ StartFlusher /\ AppendDone(TRUE)
     \/ UNCHANGED logVars /\ AppendDone(FALSE)

(***************************************************************************)
(* set_mode_live() on Linux, step by step.  Each step may fail, which      *)
(* frees what the code names there and calls cleanup(); client_cleanup()   *)
(* then calls it again.                                                    *)
(***************************************************************************)
\* Mutant of Frees: the configuration is forgotten when the request fails.
Frees_NoConfig(s) ==
  CASE Steps[s] \in {"direction", "bias", "line_config"} -> {"line_settings"}
    [] Steps[s] \in {"add_settings", "req_config"} ->
         {"line_settings", "line_config"}
    [] Steps[s] = "line_req" -> {"line_settings", "req_config"}
    [] OTHER -> {}

Frees(s) ==
  CASE Steps[s] \in {"direction", "bias", "line_config"} -> {"line_settings"}
    [] Steps[s] \in {"add_settings", "req_config"} ->
         {"line_settings", "line_config"}
    [] Steps[s] = "line_req" -> {"line_settings", "line_config", "req_config"}
    [] OTHER -> {}

SetModeStep ==
  /\ pc = "set_mode" /\ step <= LastStep
  /\ \/ /\ step' = step + 1
        /\ held' = held \cup ({Steps[step]} \cap Resources)
        /\ UNCHANGED <<pc, cleanups>>
     \/ /\ held' = held \ Frees(step)
        /\ pc' = "cleanup" /\ cleanups' = 2
        /\ UNCHANGED step
  /\ UNCHANGED <<logVars, name, promptVars, loopVars, history>>

\* The temporary objects are freed, and main() looks at the terminal.
SetModeDone ==
  /\ pc = "set_mode" /\ step > LastStep
  /\ held' = held \ Temporary
  /\ \/ pc' = "get_bit" /\ UNCHANGED cleanups
     \/ pc' = "cleanup" /\ cleanups' = 1
  /\ UNCHANGED <<logVars, name, promptVars, loopVars, step, history>>

GetBit ==
  /\ pc = "get_bit"
  /\ Write
  /\ pc' = "process_input"
  /\ UNCHANGED <<name, promptVars, loopVars, cleanups, hwVars, history>>

(***************************************************************************)
(* process_input(): the keys.  A terminal that is too small lets nobody    *)
(* type anything but 'Q'.                                                  *)
(***************************************************************************)
KeyQuit ==
  /\ pc = "process_input"
  /\ input_mode = 0
  /\ quit' = TRUE
  /\ pc' = "cleanup"
  /\ cleanups' = 1
  /\ UNCHANGED <<logVars, name, promptVars, settime, hwVars, history>>

KeyLog ==
  /\ pc = "process_input"
  /\ input_mode = 0 /\ ~toosmall
  /\ pc' = "post_process_input"
  /\ input_mode' = 1
  /\ change_logfile' = TRUE
  /\ UNCHANGED <<logVars, name, keybuf, toosmall, loopVars, cleanups,
                 hwVars, history>>

KeySettime ==
  /\ pc = "process_input"
  /\ input_mode = 0 /\ ~toosmall
  /\ pc' = "post_process_input"
  /\ settime' = ~settime
  /\ UNCHANGED <<logVars, name, promptVars, quit, cleanups, hwVars, history>>

\* Mutant of KeyResize: the size is noticed while a name is typed, too.
KeyResize_Always ==
  /\ pc = "process_input"
  /\ pc' = "post_process_input"
  /\ toosmall' \in BOOLEAN
  /\ UNCHANGED <<logVars, name, keybuf, input_mode, change_logfile, loopVars,
                 cleanups, hwVars, history>>

KeyResize ==
  /\ pc = "process_input"
  /\ input_mode = 0
  /\ pc' = "post_process_input"
  /\ toosmall' \in BOOLEAN
  /\ UNCHANGED <<logVars, name, keybuf, input_mode, change_logfile, loopVars,
                 cleanups, hwVars, history>>

\* The end of a name; a name that is not complete is not told apart.
KeyEnter ==
  /\ pc = "process_input"
  /\ input_mode = 1 /\ ~toosmall
  /\ pc' = "post_process_input"
  /\ input_mode' = -1
  /\ keybuf' \in Names \cup {NoLog, Same}
  /\ UNCHANGED <<logVars, name, change_logfile, toosmall, loopVars, cleanups,
                 hwVars,
                 history>>

OtherKey ==
  /\ pc = "process_input"
  /\ pc' = "post_process_input"
  /\ UNCHANGED <<logVars, name, promptVars, loopVars, cleanups, hwVars,
                 history>>

-----------------------------------------------------------------------------
(***************************************************************************)
(* post_process_input(): when a name was typed, the log changes to it.     *)
(* NULL as mlr.logfilename counts as the empty name.                       *)
(***************************************************************************)
\* Mutant of NewName: "." is a name like any other.
NewName_Dot == keybuf

NewName == IF keybuf = Same THEN name ELSE keybuf

PostProcessInput ==
  /\ pc = "post_process_input"
  /\ IF ~toosmall /\ input_mode = -1 /\ change_logfile /\ NewName # name
       THEN /\ name' = NewName
            /\ pc' = IF name # NoLog THEN "close" ELSE "open"
            /\ UNCHANGED <<promptVars, quit>>
       ELSE /\ IF ~toosmall /\ input_mode = -1
                 THEN EndChange(quit)
                 ELSE pc' = "setclock" /\ UNCHANGED <<promptVars, quit>>
            /\ UNCHANGED name
  /\ UNCHANGED <<logVars, settime, cleanups, hwVars, history>>

\* post_process_input() after a call to close_logfile(), which may have failed.
Closed(q) ==
  IF name # NoLog THEN pc' = "open" /\ quit' = q /\ UNCHANGED promptVars
               ELSE EndChange(q)

(***************************************************************************)
(* close_logfile(): fclose() and the assignment of NULL, or nothing when   *)
(* no log is open.  quit is set at once instead of after the return.       *)
(***************************************************************************)
CloseLog ==
  /\ pc = "close"
  /\ \/ /\ logfile = NULL
        /\ Closed(quit)
        /\ UNCHANGED <<logVars, failed>>
     \/ /\ Fclose
        /\ pc' = "clear"
        /\ \E ok \in BOOLEAN :
             quit' = (quit \/ ~ok) /\ failed' = (failed \/ ~ok)
        /\ UNCHANGED promptVars
  /\ UNCHANGED <<name, settime, cleanups, hwVars, lost, unclosed>>

ClearLog ==
  /\ pc = "clear"
  /\ Clear
  /\ Closed(quit)
  /\ UNCHANGED <<name, settime, cleanups, hwVars, history>>

(***************************************************************************)
(* The rest of the turn.  If the system time was set, or should have been, *)
(* process_setclock_result() decides anew whether to quit.                 *)
(***************************************************************************)
SetClockResult ==
  /\ pc = "setclock"
  /\ quit' \in IF settime THEN BOOLEAN ELSE {quit}
  /\ lost' = (lost \/ (quit /\ ~quit'))
  /\ IF quit' THEN pc' = "cleanup" /\ cleanups' = 1
              ELSE pc' = "get_bit" /\ UNCHANGED cleanups
  /\ UNCHANGED <<logVars, name, promptVars, settime, hwVars, failed, unclosed>>

(***************************************************************************)
(* cleanup(): unlike close_logfile() it keeps logfile when fclose() fails, *)
(* so that a second call closes it again, which is undefined: the program  *)
(* crashes or goes on.                                                     *)
(***************************************************************************)
CleanupDone ==
  /\ cleanups' = cleanups - 1
  /\ pc' = IF cleanups = 1 THEN "exit" ELSE "cleanup"

Cleanup ==
  /\ pc = "cleanup"
  /\ \/ /\ logfile = NULL
        /\ CleanupDone
        /\ UNCHANGED <<logVars, unclosed>>
     \/ /\ logfile \in open
        /\ Fclose
        /\ \/ pc' = "cleanup_clear" /\ UNCHANGED <<cleanups, unclosed>>
           \/ CleanupDone /\ unclosed' = TRUE
     \/ /\ logfile \notin open \cup {NULL}
        /\ \/ CleanupDone
           \/ pc' = "crashed" /\ UNCHANGED cleanups
        /\ UNCHANGED <<logVars, unclosed>>
  /\ held' = held \ Lasting
  /\ UNCHANGED <<name, promptVars, loopVars, step, failed, lost>>

CleanupClear ==
  /\ pc = "cleanup_clear"
  /\ Clear
  /\ CleanupDone
  /\ UNCHANGED <<name, promptVars, loopVars, hwVars, history>>

Stop ==
  /\ pc = "exit"
  /\ Exit
  /\ pc' = "stopped"
  /\ UNCHANGED <<name, promptVars, loopVars, cleanups, hwVars, history>>

-----------------------------------------------------------------------------
(***************************************************************************)
(* A flush thread; if it uses a log that is closed, the program may crash. *)
(***************************************************************************)
FlushThread(i) ==
  /\ pc # "crashed"
  /\ \/ (TestLog(i) \/ Flush(i)) /\ UNCHANGED mainVars
     \/ /\ UsesClosed(i)
        /\ pc' = "crashed"
        /\ UNCHANGED <<logVars, name, promptVars, loopVars, cleanups, hwVars,
                       history>>

Main ==
  \/ OpenLog \/ CreateThread \/ SetModeStep \/ SetModeDone \/ GetBit
  \/ KeyQuit \/ KeyLog \/ KeySettime \/ KeyResize \/ KeyEnter \/ OtherKey
  \/ PostProcessInput \/ CloseLog \/ ClearLog \/ SetClockResult
  \/ Cleanup \/ CleanupClear \/ Stop

Next == Main \/ \E i \in Files : FlushThread(i)

Spec == Init /\ [][Next]_vars

\* The operating system schedules every thread.
FairSpec ==
  /\ Spec
  /\ WF_vars(Main)
  /\ \A i \in Files : WF_vars(FlushThread(i))

-----------------------------------------------------------------------------
(***************************************************************************)
(* Properties                                                              *)
(***************************************************************************)

(***************************************************************************)
(* A prompt for a name and a terminal that is too small exclude each       *)
(* other, and a typed name is used in the turn in which it is complete:    *)
(* otherwise post_process_input() would leave it, and all keys, waiting.   *)
(***************************************************************************)
PromptState ==
  /\ toosmall => input_mode = 0
  /\ change_logfile <=> input_mode # 0
  /\ pc \in {"get_bit", "process_input", "setclock"} => input_mode # -1

(***************************************************************************)
(* The open FILE is the one in logfile: no FILE is forgotten and, what the *)
(* flush threads rely on, no thread that tests logfile finds a closed one. *)
(* The exceptions are the moment between fclose() and the assignment of    *)
(* NULL, and the time from an fclose() that failed in cleanup() to the end *)
(* of the program.  Nothing is written to a closed FILE.                   *)
(***************************************************************************)
Handles ==
  /\ pc \notin {"stopped", "crashed"} =>
       open = IF pc \in {"clear", "cleanup_clear"} \/ unclosed
                THEN {} ELSE {logfile} \ {NULL}
  /\ dirty \subseteq open

(***************************************************************************)
(* What set_mode_live() obtained is there for every get_bit_live() and is  *)
(* given back before the program ends, at whatever step it fails: each     *)
(* failing step frees what was obtained before it and is not in the        *)
(* variables that cleanup() releases.                                      *)
(***************************************************************************)
HardwareHeld ==
  /\ pc \in {"get_bit", "process_input", "post_process_input", "setclock"}
       => held = Lasting
  /\ pc \in {"exit", "stopped"} => held = {}

(***************************************************************************)
(* From one turn to the next a log is open just when it has a name, and    *)
(* the program does not go on after an operation on the log has failed.    *)
(* Setting the system time in the same turn spoils this: the request to    *)
(* quit is lost and the client goes on without the log that it shows.      *)
(***************************************************************************)
LogFollowsName ==
  pc = "get_bit" /\ ~lost => ~failed /\ (logfile # NULL <=> name # NoLog)

(***************************************************************************)
(* CHANGELOG.md, "Flush the log file every 60 seconds": what was written   *)
(* to a log is flushed at some time, through all changes of the log,       *)
(* unless the program crashes or has lost a request to quit, when there    *)
(* may be no flush thread.  An fclose() counts as a flush, whether it      *)
(* reports an error or not.                                                *)
(***************************************************************************)
FlushedEventually ==
  \A file \in Files :
    file \in dirty ~> (file \notin dirty \/ lost \/ pc = "crashed")
=============================================================================
