------------------------------ MODULE LogFile -------------------------------
(***************************************************************************)
(* The log file that live reception writes, src/input.c.                   *)
(*                                                                         *)
(* The main thread opens, writes and closes the log; every log that is     *)
(* opened gets a detached thread which flushes, once a minute and until    *)
(* the program ends, whatever log is open then.  Nothing but the global    *)
(* variable logfile synchronises them.  The operations of the main thread  *)
(* are split where a flush thread can come in between; the program that    *)
(* EXTENDS this module puts them in order.                                 *)
(*                                                                         *)
(* A FILE is the number of the fopen() that returned it, NULL is 0.  A     *)
(* number is never used again, while malloc() might place a new FILE where *)
(* a closed one was: that only hides a use of the closed one.              *)
(***************************************************************************)
EXTENDS Integers

CONSTANT MaxLogs     \* bound on the number of logs that are opened

ASSUME MaxLogsAssumption == MaxLogs \in Nat

VARIABLES
  logfile,     \* the global variable
  opened,      \* number of FILEs that fopen() returned
  open,        \* the FILEs that are open
  dirty,       \* the open FILEs with data that is not yet flushed
  flusher,     \* what each flush thread does next
  arg          \* the FILE that each flush thread found when it tested logfile

fileVars    == <<logfile, opened, open>>
flusherVars == <<flusher, arg>>
logVars     == <<fileVars, dirty, flusherVars>>

NULL  == 0
Files == 1 .. MaxLogs

LogTypeOK ==
  /\ opened \in 0 .. MaxLogs
  /\ logfile \in 0 .. opened
  /\ open \subseteq 1 .. opened
  /\ dirty \subseteq 1 .. opened
  /\ flusher \in [Files -> {"none", "test", "flush"}]
  /\ arg \in [Files -> Files \cup {NULL}]

LogInit ==
  /\ logfile = NULL
  /\ opened = 0
  /\ open = {}
  /\ dirty = {}
  /\ flusher = [i \in Files |-> "none"]
  /\ arg = [i \in Files |-> NULL]

-----------------------------------------------------------------------------
(***************************************************************************)
(* append_logfile(): fopen() and the header of the log, or its failure,    *)
(* and then pthread_create(), or its failure.                              *)
(***************************************************************************)
Fopen ==
  /\ opened < MaxLogs
  /\ opened' = opened + 1
  /\ logfile' = opened'
  /\ open' = open \cup {opened'}
  /\ dirty' = dirty \cup {opened'}
  /\ UNCHANGED flusherVars

FopenFails ==
  /\ logfile' = NULL
  /\ UNCHANGED <<opened, open, dirty, flusherVars>>

StartFlusher ==
  /\ flusher' = [flusher EXCEPT ![opened] = "test"]
  /\ UNCHANGED <<fileVars, dirty, arg>>

(***************************************************************************)
(* get_bit_live() adds a character.                                        *)
(***************************************************************************)
Write ==
  /\ dirty' = IF logfile = NULL THEN dirty ELSE dirty \cup {logfile}
  /\ UNCHANGED <<fileVars, flusherVars>>

(***************************************************************************)
(* fclose() and the assignment after it, in close_logfile() and cleanup(). *)
(* The FILE is gone even if fclose() reports an error, and with it what    *)
(* was not yet flushed: dirty says that there is something left to flush,  *)
(* not that everything arrived on disk.                                    *)
(***************************************************************************)
Fclose ==
  /\ logfile # NULL
  /\ open' = open \ {logfile}
  /\ dirty' = dirty \ {logfile}
  /\ UNCHANGED <<logfile, opened, flusherVars>>

\* Mutant of Clear: logfile keeps its value.
Clear_Keep == UNCHANGED logVars

Clear ==
  /\ logfile' = NULL
  /\ UNCHANGED <<opened, open, dirty, flusherVars>>

-----------------------------------------------------------------------------
(***************************************************************************)
(* flush_logfile(), a turn of its loop in two steps: it tests logfile and  *)
(* sleeps again when there is none, and otherwise flushes.  For the call   *)
(* it may read logfile a second time or use the value that it tested.      *)
(***************************************************************************)
TestLog(i) ==
  /\ flusher[i] = "test"
  /\ logfile # NULL
  /\ flusher' = [flusher EXCEPT ![i] = "flush"]
  /\ arg' = [arg EXCEPT ![i] = logfile]
  /\ UNCHANGED <<fileVars, dirty>>

\* fflush(NULL) flushes every FILE.
Flushed(file) == IF file = NULL THEN {} ELSE dirty \ {file}

\* Mutant of Flush: the thread flushes once.
Flush_Once(i) ==
  /\ flusher[i] = "flush"
  /\ \E file \in {arg[i], logfile} : dirty' = Flushed(file)
  /\ flusher' = [flusher EXCEPT ![i] = "none"]
  /\ UNCHANGED <<fileVars, arg>>

Flush(i) ==
  /\ flusher[i] = "flush"
  /\ \E file \in {arg[i], logfile} : dirty' = Flushed(file)
  /\ flusher' = [flusher EXCEPT ![i] = "test"]
  /\ UNCHANGED <<fileVars, arg>>

\* The thread may call fflush() with a FILE that is closed.
UsesClosed(i) ==
  /\ flusher[i] = "flush"
  /\ \E file \in {arg[i], logfile} : file \notin open \cup {NULL}

(***************************************************************************)
(* The end of the process, which flushes what is open and ends the threads.*)
(***************************************************************************)
Exit ==
  /\ open' = {}
  /\ dirty' = {}
  /\ flusher' = [i \in Files |-> "none"]
  /\ UNCHANGED <<logfile, opened, arg>>
=============================================================================
