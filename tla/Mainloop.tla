------------------------------ MODULE Mainloop ------------------------------
(***************************************************************************)
(* The main loop of the library, src/mainloop.c.                           *)
(*                                                                         *)
(* Each turn of the loop obtains a bit, lets the program look at its user  *)
(* input, moves to the next bit and, at the end of a minute, hands the     *)
(* minute to decode_time() and possibly sets the system clock.  One action *)
(* stands for each of these stages, in the order of the code; pc names the *)
(* stage to come.  get_bit() is a parameter of the loop: the module that   *)
(* EXTENDS this one supplies it, and with it Next.                         *)
(*                                                                         *)
(* What decode_time() makes of the bits is left open here, apart from the  *)
(* verdict on the length of the minute.                                    *)
(*                                                                         *)
(* heard, count and markers are history variables.  They record what was   *)
(* received since the last end of minute, independently of bitpos, buffer  *)
(* and minlen, and how many ends of minute were received.                  *)
(***************************************************************************)
EXTENDS Input

VARIABLES
  pc,             \* the stage of the loop to come
  minlen,         \* length of the last minute in bits, -1 when too long
  ml_bitpos,      \* the loop's own bitpos: the position of the current bit
  init_min,       \* 2, 1, 0: minutes left until the decoder is initialised
  was_toolong,    \* the end of a too long minute was handled in this turn
  quit,           \* mlr.quit
  settime,        \* mlr.settime
  decoded,        \* the decode_time() call of this turn of the loop
  clock_set,      \* setclock() was called in this turn
  heard,          \* history: values received since the last end of minute
  count,          \* history: their number, BUFLEN + 1 stands for more
  markers         \* history: ends of minute received, 3 stands for more

loopVars    == <<pc, minlen, ml_bitpos, init_min, was_toolong>>
resultVars  == <<quit, settime>>
historyVars == <<heard, count, markers>>
vars == <<inputVars, loopVars, resultVars, decoded, clock_set, historyVars>>

Stages == {"get_bit", "process_input", "next_bit", "too_long", "set_minlen",
           "new_minute", "stopped"}

NoCall  == [minlen |-> 0, acc_minlen |-> 0, buffer |-> <<>>]
Call(m) == [minlen |-> m, acc_minlen |-> acc_minlen, buffer |-> buffer]
Calls   == [minlen : 1 .. BUFLEN \cup {-1}, acc_minlen : 0 .. AccMod - 1,
            buffer : [Positions -> {ebv_0, ebv_1}]]

MainloopTypeOK ==
  /\ pc \in Stages
  /\ minlen \in -1 .. BUFLEN
  /\ ml_bitpos \in Positions
  /\ init_min \in 0 .. 2
  /\ was_toolong \in BOOLEAN
  /\ quit \in BOOLEAN
  /\ settime \in BOOLEAN
  /\ decoded \in Calls \cup {NoCall}
  /\ clock_set \in BOOLEAN
  /\ heard \in [Positions -> BitValues]
  /\ count \in 0 .. BUFLEN + 1
  /\ markers \in 0 .. 3

MainloopInit ==
  /\ pc = "get_bit"
  /\ minlen = 0
  /\ ml_bitpos = 0
  /\ init_min = 2
  /\ was_toolong = FALSE
  /\ quit = FALSE
  /\ settime = FALSE
  /\ decoded = NoCall
  /\ clock_set = FALSE
  /\ heard = [i \in Positions |-> ebv_none]
  /\ count = 0
  /\ markers = 0

(***************************************************************************)
(* Record in the history that get_bit() returned a bit of value v, which   *)
(* ends a minute when last holds.                                          *)
(***************************************************************************)
Hear(v, last) ==
  /\ heard' = IF count < BUFLEN THEN [heard EXCEPT ![count] = v] ELSE heard
  /\ count' = IF count <= BUFLEN THEN count + 1 ELSE count
  /\ markers' = IF last /\ markers < 3 THEN markers + 1 ELSE markers

(***************************************************************************)
(* The stage after get_bit() for a program with the callbacks              *)
(* process_input() and post_process_input(): the user or a signal may ask  *)
(* to quit, or switch the setting of the system time on or off.  A request *)
(* of process_input() takes effect at once, before the bit is handled; one *)
(* of post_process_input(), which could not open a new log file, at the    *)
(* end of the turn.                                                        *)
(***************************************************************************)
ProcessInput ==
  /\ pc = "process_input"
  /\ settime' \in BOOLEAN
  /\ \/ /\ pc' = "stopped"
        /\ quit' \in {quit, TRUE}
        /\ gb_res.done \/ quit'
        /\ UNCHANGED ml_bitpos
     \/ /\ pc' = "next_bit"
        /\ ~gb_res.done /\ ~quit
        /\ quit' \in BOOLEAN
        /\ ml_bitpos' = bitpos
  /\ UNCHANGED <<inputVars, minlen, init_min, was_toolong,
                 decoded, clock_set, historyVars>>

NextBit ==
  /\ pc = "next_bit"
  /\ pc' = "too_long"
  /\ next_bit
  /\ UNCHANGED <<minlen, ml_bitpos, init_min, was_toolong, resultVars,
                 decoded, clock_set, historyVars>>

(***************************************************************************)
(* setclock_ok(): whether the result of decode_time() and the last bit of  *)
(* the minute are good enough to set the system clock.  dt_ok stands for   *)
(* every check of decode_time() except the one on the minute length.       *)
(***************************************************************************)
MinuteLengthOK(m) == m \in BUFLEN - 1 .. BUFLEN

\* Mutant of setclock_ok: the clock is set one minute early.
setclock_ok_Early(m, dt_ok) ==
  /\ init_min <= 1
  /\ gb_res.marker = "emark_minute"
  /\ MinuteLengthOK(m)
  /\ dt_ok
  /\ ~gb_res.bad_io
  /\ gb_res.bitval # ebv_none
  /\ gb_res.hwstat = "ehw_ok"

setclock_ok(m, dt_ok) ==
  /\ init_min = 0
  /\ gb_res.marker = "emark_minute"
  /\ MinuteLengthOK(m)
  /\ dt_ok
  /\ ~gb_res.bad_io
  /\ gb_res.bitval # ebv_none
  /\ gb_res.hwstat = "ehw_ok"

(***************************************************************************)
(* Set the system clock when the user wants that, and report the result to *)
(* process_setclock_result().  The daemon's callback does nothing; the one *)
(* of dcf77pi replaces a request to quit by one that is due when setting   *)
(* the clock failed.                                                       *)
(***************************************************************************)
SetTime(m) ==
  \E dt_ok \in BOOLEAN :
    /\ clock_set' = (settime /\ setclock_ok(m, dt_ok))
    /\ \/ quit' = quit
       \/ settime /\ quit' = FALSE
       \/ clock_set' /\ quit' = TRUE   \* setclock() failed

(***************************************************************************)
(* Mutant of check_handle_new_minute: only a late marker ends a minute.    *)
(***************************************************************************)
check_handle_new_minute_LateOnly(m) ==
  IF gb_res.marker = "emark_late" /\ ~was_toolong
    THEN /\ decoded' = Call(m)
         /\ SetTime(m)
         /\ reset_acc_minlen
         /\ init_min' = IF init_min > 0 THEN init_min - 1 ELSE init_min
         /\ heard' = [i \in Positions |-> ebv_none]
         /\ count' = 0
    ELSE UNCHANGED <<decoded, clock_set, quit, acc_minlen,
                     init_min, heard, count>>

(***************************************************************************)
(* check_handle_new_minute(), called with a minute length of m.  The loop  *)
(* calls it twice for the bit that ends a too long minute; was_toolong     *)
(* keeps the second call from decoding the minute again.                   *)
(***************************************************************************)
check_handle_new_minute(m) ==
  IF gb_res.marker \in EndMarkers /\ ~was_toolong
    THEN /\ decoded' = Call(m)
         /\ SetTime(m)
         /\ reset_acc_minlen
         /\ init_min' = IF init_min > 0 THEN init_min - 1 ELSE init_min
         /\ heard' = [i \in Positions |-> ebv_none]
         /\ count' = 0
    ELSE UNCHANGED <<decoded, clock_set, quit, acc_minlen,
                     init_min, heard, count>>

\* What check_handle_new_minute() never touches.
Unhandled == <<gb_res, bitpos, dec_bp, buffer, ml_bitpos, settime, markers>>

\* Mutant of TooLong: the end of a too long minute is not remembered.
TooLong_Forgets ==
  /\ pc = "too_long"
  /\ pc' = "set_minlen"
  /\ IF minlen = -1
       THEN check_handle_new_minute(-1)
       ELSE UNCHANGED <<acc_minlen, init_min, quit, decoded,
                        clock_set, heard, count>>
  /\ UNCHANGED <<Unhandled, minlen, was_toolong>>

\* The minute was too long before this bit: look for its end.
TooLong ==
  /\ pc = "too_long"
  /\ pc' = "set_minlen"
  /\ IF minlen = -1
       THEN check_handle_new_minute(-1) /\ was_toolong' = TRUE
       ELSE UNCHANGED <<acc_minlen, init_min, was_toolong,
                        quit, decoded, clock_set, heard, count>>
  /\ UNCHANGED <<Unhandled, minlen>>

\* The length of the minute, counting the bit that the marker replaces.
SetMinlen ==
  /\ pc = "set_minlen"
  /\ pc' = "new_minute"
  /\ minlen' = CASE gb_res.marker = "emark_minute" -> ml_bitpos + 1
                 [] gb_res.marker \in {"emark_toolong", "emark_late"} -> -1
                 [] OTHER -> minlen
  /\ UNCHANGED <<inputVars, ml_bitpos, init_min, was_toolong, resultVars,
                 decoded, clock_set, historyVars>>

\* Mutant of NewMinute: the end of a log file is not looked at.
NewMinute_IgnoresDone ==
  /\ pc = "new_minute"
  /\ check_handle_new_minute(minlen)
  /\ pc' = IF quit' THEN "stopped" ELSE "get_bit"
  /\ was_toolong' = FALSE
  /\ UNCHANGED <<Unhandled, minlen>>

\* Handle the end of a minute and go round, or leave the loop.
NewMinute ==
  /\ pc = "new_minute"
  /\ check_handle_new_minute(minlen)
  /\ pc' = IF gb_res.done \/ quit' THEN "stopped" ELSE "get_bit"
  /\ was_toolong' = FALSE
  /\ UNCHANGED <<Unhandled, minlen>>
=============================================================================
