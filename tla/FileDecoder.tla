---------------------------- MODULE FileDecoder ----------------------------
(***************************************************************************)
(* The main loop fed by a log file: mainloop() with get_bit_file(), as     *)
(* dcf77pi-analyze runs it.                                                *)
(*                                                                         *)
(* A log file has one character per bit.  The bit that ends a minute is    *)
(* followed by "a" and the length of the minute, "c" and a cutoff value,   *)
(* and a newline; these three are separators that get_bit_file() returns   *)
(* one by one, like bits, but with skip set.  The reader looks one         *)
(* character ahead, so that the last bit of a minute, which the live       *)
(* receiver returns together with the marker, does not move bitpos.        *)
(*                                                                         *)
(* What is in the file is external: what the receiver and append_logfile() *)
(* write, whose writer may have been stopped after any character and       *)
(* started again.  Characters that skip_invalid() drops are left out, the  *)
(* numbers after "a" and "c" are part of the separator.                    *)
(***************************************************************************)
EXTENDS Mainloop

CONSTANT LogBits   \* the characters for a bit that occur in the log

BitChars   == {"0", "1", "_", "x", "r", "#", "*"}
Separators == {"a", "c", "newline"}
NoChar     == "none"   \* the initial oldinch, no character

ASSUME LogAssumption ==
  /\ LogBits \subseteq BitChars /\ LogBits # {}
  /\ BUFLEN > 1

VARIABLES
  oldinch,          \* the previous character
  read_acc_minlen,  \* the length of this minute was read
  next,             \* the character to come, pushed back by ungetc()
  recorded,         \* external: time the log stands for since the last end
  has_length,       \* external: this minute of the log ends with a length
  ended             \* history: the end of the minute was read

readerVars == <<oldinch, read_acc_minlen, next>>
logVars    == <<recorded, has_length, ended>>
fileVars   == <<vars, readerVars, logVars>>

-----------------------------------------------------------------------------
(***************************************************************************)
(* get_bit_file()                                                          *)
(***************************************************************************)

\* The fake length of a bit, for logs that do not store minute lengths.
FakeT(ch) ==
  CASE ch \in {"0", "1", "_"} -> Second
    [] ch \in {"x", "r", "#"} -> (5 * Second) \div 2
    [] OTHER                  -> 0

\* The first of several newlines in a row ends the minute.
EndsMinute(ch) == ch = "newline" /\ oldinch # "newline"

FileMarker(m) ==
  CASE m = "emark_none"    -> "emark_minute"
    [] m = "emark_toolong" -> "emark_late"
    [] OTHER               -> m

Status(ch) ==
  CASE ch = "x" -> "ehw_transmit"
    [] ch = "r" -> "ehw_receive"
    [] ch = "#" -> "ehw_random"
    [] OTHER    -> "ehw_ok"

BitVal(ch) == CASE ch = "0" -> ebv_0 [] ch = "1" -> ebv_1 [] OTHER -> ebv_none

\* Only bits away from the first position are moved back.
LookAhead(ch, coming) ==
  dec_bp = 0 /\ bitpos > 0 /\ ch # "newline" /\ coming \in Separators

\* Mutant of KeepsLength: the newline does not forget the length.
KeepsLength_Sticks(ch, readable) ==
  IF ch = "a" THEN readable ELSE read_acc_minlen

\* The length that was read holds until the newline.
KeepsLength(ch, readable) ==
  IF EndsMinute(ch) THEN FALSE
  ELSE IF ch = "a" THEN readable ELSE read_acc_minlen

(***************************************************************************)
(* Read character ch and look ahead at the coming one; length is the       *)
(* number after an "a", which may be unreadable.                           *)
(***************************************************************************)
get_bit_file(ch, coming, length, readable) ==
  LET t == IF EndsMinute(ch) /\ ~read_acc_minlen THEN Second ELSE FakeT(ch)
  IN  /\ gb_res' = [NewState EXCEPT
                      !.bad_io = ch = "*",
                      !.done = coming = "EOF" \/ (ch = "a" /\ ~readable),
                      !.bitval = BitVal(ch),
                      !.marker = IF EndsMinute(ch) THEN FileMarker(@) ELSE @,
                      !.hwstat = Status(ch),
                      !.skip = ch \in Separators]
      /\ buffer' = IF ch \in {"0", "1"} THEN [buffer EXCEPT ![bitpos] = BitVal(ch)]
                                        ELSE buffer
      /\ read_acc_minlen' = KeepsLength(ch, readable)
      /\ acc_minlen' = IF ch = "a" /\ readable THEN length
                       ELSE IF read_acc_minlen' THEN acc_minlen
                       ELSE (acc_minlen + t) % AccMod
      /\ dec_bp' = IF LookAhead(ch, coming) THEN 1 ELSE dec_bp
      /\ oldinch' = ch
      /\ next' = coming
      /\ UNCHANGED bitpos

-----------------------------------------------------------------------------
(***************************************************************************)
(* The log.  A minute ends with its length or, in old logs and where       *)
(* append_logfile() starts a new log, with a bare newline; more newlines   *)
(* may follow.  A writer that is stopped leaves a minute of any number of  *)
(* bits, a length that is cut short and lacks its cutoff value, or an "a"  *)
(* without a number; append_logfile() goes on with a newline, which the    *)
(* six characters after a "c" may swallow, and a second one, which they    *)
(* cannot reach.  The file may end after any character.                    *)
(***************************************************************************)
Ending == IF has_length THEN "a" ELSE "newline"

Follows(ch) ==
  {"EOF"} \cup
  CASE ch = "a"       -> {"c", "newline"}
    [] ch = "c"       -> {"newline"}
    [] ch = "newline" -> LogBits \cup {"newline"}
    [] ch = NoChar    -> LogBits \cup ({Ending} \ {"a"})
    [] OTHER          -> LogBits \cup {Ending}

\* The time that passes with a bit: with a length, all of it at the last one.
Lengths(ch, coming) ==
  IF ~has_length THEN {FakeT(ch)}
  ELSE IF coming = "a" THEN 0 .. AccMod - 1 ELSE {0}

Init ==
  /\ InputInit
  /\ MainloopInit
  /\ oldinch = NoChar
  /\ read_acc_minlen = FALSE
  /\ recorded = 0
  /\ has_length \in BOOLEAN
  /\ ended = FALSE
  /\ next \in Follows(NoChar)

-----------------------------------------------------------------------------
(***************************************************************************)
(* A turn of the loop.  There are no callbacks for input: the end of the   *)
(* file is only looked at when the turn is over, and the clock is not set. *)
(***************************************************************************)
Turn ==
  /\ pc = "get_bit"
  /\ pc' = "process_input"
  /\ clock_set' = FALSE
  /\ UNCHANGED <<minlen, ml_bitpos, init_min, was_toolong, resultVars>>

GetBitChar ==
  /\ Turn
  /\ next \in BitChars
  /\ \E coming \in Follows(next) :
       /\ get_bit_file(next, coming, 0, TRUE)
       /\ ended' = (coming = "a")
       /\ \E t \in Lengths(next, coming) : recorded' = (recorded + t) % AccMod
       /\ Hear(BitVal(next), coming = "a")
  /\ decoded' = NoCall
  /\ UNCHANGED has_length

\* There is no number to read only where the log was cut off after the "a":
\* append_logfile() goes on with a newline and dashes.
GetLength ==
  /\ Turn
  /\ next = "a"
  /\ \E coming \in Follows(next), readable \in BOOLEAN :
       /\ ~readable => coming # "c"
       /\ get_bit_file(next, coming, recorded, readable)
  /\ UNCHANGED <<logVars, decoded, historyVars>>

GetCutoff ==
  /\ Turn
  /\ next = "c"
  /\ \E coming \in Follows(next) : get_bit_file(next, coming, 0, TRUE)
  /\ UNCHANGED <<logVars, decoded, historyVars>>

(***************************************************************************)
(* A newline.  A bare one ends the minute itself and stands for a second;  *)
(* at the start of the file, where append_logfile() puts one, it ends a    *)
(* minute without bits.                                                    *)
(***************************************************************************)
GetNewline ==
  /\ Turn
  /\ next = "newline"
  /\ \E coming \in Follows(next) : get_bit_file(next, coming, 0, TRUE)
  /\ IF EndsMinute(next) /\ ~has_length
       THEN /\ ended' = TRUE
            /\ recorded' = (recorded + Second) % AccMod
            /\ markers' = IF markers < 3 THEN markers + 1 ELSE markers
       ELSE UNCHANGED <<ended, recorded, markers>>
  /\ UNCHANGED <<has_length, decoded, heard, count>>

\* The file is empty.
GetEOF ==
  /\ Turn
  /\ next = "EOF"
  /\ gb_res' = [NewState EXCEPT !.done = TRUE]
  /\ UNCHANGED <<bitpos, dec_bp, buffer, acc_minlen, readerVars, logVars,
                 decoded, historyVars>>

TakePosition ==
  /\ pc = "process_input"
  /\ pc' = "next_bit"
  /\ ml_bitpos' = bitpos
  /\ UNCHANGED <<inputVars, minlen, init_min, was_toolong, resultVars,
                 decoded, clock_set, historyVars, readerVars, logVars>>

\* The other stages, which do not look at the file.  When the minute is
\* delivered the next one of the log begins.
Stage ==
  /\ NextBit \/ TooLong \/ SetMinlen \/ NewMinute
  /\ IF decoded' = decoded
       THEN UNCHANGED logVars
       ELSE recorded' = 0 /\ has_length' \in BOOLEAN /\ ended' = FALSE
  /\ UNCHANGED readerVars

Next ==
  \/ GetBitChar
  \/ GetLength
  \/ GetCutoff
  \/ GetNewline
  \/ GetEOF
  \/ TakePosition
  \/ Stage

Spec == Init /\ [][Next]_fileVars

\* One thread that reads a regular file: it never blocks.
FairSpec == Spec /\ WF_fileVars(Next)
-----------------------------------------------------------------------------
(***************************************************************************)
(* Properties                                                              *)
(***************************************************************************)

(***************************************************************************)
(* Every variable has its type.  In particular the step back before a      *)
(* separator never makes bitpos, the index of the buffer, negative.        *)
(***************************************************************************)
TypeOK ==
  /\ InputTypeOK
  /\ MainloopTypeOK
  /\ oldinch \in BitChars \cup Separators \cup {NoChar}
  /\ read_acc_minlen \in BOOLEAN
  /\ next \in BitChars \cup Separators \cup {"EOF"}
  /\ recorded \in 0 .. AccMod - 1
  /\ has_length \in BOOLEAN
  /\ ended \in BOOLEAN

\* The minute ends with a bare newline.
Bare == ended /\ ~has_length

\* The times that may pass with a bit or a bare newline of the log.
LogSpans == 0 .. AccMod - 1 \cup {Second} \cup {FakeT(ch) : ch \in BitChars}

Framing == INSTANCE MinuteFraming
             WITH elapsed <- recorded, pending <- ended, bare <- Bare,
                  Spans <- LogSpans, FromLog <- TRUE

(***************************************************************************)
(* The log file reader implements the same MinuteFraming as the receiver   *)
(* that wrote the log: each minute of the log is handed to decode_time()   *)
(* once, with its number of bits, the time the log tells and well-placed   *)
(* bits, whatever overflowed the buffer and wherever the log was cut off   *)
(* and restarted.  Only a bare newline after less than two bits makes a    *)
(* difference: the reader does not step back from the first position, so   *)
(* the newline itself is counted as a bit (input.c:797), and a log that    *)
(* starts with one starts with a minute that nobody received.              *)
(***************************************************************************)
FramingSpec == Framing!Spec

(***************************************************************************)
(* The program ends when the file does, wherever it is cut off: done must  *)
(* survive next_bit() and reach the end of the turn.  It also ends, and    *)
(* the rest of the log is lost, at an "a" without a number.                *)
(***************************************************************************)
EndOfFile == next = "EOF" ~> pc = "stopped"
=============================================================================
