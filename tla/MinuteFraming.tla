--------------------------- MODULE MinuteFraming ---------------------------
(***************************************************************************)
(* What the receiver and the main loop together promise to decode_time().  *)
(*                                                                         *)
(* The bits between two ends of minute form a minute.  Each minute is      *)
(* delivered exactly once, before the next bit is taken, with its number   *)
(* of bits, or -1 when it has more bits than the buffer holds, with the    *)
(* time that passed since the end of the minute before it, and with a      *)
(* buffer in which every bit that was received well is at its own          *)
(* position.  Positions of bad bits hold anything: the receiver keeps      *)
(* older values there.                                                     *)
(*                                                                         *)
(* From a receiver the end of a minute comes with its last bit.  In a log  *)
(* it may also come on its own, a bare end, which after fewer than two     *)
(* bits is counted as a bit more.                                          *)
(***************************************************************************)
EXTENDS Integers

CONSTANTS BUFLEN, AccMod, Spans, BitValues, ebv_none,
          FromLog    \* the bits come from a log, not from a receiver

VARIABLES
  heard,     \* values of the bits of this minute, by position
  count,     \* their number, BUFLEN + 1 stands for more
  elapsed,   \* time since the last end of minute
  pending,   \* the minute ended and is not yet delivered
  bare,      \* the end of this minute came without a bit
  decoded    \* the minute delivered since the last bit, if any

vars == <<heard, count, elapsed, pending, bare, decoded>>

Positions == 0 .. BUFLEN - 1
NoCall    == [minlen |-> 0, acc_minlen |-> 0, buffer |-> <<>>]
Silence   == [i \in Positions |-> ebv_none]

Init ==
  /\ heard = Silence
  /\ count = 0
  /\ elapsed = 0
  /\ pending = FALSE
  /\ bare = FALSE
  /\ decoded = NoCall

\* A received bit that ends a minute is never followed by another such bit.
Hear ==
  /\ ~pending
  /\ \E v \in BitValues :
       heard' = IF count < BUFLEN THEN [heard EXCEPT ![count] = v] ELSE heard
  /\ count' = IF count <= BUFLEN THEN count + 1 ELSE count
  /\ \E span \in Spans : elapsed' = (elapsed + span) % AccMod
  /\ pending' \in IF decoded = NoCall \/ FromLog THEN BOOLEAN ELSE {FALSE}
  /\ bare' = FALSE
  /\ decoded' = NoCall

\* Only at the start of a log is there no bit before a bare end.
End ==
  /\ FromLog
  /\ ~pending
  /\ decoded = NoCall
  /\ \E span \in Spans : elapsed' = (elapsed + span) % AccMod
  /\ pending' = TRUE
  /\ bare' = TRUE
  /\ UNCHANGED <<heard, count, decoded>>

Length ==
  IF count > BUFLEN THEN -1
  ELSE IF bare /\ count < 2 THEN count + 1
  ELSE count

\* The bits that were received well are at their place in the buffer.
Holds(bits) ==
  \A i \in Positions :
    i < count /\ heard[i] # ebv_none => bits[i] = heard[i]

Deliver ==
  /\ pending
  /\ pending' = FALSE
  /\ bare' = FALSE
  /\ \E bits \in [Positions -> BitValues \ {ebv_none}] :
       /\ Length # -1 => Holds(bits)
       /\ decoded' = [minlen |-> Length, acc_minlen |-> elapsed,
                      buffer |-> bits]
  /\ heard' = Silence
  /\ count' = 0
  /\ elapsed' = 0

Next == Hear \/ End \/ Deliver

Spec == Init /\ [][Next]_vars
=============================================================================
