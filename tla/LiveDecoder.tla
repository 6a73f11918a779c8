---------------------------- MODULE LiveDecoder ----------------------------
(***************************************************************************)
(* The main loop fed by the receiver: mainloop() with get_bit_live(), as   *)
(* dcf77pi and dcf77pi-daemon run it.                                      *)
(***************************************************************************)
EXTENDS Mainloop

Init == InputInit /\ MainloopInit

\* A call of get_bit_live() starts a turn of the loop.
GetBit(Receive, v) ==
  /\ pc = "get_bit"
  /\ pc' = "process_input"
  /\ Receive
  /\ Hear(v, gb_res'.marker \in EndMarkers)
  /\ decoded' = NoCall
  /\ clock_set' = FALSE
  /\ UNCHANGED <<minlen, ml_bitpos, init_min, was_toolong, resultVars>>

GetBitReceived ==
  \E v \in BitValues, span \in Spans : GetBit(LiveBit(v, span), v)

GetBitTimeout == GetBit(LiveTimeout, ebv_none)

GetBitBadIO == \E span \in Spans : GetBit(LiveBadIO(span), ebv_none)

Next ==
  \/ GetBitReceived
  \/ GetBitTimeout
  \/ GetBitBadIO
  \/ ProcessInput
  \/ NextBit
  \/ TooLong
  \/ SetMinlen
  \/ NewMinute

Spec == Init /\ [][Next]_vars

(***************************************************************************)
(* The loop is one thread that never blocks for long: get_bit_live() takes *)
(* at most 2 * freq samples and every other stage is straight-line code.   *)
(***************************************************************************)
FairSpec == Spec /\ WF_vars(Next)
-----------------------------------------------------------------------------
(***************************************************************************)
(* Properties                                                              *)
(***************************************************************************)

(***************************************************************************)
(* Every variable has its type; in particular bitpos never leaves the      *)
(* buffer that get_bit_live() writes and decode_time() reads.              *)
(***************************************************************************)
TypeOK == InputTypeOK /\ MainloopTypeOK

(***************************************************************************)
(* The end of a minute has been received but not yet decoded.              *)
(***************************************************************************)
Undecoded == gb_res.marker \in EndMarkers /\ decoded = NoCall

Framing == INSTANCE MinuteFraming
             WITH elapsed <- acc_minlen, pending <- Undecoded, bare <- FALSE,
                  Spans <- Spans \cup {2 * Second}, FromLog <- FALSE

(***************************************************************************)
(* mainloop() and input.c together implement MinuteFraming: whatever the   *)
(* receiver delivers, and however often a minute overflows the buffer,     *)
(* decode_time() is called exactly once per end of minute, with the right  *)
(* length, the right accumulated time and well-placed bits.                *)
(***************************************************************************)
FramingSpec == Framing!Spec

(***************************************************************************)
(* The system clock is set only after two complete minutes (three ends of  *)
(* minute) since the program started, and never from a minute that did not *)
(* fit the buffer, although next_bit() reports the end of such a minute    *)
(* as an ordinary one and setclock_ok() tests for exactly that marker.     *)
(***************************************************************************)
ClockSetSafe ==
  clock_set => /\ markers = 3
               /\ decoded # NoCall
               /\ MinuteLengthOK(decoded.minlen)

(***************************************************************************)
(* A late marker arises when a minute ends with the very bit after the one *)
(* that filled the buffer; one bit later next_bit() has cleared the        *)
(* overflow ("fits again"), and the marker is an ordinary one.  It lives   *)
(* from get_bit_live() to next_bit() of the same turn only: next_bit()     *)
(* always turns it into emark_minute.  The three tests for emark_late in   *)
(* the main loop and the ones for a late marker left from the previous bit *)
(* in get_bit_live() never succeed; the end of a minute that was too long  *)
(* is recognised by a minlen of -1 alone.                                  *)
(***************************************************************************)
LateNeverSeen ==
  pc \notin {"process_input", "next_bit", "stopped"} =>
    gb_res.marker # "emark_late"

(***************************************************************************)
(* The end of a minute that was received is decoded, unless the user or a  *)
(* signal stops the program first.                                         *)
(***************************************************************************)
EndOfMinuteDecoded ==
  Undecoded ~> (decoded # NoCall \/ pc = "stopped")
=============================================================================
