------------------------------ MODULE ShmClock ------------------------------
(***************************************************************************)
(* The shared memory segment through which dcf77pi-daemon hands its time   *)
(* to NTPsec or Chrony: init_shm(), update_shm() and cleanup_shm() of      *)
(* src/dcf77pi-daemon.c, and the reader on the other side.                 *)
(*                                                                         *)
(* The two processes share memory and nothing else, so every access to it  *)
(* is an action of its own.  valid and count are volatile, the other       *)
(* fields are not: the compiler may move their stores over those of valid  *)
(* and count, and an ARM processor, which sees no barrier, may make all    *)
(* stores visible in another order.  The stores of one update therefore    *)
(* become visible in any order in which those to one location keep theirs; *)
(* they are all visible before the next update, a minute later.            *)
(*                                                                         *)
(* The reader is not part of the repository.  It is modelled after the     *)
(* comment on mode 1 of struct shmTime: if valid is set and count is the   *)
(* same before and after reading the values, use the values; clear valid.  *)
(* Its loads are made in this order.                                       *)
(*                                                                         *)
(* A field holds the number of the update that wrote it, counted from the  *)
(* start of the daemon, so that values of two updates can be told apart.   *)
(***************************************************************************)
EXTENDS Integers

CONSTANTS
  Fields,      \* the fields update_shm() fills: time stamps and leap
  MaxUpdates,  \* bound on the updates of one run of the daemon
  MaxStarts    \* bound on the number of starts of the daemon

ASSUME ShmAssumption ==
  /\ MaxUpdates \in Nat
  /\ MaxStarts \in Nat
  /\ Fields # {}
  /\ Fields \cap {"invalid", "count1", "count2", "valid", "count"} = {}

VARIABLES
  valid,        \* shm->valid
  count,        \* shm->count
  field,        \* the other fields of shm
  wpc,          \* what the daemon does next with the segment
  seq,          \* number of the update at hand or last made
  todo,         \* stores not yet visible; after a crash: those never made
  starts,       \* history: number of starts of the daemon
  dirty,        \* history: the segment is not completely initialised
  rpc,          \* what the reader does next
  rcount,       \* the value of count the reader saw first
  rfield,       \* the values of the fields the reader saw
  rtodo,        \* fields still to be read
  rastray,      \* history: what the reader saw while its store was astray
  interrupted,  \* history: the segment was (re)initialised during this read
  used          \* the sample the reader used last

shmVars    == <<valid, count, field>>
writerVars == <<wpc, seq, todo, starts, dirty>>
readerVars == <<rpc, rcount, rfield, rtodo, rastray, interrupted, used>>
vars       == <<shmVars, writerVars, readerVars>>

\* The stores of update_shm() to valid and to count, in program order.
Marks == {"invalid", "count1", "count2", "valid"}

WriterStates == {"down", "init", "idle", "update"}
ReaderStates == {"poll", "count", "fields", "compare", "clear"}

Samples ==
  [count : Nat, field : [Fields -> Nat], astray : SUBSET (Fields \cup Marks),
   clean : BOOLEAN, start : Nat]
NoSample == [count |-> 0, field |-> <<>>, astray |-> {}, clean |-> FALSE,
             start |-> 0]

\* The daemon is not running yet; the segment is as the system created it.
Init ==
  /\ valid = 0
  /\ count = 0
  /\ field = [f \in Fields |-> 0]
  /\ wpc = "down"
  /\ seq = 0
  /\ todo = {}
  /\ starts = 0
  /\ dirty = TRUE
  /\ rpc = "poll"
  /\ rcount = 0
  /\ rfield = [f \in Fields |-> 0]
  /\ rtodo = {}
  /\ rastray = {}
  /\ interrupted = FALSE
  /\ used = NoSample

-----------------------------------------------------------------------------
(***************************************************************************)
(* init_shm(): attach to the segment, which keeps its contents over runs   *)
(* of the daemon, and clear it with memset(), in no particular order.      *)
(***************************************************************************)
Start ==
  /\ wpc = "down" /\ starts < MaxStarts
  /\ wpc' = "init"
  /\ todo' = Fields \cup {"valid", "count"}
  /\ starts' = starts + 1
  /\ dirty' = TRUE
  /\ interrupted' = TRUE
  /\ UNCHANGED <<shmVars, seq, rpc, rcount, rfield, rtodo, rastray, used>>

Clear(loc) ==
  /\ wpc = "init" /\ loc \in todo
  /\ todo' = todo \ {loc}
  /\ valid' = IF loc = "valid" THEN 0 ELSE valid
  /\ count' = IF loc = "count" THEN 0 ELSE count
  /\ field' = [f \in Fields |-> IF f = loc THEN 0 ELSE field[f]]
  /\ UNCHANGED <<wpc, seq, starts, dirty, readerVars>>

\* The remaining stores of init_shm(), among which valid = 0.
Initialised ==
  /\ wpc = "init" /\ todo = {}
  /\ wpc' = "idle"
  /\ valid' = 0
  /\ seq' = 0
  /\ dirty' = FALSE
  /\ UNCHANGED <<count, field, todo, starts, readerVars>>

(***************************************************************************)
(* update_shm(), once the time is converted: first its stores, of which    *)
(* only those to one location keep their order, then its return.           *)
(***************************************************************************)
Update ==
  /\ wpc = "idle" /\ seq < MaxUpdates
  /\ wpc' = "update"
  /\ seq' = seq + 1
  /\ todo' = Fields \cup Marks
  /\ UNCHANGED <<shmVars, starts, dirty, readerVars>>

\* One of the stores becomes visible, after those it has to follow.
Visible(store, before) ==
  /\ wpc = "update"
  /\ store \in todo /\ before \cap todo = {}
  /\ todo' = todo \ {store}
  /\ UNCHANGED <<wpc, seq, starts, dirty, readerVars>>

Invalidate ==
  /\ Visible("invalid", {})
  /\ valid' = 0
  /\ UNCHANGED <<count, field>>

\* Mutant of CountBefore: the counter goes the wrong way.
CountBefore_Down ==
  /\ Visible("count1", {})
  /\ count' = count - 1
  /\ UNCHANGED <<valid, field>>

CountBefore ==
  /\ Visible("count1", {})
  /\ count' = count + 1
  /\ UNCHANGED <<valid, field>>

Store(f) ==
  /\ Visible(f, {})
  /\ field' = [field EXCEPT ![f] = seq]
  /\ UNCHANGED <<valid, count>>

\* Mutant of CountAfter: count is only incremented before the fields.
CountAfter_Missing ==
  /\ Visible("count2", {"count1"})
  /\ UNCHANGED shmVars

\* Mutant of CountAfter: the counter only marks an update in progress.
CountAfter_Toggle ==
  /\ Visible("count2", {"count1"})
  /\ count' = count - 1
  /\ UNCHANGED <<valid, field>>

CountAfter ==
  /\ Visible("count2", {"count1"})
  /\ count' = count + 1
  /\ UNCHANGED <<valid, field>>

Validate ==
  /\ Visible("valid", {"invalid"})
  /\ valid' = 1
  /\ UNCHANGED <<count, field>>

Updated ==
  /\ wpc = "update" /\ todo = {}
  /\ wpc' = "idle"
  /\ UNCHANGED <<shmVars, seq, todo, starts, dirty, readerVars>>

(***************************************************************************)
(* cleanup_shm().  A signal only sets a flag, which the main loop polls    *)
(* between two bits, so a graceful stop never interrupts update_shm().     *)
(***************************************************************************)
Shutdown ==
  /\ wpc = "idle"
  /\ wpc' = "down"
  /\ valid' = 0
  /\ UNCHANGED <<count, field, seq, todo, starts, dirty, readerVars>>

\* The daemon is killed, the segment stays as it is; the stores that were not
\* made by then are never made.
Crash ==
  /\ wpc # "down"
  /\ wpc' = "down"
  /\ UNCHANGED <<shmVars, seq, todo, starts, dirty, readerVars>>

-----------------------------------------------------------------------------
(***************************************************************************)
(* The stores that left the increments of count: that of a field made      *)
(* before the first one or after the second one, and that of valid = 1     *)
(* made before the second one.                                             *)
(***************************************************************************)
Astray(store) ==
  IF store = "valid"
    THEN "valid" \notin todo /\ "count2" \in todo
    ELSE \/ store \notin todo /\ "count1" \in todo
         \/ store \in todo /\ "count2" \notin todo

(***************************************************************************)
(* The reader.                                                             *)
(***************************************************************************)
Poll ==
  /\ rpc = "poll" /\ valid = 1
  /\ rpc' = "count"
  /\ rastray' = {s \in {"valid"} : Astray(s)}
  /\ interrupted' = dirty
  /\ UNCHANGED <<shmVars, writerVars, rcount, rfield, rtodo, used>>

ReadCount ==
  /\ rpc = "count"
  /\ rpc' = "fields"
  /\ rcount' = count
  /\ rtodo' = Fields
  /\ UNCHANGED <<shmVars, writerVars, rfield, rastray, interrupted, used>>

ReadField(f) ==
  /\ rpc = "fields" /\ f \in rtodo
  /\ rtodo' = rtodo \ {f}
  /\ rfield' = [rfield EXCEPT ![f] = field[f]]
  /\ rastray' = rastray \cup {s \in {f} : Astray(s)}
  /\ rpc' = IF rtodo' = {} THEN "compare" ELSE rpc
  /\ UNCHANGED <<shmVars, writerVars, rcount, interrupted, used>>

Compare ==
  /\ rpc = "compare"
  /\ rpc' = "clear"
  /\ used' = IF count = rcount
               THEN [count |-> rcount, field |-> rfield, astray |-> rastray,
                     clean |-> ~interrupted, start |-> starts]
               ELSE used
  /\ UNCHANGED <<shmVars, writerVars, rcount, rfield, rtodo, rastray,
                 interrupted>>

\* The reader's variables do not outlive its read.
ClearValid ==
  /\ rpc = "clear"
  /\ rpc' = "poll"
  /\ valid' = 0
  /\ rcount' = 0
  /\ rfield' = [f \in Fields |-> 0]
  /\ rastray' = {}
  /\ interrupted' = FALSE
  /\ UNCHANGED <<count, field, writerVars, rtodo, used>>

-----------------------------------------------------------------------------
Writer ==
  \/ Start
  \/ \E loc \in Fields \cup {"valid", "count"} : Clear(loc)
  \/ Initialised
  \/ Update
  \/ Invalidate
  \/ CountBefore
  \/ \E f \in Fields : Store(f)
  \/ CountAfter
  \/ Validate
  \/ Updated
  \/ Shutdown
  \/ Crash

Reader ==
  \/ Poll
  \/ ReadCount
  \/ \E f \in Fields : ReadField(f)
  \/ Compare
  \/ ClearValid

Next == Writer \/ Reader

Spec == Init /\ [][Next]_vars

-----------------------------------------------------------------------------
(***************************************************************************)
(* Properties                                                              *)
(***************************************************************************)

\* Every variable has its type.
TypeOK ==
  /\ valid \in {0, 1}
  /\ count \in Nat
  /\ field \in [Fields -> Nat]
  /\ wpc \in WriterStates
  /\ seq \in Nat
  /\ todo \subseteq Fields \cup Marks \cup {"count"}
  /\ starts \in Nat
  /\ dirty \in BOOLEAN
  /\ rpc \in ReaderStates
  /\ rcount \in Nat
  /\ rfield \in [Fields -> Nat]
  /\ rtodo \subseteq Fields
  /\ rastray \subseteq Fields \cup Marks
  /\ interrupted \in BOOLEAN
  /\ used \in Samples \cup {NoSample}

(***************************************************************************)
(* In a sample that was read while count was even, and during which the    *)
(* segment was not reinitialised, every field is that of update number     *)
(* count / 2 of this daemon, unless its own store was astray when it was   *)
(* read; and there was such an update, unless valid was astray.  Nothing   *)
(* in update_shm() keeps the stores in place: the code guarantees whole    *)
(* samples, to a reader that looks at the parity, only where the compiler  *)
(* and the processor happen to do so.                                      *)
(***************************************************************************)
EvenCountWhole ==
  used.clean /\ used.count % 2 = 0 =>
    /\ \A f \in Fields : f \in used.astray \/ 2 * used.field[f] = used.count
    /\ "valid" \in used.astray \/ used.count > 0

(***************************************************************************)
(* The reader never goes back to an older sample of the same run of the    *)
(* daemon, although it may use one sample twice and miss others: it clears *)
(* valid without looking, possibly after the daemon set it again.          *)
(***************************************************************************)
SamplesInOrder ==
  [][used.clean /\ used'.clean /\ used'.start = used.start =>
       used'.count >= used.count]_vars

(***************************************************************************)
(* The documented protocol: a count that is the same before and after      *)
(* reading makes the values usable.  They should then come from one        *)
(* update, at least where no store was astray.                             *)
(***************************************************************************)
StableCountWhole ==
  used.clean /\ used.astray = {} =>
    \A f, g \in Fields : used.field[f] = used.field[g]
=============================================================================
