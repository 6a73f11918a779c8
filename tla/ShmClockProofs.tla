--------------------------- MODULE ShmClockProofs ---------------------------
(***************************************************************************)
(* Proofs about ShmClock, for every set of fields and every number of      *)
(* updates and starts of the daemon.                                       *)
(*                                                                         *)
(* The argument: while the daemon is initialised, the number of the last   *)
(* update and the stores of it that are not yet visible determine count    *)
(* and all fields, in whatever order the stores are made.  count never     *)
(* decreases, so a reader that finds its first value again knows that it   *)
(* did not change in between.                                              *)
(***************************************************************************)
EXTENDS ShmClock, TLAPS

\* The daemon between its start and its first update.
StartInv ==
  /\ wpc = "init" => dirty
  /\ wpc \in {"idle", "update"} => ~dirty
  /\ wpc = "idle" => todo = {}
  /\ wpc = "init" =>
       /\ \A f \in Fields : f \notin todo => field[f] = 0
       /\ "count" \notin todo => count = 0

\* The segment, as the last update and the stores left of it determine it.
WriterInv ==
  ~dirty =>
    /\ seq = 0 => todo = {}
    /\ "count2" \notin todo => "count1" \notin todo
    /\ "valid" \notin todo => "invalid" \notin todo
    /\ count = IF "count1" \in todo THEN 2 * seq - 2
               ELSE IF "count2" \in todo THEN 2 * seq - 1 ELSE 2 * seq
    /\ \A f \in Fields : field[f] = IF f \in todo THEN seq - 1 ELSE seq
    /\ valid = 1 => seq > 1 \/ (seq = 1 /\ "valid" \notin todo)

\* What an uninterrupted reader has seen so far.
ReaderInv ==
  /\ ~interrupted /\ rpc \in {"count", "fields", "compare"} =>
       ~dirty /\ ("valid" \in rastray \/ count > 0)
  /\ ~interrupted /\ rpc \in {"fields", "compare"} =>
       /\ "valid" \in rastray \/ rcount > 0
       /\ rcount <= count
       /\ count = rcount /\ rcount % 2 = 0 =>
            \A f \in Fields :
              f \in rtodo \/ f \in rastray \/ 2 * rfield[f] = rcount
  /\ rpc = "compare" => rtodo = {}

\* The last sample is not newer than the segment, nor than a read under way.
UsedInv ==
  /\ used.start <= starts
  /\ used.clean /\ used.start = starts =>
       /\ ~dirty /\ used.count <= count
       /\ ~interrupted /\ rpc \in {"fields", "compare"} => used.count <= rcount

IInv ==
  TypeOK /\ StartInv /\ WriterInv /\ ReaderInv /\ UsedInv /\ EvenCountWhole

-----------------------------------------------------------------------------
LEMMA InitIInv == Init => IInv
  <1> SUFFICES ASSUME Init PROVE IInv
    OBVIOUS
  <1> USE DEF Init
  <1>1. TypeOK
    BY ShmAssumption DEF TypeOK, WriterStates, ReaderStates
  <1>2. StartInv /\ WriterInv /\ ReaderInv /\ UsedInv /\ EvenCountWhole
    BY DEF StartInv, WriterInv, ReaderInv, UsedInv, EvenCountWhole, NoSample
  <1> QED
    BY <1>1, <1>2 DEF IInv

(***************************************************************************)
(* The steps of the daemon.                                                *)
(***************************************************************************)
LEMMA WriterType ==
  ASSUME TypeOK, Writer
  PROVE  TypeOK'
  <1> USE DEF TypeOK, WriterStates, shmVars, readerVars, Samples, Marks, Visible
  <1>1. CASE Start
    BY <1>1 DEF Start
  <1>2. ASSUME NEW loc \in Fields \cup {"valid", "count"}, Clear(loc)
        PROVE  TypeOK'
    BY <1>2 DEF Clear
  <1>3. CASE Initialised
    BY <1>3 DEF Initialised
  <1>4. CASE Update
    BY <1>4 DEF Update
  <1>5. CASE Invalidate \/ Validate
    BY <1>5 DEF Invalidate, Validate
  <1>6. CASE CountBefore \/ CountAfter
    BY <1>6 DEF CountBefore, CountAfter
  <1>7. ASSUME NEW f \in Fields, Store(f) PROVE TypeOK'
    BY <1>7 DEF Store
  <1>8. CASE Updated \/ Shutdown \/ Crash
    BY <1>8 DEF Updated, Shutdown, Crash
  <1> QED
    BY <1>1, <1>2, <1>3, <1>4, <1>5, <1>6, <1>7, <1>8 DEF Writer

LEMMA WriterKeepsStartInv ==
  ASSUME TypeOK, StartInv, Writer
  PROVE  StartInv'
  <1> USE DEF TypeOK, StartInv, shmVars, Visible
  <1>1. CASE Start
    BY <1>1, ShmAssumption DEF Start
  <1>2. ASSUME NEW loc \in Fields \cup {"valid", "count"}, Clear(loc)
        PROVE  StartInv'
    BY <1>2, ShmAssumption DEF Clear
  <1>3. CASE Initialised \/ Update
    BY <1>3 DEF Initialised, Update
  <1>4. CASE Invalidate \/ CountBefore \/ CountAfter \/ Validate
    BY <1>4 DEF Invalidate, CountBefore, CountAfter, Validate
  <1>5. ASSUME NEW f \in Fields, Store(f) PROVE StartInv'
    BY <1>5 DEF Store
  <1>6. CASE Updated \/ Shutdown \/ Crash
    BY <1>6 DEF Updated, Shutdown, Crash
  <1> QED
    BY <1>1, <1>2, <1>3, <1>4, <1>5, <1>6 DEF Writer

LEMMA WriterKeepsWriterInv ==
  ASSUME TypeOK, StartInv, WriterInv, Writer
  PROVE  WriterInv'
  <1> USE ShmAssumption DEF TypeOK, StartInv, WriterInv, shmVars, Visible
  <1>1. CASE Start
    BY <1>1 DEF Start
  <1>2. ASSUME NEW loc \in Fields \cup {"valid", "count"}, Clear(loc)
        PROVE  WriterInv'
    BY <1>2 DEF Clear
  <1>3. CASE Initialised
    BY <1>3 DEF Initialised
  <1>4. CASE Update
    BY <1>4 DEF Update, Marks
  <1>5. CASE Invalidate
    BY <1>5 DEF Invalidate
  <1>6. CASE CountBefore
    BY <1>6 DEF CountBefore
  <1>7. ASSUME NEW f \in Fields, Store(f) PROVE WriterInv'
    BY <1>7 DEF Store
  <1>8. CASE CountAfter
    BY <1>8 DEF CountAfter
  <1>9. CASE Validate
    BY <1>9 DEF Validate
  <1>10. CASE Updated \/ Shutdown \/ Crash
    BY <1>10 DEF Updated, Shutdown, Crash
  <1> QED
    BY <1>1, <1>2, <1>3, <1>4, <1>5, <1>6, <1>7, <1>8, <1>9, <1>10 DEF Writer

(***************************************************************************)
(* All that the reader depends on: the daemon changes none of the reader's *)
(* variables, and count only grows, or else the read is marked.            *)
(***************************************************************************)
LEMMA WriterFrame ==
  ASSUME TypeOK, StartInv, WriterInv, Writer
  PROVE  /\ UNCHANGED <<rpc, rcount, rfield, rtodo, rastray, used>>
         /\ \/ /\ interrupted' /\ dirty' /\ starts' = starts + 1
            \/ /\ interrupted' = interrupted
               /\ starts' = starts
               /\ ~dirty => ~dirty' /\ count <= count'
  <1> USE DEF TypeOK, StartInv, WriterInv, shmVars, readerVars, Visible
  <1>1. CASE Start
    BY <1>1 DEF Start
  <1>2. ASSUME NEW loc \in Fields \cup {"valid", "count"}, Clear(loc)
        PROVE  /\ UNCHANGED readerVars /\ starts' = starts /\ dirty
    BY <1>2 DEF Clear
  <1>3. CASE Initialised
    BY <1>3 DEF Initialised
  <1>4. CASE Update \/ Updated \/ Shutdown \/ Crash
    BY <1>4 DEF Update, Updated, Shutdown, Crash
  <1>5. CASE Invalidate \/ CountBefore \/ CountAfter \/ Validate
    BY <1>5 DEF Invalidate, CountBefore, CountAfter, Validate
  <1>6. ASSUME NEW f \in Fields, Store(f)
        PROVE  UNCHANGED <<readerVars, starts, count, dirty>>
    BY <1>6 DEF Store
  <1> QED
    BY <1>1, <1>2, <1>3, <1>4, <1>5, <1>6 DEF Writer

LEMMA WriterIInv ==
  ASSUME IInv, Writer
  PROVE  IInv'
  <1>1. /\ TypeOK /\ StartInv /\ WriterInv
        /\ TypeOK' /\ StartInv' /\ WriterInv'
    BY WriterType, WriterKeepsStartInv, WriterKeepsWriterInv DEF IInv
  <1>2. /\ UNCHANGED <<rpc, rcount, rfield, rtodo, rastray, used>>
        /\ \/ /\ interrupted' /\ dirty' /\ starts' = starts + 1
           \/ /\ interrupted' = interrupted
              /\ starts' = starts
              /\ ~dirty => ~dirty' /\ count <= count'
    BY <1>1, WriterFrame
  <1>3. ReaderInv'
    BY <1>1, <1>2 DEF IInv, ReaderInv, TypeOK
  <1>4. UsedInv'
    <2>1. used.start \in Nat /\ used.count \in Nat
      BY <1>1 DEF TypeOK, Samples, NoSample
    <2> QED
      BY <1>1, <1>2, <2>1 DEF IInv, UsedInv, TypeOK
  <1>5. EvenCountWhole'
    BY <1>2 DEF IInv, EvenCountWhole
  <1> QED
    BY <1>1, <1>3, <1>4, <1>5 DEF IInv

(***************************************************************************)
(* What the segment tells a reader: at an even count a field is that of    *)
(* update count / 2 unless its store is astray, and valid is set before    *)
(* there was an update only where it is astray.                            *)
(***************************************************************************)
LEMMA EvenField ==
  ASSUME TypeOK, WriterInv, ~dirty, count % 2 = 0, NEW f \in Fields
  PROVE  Astray(f) \/ 2 * field[f] = count
  <1>1. /\ count = IF "count1" \in todo THEN 2 * seq - 2
                  ELSE IF "count2" \in todo THEN 2 * seq - 1 ELSE 2 * seq
        /\ field[f] = IF f \in todo THEN seq - 1 ELSE seq
        /\ "count2" \notin todo => "count1" \notin todo
        /\ seq \in Nat
    BY DEF WriterInv, TypeOK
  <1>2. f # "valid"
    BY ShmAssumption
  <1>3. CASE "count1" \in todo
    BY <1>1, <1>2, <1>3 DEF Astray
  <1>4. CASE "count1" \notin todo /\ "count2" \in todo
    BY <1>1, <1>4
  <1>5. CASE "count1" \notin todo /\ "count2" \notin todo
    BY <1>1, <1>2, <1>5 DEF Astray
  <1> QED
    BY <1>3, <1>4, <1>5

LEMMA ValidPublished ==
  ASSUME TypeOK, WriterInv, ~dirty, valid = 1
  PROVE  Astray("valid") \/ count > 0
  BY DEF TypeOK, WriterInv, Astray

(***************************************************************************)
(* The steps of the reader.                                                *)
(***************************************************************************)
LEMMA ReaderType ==
  ASSUME TypeOK, Reader
  PROVE  TypeOK'
  <1> USE DEF TypeOK, ReaderStates, shmVars, writerVars, Marks
  <1>1. CASE Poll
    BY <1>1 DEF Poll
  <1>2. CASE ReadCount
    BY <1>2 DEF ReadCount
  <1>3. CASE ClearValid
    BY <1>3 DEF ClearValid
  <1>4. ASSUME NEW f \in Fields, ReadField(f) PROVE TypeOK'
    BY <1>4 DEF ReadField, Samples
  <1>5. CASE Compare
    <2>1. used' \in Samples \cup {NoSample}
      BY <1>5 DEF Compare, Samples
    <2> QED
      BY <1>5, <2>1 DEF Compare
  <1> QED
    BY <1>1, <1>2, <1>3, <1>4, <1>5 DEF Reader

LEMMA CompareIInv ==
  ASSUME IInv, Compare
  PROVE  UsedInv' /\ EvenCountWhole'
  <1>1. /\ UNCHANGED <<count, rcount, starts, dirty, interrupted>>
        /\ rpc = "compare" /\ rpc' = "clear"
    BY DEF Compare, shmVars, writerVars
  <1>2. rcount \in Nat /\ interrupted \in BOOLEAN /\ starts \in Nat
    BY DEF IInv, TypeOK
  <1>3. CASE count # rcount
    <2>1. used' = used
      BY <1>3 DEF Compare
    <2> QED
      BY <1>1, <2>1 DEF IInv, UsedInv, EvenCountWhole
  <1>4. CASE count = rcount
    <2>1. used' = [count |-> rcount, field |-> rfield, astray |-> rastray,
                   clean |-> ~interrupted, start |-> starts]
      BY <1>4 DEF Compare
    <2>2. /\ used'.count = rcount /\ used'.field = rfield
          /\ used'.astray = rastray
          /\ used'.start = starts
          /\ used'.clean => ~interrupted
      BY <2>1, Zenon
    <2>3. ReaderInv
      BY DEF IInv
    <2>4. /\ rtodo = {}
          /\ ~interrupted => ~dirty /\ ("valid" \in rastray \/ rcount > 0)
      BY <1>1, <2>3 DEF ReaderInv
    <2>5. ~interrupted /\ rcount % 2 = 0 =>
            \A f \in Fields : f \in rastray \/ 2 * rfield[f] = rcount
      BY <1>1, <1>4, <2>3, <2>4 DEF ReaderInv
    <2>6. UsedInv'
      BY <1>1, <1>2, <1>4, <2>2, <2>4 DEF UsedInv
    <2>7. EvenCountWhole'
      BY <2>2, <2>4, <2>5 DEF EvenCountWhole
    <2> QED
      BY <2>6, <2>7
  <1> QED
    BY <1>3, <1>4

LEMMA ReaderIInv ==
  ASSUME IInv, Reader
  PROVE  IInv'
  <1>1. TypeOK /\ StartInv /\ WriterInv /\ TypeOK'
    BY ReaderType DEF IInv
  <1>2. StartInv' /\ WriterInv'
    <2>1. /\ UNCHANGED <<count, field, writerVars>>
          /\ valid' = valid \/ valid' = 0
      BY DEF Reader, Poll, ReadCount, ReadField, Compare, ClearValid, shmVars,
             writerVars
    <2> QED
      BY <1>1, <2>1 DEF StartInv, WriterInv, TypeOK, writerVars
  <1>3. ReaderInv'
    <2> USE <1>1 DEF IInv, TypeOK, WriterInv, ReaderInv, shmVars, writerVars
    <2>1. CASE Poll
      BY <2>1, ValidPublished DEF Poll
    <2>2. CASE ReadCount
      BY <2>2 DEF ReadCount
    <2>3. ASSUME NEW f \in Fields, ReadField(f) PROVE ReaderInv'
      <3>1. ~dirty /\ count % 2 = 0 => Astray(f) \/ 2 * field[f] = count
        BY EvenField
      <3> QED
        BY <2>3, <3>1 DEF ReadField
    <2>4. CASE Compare
      BY <2>4 DEF Compare
    <2>5. CASE ClearValid
      BY <2>5 DEF ClearValid
    <2> QED
      BY <2>1, <2>2, <2>3, <2>4, <2>5 DEF Reader
  <1>4. UsedInv' /\ EvenCountWhole'
    <2>1. CASE Compare
      BY <2>1, CompareIInv
    <2>2. used.start \in Nat /\ used.count \in Nat
      BY <1>1 DEF TypeOK, Samples, NoSample
    <2>3. CASE Poll \/ ReadCount \/ ClearValid \/ \E f \in Fields : ReadField(f)
      <3>1. UNCHANGED <<used, starts, dirty, count>>
        BY <2>3
           DEF Poll, ReadCount, ReadField, ClearValid, shmVars, writerVars
      <3>2. UsedInv'
        <4> USE <1>1, <2>2, <3>1 DEF IInv, TypeOK, UsedInv
        <4>1. CASE Poll \/ ReadCount \/ ClearValid
          BY <4>1 DEF Poll, ReadCount, ClearValid
        <4>2. CASE \E f \in Fields : ReadField(f)
          BY <4>2 DEF ReadField
        <4> QED
          BY <2>3, <4>1, <4>2
      <3> QED
        BY <3>1, <3>2 DEF IInv, EvenCountWhole
    <2> QED
      BY <2>1, <2>3 DEF Reader
  <1> QED
    BY <1>1, <1>2, <1>3, <1>4 DEF IInv

-----------------------------------------------------------------------------
LEMMA NextIInv ==
  ASSUME IInv, [Next]_vars
  PROVE  IInv'
  <1>1. CASE Next
    BY <1>1, WriterIInv, ReaderIInv DEF Next
  <1>2. CASE UNCHANGED vars
    BY <1>2
       DEF vars, shmVars, writerVars, readerVars, IInv, TypeOK, StartInv,
           WriterInv, ReaderInv, UsedInv, EvenCountWhole, Samples
  <1> QED
    BY <1>1, <1>2

THEOREM SpecIInv == Spec => []IInv
  <1>1. Init => IInv
    BY InitIInv
  <1>2. IInv /\ [Next]_vars => IInv'
    BY NextIInv
  <1> QED
    BY <1>1, <1>2, PTL DEF Spec

(***************************************************************************)
(* Every variable keeps its type.                                          *)
(***************************************************************************)
THEOREM TypeCorrect == Spec => []TypeOK
  <1>1. IInv => TypeOK
    BY DEF IInv
  <1> QED
    BY <1>1, SpecIInv, PTL

(***************************************************************************)
(* In a sample read at an even count, without a restart of the daemon in   *)
(* between, only a field whose own store left the increments of count can  *)
(* be that of another update, in whatever order the stores are made.       *)
(***************************************************************************)
THEOREM EvenCountIsWhole == Spec => []EvenCountWhole
  <1>1. IInv => EvenCountWhole
    BY DEF IInv
  <1> QED
    BY <1>1, SpecIInv, PTL

(***************************************************************************)
(* The samples the reader uses never go back within a run of the daemon.   *)
(***************************************************************************)
THEOREM SamplesAreInOrder == Spec => SamplesInOrder
  <1>1. IInv /\ [Next]_vars =>
          [used.clean /\ used'.clean /\ used'.start = used.start =>
             used'.count >= used.count]_vars
    <2> SUFFICES ASSUME IInv, [Next]_vars, used.clean, used'.clean,
                        used'.start = used.start
                 PROVE  used'.count >= used.count
      OBVIOUS
    <2>1. used.count \in Nat
      BY DEF IInv, TypeOK, Samples, NoSample
    <2>2. CASE Compare /\ count = rcount
      <3>1. used' = [count |-> rcount, field |-> rfield,
                     astray |-> rastray, clean |-> ~interrupted, start |-> starts]
        BY <2>2 DEF Compare
      <3> QED
        BY <2>1, <2>2, <3>1 DEF IInv, TypeOK, UsedInv, Compare
    <2>3. CASE used' = used
      BY <2>1, <2>3
    <2>4. (Compare /\ count = rcount) \/ used' = used
      <3>1. Writer => used' = used
        BY WriterFrame DEF IInv
      <3>2. Reader => (Compare /\ count = rcount) \/ used' = used
        BY DEF Reader, Poll, ReadCount, ReadField, Compare, ClearValid
      <3> QED
        BY <3>1, <3>2 DEF Next, vars, readerVars
    <2> QED
      BY <2>2, <2>3, <2>4
  <1> QED
    BY <1>1, SpecIInv, PTL DEF Spec, SamplesInOrder
=============================================================================
