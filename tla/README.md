# Specifications of dcf77pi

dcf77pi decodes the DCF77 time signal. A receiver on a GPIO pin delivers one
bit per second and a longer period at the end of each minute; the library turns
these into minutes and the minutes into a time. Three programs use the library:
the interactive client `dcf77pi`, the log file analyzer `dcf77pi-analyze`, and
`dcf77pi-daemon`, which hands the time to NTPsec or Chrony in shared memory.

This directory holds TLA+ models of the library's state machines and of the
shared memory segment, TLC configurations, and proofs for TLAPS.

## Inventory

| Part | State | Operations | Talks to |
|---|---|---|---|
| Live receiver, `input.c` | `gb_res`, `bitpos`, `buffer`, `acc_minlen`, the filter in `bit`, `chip`, `line_req` | `set_mode_live()`, `get_bit_live()`, `next_bit()`, `reset_acc_minlen()` | main loop, through return values and getters |
| Log file reader, `input.c` | the same, and `dec_bp`, `oldinch`, `read_acc_minlen`, the look-ahead in the file | `get_bit_file()`, `next_bit()` | main loop |
| Log file writer, `input.c` | `logfile`, flush threads | `append_logfile()`, `flush_logfile()`, `close_logfile()`, `cleanup()` | client, receiver |
| Main loop, `mainloop.c` | `minlen`, `bitpos`, `init_min`, `was_toolong`, `curtime`, `mlr` | `mainloop()`, `check_handle_new_minute()` | all of the library, callbacks of the program |
| Time decoder, `decode_time.c` | `minute_count`, `leap_count`, `dst_count`, `dt_res`, `acc_minlen_partial`, `olderr`; the caller's `curtime` | `decode_time()` | calendar |
| Calendar, `calendar.c` | none | `add_minute()`, `century_offset()`, conversions | - |
| Clock setter, `setclock.c` | the system clock | `setclock_ok()`, `setclock()` | main loop |
| Third party data, `bits1to14.c`, `decode_alarm.c` | `tpbuf`, `tpstat`, `tptype` | `fill_thirdparty_buffer()`, `decode_alarm()` | main loop |
| Daemon, `dcf77pi-daemon.c` | the segment, `quit_flag` | `init_shm()`, `update_shm()`, `cleanup_shm()`, the callbacks, signal handler | main loop; NTPsec or Chrony through the segment |
| Client, `dcf77pi.c` | screen, `input_mode`, `keybuf`, `toosmall`, `mlr` | `main()`, the callbacks | main loop, log file writer |
| Analyzer, `dcf77pi-analyze.c` | none of its own | the callbacks | main loop |

What is hard, and what makes each part correct:

* **Receiver and main loop.** One thread, but a protocol between two modules
  over shared statics: a marker has four states, of which two outlive a call, a
  minute can overflow the buffer any number of times, and the bit that ends a
  too long minute passes the decoding routine twice. Correct means that each
  end of minute is decoded once, with the right length, the right elapsed time
  and the right bits, and that the clock is not set too early.
* **Time decoder.** Statics that live from one minute to the next: a held over
  time, counts of announcements, an error flag that excuses a jump of the time
  offset. The hard inputs are sequences: bad minutes around the full hour at
  which the offset changes or a leap second is inserted, missed markers, gaps
  taken for a marker. Correct means that the time is kept over bad reception,
  regained after it, and right whenever the clock may be set.
* **Shared memory.** Two processes without a lock, a crash at any point, a
  restart by systemd that clears a segment which is being read, stores that may
  become visible in another order. Correct means that no reader combines the
  values of two updates or goes back in time, as far as the code can see to it.
* **Log file.** Threads that use a `FILE` the main thread closes, and more of
  them with each change of the log file. The client changes the log between
  two bits, any step of it can fail, and a failure is a request to quit that
  another callback may take back. Correct means that the open `FILE` is the one
  in `logfile`, that a log is open just when it has a name, that everything
  written is flushed, and that everything is closed in the end.
* **Log file reader.** A replayed log should give the minutes of the live run,
  although the marker is found with a look-ahead, the lengths of minutes may be
  missing, and the log was restarted and cut off anywhere.
* **Third party data.** Three minutes of the sender are put together by two
  numbers that the receiver believes, the minute and the position of the bit.
  Correct means that three minutes received at their time are shown with their
  bits, whatever happened before.
* **Calendar.** Carries over hours, days, months, years and 400 years, forwards
  and backwards, under three conventions for years and weekdays. Correct means
  that it agrees with day numbers and that each conversion can be undone.

`PROJECT.json` lists the hazards one by one, at their lines, with the
properties that cover them or the reason why none does.

## Modules

| Module | Models |
|---|---|
| `Input` | the statics of `input.c`, `get_bit_live()` per bit, `next_bit()` |
| `Mainloop` | the stages of a turn of `mainloop()`, `check_handle_new_minute()`, `setclock_ok()` |
| `LiveDecoder` | both composed: `mainloop()` with `get_bit_live()`, and the properties |
| `MinuteFraming` | abstract: what `decode_time()` may expect of the two |
| `LiveDecoderProofs` | theorems on `LiveDecoder` |
| `DecodeTime` | `decode_time()` and its helpers, `add_minute()` |
| `MinuteDecoder` | `DecodeTime` fed by a transmitter over a bad reception, `display_time()` of the daemon, `setclock_ok()` |
| `MinuteDecoderProofs` | theorems on `MinuteDecoder` |
| `ShmClock` | the shared memory segment, writer and reader |
| `ShmClockProofs` | theorems on `ShmClock` |
| `FileDecoder` | `mainloop()` with `get_bit_file()`, on `Input` and `Mainloop` |
| `FileDecoderProofs` | theorems on `FileDecoder` |
| `LogFile` | the log that is written: `append_logfile()`, `close_logfile()`, the flush threads |
| `Client` | `dcf77pi`: start, keys, change of the log on `LogFile`, `set_mode_live()`, `cleanup()` |
| `ClientProofs` | theorems on `Client` |
| `ThirdParty` | `fill_thirdparty_buffer()` and when its buffer is shown |
| `ThirdPartyProofs` | theorems on `ThirdParty` |
| `Calendar` | `calendar.c` with real dates, and the date in `calculate_date_time()` |
| `CalendarProofs` | theorems on `Calendar` |

`LiveDecoder` and `FileDecoder` both extend `Mainloop`, which extends `Input`:
the stages of a turn and `next_bit()` are the same definitions in both, and
both implement the same `MinuteFraming`.

### Input, Mainloop, LiveDecoder

`Input` has the receiver's verdict on a bit as data: a value (0, 1 or none, when
the pulse is too wide) and the length of the period. A period ends with a rising
edge (`LiveBit`), with the end of the sample loop after two seconds
(`LiveTimeout`) or with an error when the pin is read (`LiveBadIO`). The
filter and the adaptation of frequency and pulse lengths decide which one it is,
and are not modelled beyond that. All the control is: `set_new_state()` with the
two markers it keeps, the treatment of two markers in a row, the bad bit that
leaves the old value in the buffer, the position and the overflow in
`next_bit()`. Lengths are numbers in which a second is `Second`, and the
accumulated length wraps at `AccMod`, as the `unsigned` of the code does.

`Mainloop` has one action per stage of a turn in the order of the code;
`pc` names the stage to come: `get_bit`, `process_input`, `next_bit`,
`too_long`, `set_minlen`, `new_minute`. `check_handle_new_minute()` is
one operator used by two actions, as it is called twice. `decoded` is the call
of `decode_time()` made in this turn. `settime` and `quit` change as the
callbacks of the client and the daemon change them; the client's
`process_setclock_result()` even takes back a request to quit. What
`decode_time()` thinks of the bits is open (`dt_ok`), apart from the
length. `heard`, `count` and `markers` are history variables, written
without looking at `bitpos`, `buffer` or `minlen`, so that properties
compare what the code keeps with what was received.

`MinuteFraming` is the promise: bits arrive, and when one ends the minute, the
minute is delivered before the next bit, with its number of bits or -1, its time
and the well received bits in place. `LiveDecoder` instantiates it with
`elapsed <- acc_minlen` and `pending <- Undecoded`. With `FromLog` a minute can
also end without a bit (`End`), as it does in a log; see `FileDecoder`.

### DecodeTime, MinuteDecoder

`DecodeTime` translates `decode_time()` function by function. A minute's
bits are a record of what the function extracts: each parity group (minute,
hour, date) has a value and a verdict, the bits 0, 16 to 20 and 59 are kept. The
hour has `MinutesPerHour` minutes and the day `HoursPerDay` hours.
`minute_count` therefore wraps at `MinutesPerHour` where the code has 60.

`MinuteDecoder` adds a transmitter, which is external: it keeps legal time,
decides at the start of an hour whether the offset changes or a leap second
is inserted at its end, and announces that in every minute of the hour. The
reception delivers a whole minute with at most one misread bit or group, a minute
with a bit too many or too few, all the minutes of an outage as one, or parts
of a minute (a false marker). Each is an action that makes one call of
`check_handle_new_minute()`, operator `Handle`. In an outage markers are missed
one by one (`MissMarker`), which calls nothing; the first that is found
(`FindMarker`), or a false one, delivers all the time since the last piece in
one call, and `increase_old_time()` goes through it with the one announcement
that it has. Assumed of an outage: its minutes are measured right to half a second as
a whole, it has at most one leap second, its length fits `acc_minlen` (50 days),
and its bits do not happen to be 59 or 60. A misread group is seen by
parity: an error that parity cannot see would be a wrong time by the signal's own
definition. The exception is what the code makes itself: a bad bit keeps its
value in the buffer, so that a minute or an hour whose differing bits are bad is
that of the last minute, with good parity (`old_minute`, `old_hour`). `kept`
is what the buffer has of the last minute; a minute that was not received from marker
to marker leaves nothing, which only leaves out accidents.

### ShmClock

Every load and store of the segment is an action. `valid` and `count` are
volatile, the other fields are not: the compiler may move their stores over the
increments, and on an ARM, without a barrier, all stores may become visible in
another order. So `Update` issues the stores of `update_shm()`, and each of them
becomes visible (`Visible`) at any time after, the two to `valid` and the two to
`count` in their order. `Astray` says of a store that it left the increments.
The daemon may crash between any two stores and be started again (`dcf77pi-daemon.service`: restart
on failure), which clears the segment in any order. A graceful stop only happens
between two bits, because the signal handler sets a flag. The reader is
external; it follows the comment on mode 1 of `struct shmTime`. A field's value
is the number of the update that wrote it.

Assumed: the stores of an update are all visible before the next one, a minute
later, and before the segment is marked invalid at a graceful stop; those of
`init_shm()` before the first update. The reader makes its loads in the order
of the comment.

### FileDecoder

`get_bit_file()` returns bits and separators (the length of the minute, the
cutoff, the newline) one character at a time. The live receiver returns the
last bit of a minute together with the marker, in a log the marker is a
separator of its own; the reader looks one character ahead and lets
`next_bit()` step back (`dec_bp`). `next` is the character that was looked at and
pushed back. What comes next is external: `Follows` has the sequences that
`get_bit_live()` and `append_logfile()` write, with a minute's length or, as
in old logs, without, with minutes of any number of bits, with any number of
newlines, with a length that a stopped writer cut short, or left out after its
"a", and with an end of the file after every character. `Stage` shares the other stages of the turn with
`LiveDecoder`; there are no callbacks for input.

`recorded` is the time the log stands for, kept without looking at
`acc_minlen`: with a recorded length any number, the one read after the "a",
and without one the sum of the fake lengths that the code's comment describes.
`FramingSpec` therefore says that a replayed log hands over the minutes it
records.

A bare newline ends a minute too: in old logs each one, and in any log the one
that `append_logfile()` writes first. `LookAhead` does not step back from the
first position (`src/input.c:797`), so after one bit or none the newline itself
is counted: a fragment of one bit passes for a minute of two bits, and the
newline at the start of a log for a minute of one bit that nobody received, which
takes away one of the two initial minutes although the comment at
`src/input.c:728` wants to prevent such minutes. `MinuteFraming` says so in
`Length`, for a bare end only: the history variables `heard` and `count` have the
bits of the log and no others. A recorded length after one bit is framed right,
since the position is past the first one when the "a" is read. After two
bits or more a bare newline is not counted.

`BUFLEN > 1` is assumed: in a buffer of one bit there is no position to step
back from.

### LogFile, Client

A `FILE` is the number of its `fopen()`. `LogFile` has the steps of the main
thread between which a flush thread may run: `fopen()`, `pthread_create()`,
`fclose()`, and the assignment after it. A flush thread tests `logfile` and
then calls `fflush()`, for which it may read the variable again or not; if
that `FILE` is closed, the behaviour is undefined and the program crashes or goes
on. `fflush()` does not fail; a failing `fclose()` loses what was not flushed,
but the `FILE` is gone.

`Client` puts these steps in the order of `main()` and `post_process_input()`,
with `pc` as the next step of the main thread. `set_mode_live()` takes ten
steps, each of which may fail, with what it obtains (`held`) and frees.
A key is an action; a name is one of the model values `Names`, empty (`NoLog`) or
"." (`Same`), and typed as a whole. `SetClockResult` stands for the rest of
the turn: with the synchronisation on, `process_setclock_result()` may set or clear
the request to quit. `failed`, `lost` and `unclosed` are history variables for
the properties.

### ThirdParty

The sender steps through its seconds 1 to 14 and a last one that stands for all
others. The receiver has its own position and minute; they agree with the
sender's once an end of minute was received, and differ at the start, after a
missed end and after a false one. A place of the buffer holds where its bit
came from instead of its value. The decoder takes the minute from a whole
minute or increases it; after a part of a minute it may believe any. A whole
minute can also be wrong (`StaleMinute`): bad bits leave their old values in the
buffer, and when all bits that differ from an earlier minute are bad, its minute
is decoded with good parity.

### Calendar

Time starts in the last minute of an hour and passes by `add_minute()`, the
offset changing or not. All other functions are evaluated on each time passed
and compared with Julian day numbers and with a count of minutes in UTC, which
are independent of the code's tables. `DecodeTime` keeps its own short
`add_minute()`, for which the hour is all that matters.

## Runs

| Run | Shows | Bounds |
|---|---|---|
| `live_decoder` | framing refinement, clock setting, late markers, liveness | 3 bit buffer, periods of one and two seconds, 3 values of the accumulated length |
| `shm_clock` | which fields of a sample can be wrong at an even count; samples in order | 2 fields, 2 updates per start, one restart |
| `shm_stable` | violation: a stable count is not enough | the same |
| `minute_decoder` | time kept, regained, right when settable; good hours stay good | hours of 4 minutes, 11 minutes, outages of 5 minutes, 2 faults |
| `published_dst` | violation: a minute with contradicting offset bits is published | hours of 3 minutes, 10 minutes |
| `leap_announced` | violation: a leap second is announced by a minority | hours of 4 minutes, 12 minutes |
| `split_minute` | violation: a split minute is lost by rounding | hours of 3 minutes, 10 minutes |
| `announcement_cleared` | violation: a change that was made is still announced | hours of 4 minutes, 9 minutes, 1 fault |
| `file_decoder` | replaying a log refines `MinuteFraming`, and ends | 3 bit buffer, bits 0, 1 and unknown, recorded lengths of all 6 values |
| `calendar` | calendar against day numbers | years 1900 to 2299, days 1 and 28 to 31, the last minutes of hours 0, 1, 22 and 23 |
| `client` | `FILE`s, threads, hardware, requests to quit | 3 logs opened, 2 names |
| `third_party` | the buffer shown is the one sent | 1 fault, lost bits in seconds 1, 8 and 14 |

Why the bounds are enough:

* A buffer of 3 has a first, a middle and a last position. Minutes of 1 to 3 bits
  and overflows in any number and at any point occur, as there is no bound on the
  behaviour: the state space is finite without one. The minute lengths that
  `setclock_ok()` accepts are the last two, `BUFLEN - 1 .. BUFLEN`.
* Two updates and two starts give every count that can recur after a restart, and a
  reader that spans the end of one update and the start of the next. With two
  fields one store can leave the increments and the other stay.
* Eleven minutes cover two hours from any minute, hence bad reception in one hour
  and a change of the offset at its end; 2 faults are enough for two bad minutes on
  end, or one before and one after a change, and an outage is one fault. Its 5
  minutes can have two full hours among them: an announcement is applied at the one
  it is meant for and at the next. Hours of 4 minutes leave 3 good
  minutes inside one hour. What is measured is 40 ms short (`Jitters`), the harder
  case; the theorems cover everything below half a second. `Cuts` has one place
  for a false marker, so that two faults cannot split a minute into three.

* `file_decoder`: without a bound on the length of the log; the buffer is that
  of `live_decoder`, recorded lengths are all that fit the accumulated one. The
  other characters for bits differ in
  the status that is displayed and in their fake length, of two and a half
  seconds or none.
* `client`: with three `FILE`s a thread can hold the first while the main thread
  is in the second and goes back to the first name. When they are used up, the
  last log stays.
* `third_party`: one fault at any point, and the start of the reception in any
  minute at several seconds, which is a second disturbance. There is no bound on
  the time after it. Second 14 stands for all bits of data, 1 and 8 are the type.
* `calendar`: all ends of months with all lengths in all years; other days and
  hours only count one up.

Deadlock is not checked: `mainloop()` ends when asked to, the daemon may stay
down after the last start, the transmitter stops at its bound, and programs
end.

The liveness properties are `EndOfMinuteDecoded` and `EndOfFile`, under weak
fairness of the loop, and `FlushedEventually`, under weak fairness of the main
thread and of each flush thread. The loop does not block: `get_bit_live()` takes at most
`2 * hw.freq` samples, `get_bit_file()` reads a regular file, `getch()` is in
`nodelay` mode, and the rest is straight-line code. A flush thread wakes up
after a minute. That the operating system runs each thread eventually is all the
fairness says.

### Properties

* `FramingSpec`: refinement of `MinuteFraming`.
* `ClockSetSafe`: `init_min` counts calls, `markers` counts ends of
  minute. That the former is a safe measure of the latter depends on
  `was_toolong`.
* `LateNeverSeen`: the tests for `emark_late` in `mainloop.c` never succeed. A
  late marker arises when the minute ends with the bit right after the one that
  filled the buffer (the 61st, the 121st); one bit later `next_bit()` has
  cleared the overflow. `next_bit()` then turns it into an ordinary marker, in the
  branch that asks "cannot happen?" (`src/input.c:841`): it does, just then.
* `EvenCountWhole`, `SamplesInOrder`: see the comments in `ShmClock`.
  `clean` says that the segment was not cleared during the read. What
  `EvenCountWhole` says is how far the protocol carries: the only way to a
  field of another update at an even count is that its own store left the
  increments, which nothing in `update_shm()` prevents. Where compiler and
  processor keep the order, `astray` is empty and samples are whole.
* `OnTime`: the time held over bad minutes and outages, as long as no minute was
  split. `sure` excludes a full hour at which the decoder does not do what the
  transmitter does: a change of the offset that it could not foresee, or an
  announcement that it applies though no change is due. The latter happens in an
  outage over two full hours (`src/decode_time.c:103`), and the hour is wrong
  until the next good minute.
* `SettableRight`, `Resynchronised`, `GoodHourSettable`: safety of the clock,
  recovery after three good minutes, and no aftermath of an hour in the next.
  A jump is reported once: `decode_time()` stamps a kept hour, and when it is
  kept for another minute it is what the decoder expects. `astray` is the
  exception for that.
* `FramingSpec` of `FileDecoder`: a replayed log gives the minutes it records,
  each once, wherever the log was cut off and restarted. `EndOfFile`: and the
  replay ends, wherever the file does.
* `Handles`: the open `FILE` is the one in `logfile`. The race that the comment at
  `src/input.c:907` admits is the interval in which it is closed and still
  there (`pc = "clear"`); a thread that tested before may even call
  `fflush()` later. What the property says is that there is no other: a thread
  that tests outside this interval finds an open `FILE` or none. After an `fclose()` that
  failed in `cleanup()`, the exception `unclosed`, the pointer is kept and closed
  again by the second call.
* `LogFollowsName`: `lost` excludes the request to quit that
  `process_setclock_result()` clears (`src/dcf77pi.c:546`). After it the
  client shows the name of a log that is not open.
* `HardwareHeld`: every failing step of `set_mode_live()` frees what it has to.
* `PromptState`: the two callbacks for input do not wait for each other.
* `FlushedEventually`: the threads that pile up do no harm, and the data of a
  log does not depend on the thread that was started for it. What a failing
  `fclose()` loses counts as flushed: nothing is left that could be.
* `ShownRight`, `ShownInTime`: see the comments in `ThirdParty`. Three minutes
  at their time are enough, whatever the buffer held before, unless the last of
  them is decoded from what the buffer kept (`StaleMinute`): then they are not
  shown.
* `UtcGoesOn`, `MinuteReversible`, `DateRecovered`, `IsoReversible`: the
  functions of the calendar against day numbers and against each other.

### Where the code and its documents disagree

* `src/README-daemon.md:556`: a stable counter is not sufficient, because a
  counter that is odd and stable belongs to an update in progress. This needs
  no store out of order. A reader that also looks at the parity is still not
  safe on every machine: see `EvenCountWhole`.
* `src/decode_time.c:316`: `eDST_done` replaces `eDST_error`. The minute of
  a change of the offset with contradicting bits 17 and 18 is not stamped but
  published, with the shifted hour and the old offset, one hour off.
* `src/decode_time.c:250`: the majority for an announcement is taken of
  `minute_count`, which is not the number of valid minutes of this hour. One
  misread bit 19 can announce a leap second.
* `src/decode_time.c:85`: the parts of a split minute must sum up to a minute
  exactly, without the tolerance that a whole minute has.
* `src/decode_time.c:321`: the announcement of a change is not always cleared at
  the full hour (`src/decode_time.c:318`, `src/CHANGELOG.md:320`), only in
  a minute that ends there. When that marker is missed, the change already made
  stays announced until valid minutes outvote it or the next full hour is decoded.

Properties that hold with an exception show more, without a run of their own:

* `src/CHANGELOG.md:347`, "only display the third-party buffer each three
  minutes if it is fully received": nothing in the code knows whether it is. At the
  start it is shown after two minutes, a fragment of a minute that ends in
  minute 0 shows it again, and a lost bit is stored as 0, so that two lost bits of
  type make it "weather". `ShownRight` has the condition that makes it right.
* `src/calendar.h:52` and `src/decode_time.c:207` expect -1 from
  `century_offset()` for a bad date; for a weekday of 1 to 7 it never is. A
  wrong weekday gives a wrong century (`DateRecovered`).
* `src/calendar.c:138`: after a change to summer time in the last hour of a day
  the hour is 25, or -2 backwards (`MinuteReversible`).
* `src/input.c:797`: the leading newline of a log replays as a minute, and one
  bit before a bare newline as two (`FramingSpec` of `FileDecoder`).
* `src/input.c:765`: where the log was cut off right after an "a", the newline and
  the dashes of `append_logfile()` are no number, and the replay ends as if the file
  did: what a restarted writer appended is lost (`GetLength`, `EndOfFile`).
* `src/dcf77pi-daemon.c:304`: `display_time()` does not look at `eval_jump`, so a
  minute kept from the last one is published, one minute off. `OnTime` has
  the exception.

## Proofs

Every safety property that a passing run checks is a theorem: all invariants,
the action property `ShownInTime`, and both refinements of `MinuteFraming`. The
theorems hold for every value of the constants that satisfies the modules'
assumptions: any buffer length, set of periods and wrap (`InputAssumption`);
any set of characters in the log and a buffer of two bits or more
(`LogAssumption`); hours of more than 2
minutes and days of more than 3 hours, so that the real 60 and 24 are among them
(`ClockAssumption`, `ReceptionAssumption`), with any jitter below half a second, any
false marker in the first 58 seconds, any subset of the
misread groups, outages as long as `acc_minlen` can hold, and any number of minutes and
faults; any start within the 400
years of the calendar and any number of minutes (`CalendarAssumption`); any
finite or infinite set of fields and any bounds on updates and starts
(`ShmAssumption`); any number of logs and any set of names
(`MaxLogsAssumption`, `NamesAssumption`); any lossy seconds and any number of
faults (`ThirdPartyAssumption`). TLC checked each inductive invariant on the
instance of its run before it was proved.

`LiveDecoderProofs` proves `TypeOK`, `ClockSetSafe`, `LateNeverSeen` and
`FramingSpec`. None of them is inductive. The invariant `IInv` adds, for each
stage of the turn, how `bitpos`, `ml_bitpos`, the marker and `minlen` relate
to the number of bits heard (`FramingInv`): before a bit is taken, the
position is the number of bits heard unless the minute is too long
already, in which case `minlen` is -1, and the good bits are in the buffer
(`Aligned`); after `next_bit()` the marker tells which of the three ends of a
turn is due (`Moved`); a minute delivered early because it was too long leaves
an empty history and `was_toolong` set (`Delivered`). `Startup` ties
`init_min` to the number of ends of minute. `LiveInput` says that `dec_bp` and
`skip` are never used with the live receiver. There is one lemma per action;
`DeliverMinute` is shared by the two that call `check_handle_new_minute()`.
The refinement then maps each action to `Hear`, `Deliver` or a stutter.

`ShmClockProofs` proves `TypeOK`, `EvenCountWhole` and `SamplesInOrder`. In
`WriterInv` the number of the update and its stores that are not yet visible
determine the count and every field, in whatever order the stores are made, and
also after a crash; `EvenField` is what follows for a reader at an even count.
For a reader whose first look was clean, `ReaderInv` relates the fields it has
read to the count it saw, as long as that count is still the current one.

`ClientProofs` proves the five invariants of `Client`. `Handles` and `PromptState`
are nearly inductive by themselves, but need `ControlInv`: which stages
belong to the start and which to a change of the log, and how many calls of
`cleanup()` are left in each. `LogInv` says for each stage whether a log is open
and whether the name is the new one already; `QuitInv` that a failure without a
lost request implies `quit` from the moment it happens to the end of the turn;
`HardwareInv` what is held before each step of `set_mode_live()`. A step of a
flush thread leaves all of this alone, and one lemma per action of the main
thread keeps it.

`MinuteDecoderProofs` proves the five invariants of `MinuteDecoder`. What
`decode_time()` does with a minute depends on statics that were written up to an
hour ago, so `IInv` has to say what those still hold:

* `Legal`: the legal time is one, and what is announced for the end of the hour
  can happen there. `Begin`: what the first call leaves as it was.
* `Refused`: which good minutes are not stamped. One that follows bad ones is
  refused only when the decoder takes it for the minute with a leap second or
  does not expect that one, which needs a minute 0 in the decoder or in the
  signal; after three good minutes in a row that cannot be.
* `Accepted`: the time after a good minute that was stamped; the offset is
  right, or the error that makes the next one right is noted (`olderr`).
* `CountsFrom0` and `Counts`: the announcements counted since minute 0 are those of
  this hour, but for one too many of one kind when the decoder
  was not on time at the full hour; after one more good minute there is none.
* `FullHour`: at the full hour after a good hour the time is right at once or
  with the next minute.

`SettableRight` is a conjunct of `IInv` and `OnTime` follows from `Ahead`;
`Resynchronised` and `GoodHourSettable` follow from `Refused`, `Accepted` and `FullHour`. Every
action is the arrival of one piece of signal (`Arrives`), and six lemmas sum up
what a call of `decode_time()` makes of it (`ResultFacts`, `FlawlessPass`,
`FlawlessFacts`, `OffsetFacts`, `CountFacts`, `SettableFacts`). The parts of
`IInv` are proved from these summaries, one lemma each. In an outage `Now` is the
time the decoder would have if a marker were found, and `Ahead` says that it is
right; `MissStep` keeps that for a minute more. For this the one recursion, `AddMinutes`, is needed for any number of
minutes: `AddMinutesRecursion` shows that it has a value, by the least number for
which it would have none.

`FileDecoderProofs` proves `TypeOK` and `FramingSpec`. The argument is that of
`LiveDecoderProofs`, but a minute ends in up to three separators that pass
`next_bit()` like bits. `LogText` says which character can be next after the one
before; `Timed` when the accumulated length is the time the log stands for;
`InMinute`, `AtChar`, `AtBit` and `AtEnd` where the position stands at each
stage: `Last` and `Back` say when the step back `dec_bp` is due and `Sized`
what a bare newline makes of the number of bits. Each action is a `Hear`, an
`End`, a `Deliver` or a stutter of `MinuteFraming`.

`CalendarProofs` proves the five invariants of `Calendar`, for all dates of the
400 years instead of the ends of months that the run starts from. The invariant is
short: the time is a valid one with its own weekday, and stands for the minutes of
UTC that passed. The work is in the lemmas about operators: `add_minute()` goes
to the day with the next Julian day number and `substract_minute()` to the one
before (`NextDayRight`, `PreviousDayRight`), the day of the year is the distance
from 1 January (`DayOfYearRight`), and weekdays determine the century because
a century shifts them by 5 days, or by 6 when it has one leap day more
(`CenturyRight`, `DateFound`). They come down to linear arithmetic modulo 7.

`ThirdPartyProofs` proves `TypeOK`, `ShownRight` and `ShownInTime`. `TypeInv`
says that the first bit of type is known between second 1 and second 8, so that
`tpstat` never exceeds 3; `CycleInv` that the minutes of this cycle received
in the right place precede the present one and that there are none before the
decoder is initialised. `ShowInv` says what the buffer holds in the middle of a
cycle whose minutes so far were received in the right place (`Received`): the
seconds of both sides agree (`Aligned`), each bit of data sent so far is at its
place (`BufInv`, with `LostInv`: what was lost was sent), and so are the bits of type
(`StatInv`, `TypeShown`). At the end of the third minute the whole buffer is
right (`CycleEnd`). That its places are the ranks of the bits is `RankIs`, by a
bijection with the numbers up to the place.

Only model-checked: the liveness properties `EndOfMinuteDecoded`, `EndOfFile`
and `FlushedEventually`, which are out of reach of the prover. The five runs that
expect a violation have nothing to prove.

## Not modelled

* The filter, the Schmitt trigger and the tracking of frequency and pulse
  length: numeric signal processing, abstracted to its outcome.
* Configuration files, screens and log messages: I/O. `set_mode_live()` is
  modelled for what it obtains and frees only, and as built for Linux.
* `setclock()` beyond its result, `mktime()`: they belong to the host.
* `decode_alarm()`: a pure mapping of the third party buffer to names.
* The ownership of memory: the name of the log that the client frees twice
  (`src/dcf77pi.c:453`), and the strings of the configuration that outlive it
  (`src/input.c:189`).
* Characters that do not belong into a log file, which `skip_invalid()` drops.
* The start of the daemon, the pin reader and the kevent demo: straight-line
  set-up and display.

## Plan

1. Done: the modules above, with proofs of all their safety properties.
2. The composition of `LiveDecoder` and `DecodeTime`, for minutes of 59 bits
   that are too short, with `MinuteFraming` as what the second may assume.
3. Shared lemmas: `LiveDecoderProofs` and `FileDecoderProofs` each have their own
   about the stages of a turn, which are the same definitions.
