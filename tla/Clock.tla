------------------------------- MODULE Clock -------------------------------
(***************************************************************************)
(* The clock driver, drivers/drv_rtc.c: rtc_init calibrates the time stamp *)
(* counter and reads the CMOS clock while that goes on counting, register  *)
(* by register.                                                            *)
(*                                                                         *)
(* The CMOS clock is external.  It announces an update (UIP), changes its  *)
(* registers one by one, during which a read may give anything, and takes  *)
(* the announcement back.  Updates are a second apart and go on for ever;  *)
(* time is counted in passes over the six registers, of which the driver,  *)
(* with interrupts off, makes thousands in a second.  The clock runs in 24 *)
(* hour mode.  The calibration itself is its outcome.                      *)
(***************************************************************************)
EXTENDS Integers, Sequences, FiniteSets

CONSTANTS
  Starts,             \* moments at which rtc_init may be called
  PASSES_PER_SECOND,  \* passes that are begun between two updates, at least
  Frequencies,        \* outcomes of a calibration, in scaled-down Hz
  LOW_FREQUENCY, HIGH_FREQUENCY,
  NONE

Moment ==
  [seconds : 0 .. 59, minutes : 0 .. 59, hours : 0 .. 23, year : 0 .. 99,
   dayofmonth : 1 .. 31, month : 1 .. 12]

ASSUME ClockAssumption ==
  /\ Starts \subseteq Moment /\ Frequencies \subseteq Nat
  /\ LOW_FREQUENCY \in Nat \ {0} /\ HIGH_FREQUENCY \in Nat
  /\ PASSES_PER_SECOND \in Nat /\ PASSES_PER_SECOND >= 3
  /\ NONE \notin 0 .. 255

VARIABLES
  t, binary, uip,      \* the clock: its time, its format, "steady", "announced" or "changing"
  quiet,               \* passes begun since the last update, up to a second
  shown,               \* the moments it has shown since the call began
  rtc_pc, reg,         \* the driver, the register it reads next
  cur, prev,           \* the pass it is in, and the one before
  passes,              \* passes it has begun
  attempt, tsc_frequency,
  initial_rtc          \* in seconds

clock == <<t, uip, shown>>
driver == <<rtc_pc, reg, cur, prev, passes, attempt, tsc_frequency, initial_rtc>>
clockVars == <<clock, binary, quiet, driver>>

(***************************************************************************)
(* The calendar (external), and the seconds since 1970 by its rules.       *)
(***************************************************************************)
IsLeap(year) == year % 4 = 0
DaysIn(month, year) ==
  CASE month = 2 -> IF IsLeap(year) THEN 29 ELSE 28
    [] month \in {4, 6, 9, 11} -> 30
    [] OTHER -> 31

(* One second later; years are counted from 2000, with two digits.         *)
Later(m) ==
  LET s == (m.seconds + 1) % 60                    minute == s = 0
      mi == IF minute THEN (m.minutes + 1) % 60 ELSE m.minutes
      hour == minute /\ mi = 0
      h == IF hour THEN (m.hours + 1) % 24 ELSE m.hours
      day == hour /\ h = 0
      d == IF day THEN (m.dayofmonth % DaysIn(m.month, m.year)) + 1 ELSE m.dayofmonth
      month == day /\ d = 1
      mo == IF month THEN (m.month % 12) + 1 ELSE m.month
      y == IF month /\ mo = 1 THEN (m.year + 1) % 100 ELSE m.year
  IN [seconds |-> s, minutes |-> mi, hours |-> h, year |-> y, dayofmonth |-> d, month |-> mo]

DaysBeforeMonth[mo \in 1 .. 12, y \in 0 .. 99] ==
  IF mo = 1 THEN 0 ELSE DaysBeforeMonth[mo - 1, y] + DaysIn(mo - 1, y)
DaysBeforeYear[y \in 0 .. 99] ==
  IF y = 0 THEN 10957 ELSE DaysBeforeYear[y - 1] + IF IsLeap(y - 1) THEN 366 ELSE 365
FirstOfMonth(month, year) == DaysBeforeYear[year] + DaysBeforeMonth[month, year]
Epoch(m) ==
  86400 * (FirstOfMonth(m.month, m.year) + m.dayofmonth - 1)
    + 3600 * m.hours + 60 * m.minutes + m.seconds

(***************************************************************************)
(* The CMOS clock (external).                                              *)
(***************************************************************************)
Bcd(v) == 16 * (v \div 10) + (v % 10)
Shows(m, r) == IF binary THEN m[r] ELSE Bcd(m[r])
Garbage == 255

(* What a read of a register may give.                                     *)
Reads(r) ==
  IF uip = "changing" THEN {Shows(t, r), Shows(Later(t), r), Garbage} ELSE {Shows(t, r)}

Announce ==
  /\ uip = "steady" /\ quiet >= PASSES_PER_SECOND
  /\ rtc_pc \in {"wait", "read"}
  /\ uip' = "announced" /\ quiet' = 0
  /\ UNCHANGED <<t, binary, shown, driver>>

Change ==
  /\ uip = "announced" /\ uip' = "changing"
  /\ UNCHANGED <<t, binary, quiet, shown, driver>>

Settle ==
  /\ uip = "changing" /\ uip' = "steady"
  /\ t' = Later(t) /\ shown' = shown \cup {Later(t)}
  /\ UNCHANGED <<binary, quiet, driver>>

(***************************************************************************)
(* rtc_init.                                                               *)
(***************************************************************************)
Plausible(f) == f >= LOW_FREQUENCY /\ f <= HIGH_FREQUENCY

(* The attempts are counted from 0; there are three.                       *)
GivesUp(k) == k = 2

(* Slip: the attempts are not counted.                                     *)
CalibrateAgain ==
  /\ rtc_pc = "calibrate"
  /\ \E f \in Frequencies :
       /\ tsc_frequency' = f
       /\ rtc_pc' = IF Plausible(f) THEN "wait" ELSE "calibrate"
  /\ UNCHANGED <<clock, binary, quiet, reg, cur, prev, passes, attempt, initial_rtc>>

Calibrate ==
  /\ rtc_pc = "calibrate"
  /\ \E f \in Frequencies :
       /\ tsc_frequency' = f
       /\ attempt' = attempt + 1
       /\ rtc_pc' = IF Plausible(f) THEN "wait"
                    ELSE IF GivesUp(attempt) THEN "failed" ELSE "calibrate"
  /\ UNCHANGED <<clock, binary, quiet, reg, cur, prev, passes, initial_rtc>>

(* The order in which a pass reads the registers.                          *)
Registers == <<"seconds", "minutes", "hours", "year", "dayofmonth", "month">>
RtcRegister == {Registers[k] : k \in DOMAIN Registers}
NoPass == [r \in RtcRegister |-> NONE]

(* Slip: the last pass is not kept.                                        *)
ForgottenPass == NoPass

(* do { last = current; ...                                                *)
LastPass == cur

(* is_rtc_updating is asked before each pass, not during it.               *)
BeginPass ==
  /\ rtc_pc = "wait" /\ uip = "steady"
  /\ rtc_pc' = "read" /\ reg' = 1
  /\ prev' = LastPass /\ cur' = NoPass
  /\ passes' = passes + 1
  /\ quiet' = IF quiet < PASSES_PER_SECOND THEN quiet + 1 ELSE quiet
  /\ UNCHANGED <<clock, binary, attempt, tsc_frequency, initial_rtc>>

read_rtc_register ==
  /\ rtc_pc = "read" /\ reg <= Len(Registers)
  /\ \E v \in Reads(Registers[reg]) : cur' = [cur EXCEPT ![Registers[reg]] = v]
  /\ reg' = reg + 1
  /\ UNCHANGED <<clock, binary, quiet, rtc_pc, prev, passes, attempt, tsc_frequency, initial_rtc>>

(* Slip: the hour is not compared.                                         *)
SameButHours(a, b) == \A r \in RtcRegister \ {"hours"} : a[r] = b[r]

Same(a, b) == \A r \in RtcRegister : a[r] = b[r]

convert_bcd_to_binary(v) == 10 * (v \div 16) + (v % 16)
Converted(p) == [r \in RtcRegister |-> IF binary THEN p[r] ELSE convert_bcd_to_binary(p[r])]

(* The seconds since 1970 as the driver adds them up.  A leap day counts   *)
(* from the first of January of its year.                                  *)
daysPerMonth == <<31, 28, 31, 30, 31, 30, 31, 31, 30, 31, 30, 31>>
DaysThisYear[mo \in 1 .. 12] ==
  IF mo = 1 THEN 0 ELSE DaysThisYear[mo - 1] + daysPerMonth[mo - 1]
DaysSinceEpoch(year) ==
  LET years == 2000 + year - 1970
      leapYears == (years \div 4) + IF years % 4 > 1 THEN 1 ELSE 0
  IN years * 365 - 1 + leapYears
UnixTime(m) ==
  86400 * (DaysSinceEpoch(m.year) + DaysThisYear[m.month] + m.dayofmonth)
    + 3600 * m.hours + 60 * m.minutes + m.seconds

EndPass ==
  /\ rtc_pc = "read" /\ reg > Len(Registers)
  /\ IF prev # NoPass /\ Same(prev, cur)
       THEN rtc_pc' = "ready" /\ initial_rtc' = UnixTime(Converted(cur))
       ELSE rtc_pc' = "wait" /\ UNCHANGED initial_rtc
  /\ UNCHANGED <<clock, binary, quiet, reg, cur, prev, passes, attempt, tsc_frequency>>

(* rtc_init has returned, and the machine goes on without this driver.     *)
Returned == rtc_pc \in {"ready", "failed"} /\ UNCHANGED clockVars

(***************************************************************************)
(* The specification.                                                      *)
(***************************************************************************)
ClockInit ==
  /\ t \in Starts /\ binary \in BOOLEAN
  /\ uip = "steady" /\ quiet = PASSES_PER_SECOND /\ shown = {t}
  /\ rtc_pc = "calibrate" /\ reg = 1 /\ cur = NoPass /\ prev = NoPass /\ passes = 0
  /\ attempt = 0 /\ tsc_frequency = 0 /\ initial_rtc = 0

ReadClock == BeginPass \/ read_rtc_register \/ EndPass
Hardware == Change \/ Settle
ClockNext ==
  \/ Announce \/ Hardware
  \/ Calibrate \/ ReadClock
  \/ Returned

ClockSpec == ClockInit /\ [][ClockNext]_clockVars

(* The driver goes on, and an update that has begun ends.                  *)
ClockFairSpec ==
  ClockSpec /\ WF_clockVars(Calibrate) /\ WF_clockVars(ReadClock) /\ WF_clockVars(Hardware)

(***************************************************************************)
(* Properties.                                                             *)
(***************************************************************************)
(* The registers the driver has read are bytes, and it calibrates three    *)
(* times at most (rtc_init).                                               *)
ClockTypeOK ==
  /\ uip \in {"steady", "announced", "changing"}
  /\ quiet \in 0 .. PASSES_PER_SECOND /\ passes \in Nat
  /\ rtc_pc \in {"calibrate", "wait", "read", "ready", "failed"} /\ reg \in 1 .. 7
  /\ cur \in [RtcRegister -> (0 .. 255) \cup {NONE}]
  /\ prev \in [RtcRegister -> (0 .. 255) \cup {NONE}]
  /\ attempt \in 0 .. 3 /\ tsc_frequency \in Nat /\ initial_rtc \in Nat

(* The leap day is counted from January on: in January and February of a   *)
(* leap year the driver is a day ahead.                                    *)
DaysAhead(month, year) == IF IsLeap(year) /\ month <= 2 THEN 1 ELSE 0
AheadBy(m) == 86400 * DaysAhead(m.month, m.year)

(* The days the driver counts to the first of a month are those of the     *)
(* calendar, but for the day ahead.  No constant is in this: it is a       *)
(* calculation over the 1200 months a clock can show, made in every run.   *)
ASSUME CalendarAssumption ==
  \A year \in 0 .. 99, month \in 1 .. 12 :
    /\ DaysThisYear[month] \in Nat /\ FirstOfMonth(month, year) \in Nat
    /\ DaysSinceEpoch(year) + DaysThisYear[month] + 1 =
         FirstOfMonth(month, year) + DaysAhead(month, year)

(* However updates fall between the reads of the registers, the time that  *)
(* rtc_init takes is one the clock has shown during the call, in either    *)
(* format, converted to seconds since 1970 by the calendar (but for the    *)
(* day that AheadBy names).                                                *)
TimeWasShown ==
  /\ ClockTypeOK
  /\ rtc_pc = "ready" => \E m \in shown : initial_rtc = Epoch(m) + AheadBy(m)

(* Two passes that agree are enough, and four are reached at the worst:    *)
(* an update that falls between or into the first two costs two passes     *)
(* more, and the next update is too late to disturb those (the do-while    *)
(* loop, drv_rtc.c:207-225).                                               *)
FourPasses == passes <= 4

(* rtc_init returns, with the time or without it: a calibration that fails *)
(* is given up, and neither the wait for an update to end nor the passes   *)
(* go on for ever.                                                         *)
InitReturns == <>(rtc_pc \in {"ready", "failed"})
=============================================================================
