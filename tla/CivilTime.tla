----------------------------- MODULE CivilTime ------------------------------
(***************************************************************************)
(* Times in manifests and trust bundles.  Three crates read RFC 3339 text  *)
(* by themselves: openapi-core (maintenance.rs), openapi-platform          *)
(* (engine_trust.rs) and openapi-attest (manifest.rs).                     *)
(*                                                                         *)
(* A stamp is the text split at its separators: numbers for the date and   *)
(* the time of day, and the offset from UTC in minutes.  An instant is a   *)
(* count of days since 1970 and of seconds in that day.                    *)
(***************************************************************************)
EXTENDS Integers

CONSTANTS
  Bad   \* text that is not accepted as a time

DaySeconds == 86400

\* Seconds may run over the ends of the day; before 1970 there is no time.
Instant(days, seconds) ==
  LET day == days + seconds \div DaySeconds
  IN  IF day < 0 THEN Bad ELSE <<day, seconds % DaySeconds>>

TimeOfDay(stamp) == stamp.hour * 3600 + stamp.minute * 60 + stamp.second

\* Mutant: the year is taken to begin in February.
DaysFromFebruary(year, month, day) ==
  LET y   == IF month < 2 THEN year - 1 ELSE year
      era == y \div 400
      yoe == y - era * 400
      mp  == IF month > 2 THEN month - 3 ELSE month + 9
      doy == (153 * mp + 2) \div 5 + day - 1
      doe == yoe * 365 + yoe \div 4 - yoe \div 100 + doy
  IN  era * 146097 + doe - 719468

\* days_from_civil: years begin in March, so the leap day is the last.
DaysFromCivil(year, month, day) ==
  LET y   == IF month <= 2 THEN year - 1 ELSE year
      era == y \div 400
      yoe == y - era * 400
      mp  == IF month > 2 THEN month - 3 ELSE month + 9
      doy == (153 * mp + 2) \div 5 + day - 1
      doe == yoe * 365 + yoe \div 4 - yoe \div 100 + doy
  IN  era * 146097 + doe - 719468

\* The era of a year where it is a quotient of Rust's, which drops the fraction
\* below zero too.
Era(y) == IF y >= 0 THEN y \div 400 ELSE -((399 - y) \div 400)

\* The days_from_civil of a trust bundle ...
EngineDays(year, month, day) ==
  LET y            == IF month <= 2 THEN year - 1 ELSE year
      yearOfEra    == y - Era(y) * 400
      shiftedMonth == IF month > 2 THEN month - 3 ELSE month + 9
      dayOfYear    == (153 * shiftedMonth + 2) \div 5 + day - 1
      dayOfEra     == yearOfEra * 365 + yearOfEra \div 4 - yearOfEra \div 100 + dayOfYear
  IN  Era(y) * 146097 + dayOfEra - 719468

\* ... and the same count inside the parser of a release manifest.
ReleaseDays(year, mo, day) ==
  LET y   == IF mo <= 2 THEN year - 1 ELSE year
      yoe == y - Era(y) * 400
      mp  == IF mo > 2 THEN mo - 3 ELSE mo + 9
      doy == (153 * mp + 2) \div 5 + day - 1
      doe == yoe * 365 + yoe \div 4 - yoe \div 100 + doy
  IN  Era(y) * 146097 + doe - 719468

\* days_in_month
DaysInMonth(year, month) ==
  CASE month \in {4, 6, 9, 11} -> 30
    [] month = 2 -> IF year % 4 = 0 /\ (year % 100 # 0 \/ year % 400 = 0) THEN 29 ELSE 28
    [] OTHER     -> 31

\* parse_rfc3339_ms of a trust bundle: UTC only, and every part in its range.
EngineTrustTime(stamp) ==
  IF /\ stamp.offset = 0
     /\ stamp.month \in 1 .. 12
     /\ stamp.day \in 1 .. DaysInMonth(stamp.year, stamp.month)
     /\ stamp.hour <= 23 /\ stamp.minute <= 59 /\ stamp.second <= 59
  THEN Instant(EngineDays(stamp.year, stamp.month, stamp.day), TimeOfDay(stamp))
  ELSE Bad

\* parse_rfc3339_ms of a maintenance manifest: any offset; a day past the end
\* of its month is one in the next.
MaintenanceTime(stamp) ==
  IF stamp.month \in 1 .. 12 /\ stamp.day \in 1 .. 31
  THEN Instant(DaysFromCivil(stamp.year, stamp.month, stamp.day),
               TimeOfDay(stamp) - stamp.offset * 60)
  ELSE Bad

\* parse_rfc3339_secs of a release manifest: UTC only, parts unchecked.
ReleaseTime(stamp) ==
  IF stamp.offset = 0
  THEN Instant(ReleaseDays(stamp.year, stamp.month, stamp.day), TimeOfDay(stamp))
  ELSE Bad
=============================================================================
