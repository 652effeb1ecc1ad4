------------------------------ MODULE HttpDate ------------------------------
(***************************************************************************)
(* The calendar behind Last-Modified and If-Modified-Since                 *)
(* (oxihttp-server/src/static_files.rs).  An instant is a day since        *)
(* 1970-01-01 and a second of that day, where the code has one number of   *)
(* seconds; a date is its fields and the style it is written in.           *)
(***************************************************************************)
EXTENDS Integers

Earlier(i, j) == i.day < j.day \/ (i.day = j.day /\ i.sec < j.sec)

\* n seconds after i.
After(i, n) == [day |-> i.day + (i.sec + n) \div 86400, sec |-> (i.sec + n) % 86400]

\* A year begins in March, an era has 400 years.
DaysSinceEpoch(year, month, day) ==
  LET m == IF month <= 2 THEN month + 9 ELSE month - 3
      y == IF month <= 2 THEN year - 1 ELSE year
      yoe == y % 400
      doy == (153 * m + 2) \div 5 + day - 1
      doe == yoe * 365 + yoe \div 4 - yoe \div 100 + doy
  IN  (y \div 400) * 146097 + doe - 719468

\* Mutant: the year is not moved back when it has begun in March.
UnixDaysToCivil_MarchYear(days) ==
  LET z == days + 719468
      doe == z % 146097
      yoe == (doe - doe \div 1460 + doe \div 36524 - doe \div 146096) \div 365
      doy == doe - (365 * yoe + yoe \div 4 - yoe \div 100)
      mp == (5 * doy + 2) \div 153
  IN  [year |-> yoe + (z \div 146097) * 400,
       month |-> IF mp < 10 THEN mp + 3 ELSE mp - 9,
       day |-> doy - (153 * mp + 2) \div 5 + 1]

UnixDaysToCivil(days) ==
  LET z == days + 719468
      doe == z % 146097
      yoe == (doe - doe \div 1460 + doe \div 36524 - doe \div 146096) \div 365
      doy == doe - (365 * yoe + yoe \div 4 - yoe \div 100)
      mp == (5 * doy + 2) \div 153
      month == IF mp < 10 THEN mp + 3 ELSE mp - 9
  IN  [year |-> yoe + (z \div 146097) * 400 + (IF month <= 2 THEN 1 ELSE 0),
       month |-> month,
       day |-> doy - (153 * mp + 2) \div 5 + 1]

FormatHttpDate(i) ==
  LET civil == UnixDaysToCivil(i.day)
  IN  [style |-> "imf", year |-> civil.year, month |-> civil.month, day |-> civil.day,
       hour |-> i.sec \div 3600, min |-> (i.sec % 3600) \div 60, sec |-> i.sec % 60]

\* RFC 850 has two digits for the year.
YearOf(d) ==
  IF d.style # "rfc850" THEN d.year
  ELSE IF d.year < 70 THEN 2000 + d.year ELSE 1900 + d.year

\* The instant a date stands for, if it can be read.
ParseHttpDate(d) ==
  IF /\ d.style \in {"imf", "rfc850", "asctime"}
     /\ d.month \in 1..12 /\ d.day \in 1..31 /\ YearOf(d) >= 1970
    THEN {After([day |-> DaysSinceEpoch(YearOf(d), d.month, d.day), sec |-> 0],
                d.hour * 3600 + d.min * 60 + d.sec)}
    ELSE {}

\* A date that cannot be read counts as an old one.
IsModifiedSince(mtime, d) == \A i \in ParseHttpDate(d) : Earlier(i, mtime)
=============================================================================
