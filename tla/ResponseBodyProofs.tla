------------------------- MODULE ResponseBodyProofs -------------------------
(***************************************************************************)
(* Proofs about ResponseBody: the bytes of a file's body, its              *)
(* Content-Length, its conditional requests and its place in the root, for *)
(* every file, request, chunk size and number of edits; the events of a    *)
(* stream, for all capacities of its channels and all heartbeats; a body   *)
(* that is coded on its way, for all lengths, bounds and buffers; a form   *)
(* of any parts, in memory or streamed.  Before them, the dates they need. *)
(***************************************************************************)
EXTENDS ResponseBody, TLAPS, WellFoundedInduction, FiniteSetTheorems

-----------------------------------------------------------------------------
(* Dates: for every day and every second of it, a date that is written is   *)
(* read back as the same instant.                                           *)

\* The parts a day of an era is taken to: the year of the era, the day of the year.
YearOfEra(doe) == (doe - doe \div 1460 + doe \div 36524 - doe \div 146096) \div 365
DayOfYear(doe) ==
  doe - (365 * YearOfEra(doe) + YearOfEra(doe) \div 4 - YearOfEra(doe) \div 100)

Era(days) == (days + 719468) \div 146097
DayOfEra(days) == (days + 719468) % 146097

\* Months are counted from March.
MonthOf(doy) == (5 * doy + 2) \div 153
DaysBefore(mp) == (153 * mp + 2) \div 5

\* The corrections for leap years are exact: no day falls outside of its year.
LEMMA DayWithinYear ==
  ASSUME NEW doe \in Int, 0 <= doe, doe < 146097
  PROVE  /\ YearOfEra(doe) \in Int /\ 0 <= YearOfEra(doe) /\ YearOfEra(doe) < 400
         /\ DayOfYear(doe) \in Int /\ 0 <= DayOfYear(doe) /\ DayOfYear(doe) <= 365
<1>1. PICK a \in Int : a = doe \div 1460
  BY SMT
<1>2. PICK b \in Int : b = doe \div 36524
  BY SMT
<1>3. PICK f \in Int : f = doe \div 146096
  BY SMT
<1>4. PICK y \in Int : y = (doe - a + b - f) \div 365
  BY SMT
<1>5. PICK q \in Int : q = y \div 4
  BY SMT
<1>6. PICK c \in Int : c = y \div 100
  BY SMT
<1>7. 1460 * a <= doe /\ doe < 1460 * a + 1460
  BY <1>1, SMT
<1>8. 36524 * b <= doe /\ doe < 36524 * b + 36524
  BY <1>2, SMT
<1>9. 146096 * f <= doe /\ doe < 146096 * f + 146096
  BY <1>3, SMT
<1>10. 365 * y <= doe - a + b - f /\ doe - a + b - f < 365 * y + 365
  BY <1>4, SMT
<1>11. 4 * q <= y /\ y < 4 * q + 4 /\ 100 * c <= y /\ y < 100 * c + 100
  BY <1>5, <1>6, SMT
<1>12. /\ 0 <= y /\ y < 400
       /\ 0 <= doe - (365 * y + q - c) /\ doe - (365 * y + q - c) <= 365
  BY <1>7, <1>8, <1>9, <1>10, <1>11, SMT
<1>13. YearOfEra(doe) = y
  BY <1>1, <1>2, <1>3, <1>4, SMT DEF YearOfEra
<1>14. DayOfYear(doe) = doe - (365 * y + q - c)
  BY <1>5, <1>6, <1>13, SMT DEF DayOfYear
<1> QED  BY <1>12, <1>13, <1>14, SMT

\* No month is longer than 31 days.
LEMMA MonthOfDay ==
  ASSUME NEW doy \in Int, 0 <= doy, doy <= 365
  PROVE  /\ MonthOf(doy) \in Int /\ 0 <= MonthOf(doy) /\ MonthOf(doy) <= 11
         /\ DaysBefore(MonthOf(doy)) \in Int
         /\ 1 <= doy - DaysBefore(MonthOf(doy)) + 1
         /\ doy - DaysBefore(MonthOf(doy)) + 1 <= 31
<1>1. PICK mp \in Int : mp = (5 * doy + 2) \div 153
  BY SMT
<1>2. PICK e \in Int : e = (153 * mp + 2) \div 5
  BY SMT
<1>3. 153 * mp <= 5 * doy + 2 /\ 5 * doy + 2 < 153 * mp + 153
  BY <1>1, SMT
<1>4. 5 * e <= 153 * mp + 2 /\ 153 * mp + 2 < 5 * e + 5
  BY <1>2, SMT
<1>5. 0 <= mp /\ mp <= 11 /\ 1 <= doy - e + 1 /\ doy - e + 1 <= 31
  BY <1>3, <1>4, SMT
<1> QED  BY <1>1, <1>2, <1>5, SMT DEF MonthOf, DaysBefore

\* A day and the parts it is taken to.
IsCivil(days, era, doe, yoe, doy, mp, e) ==
  /\ days + 719468 = 146097 * era + doe /\ 0 <= doe /\ doe < 146097
  /\ 0 <= yoe /\ yoe < 400 /\ 0 <= doy /\ doy <= 365
  /\ doe = 365 * yoe + yoe \div 4 - yoe \div 100 + doy
  /\ mp = MonthOf(doy) /\ 0 <= mp /\ mp <= 11
  /\ e = DaysBefore(mp) /\ 1 <= doy - e + 1 /\ doy - e + 1 <= 31

LEMMA CivilParts ==
  ASSUME NEW days \in Int
  PROVE  LET doe == DayOfEra(days)
             doy == DayOfYear(doe)
         IN  IsCivil(days, Era(days), doe, YearOfEra(doe), doy, MonthOf(doy),
                     DaysBefore(MonthOf(doy)))
<1>1. PICK z \in Int : z = days + 719468
  BY SMT
<1>2. PICK era \in Int : era = z \div 146097
  BY SMT
<1>3. PICK doe \in Int : doe = z % 146097
  BY SMT
<1>4. z = 146097 * era + doe /\ 0 <= doe /\ doe < 146097
  BY <1>2, <1>3, SMT
<1>5. Era(days) = era /\ DayOfEra(days) = doe
  BY <1>1, <1>2, <1>3, SMT DEF Era, DayOfEra
<1>6. PICK yoe \in Int : yoe = YearOfEra(doe)
  BY <1>4, DayWithinYear, SMT
<1>7. PICK doy \in Int : doy = DayOfYear(doe)
  BY <1>4, DayWithinYear, SMT
<1>8. 0 <= yoe /\ yoe < 400 /\ 0 <= doy /\ doy <= 365
  BY <1>4, <1>6, <1>7, DayWithinYear, SMT
<1>9. doe = 365 * yoe + yoe \div 4 - yoe \div 100 + doy
  BY <1>6, <1>7, SMT DEF DayOfYear
<1>10. /\ 0 <= MonthOf(doy) /\ MonthOf(doy) <= 11
       /\ 1 <= doy - DaysBefore(MonthOf(doy)) + 1
       /\ doy - DaysBefore(MonthOf(doy)) + 1 <= 31
  BY <1>8, MonthOfDay, SMT
<1>11. IsCivil(days, era, doe, yoe, doy, MonthOf(doy), DaysBefore(MonthOf(doy)))
  BY <1>1, <1>4, <1>8, <1>9, <1>10, SMT DEF IsCivil
<1> QED  BY <1>5, <1>6, <1>7, <1>11, SMT

LEMMA PartsAreInt ==
  ASSUME NEW days \in Int
  PROVE  LET doe == DayOfEra(days)
             doy == DayOfYear(doe)
         IN  /\ Era(days) \in Int /\ doe \in Int /\ YearOfEra(doe) \in Int /\ doy \in Int
             /\ MonthOf(doy) \in Int /\ DaysBefore(MonthOf(doy)) \in Int
<1>1. Era(days) \in Int /\ DayOfEra(days) \in Int
  BY SMT DEF Era, DayOfEra
<1>2. 0 <= DayOfEra(days) /\ DayOfEra(days) < 146097
  BY SMT DEF DayOfEra
<1>3. /\ YearOfEra(DayOfEra(days)) \in Int /\ DayOfYear(DayOfEra(days)) \in Int
      /\ 0 <= DayOfYear(DayOfEra(days)) /\ DayOfYear(DayOfEra(days)) <= 365
  BY <1>1, <1>2, DayWithinYear, SMT
<1> QED  BY <1>1, <1>3, MonthOfDay, SMT

\* The fields of a date, from the parts.
Civil(era, yoe, doy, mp, e) ==
  LET month == IF mp < 10 THEN mp + 3 ELSE mp - 9
  IN  [year |-> yoe + era * 400 + (IF month <= 2 THEN 1 ELSE 0),
       month |-> month, day |-> doy - e + 1]

LEMMA CivilFields ==
  ASSUME NEW days \in Int
  PROVE  LET doe == DayOfEra(days)
             doy == DayOfYear(doe)
         IN  UnixDaysToCivil(days)
               = Civil(Era(days), YearOfEra(doe), doy, MonthOf(doy), DaysBefore(MonthOf(doy)))
  BY SMT DEF UnixDaysToCivil, Civil, Era, DayOfEra, YearOfEra, DayOfYear, MonthOf, DaysBefore

\* The day a date is computed from is the day it names.
THEOREM DayIsKept ==
  ASSUME NEW days \in Int
  PROVE  LET civil == UnixDaysToCivil(days)
         IN  DaysSinceEpoch(civil.year, civil.month, civil.day) = days
<1>1. PICK doe \in Int : doe = DayOfEra(days)
  BY PartsAreInt, SMT
<1>2. PICK doy \in Int : doy = DayOfYear(doe)
  BY <1>1, PartsAreInt, SMT
<1>3. PICK era \in Int : era = Era(days)
  BY PartsAreInt, SMT
<1>4. PICK yoe \in Int : yoe = YearOfEra(doe)
  BY <1>1, PartsAreInt, SMT
<1>5. PICK mp \in Int : mp = MonthOf(doy)
  BY <1>1, <1>2, PartsAreInt, SMT
<1>6. PICK e \in Int : e = DaysBefore(mp)
  BY <1>1, <1>2, <1>5, PartsAreInt, SMT
<1>7. IsCivil(days, era, doe, yoe, doy, mp, e)
  BY <1>1, <1>2, <1>3, <1>4, <1>5, <1>6, CivilParts, SMT
<1>8. UnixDaysToCivil(days) = Civil(era, yoe, doy, mp, e)
  BY <1>1, <1>2, <1>3, <1>4, <1>5, <1>6, CivilFields, SMT
<1> DEFINE month == IF mp < 10 THEN mp + 3 ELSE mp - 9
           year == yoe + era * 400 + (IF month <= 2 THEN 1 ELSE 0)
           m == IF month <= 2 THEN month + 9 ELSE month - 3
           y == IF month <= 2 THEN year - 1 ELSE year
<1>9. m = mp /\ y = yoe + era * 400
  BY <1>7, SMT DEF IsCivil
<1>10. y % 400 = yoe /\ y \div 400 = era
  <2>1. (yoe + era * 400) % 400 = yoe /\ (yoe + era * 400) \div 400 = era
    BY <1>7, SMT DEF IsCivil
  <2> QED  BY <1>9, <2>1, SMT
<1>11. DaysSinceEpoch(year, month, doy - e + 1)
        = era * 146097 + (yoe * 365 + yoe \div 4 - yoe \div 100 + (e + (doy - e + 1) - 1)) - 719468
  <2> HIDE DEF month, year
  <2>1. DaysSinceEpoch(year, month, doy - e + 1)
          = (y \div 400) * 146097
            + ((y % 400) * 365 + (y % 400) \div 4 - (y % 400) \div 100
               + ((153 * m + 2) \div 5 + (doy - e + 1) - 1)) - 719468
    BY SMT DEF DaysSinceEpoch
  <2>2. (153 * m + 2) \div 5 = e
    BY <1>7, <1>9, SMT DEF IsCivil, DaysBefore
  <2> HIDE DEF m, y
  <2> QED  BY <1>10, <2>1, <2>2, SMT
<1>12. era * 146097 + (yoe * 365 + yoe \div 4 - yoe \div 100 + (e + (doy - e + 1) - 1)) - 719468 = days
  <2>1. PICK doys \in Int : doys = yoe * 365 + yoe \div 4 - yoe \div 100
    BY SMT
  <2>2. days + 719468 = 146097 * era + doe /\ doe = doys + doy
    BY <1>7, <2>1, SMT DEF IsCivil
  <2> QED  BY <2>1, <2>2, SMT
<1>13. UnixDaysToCivil(days) = [year |-> year, month |-> month, day |-> doy - e + 1]
  BY <1>8, SMT DEF Civil
<1> HIDE DEF month, year
<1> QED  BY <1>11, <1>12, <1>13, SMT

\* No day since the epoch is put in a year before it: one of January or February of
\* 1970 is counted from March 1969.
LEMMA YearSinceEpoch ==
  ASSUME NEW days \in Int, 0 <= days
  PROVE  LET civil == UnixDaysToCivil(days)
         IN  /\ civil.year \in Int /\ civil.month \in Int /\ civil.day \in Int
             /\ 1970 <= civil.year
             /\ 1 <= civil.month /\ civil.month <= 12 /\ 1 <= civil.day /\ civil.day <= 31
<1>1. PICK doe \in Int : doe = DayOfEra(days)
  BY PartsAreInt, SMT
<1>2. PICK doy \in Int : doy = DayOfYear(doe)
  BY <1>1, PartsAreInt, SMT
<1>3. PICK era \in Int : era = Era(days)
  BY PartsAreInt, SMT
<1>4. PICK yoe \in Int : yoe = YearOfEra(doe)
  BY <1>1, PartsAreInt, SMT
<1>5. PICK mp \in Int : mp = MonthOf(doy)
  BY <1>1, <1>2, PartsAreInt, SMT
<1>6. PICK e \in Int : e = DaysBefore(mp)
  BY <1>1, <1>2, <1>5, PartsAreInt, SMT
<1>7. IsCivil(days, era, doe, yoe, doy, mp, e)
  BY <1>1, <1>2, <1>3, <1>4, <1>5, <1>6, CivilParts, SMT
<1>8. UnixDaysToCivil(days) = Civil(era, yoe, doy, mp, e)
  BY <1>1, <1>2, <1>3, <1>4, <1>5, <1>6, CivilFields, SMT
<1>9. PICK q \in Int : q = yoe \div 4
  BY SMT
<1>10. PICK c \in Int : c = yoe \div 100
  BY SMT
<1>11. 4 * q <= yoe /\ yoe < 4 * q + 4 /\ 100 * c <= yoe /\ yoe < 100 * c + 100
  BY <1>9, <1>10, SMT
<1>12. /\ 719468 <= 146097 * era + doe /\ doe < 146097
       /\ doe = 365 * yoe + q - c + doy /\ doy <= 365 /\ 0 <= yoe
       /\ 0 <= mp /\ mp <= 11 /\ 1 <= doy - e + 1 /\ doy - e + 1 <= 31
  BY <1>7, <1>9, <1>10, SMT DEF IsCivil
<1>13. era >= 5 \/ (era = 4 /\ yoe >= 370) \/ (era = 4 /\ yoe = 369 /\ doy >= 306)
  BY <1>11, <1>12, SMT
<1>14. doy >= 306 => mp >= 10
  BY <1>5, SMT DEF MonthOf
<1>15. 1970 <= yoe + era * 400 + (IF (IF mp < 10 THEN mp + 3 ELSE mp - 9) <= 2 THEN 1 ELSE 0)
  BY <1>12, <1>13, <1>14, SMT
<1> QED  BY <1>8, <1>12, <1>15, SMT DEF Civil

\* The seconds since 1970.
Instant(i) == \E day, sec \in Nat : sec < 86400 /\ i = [day |-> day, sec |-> sec]

\* An instant that is written as a date is read back as that instant.
THEOREM DateIsKept ==
  ASSUME NEW i, Instant(i)
  PROVE  ParseHttpDate(FormatHttpDate(i)) = {i}
<1>0. PICK day, sec \in Nat : sec < 86400 /\ i = [day |-> day, sec |-> sec]
  BY DEF Instant
<1> DEFINE d == FormatHttpDate(i)
           civil == UnixDaysToCivil(day)
<1> day \in Int /\ sec \in Int /\ 0 <= day /\ 0 <= sec /\ sec < 86400
  BY <1>0
<1>1. /\ d.style = "imf" /\ d.year = civil.year /\ d.month = civil.month /\ d.day = civil.day
      /\ d.hour = sec \div 3600 /\ d.min = (sec % 3600) \div 60 /\ d.sec = sec % 60
  BY <1>0, SMT DEF FormatHttpDate
<1> HIDE DEF d
<1>2. YearOf(d) = civil.year
  BY <1>1, SMT DEF YearOf
<1>3. d.month \in 1..12 /\ d.day \in 1..31 /\ YearOf(d) >= 1970
  <2>1. /\ civil.year \in Int /\ civil.month \in Int /\ civil.day \in Int
        /\ 1970 <= civil.year
        /\ 1 <= civil.month /\ civil.month <= 12 /\ 1 <= civil.day /\ civil.day <= 31
    BY YearSinceEpoch, SMT
  <2> HIDE DEF civil
  <2> QED  BY <1>1, <1>2, <2>1, SMT
<1>4. DaysSinceEpoch(YearOf(d), d.month, d.day) = day
  BY <1>1, <1>2, DayIsKept, SMT
<1>5. d.hour * 3600 + d.min * 60 + d.sec = sec
  <2>1. PICK rest \in Int : rest = sec % 3600
    BY SMT
  <2>2. (sec \div 3600) * 3600 + rest = sec
    BY <2>1, SMT
  <2>3. (rest \div 60) * 60 + (sec % 60) = rest
    <3>1. PICK hours \in Int : hours = sec \div 3600
      BY SMT
    <3>2. sec = 3600 * hours + rest /\ 0 <= rest /\ rest < 3600
      BY <2>1, <3>1, SMT
    <3>3. PICK a \in Int : a = rest \div 60
      BY SMT
    <3>4. PICK b \in Int : b = sec % 60
      BY SMT
    <3>5. PICK minutes \in Int : minutes = sec \div 60
      BY SMT
    <3>6. sec = 60 * minutes + b /\ 0 <= b /\ b < 60 /\ 60 * a <= rest /\ rest < 60 * a + 60
      BY <3>3, <3>4, <3>5, <3>2, SMT
    <3>7. minutes = 60 * hours + a
      BY <3>2, <3>6, SMT
    <3> QED  BY <3>2, <3>3, <3>4, <3>6, <3>7, SMT
  <2> QED  BY <1>1, <2>1, <2>2, <2>3, SMT
<1>6. ParseHttpDate(d) = {After([day |-> day, sec |-> 0], sec)}
  BY <1>1, <1>3, <1>4, <1>5, SMT DEF ParseHttpDate
<1>7. After([day |-> day, sec |-> 0], sec) = i
  BY <1>0, SMT DEF After
<1> QED  BY <1>6, <1>7, SMT DEF d

\* Only the fields of a date and the style of its year count.
Styles == {"imf", "rfc850", "asctime"}

LEMMA ParseSame ==
  ASSUME NEW d, NEW e, d.style \in Styles, e.style \in Styles, YearOf(d) = YearOf(e),
         d.month = e.month, d.day = e.day, d.hour = e.hour, d.min = e.min, d.sec = e.sec
  PROVE  ParseHttpDate(d) = ParseHttpDate(e)
<1> DEFINE ReadBack(x) == x.month \in 1..12 /\ x.day \in 1..31 /\ YearOf(x) >= 1970
           At(x) == After([day |-> DaysSinceEpoch(YearOf(x), x.month, x.day), sec |-> 0],
                          x.hour * 3600 + x.min * 60 + x.sec)
<1>1. \A x : x.style \in Styles =>
        ParseHttpDate(x) = IF ReadBack(x) THEN {At(x)} ELSE {}
  BY SMT DEF ParseHttpDate, Styles
<1>2. ReadBack(d) <=> ReadBack(e)
  OBVIOUS
<1>3. At(d) = At(e)
  OBVIOUS
<1> HIDE DEF ReadBack, At
<1> QED  BY <1>1, <1>2, <1>3

\* The dates an instant has: as this server writes it, as asctime() does, and with two
\* digits for the year, of the years that have them.
Dates(i) ==
  LET d == FormatHttpDate(i)
  IN  {d, [d EXCEPT !.style = "asctime"]}
        \cup (IF 1970 <= d.year /\ d.year < 2070
                THEN {[d EXCEPT !.style = "rfc850", !.year = d.year % 100]} ELSE {})

LEMMA DatesAreKept ==
  ASSUME NEW i, Instant(i), NEW e \in Dates(i)
  PROVE  ParseHttpDate(e) = {i}
<1> DEFINE d == FormatHttpDate(i)
<1>0. ParseHttpDate(d) = {i}
  BY DateIsKept
<1>1. /\ d.style = "imf" /\ d.year \in Int
      /\ d = [style |-> d.style, year |-> d.year, month |-> d.month, day |-> d.day,
              hour |-> d.hour, min |-> d.min, sec |-> d.sec]
  <2>1. PICK day, sec \in Nat : i = [day |-> day, sec |-> sec]
    BY DEF Instant
  <2> DEFINE civil == UnixDaysToCivil(day)
  <2>2. civil.year \in Int
    BY YearSinceEpoch
  <2> HIDE DEF civil
  <2> QED  BY <2>1, <2>2 DEF FormatHttpDate, civil
<1>2. \/ e \in {d, [d EXCEPT !.style = "asctime"]}
      \/ /\ 1970 <= d.year /\ d.year < 2070
         /\ e = [d EXCEPT !.style = "rfc850", !.year = d.year % 100]
  BY DEF Dates
<1> HIDE DEF d
<1>3. CASE e = [d EXCEPT !.style = "asctime"]
  <2>1. /\ e.style = "asctime" /\ e.year = d.year /\ e.month = d.month /\ e.day = d.day
        /\ e.hour = d.hour /\ e.min = d.min /\ e.sec = d.sec
    BY <1>1, <1>3
  <2>2. YearOf(e) = YearOf(d)
    BY <1>1, <2>1 DEF YearOf
  <2> QED  BY <1>0, <1>1, <2>1, <2>2, ParseSame DEF Styles
<1>4. CASE /\ 1970 <= d.year /\ d.year < 2070
           /\ e = [d EXCEPT !.style = "rfc850", !.year = d.year % 100]
  <2>1. /\ e.style = "rfc850" /\ e.year = d.year % 100 /\ e.month = d.month
        /\ e.day = d.day /\ e.hour = d.hour /\ e.min = d.min /\ e.sec = d.sec
    BY <1>1, <1>4
  <2>2. YearOf(e) = YearOf(d)
    <3>1. YearOf(d) = d.year
      BY <1>1 DEF YearOf
    <3>2. YearOf(e) = IF e.year < 70 THEN 2000 + e.year ELSE 1900 + e.year
      BY <2>1 DEF YearOf
    <3>3. PICK y \in Int : y = d.year /\ 1970 <= y /\ y < 2070
      BY <1>1, <1>4
    <3>4. y % 100 = IF y < 2000 THEN y - 1900 ELSE y - 2000
      BY <3>3
    <3> QED  BY <2>1, <3>1, <3>2, <3>3, <3>4
  <2> QED  BY <1>0, <1>1, <2>1, <2>2, ParseSame DEF Styles
<1> QED  BY <1>0, <1>2, <1>3, <1>4

-----------------------------------------------------------------------------
(* The headers of a file                                                    *)

\* What a body may still yield is within what the headers have announced, from
\* the moment they are computed; the file system changes neither.
Files ==
  /\ file \in [Inode -> [bytes : Seq(Nat), mtime : Nat]]
  /\ path \in Inode \cup {0} /\ handle \in Inode \cup {0}
  /\ edits \in Nat /\ ask \in FileRequests

Counts == pos \in Nat /\ left \in Nat /\ declared \in Nat /\ got \in Seq(Nat)

Progress ==
  /\ step \in {"resolve", "stat", "open", "answered"}
  /\ step # "answered" => got = <<>> /\ handle = 0
  /\ step = "open" => left = declared
  /\ Len(got) <= declared
  /\ handle # 0 => Len(got) + left <= declared

Inv == kind = "file" => Files /\ Counts /\ Progress

LEMMA MinOfTwo ==
  ASSUME NEW a \in Int, NEW b \in Int
  PROVE  Min({a, b}) \in Int /\ Min({a, b}) <= a /\ Min({a, b}) <= b
  BY DEF Min

LEMMA MaxOfTwo ==
  ASSUME NEW a \in Int, NEW b \in Int
  PROVE  Max({a, b}) \in Int /\ Max({a, b}) >= a /\ Max({a, b}) >= b
  BY DEF Max

LEMMA SubSeqIs ==
  ASSUME NEW s \in Seq(Nat), NEW m \in Nat, NEW n \in Nat, m + n <= Len(s)
  PROVE  /\ SubSeq(s, m + 1, m + n) \in Seq(Nat)
         /\ Len(SubSeq(s, m + 1, m + n)) = n
         /\ \A i \in 1..n : SubSeq(s, m + 1, m + n)[i] = s[m + i]
<1>1. Len(SubSeq(s, m + 1, m + n)) = n
  OBVIOUS
<1>2. SubSeq(s, m + 1, m + n) \in Seq(Nat)
  OBVIOUS
<1>3. ASSUME NEW i \in 1..n PROVE SubSeq(s, m + 1, m + n)[i] = s[m + i]
  <2> DEFINE a == m + 1
             b == m + n
  <2>1. a \in Nat /\ b \in Nat /\ i \in Nat /\ i >= 1 /\ i <= b - a + 1 /\ a + i - 1 = m + i
    OBVIOUS
  <2> HIDE DEF a, b
  <2>2. SubSeq(s, a, b)[i] = s[a + i - 1]
    BY <2>1
  <2> QED  BY <2>1, <2>2 DEF a, b
<1> QED  BY <1>1, <1>2, <1>3

LEMMA BytesAre ==
  ASSUME NEW s \in Seq(Nat)
  PROVE  Len(s) \in Nat /\ \A i \in 1..Len(s) : s[i] \in Nat
OBVIOUS

LEMMA AppendIs ==
  ASSUME NEW s \in Seq(Nat), NEW e \in Nat
  PROVE  /\ Append(s, e) \in Seq(Nat) /\ Len(Append(s, e)) = Len(s) + 1
         /\ Append(s, e)[Len(s) + 1] = e
         /\ \A i \in 1..Len(s) : Append(s, e)[i] = s[i]
OBVIOUS

LEMMA InitInv == Init => Inv
<1> SUFFICES ASSUME Init, kind = "file" PROVE Files /\ Counts /\ Progress
  BY DEF Inv
<1>0. FileInit(FileRequests)
  BY DEF Init, Of
<1> USE FileAssumption, <1>0 DEF Init, BodyInit, FileInit
<1>1. [b \in 1..FileSize |-> 0] \in Seq(Nat)
  OBVIOUS
<1>2. Files
  BY <1>1 DEF Files, Inode, StrayInode
<1> QED  BY <1>2 DEF Counts, Progress

-----------------------------------------------------------------------------

\* A range that is satisfiable lies within the file.
LEMMA RangeWithin ==
  ASSUME NEW r, NEW len \in Nat, Satisfiable(r, len),
         r.kind \in {"closed", "open", "suffix"}, r.first \in Nat, r.last \in Nat
  PROVE  /\ RangeStart(r, len) \in Nat /\ RangeEnd(r, len) \in Nat
         /\ RangeEnd(r, len) - RangeStart(r, len) + 1 \in Nat
<1> DEFINE suffix == len - r.last
           whole == len - 1
<1>1. suffix \in Int /\ whole \in Int /\ 0 \in Int
  OBVIOUS
<1>2. Max({suffix, 0}) \in Nat /\ Max({whole, 0}) \in Nat
  <2> HIDE DEF suffix, whole
  <2>1. Max({suffix, 0}) \in Int /\ Max({suffix, 0}) >= 0
    BY <1>1, MaxOfTwo, Zenon
  <2>2. Max({whole, 0}) \in Int /\ Max({whole, 0}) >= 0
    BY <1>1, MaxOfTwo, Zenon
  <2> QED  BY <2>1, <2>2
<1>3. RangeStart(r, len) \in Nat /\ RangeEnd(r, len) \in Nat
  BY <1>2 DEF RangeStart, RangeEnd
<1> QED  BY <1>3 DEF Satisfiable

\* The headers announce a body of that length, or there is none.
LEMMA OfferInv ==
  ASSUME Counts, Progress, step = "stat",
         NEW s, NEW start \in Nat, NEW length \in Nat, Offer(s, start, length)
  PROVE  Counts' /\ Progress' /\ handle' = handle
<1>1. CASE HeadOnly
  BY <1>1 DEF Offer, AnswerEmpty, Counts, Progress
<1>2. CASE ~HeadOnly
  <2>1. step' = "open" /\ declared' = length /\ pos' = start /\ left' = length
        /\ got' = got /\ handle' = handle
    BY <1>2 DEF Offer, bodyVars
  <2> QED  BY <2>1 DEF Counts, Progress
<1> QED  BY <1>1, <1>2

LEMMA AnswerInv ==
  ASSUME Counts, Progress, step \in {"resolve", "stat", "open"}, NEW s, AnswerEmpty(s, 0)
  PROVE  Counts' /\ Progress' /\ handle' = handle
  BY DEF AnswerEmpty, Counts, Progress

LEMMA ResolveInv ==
  ASSUME Files, Counts, Progress, Resolve
  PROVE  Files' /\ Counts' /\ Progress'
<1> DEFINE o == Outcome(ask, PageIs)
<1>1. CASE AnswerEmpty(o.status, 0)
  BY <1>1, AnswerInv DEF Resolve, Files
<1>2. CASE step' = "stat" /\ UNCHANGED <<bodyVars, status, handle, pos, left, declared>>
  BY <1>2 DEF Resolve, bodyVars, Files, Counts, Progress
<1> QED  BY <1>1, <1>2 DEF Resolve

\* A path leads to an inode or nowhere.
LEMMA InodeIsInode == Files => \A p : InodeAt(p) \in Inode \cup {0}
  BY FileAssumption DEF Files, InodeAt, Inode, StrayInode

LEMMA StatInv ==
  ASSUME Files, Counts, Progress, Stat
  PROVE  Files' /\ Counts' /\ Progress'
<1> DEFINE now == file[InodeAt(at)]
           len == Len(now.bytes)
           m == [len |-> len, mtime |-> now.mtime]
           r == ask.range
<1>1. len \in Nat /\ step = "stat"
  BY InodeIsInode DEF Files, Stat
<1>2. /\ r.kind \in {"absent", "closed", "open", "suffix"}
      /\ r.kind # "absent" => r.first \in Nat /\ r.last \in Nat
  BY FileAssumption DEF Files
<1>3. \/ AnswerEmpty(304, 0) \/ AnswerEmpty(416, 0)
      \/ /\ r.kind # "absent" /\ Satisfiable(r, m.len)
         /\ Offer(206, RangeStart(r, m.len), RangeEnd(r, m.len) - RangeStart(r, m.len) + 1)
      \/ Offer(200, 0, m.len)
  BY Zenon DEF Stat
<1>4. Counts' /\ Progress' /\ handle' = handle
  <2>1. CASE AnswerEmpty(304, 0)
    BY <1>1, <2>1, AnswerInv
  <2>2. CASE AnswerEmpty(416, 0)
    BY <1>1, <2>2, AnswerInv
  <2>3. CASE Offer(200, 0, m.len)
    BY <1>1, <2>3, OfferInv
  <2>4. CASE /\ r.kind # "absent" /\ Satisfiable(r, m.len)
             /\ Offer(206, RangeStart(r, m.len), RangeEnd(r, m.len) - RangeStart(r, m.len) + 1)
    <3> DEFINE first == RangeStart(r, len)
               count == RangeEnd(r, len) - RangeStart(r, len) + 1
    <3>1. first \in Nat /\ count \in Nat
      BY <1>1, <1>2, <2>4, RangeWithin
    <3>2. Offer(206, first, count)
      BY <2>4
    <3> HIDE DEF first, count
    <3> QED  BY <1>1, <3>1, <3>2, OfferInv
  <2> QED  BY <1>3, <2>1, <2>2, <2>3, <2>4
<1> QED  BY <1>4 DEF Files, Stat

\* A read is no longer than what is left.
LEMMA ReadInv ==
  ASSUME Files, Counts, Progress, ReadChunk
  PROVE  Files' /\ Counts' /\ Progress'
<1> DEFINE bytes == file[handle].bytes
           available == Len(bytes) - pos
           want == Want
<1>1. bytes \in Seq(Nat) /\ available \in Int /\ handle # 0
  BY DEF Files, Counts, ReadChunk, FilePoll
<1>2. want \in Int /\ want <= left
  <2>1. left \in Int /\ Chunk \in Int
    BY FileAssumption DEF Counts
  <2> QED  BY <2>1, MinOfTwo, Zenon DEF Want
<1>3. PICK n \in 1..Min({want, available}) :
        /\ got' = got \o SubSeq(bytes, pos + 1, pos + n)
        /\ pos' = pos + n /\ left' = left - n
  BY Zenon DEF ReadChunk, Available, Yield
<1>4. n \in Nat /\ n <= left /\ n <= available
  <2> HIDE DEF available, want
  <2>1. Min({want, available}) \in Int /\ Min({want, available}) <= want
        /\ Min({want, available}) <= available
    BY <1>1, <1>2, MinOfTwo
  <2> QED  BY <1>1, <1>2, <1>3, <2>1 DEF Counts
<1>5. /\ SubSeq(bytes, pos + 1, pos + n) \in Seq(Nat)
      /\ Len(SubSeq(bytes, pos + 1, pos + n)) = n
  <2>1. pos \in Nat /\ pos + n <= Len(bytes)
    BY <1>1, <1>4 DEF Counts
  <2> QED  BY <1>1, <1>4, <2>1, SubSeqIs
<1>6. got' \in Seq(Nat) /\ Len(got') = Len(got) + n
  <2> DEFINE chunk == SubSeq(bytes, pos + 1, pos + n)
  <2> HIDE DEF chunk
  <2> QED  BY <1>3, <1>5 DEF Counts
<1>7. Counts'
  BY <1>3, <1>4, <1>6 DEF Counts, ReadChunk
<1>8. Progress'
  BY <1>1, <1>3, <1>4, <1>6 DEF Counts, Progress, ReadChunk, FilePoll
<1> QED  BY <1>7, <1>8 DEF Files, ReadChunk

\* Whatever is done to the file, the response stays as it is.
LEMMA EditInv ==
  ASSUME Files, Counts, Progress, NEW i \in Inode, NEW bytes \in Seq(Nat),
         Edit(i, bytes), path' \in Inode \cup {0}
  PROVE  Files' /\ Counts' /\ Progress'
<1>1. file' \in [Inode -> [bytes : Seq(Nat), mtime : Nat]] /\ edits' \in Nat
  BY DEF Files, Edit
<1> QED  BY <1>1 DEF Files, Counts, Progress, Edit, bodyVars

LEMMA FileStep ==
  ASSUME Files, Counts, Progress, FileNext
  PROVE  Files' /\ Counts' /\ Progress'
<1>0. CASE Resolve
  BY <1>0, ResolveInv
<1>1. CASE Stat
  BY <1>1, StatInv
<1>2. CASE Open
  BY <1>2, InodeIsInode DEF Open, Created, Files, Counts, Progress
<1>3. CASE Missing
  BY <1>3, AnswerInv DEF Missing, Files
<1>4. CASE ReadChunk
  BY <1>4, ReadInv
<1>5. CASE ReadEnd
  BY <1>5 DEF ReadEnd, FilePoll, End, Files, Counts, Progress
<1>6. CASE ReadError
  BY <1>6 DEF ReadError, FilePoll, Fail, Files, Counts, Progress
<1>7. CASE AppendToFile
  <2>1. Append(file[path].bytes, edits + 1) \in Seq(Nat) /\ path \in Inode
    BY <1>7 DEF AppendToFile, PageIs, Files
  <2> QED  BY <1>7, <2>1, EditInv DEF AppendToFile
<1>8. CASE Truncate
  <2>1. path \in Inode /\ file[path].bytes \in Seq(Nat)
    BY <1>8 DEF Truncate, PageIs, Files
  <2>2. PICK n \in 0..Len(file[path].bytes) - 1 : Edit(path, SubSeq(file[path].bytes, 1, n))
    BY <1>8 DEF Truncate
  <2>3. SubSeq(file[path].bytes, 1, n) \in Seq(Nat)
    BY <2>1, <2>2
  <2> QED  BY <1>8, <2>1, <2>2, <2>3, EditInv DEF Truncate
<1>9. CASE ReplaceFile
  <2>1. edits + 2 \in Inode
    BY <1>9, FileAssumption DEF ReplaceFile, Edit, Files, Inode, StrayInode
  <2>2. [b \in 1..FileSize |-> edits + 1] \in Seq(Nat)
    BY FileAssumption DEF Files
  <2> QED  BY <1>9, <2>1, <2>2, EditInv DEF ReplaceFile
<1>10. CASE RemoveFile \/ LinkFile
  <2>1. PICK i \in Inode \cup {0} : PathLeadsTo(i)
    BY <1>10, FileAssumption DEF RemoveFile, LinkFile, Inode, StrayInode
  <2> QED  BY <2>1 DEF PathLeadsTo, bodyVars, Files, Counts, Progress
<1>11. CASE FileLosesClient
  BY <1>11 DEF FileLosesClient, Disconnect, fileVars, Files, Counts, Progress
<1> QED
  BY <1>0, <1>1, <1>2, <1>3, <1>4, <1>5, <1>6, <1>7, <1>8, <1>9, <1>10, <1>11 DEF FileNext

LEMMA NextInv == Inv /\ [Next]_vars => Inv'
<1> SUFFICES ASSUME Inv, [Next]_vars, kind' = "file" PROVE Files' /\ Counts' /\ Progress'
  BY DEF Inv
<1>1. CASE File
  BY <1>1, FileStep DEF File, OfFile, Inv
<1>2. CASE Events \/ Form \/ Coding
  BY <1>2 DEF Events, Form, Coding, OfEvents, OfForm, OfCoded
<1>3. CASE UNCHANGED vars
  BY <1>3 DEF vars, bodyVars, fileVars, Inv, Files, Counts, Progress
<1> QED  BY <1>1, <1>2, <1>3 DEF Next

\* A file's body never outgrows its Content-Length: for every file, range and
\* chunk size, and whatever happens to the file in the meantime.
THEOREM ContentLengthKept == Spec => [](kind = "file" => LengthKept)
<1>1. Inv => (kind = "file" => LengthKept)
  BY DEF Inv, Progress, LengthKept
<1> QED  BY InitInv, NextInv, <1>1, PTL DEF Spec

-----------------------------------------------------------------------------
(* The bytes of a file                                                      *)

Begins(s, t) == Len(s) <= Len(t) /\ \A i \in 1..Len(s) : s[i] = t[i]

LEMMA PrefixBegins ==
  ASSUME NEW S, NEW s \in Seq(S), NEW t \in Seq(S)
  PROVE  IsPrefix(s, t) <=> Begins(s, t)
<1>1. Len(s) \in Nat /\ Len(t) \in Nat
  OBVIOUS
<1>2. CASE Len(s) <= Len(t)
  <2> DEFINE u == SubSeq(s, 1, Len(s))
             v == SubSeq(t, 1, Len(s))
  <2>1. /\ u \in Seq(S) /\ Len(u) = Len(s) /\ \A i \in 1..Len(s) : u[i] = s[i]
        /\ v \in Seq(S) /\ Len(v) = Len(s) /\ \A i \in 1..Len(s) : v[i] = t[i]
    BY <1>1, <1>2
  <2>2. IsPrefix(s, t) <=> u = v
    BY <1>2 DEF IsPrefix
  <2> HIDE DEF u, v
  <2>3. u = v <=> \A i \in 1..Len(s) : u[i] = v[i]
    <3>1. u = [i \in 1..Len(s) |-> u[i]] /\ v = [i \in 1..Len(s) |-> v[i]]
      BY <2>1
    <3> QED  BY <3>1
  <2> QED  BY <1>2, <2>1, <2>2, <2>3 DEF Begins
<1> QED  BY <1>1, <1>2 DEF IsPrefix, Begins

\* Every byte was written by an edit there has been; a file that is put in place of
\* another is a new one.
Written ==
  /\ \A i \in Inode : \A j \in 1..Len(file[i].bytes) : file[i].bytes[j] <= edits
  /\ seen \in Seq(Nat) /\ \A j \in 1..Len(seen) : seen[j] <= edits
  /\ edits <= MaxEdits
  /\ path \in (0..edits + 1) \cup {StrayInode}
  /\ handle \in (0..edits + 1) \cup {StrayInode}

\* Where the announced bytes begin.
Start == IF ask.range.kind = "absent" THEN 0 ELSE RangeStart(ask.range, meta.len)

Announces ==
  /\ Start \in Nat /\ Start + declared <= Len(seen)
  /\ Announced = SubSeq(seen, Start + 1, Start + declared)

Before == step \in {"resolve", "stat"} =>
            status = 0 /\ body = "none" /\ got = <<>> /\ handle = 0

Offered == step = "open" =>
             /\ body = "none" /\ got = <<>> /\ handle = 0
             /\ Announces /\ pos = Start /\ left = declared

Bodyless == step = "answered" /\ handle = 0 =>
              body = "ended" /\ got = <<>> /\ Announced = <<>>

\* As long as the file is the one that was announced, the reader is where it should
\* be in it.
Reading ==
  /\ \A i \in 1..Len(got) : got[i] = seen[Start + i]
  /\ body = "open" => pos = Start + Len(got) /\ left = declared - Len(got)
  /\ body = "ended" => Len(got) = declared

Streaming == handle # 0 => body # "none" /\ Announces /\ (Untouched => Reading)

Stages == Before /\ Offered /\ Bodyless /\ Streaming

FileInv == Files /\ Counts /\ Progress /\ Written /\ Stages

BytesInv == IF kind = "file" THEN FileInv ELSE TRUE

LEMMA InitBytes == Init => BytesInv
<1> SUFFICES ASSUME Init, kind = "file" PROVE FileInv
  BY DEF BytesInv
<1>0. Files /\ Counts /\ Progress
  BY InitInv DEF Inv
<1>1. FileInit(FileRequests) /\ BodyInit
  BY DEF Init, Of
<1>2. <<>> \in Seq(Nat) /\ Len(<<>>) = 0
  OBVIOUS
<1>3. Written
  <2>1. \A i \in Inode : file[i].bytes = [b \in 1..FileSize |-> 0]
    BY <1>1 DEF FileInit
  <2>2. \A j \in 1..Len([b \in 1..FileSize |-> 0]) : [b \in 1..FileSize |-> 0][j] <= 0
    BY FileAssumption
  <2> QED  BY <1>1, <1>2, <2>1, <2>2, FileAssumption DEF FileInit, Written
<1>4. Stages
  BY <1>1 DEF FileInit, BodyInit, Stages, Before, Offered, Bodyless, Streaming
<1> QED  BY <1>0, <1>3, <1>4 DEF FileInv

\* A response without a body announces none.
LEMMA AnswerBytes ==
  ASSUME FileInv, step \in {"resolve", "stat", "open"}, NEW s, NEW n,
         AnswerEmpty(s, n), s \in {200, 206} => HeadOnly, UNCHANGED ask
  PROVE  Stages'
<1>1. /\ step' = "answered" /\ status' = s /\ body' = "ended" /\ got' = got
      /\ handle' = handle
  BY DEF AnswerEmpty
<1>2. got = <<>> /\ handle = 0
  BY DEF FileInv, Stages, Before, Offered
<1>3. (HeadOnly <=> HeadOnly') /\ Announced' = <<>>
  BY <1>1 DEF Announced, HeadOnly
<1> QED  BY <1>1, <1>2, <1>3 DEF Stages, Before, Offered, Bodyless, Streaming

\* The headers announce a part of the file whose metadata have been read.
LEMMA OfferBytes ==
  ASSUME FileInv, step = "stat", NEW s \in {200, 206}, NEW start \in Nat, NEW length \in Nat,
         Offer(s, start, length), UNCHANGED ask,
         start + length <= Len(seen'), start = Start',
         status' \in {200, 206} /\ ~HeadOnly' /\ declared' = length => Announces'
  PROVE  Stages'
<1>1. CASE HeadOnly
  BY <1>1, AnswerBytes DEF Offer
<1>2. CASE ~HeadOnly
  <2>1. step' = "open" /\ declared' = length /\ pos' = start /\ left' = length /\ status' = s
        /\ got' = got /\ body' = body /\ handle' = handle
    BY <1>2 DEF Offer, bodyVars
  <2>2. got = <<>> /\ handle = 0 /\ body = "none"
    BY DEF FileInv, Stages, Before
  <2>3. Announces'
    BY <1>2, <2>1 DEF HeadOnly
  <2> QED
    BY <2>1, <2>2, <2>3 DEF Stages, Before, Offered, Bodyless, Streaming
<1> QED  BY <1>1, <1>2

\* Steps of the handler leave the file system alone.
LEMMA WrittenStays ==
  ASSUME FileInv, UNCHANGED <<file, path, edits>>, seen' = seen,
         handle' = handle \/ handle' = InodeAt(at)
  PROVE  Written'
<1>1. InodeAt(at) \in {0, path, StrayInode}
  BY DEF InodeAt
<1>2. handle' \in (0..edits + 1) \cup {StrayInode}
  <2>1. /\ edits \in Nat /\ path \in (0..edits + 1) \cup {StrayInode}
        /\ handle \in (0..edits + 1) \cup {StrayInode}
    BY DEF FileInv, Files, Written
  <2> HIDE DEF StrayInode
  <2> QED  BY <1>1, <2>1
<1> QED  BY <1>2 DEF FileInv, Written

\* The method or the path make the status an error, or 0.
LEMMA OutcomeStatus == Outcome(ask, PageIs).status \in {0, 403, 404, 405}
<1>1. \A p : Contained(ask, p, PageIs).status \in {0, 403}
  BY DEF Contained, Refuse, Serve
<1>2. ServeDirectory(ask, PageIs).status \in {0, 403, 404}
  <2>1. Refuse(403).status = 403 /\ Refuse(404).status = 404
    BY DEF Refuse
  <2>2. \/ ServeDirectory(ask, PageIs) \in {Refuse(403), Refuse(404)}
        \/ \E p : ServeDirectory(ask, PageIs) = Contained(ask, p, PageIs)
    <3> DEFINE rel == IF ask.at = <<>> THEN ask.index ELSE ask.at
               joined == Root \o rel
               fallback == Root \o ask.fallback
               instead == IF ask.fallback # <<>> /\ IsFile(fallback, PageIs)
                            THEN Contained(ask, fallback, PageIs) ELSE Refuse(404)
    <3>1. \/ ServeDirectory(ask, PageIs) \in {Refuse(403), Refuse(404)}
          \/ ServeDirectory(ask, PageIs) = Contained(ask, joined, PageIs)
          \/ ServeDirectory(ask, PageIs) = instead
      BY DEF ServeDirectory
    <3>2. instead = Refuse(404) \/ instead = Contained(ask, fallback, PageIs)
      BY Zenon
    <3> HIDE DEF instead
    <3> QED  BY <3>1, <3>2
  <2> QED  BY <1>1, <2>1, <2>2
<1> QED  BY <1>2 DEF Outcome, Refuse, Serve

LEMMA ResolveBytes == ASSUME FileInv, Resolve PROVE Written' /\ Stages'
<1>1. step = "resolve" /\ UNCHANGED <<file, path, edits, ask, meta, seen>>
  BY DEF Resolve
<1> DEFINE o == Outcome(ask, PageIs)
<1>2. o.status \notin {200, 206}
  BY OutcomeStatus
<1>3. CASE AnswerEmpty(o.status, 0)
  <2>1. Stages'
    BY <1>1, <1>2, <1>3, AnswerBytes
  <2>2. handle' = handle
    BY <1>3 DEF AnswerEmpty
  <2> QED  BY <1>1, <2>1, <2>2, WrittenStays
<1>4. CASE step' = "stat" /\ UNCHANGED <<bodyVars, status, handle, pos, left, declared>>
  <2>1. Stages'
    BY <1>1, <1>4 DEF FileInv, Stages, Before, Offered, Bodyless, Streaming, bodyVars
  <2> QED  BY <1>1, <1>4, <2>1, WrittenStays
<1> QED  BY <1>3, <1>4 DEF Resolve

LEMMA StatBytes == ASSUME FileInv, Stat PROVE Written' /\ Stages'
<1> DEFINE now == file[InodeAt(at)]
           m == [len |-> Len(now.bytes), mtime |-> now.mtime]
           r == ask.range
           first == RangeStart(r, m.len)
           count == RangeEnd(r, m.len) - RangeStart(r, m.len) + 1
<1>1. /\ step = "stat" /\ InodeAt(at) # 0 /\ UNCHANGED <<file, path, edits, ask, at>>
      /\ meta' = m /\ seen' = now.bytes
  BY Zenon DEF Stat
<1>2. /\ InodeAt(at) \in Inode /\ now.bytes \in Seq(Nat) /\ m.len \in Nat
      /\ m.len = Len(now.bytes)
  BY <1>1, InodeIsInode DEF FileInv, Files
<1>3. \/ AnswerEmpty(304, 0) \/ AnswerEmpty(416, 0)
      \/ r.kind # "absent" /\ Satisfiable(r, m.len) /\ Offer(206, first, count)
      \/ r.kind = "absent" /\ Offer(200, 0, m.len)
  BY Zenon DEF Stat
<1>4. /\ r.kind \in {"absent", "closed", "open", "suffix"}
      /\ r.kind # "absent" => r.first \in Nat /\ r.last \in Nat
  BY FileAssumption DEF FileInv, Files
<1>5. handle' = handle
  BY <1>3 DEF Offer, AnswerEmpty
<1>6. Written'
  <2>1. seen' \in Seq(Nat) /\ \A j \in 1..Len(seen') : seen'[j] <= edits
    BY <1>1, <1>2 DEF FileInv, Written
  <2> QED  BY <1>1, <1>5, <2>1 DEF FileInv, Written
<1>7. Stages'
  <2>1. CASE AnswerEmpty(304, 0)
    BY <1>1, <2>1, AnswerBytes
  <2>2. CASE AnswerEmpty(416, 0)
    BY <1>1, <2>2, AnswerBytes
  <2>3. CASE r.kind # "absent" /\ Satisfiable(r, m.len) /\ Offer(206, first, count)
    <3>1. /\ RangeStart(r, m.len) \in Nat /\ RangeEnd(r, m.len) \in Nat
          /\ RangeEnd(r, m.len) - RangeStart(r, m.len) + 1 \in Nat
      <4> HIDE DEF m, r
      <4> QED  BY <1>2, <1>4, <2>3, RangeWithin
    <3>2. RangeEnd(r, m.len) < m.len
      BY <2>3 DEF Satisfiable
    <3>3. first \in Nat /\ count \in Nat /\ first + count = RangeEnd(r, m.len) + 1
          /\ first + count <= m.len
      <4> HIDE DEF m, r
      <4> QED  BY <1>2, <3>1, <3>2
    <3>4. Start' = first
      BY <1>1, <2>3 DEF Start
    <3>5. status' \in {200, 206} /\ ~HeadOnly'
            => Announced' = SubSeq(seen', first + 1, RangeEnd(r, m.len) + 1)
      BY <1>1, <2>3 DEF Announced
    <3> HIDE DEF first, count, m, r
    <3>6. first + count <= Len(seen')
      BY <1>1, <1>2, <3>3
    <3>7. status' \in {200, 206} /\ ~HeadOnly' /\ declared' = count => Announces'
      BY <3>3, <3>4, <3>5, <3>6 DEF Announces
    <3>8. Offer(206, first, count) /\ ask' = ask
      BY <1>1, <2>3
    <3> QED  BY <1>1, <3>3, <3>4, <3>6, <3>7, <3>8, OfferBytes
  <2>4. CASE r.kind = "absent" /\ Offer(200, 0, m.len)
    <3>1. Start' = 0
      BY <1>1, <2>4 DEF Start
    <3>2. status' \in {200, 206} /\ ~HeadOnly' => Announced' = seen'
      BY <1>1, <2>4 DEF Announced
    <3>3. Offer(200, 0, m.len) /\ ask' = ask /\ m.len = Len(seen') /\ seen' \in Seq(Nat)
      BY <1>1, <1>2, <2>4
    <3> HIDE DEF m, r
    <3>4. seen' = SubSeq(seen', 0 + 1, 0 + m.len)
      BY <3>3
    <3>5. status' \in {200, 206} /\ ~HeadOnly' /\ declared' = m.len => Announces'
      BY <1>2, <3>1, <3>2, <3>3, <3>4 DEF Announces
    <3>6. 0 + m.len <= Len(seen') /\ m.len \in Nat
      BY <1>2, <3>3
    <3> QED  BY <1>1, <3>1, <3>3, <3>5, <3>6, OfferBytes
  <2> QED  BY <1>3, <2>1, <2>2, <2>3, <2>4
<1> QED  BY <1>6, <1>7

LEMMA OpenBytes == ASSUME FileInv, Open PROVE Written' /\ Stages'
<1>1. /\ step = "open" /\ InodeAt(at) # 0 /\ handle' = InodeAt(at) /\ step' = "answered"
      /\ body = "none" /\ body' = "open" /\ got' = got
      /\ UNCHANGED <<file, path, edits, ask, at, meta, status, pos, left, declared, seen>>
  BY DEF Open, Created
<1>2. got = <<>> /\ handle = 0 /\ Announces /\ pos = Start /\ left = declared
  BY <1>1 DEF FileInv, Stages, Offered
<1>3. Start' = Start /\ (Announces <=> Announces')
  BY <1>1 DEF Start, Announces, Announced, HeadOnly
<1>4. Reading'
  BY <1>1, <1>2, <1>3 DEF Reading, Announces, FileInv, Counts
<1> QED
  BY <1>1, <1>2, <1>3, <1>4, WrittenStays DEF Stages, Before, Offered, Bodyless, Streaming

LEMMA MissingBytes == ASSUME FileInv, Missing PROVE Written' /\ Stages'
<1>1. /\ AnswerEmpty(500, 0) /\ step \in {"stat", "open"}
      /\ UNCHANGED <<file, path, edits, ask, at, meta, seen>>
  BY DEF Missing
<1>2. handle' = handle
  BY <1>1 DEF AnswerEmpty
<1> QED  BY <1>1, <1>2, AnswerBytes, WrittenStays

\* What the reader knows while it polls.
LEMMA Polling ==
  ASSUME FileInv, FilePoll
  PROVE  /\ body = "open" /\ handle # 0 /\ handle \in Inode /\ Announces
         /\ Untouched => Reading /\ Begins(seen, file[handle].bytes)
         /\ file[handle].bytes \in Seq(Nat)
<1>1. body = "open" /\ handle # 0 /\ handle \in Inode /\ Announces /\ (Untouched => Reading)
  BY DEF FilePoll, FileInv, Stages, Streaming, Files
<1>2. file[handle].bytes \in Seq(Nat) /\ seen \in Seq(Nat)
  BY <1>1 DEF FileInv, Files, Written
<1> QED  BY <1>1, <1>2, PrefixBegins DEF Untouched

LEMMA ConcatIs ==
  ASSUME NEW s \in Seq(Nat), NEW t \in Seq(Nat)
  PROVE  /\ Len(s \o t) = Len(s) + Len(t)
         /\ \A i \in 1..Len(s) : (s \o t)[i] = s[i]
         /\ \A i \in 1..Len(t) : (s \o t)[Len(s) + i] = t[i]
OBVIOUS

LEMMA ReadBytes == ASSUME FileInv, ReadChunk PROVE Written' /\ Stages'
<1> DEFINE bytes == file[handle].bytes
<1>0. /\ UNCHANGED <<file, path, edits, ask, step, at, meta, status, handle, declared, seen>>
      /\ FilePoll /\ step = "answered"
  BY DEF ReadChunk, FilePoll
<1>1. PICK n \in 1..Min({Want, Available}) :
        /\ got' = got \o SubSeq(bytes, pos + 1, pos + n) /\ body' = body
        /\ pos' = pos + n /\ left' = left - n
  BY Zenon DEF ReadChunk, Yield
<1>2. n \in Nat /\ n <= left /\ pos + n <= Len(bytes)
  <2>1. left \in Int /\ Chunk \in Int /\ bytes \in Seq(Nat) /\ pos \in Nat /\ Available \in Int
    BY <1>0, Polling, FileAssumption DEF FileInv, Counts, Available
  <2>2. Want \in Int /\ Want <= left
    BY <2>1, MinOfTwo, Zenon DEF Want
  <2>3. Min({Want, Available}) \in Int /\ Min({Want, Available}) <= Want
        /\ Min({Want, Available}) <= Available
    BY <2>1, <2>2, MinOfTwo
  <2> QED  BY <2>1, <2>2, <2>3 DEF Available
<1>3. Start' = Start /\ (Announces <=> Announces') /\ (Untouched <=> Untouched')
  BY <1>0 DEF Start, Announces, Announced, HeadOnly, Untouched
<1>4. ASSUME Untouched PROVE Reading'
  <2>1. Reading /\ Begins(seen, bytes) /\ Start \in Nat /\ Start + declared <= Len(seen)
        /\ body = "open" /\ bytes \in Seq(Nat) /\ seen \in Seq(Nat)
    BY <1>0, <1>4, Polling DEF Announces, FileInv, Written
  <2>2. /\ got \in Seq(Nat) /\ Len(got) \in Nat /\ declared \in Nat /\ left \in Nat
        /\ pos \in Nat /\ pos = Start + Len(got) /\ left = declared - Len(got)
        /\ \A i \in 1..Len(got) : got[i] = seen[Start + i]
    BY <2>1 DEF FileInv, Counts, Reading
  <2> DEFINE chunk == SubSeq(bytes, pos + 1, pos + n)
  <2>3. chunk \in Seq(Nat) /\ Len(chunk) = n /\ \A i \in 1..n : chunk[i] = bytes[pos + i]
    <3> HIDE DEF bytes
    <3>1. bytes \in Seq(Nat) /\ pos \in Nat /\ n \in Nat /\ pos + n <= Len(bytes)
      BY <1>2, <2>1, <2>2
    <3> QED  BY <3>1, SubSeqIs
  <2>4. \A i \in 1..n : chunk[i] = seen[pos + i]
    <3> TAKE i \in 1..n
    <3>1. pos + i \in 1..Len(seen)
      <4>1. i \in Nat /\ 1 <= i /\ i <= n /\ Len(seen) \in Nat
        BY <1>2, <2>1
      <4>2. pos + i <= Start + declared
        BY <1>2, <2>1, <2>2, <4>1
      <4> QED  BY <2>1, <2>2, <4>1, <4>2
    <3> QED  BY <2>1, <2>3, <3>1 DEF Begins
  <2> HIDE DEF chunk
  <2>5. /\ Len(got') = Len(got) + n
        /\ \A i \in 1..Len(got) : got'[i] = got[i]
        /\ \A i \in 1..n : got'[Len(got) + i] = chunk[i]
    <3>1. got' = got \o chunk
      BY <1>1 DEF chunk
    <3>2. /\ got \in Seq(Nat) /\ Len(got) \in Nat
          /\ chunk \in Seq(Nat) /\ Len(chunk) = n /\ n \in Nat
      BY <1>2, <2>2, <2>3
    <3> QED  BY <3>1, <3>2, ConcatIs
  <2>6. \A i \in 1..Len(got') : got'[i] = seen[Start + i]
    <3> TAKE i \in 1..Len(got')
    <3>1. CASE i <= Len(got)
      BY <2>2, <2>5, <3>1
    <3>2. CASE i > Len(got)
      <4> DEFINE j == i - Len(got)
      <4>1. j \in 1..n /\ i = Len(got) + j
        BY <1>2, <2>2, <2>5, <3>2
      <4>2. pos + j = Start + i
        BY <2>1, <2>2, <3>2
      <4>3. got'[i] = chunk[j] /\ chunk[j] = seen[pos + j]
        BY <2>4, <2>5, <4>1
      <4> QED  BY <4>2, <4>3
    <3> QED  BY <2>2, <2>5, <3>1, <3>2
  <2>7. pos' = Start + Len(got') /\ left' = declared - Len(got')
    <3>1. pos' = pos + n /\ left' = left - n /\ Len(got') = Len(got) + n
      BY <1>1, <2>5
    <3> QED  BY <1>2, <2>1, <2>2, <3>1
  <2>8. body' = "open" /\ seen' = seen /\ declared' = declared
    BY <1>0, <1>1, <2>1
  <2> QED  BY <1>3, <2>6, <2>7, <2>8 DEF Reading
<1>5. Stages'
  <2>1. body' = "open" /\ handle' # 0 /\ Announces'
    BY <1>0, <1>1, <1>3, Polling
  <2> QED
    BY <1>0, <1>3, <1>4, <2>1 DEF Stages, Before, Offered, Bodyless, Streaming
<1> QED  BY <1>0, <1>5, WrittenStays

\* The end of the body: as many bytes as were announced, or the file is shorter now.
LEMMA EndBytes ==
  ASSUME FileInv, ReadEnd \/ ReadError \/ FileLosesClient
  PROVE  Written' /\ Stages'
<1>0. /\ UNCHANGED <<file, path, edits, ask, step, at, meta, status, handle, declared, seen>>
      /\ FilePoll /\ step = "answered" /\ got' = got /\ pos' = pos
      /\ \/ body' = "ended" /\ (left = 0 \/ Available <= 0)
         \/ body' \in {"failed", "dropped"}
  BY DEF ReadEnd, ReadError, FileLosesClient, End, Fail, Disconnect, FilePoll, fileVars
<1>1. Start' = Start /\ (Announces <=> Announces') /\ (Untouched <=> Untouched')
  BY <1>0 DEF Start, Announces, Announced, HeadOnly, Untouched
<1>2. ASSUME Untouched, body' = "ended" PROVE Len(got) = declared
  <2>1. Reading /\ Begins(seen, file[handle].bytes) /\ Start + declared <= Len(seen)
        /\ body = "open" /\ file[handle].bytes \in Seq(Nat) /\ seen \in Seq(Nat)
        /\ Start \in Nat
    BY <1>0, <1>2, Polling DEF Announces, FileInv, Written
  <2>2. /\ Len(got) \in Nat /\ declared \in Nat /\ left \in Nat /\ pos \in Nat
        /\ pos = Start + Len(got) /\ left = declared - Len(got)
    BY <2>1 DEF FileInv, Counts, Reading
  <2>3. Len(seen) <= Len(file[handle].bytes)
    BY <2>1 DEF Begins
  <2>4. CASE left = 0
    BY <2>2, <2>4
  <2>5. CASE Available <= 0
    BY <2>1, <2>2, <2>3, <2>5 DEF Available
  <2> QED  BY <1>0, <1>2, <2>4, <2>5
<1>3. Untouched => Reading'
  <2>1. Untouched => Reading
    BY <1>0, Polling
  <2> QED  BY <1>0, <1>1, <1>2, <2>1 DEF Reading
<1>4. Stages'
  <2>1. body' \in {"ended", "failed", "dropped"} /\ handle' # 0 /\ Announces'
    BY <1>0, <1>1, Polling
  <2> QED
    BY <1>0, <1>1, <1>3, <2>1 DEF Stages, Before, Offered, Bodyless, Streaming
<1> QED  BY <1>0, <1>4, WrittenStays

\* An edit cannot turn another file into the one that was announced.
LEMMA EditBytes ==
  ASSUME FileInv, NEW i \in Inode, NEW bytes \in Seq(Nat), Edit(i, bytes),
         path' \in (0..edits + 2) \cup {StrayInode},
         i = handle /\ Begins(seen, bytes) => Begins(seen, file[i].bytes),
         \A j \in 1..Len(bytes) : bytes[j] <= edits + 1
  PROVE  Written' /\ Stages'
<1>0. /\ edits < MaxEdits /\ edits' = edits + 1 /\ edits \in Nat /\ MaxEdits \in Nat
      /\ file' = [file EXCEPT ![i] = [bytes |-> bytes, mtime |-> edits + 1]]
      /\ UNCHANGED <<body, got, ask, step, at, meta, status, handle, pos, left, declared, seen>>
  BY FileAssumption DEF Edit, bodyVars, FileInv, Files
<1>1. /\ file'[i].bytes = bytes
      /\ \A j \in Inode : j # i => file'[j] = file[j]
  BY <1>0 DEF FileInv, Files
<1>2. Written'
  <2>1. \A j \in Inode : \A k \in 1..Len(file'[j].bytes) : file'[j].bytes[k] <= edits + 1
    <3> TAKE j \in Inode
    <3>1. CASE j = i
      BY <1>1, <3>1
    <3>2. CASE j # i
      <4>1. file'[j].bytes = file[j].bytes /\ file[j].bytes \in Seq(Nat)
        BY <1>1, <3>2 DEF FileInv, Files
      <4>2. \A k \in 1..Len(file[j].bytes) : file[j].bytes[k] <= edits
        BY DEF FileInv, Written
      <4>3. \A k \in 1..Len(file[j].bytes) : file[j].bytes[k] \in Nat
        BY <4>1, BytesAre
      <4> QED  BY <1>0, <4>1, <4>2, <4>3
    <3> QED  BY <3>1, <3>2
  <2>2. \A j \in 1..Len(seen) : seen[j] <= edits + 1
    <3>1. \A j \in 1..Len(seen) : seen[j] <= edits /\ seen[j] \in Nat
      BY BytesAre DEF FileInv, Written
    <3> QED  BY <1>0, <3>1
  <2>3. handle \in (0..edits + 2) \cup {StrayInode} /\ edits + 1 <= MaxEdits
        /\ seen \in Seq(Nat)
    BY <1>0 DEF FileInv, Written
  <2> QED  BY <1>0, <2>1, <2>2, <2>3 DEF Written
<1>3. handle # 0 => (Untouched' => Untouched)
  <2> SUFFICES ASSUME handle # 0, Untouched' PROVE Untouched
    OBVIOUS
  <2>1. handle \in Inode /\ file[handle].bytes \in Seq(Nat) /\ seen \in Seq(Nat)
    BY DEF FileInv, Files, Written
  <2>2. IsPrefix(seen, file'[handle].bytes)
    BY <1>0 DEF Untouched
  <2>3. file'[handle].bytes \in Seq(Nat)
    BY <1>1, <2>1
  <2>4. Begins(seen, file[handle].bytes)
    BY <1>1, <2>1, <2>2, <2>3, PrefixBegins
  <2> QED  BY <2>1, <2>4, PrefixBegins DEF Untouched
<1>4. Start' = Start /\ (Announces <=> Announces') /\ (Reading <=> Reading')
      /\ Announced' = Announced
  BY <1>0 DEF Start, Announces, Announced, HeadOnly, Reading
<1>5. Stages'
  BY <1>0, <1>3, <1>4 DEF FileInv, Stages, Before, Offered, Bodyless, Streaming
<1> QED  BY <1>2, <1>5

LEMMA SystemBytes ==
  ASSUME FileInv, AppendToFile \/ Truncate \/ ReplaceFile \/ RemoveFile \/ LinkFile
  PROVE  Written' /\ Stages'
<1>0. /\ edits \in Nat /\ MaxEdits \in Nat /\ FileSize \in Nat
      /\ \A i \in Inode : file[i].bytes \in Seq(Nat)
      /\ seen \in Seq(Nat)
      /\ \A i \in Inode : \A j \in 1..Len(file[i].bytes) : file[i].bytes[j] <= edits
      /\ \A j \in 1..Len(seen) : seen[j] <= edits
      /\ path \in (0..edits + 1) \cup {StrayInode}
  BY FileAssumption DEF FileInv, Files, Written
<1>1. CASE AppendToFile
  <2> DEFINE old == file[path].bytes
             new == Append(old, edits + 1)
  <2>1. path \in Inode /\ path # 0 /\ Edit(path, new) /\ path' = path
    BY <1>1 DEF AppendToFile, PageIs, FileInv, Files
  <2>2. /\ old \in Seq(Nat) /\ new \in Seq(Nat) /\ Len(new) = Len(old) + 1
        /\ Len(old) \in Nat /\ new[Len(old) + 1] = edits + 1
        /\ \A j \in 1..Len(old) : new[j] = old[j] /\ old[j] <= edits /\ old[j] \in Nat
    <3>1. old \in Seq(Nat) /\ \A j \in 1..Len(old) : old[j] <= edits
      BY <1>0, <2>1
    <3>2. edits + 1 \in Nat
      BY <1>0
    <3> HIDE DEF old
    <3>3. Len(old) \in Nat /\ \A j \in 1..Len(old) : old[j] \in Nat
      BY <3>1, BytesAre
    <3>4. /\ new \in Seq(Nat) /\ Len(new) = Len(old) + 1 /\ new[Len(old) + 1] = edits + 1
          /\ \A j \in 1..Len(old) : new[j] = old[j]
      BY <3>1, <3>2, AppendIs
    <3> HIDE DEF new
    <3> QED  BY <3>1, <3>3, <3>4
  <2>3. Begins(seen, new) => Begins(seen, old)
    <3> SUFFICES ASSUME Begins(seen, new) PROVE Begins(seen, old)
      OBVIOUS
    <3> HIDE DEF old, new
    <3>1. Len(seen) \in Nat /\ Len(seen) <= Len(old) + 1
      BY <1>0, <2>2 DEF Begins
    <3>2. Len(seen) # Len(old) + 1
      <4> SUFFICES ASSUME Len(seen) = Len(old) + 1 PROVE FALSE
        OBVIOUS
      <4>1. Len(old) + 1 \in 1..Len(seen)
        BY <2>2
      <4>2. seen[Len(old) + 1] = edits + 1 /\ seen[Len(old) + 1] <= edits
        BY <1>0, <2>2, <4>1 DEF Begins
      <4> QED  BY <1>0, <4>2
    <3> QED  BY <2>2, <3>1, <3>2 DEF Begins
  <2>4. \A j \in 1..Len(new) : new[j] <= edits + 1
    <3> HIDE DEF old, new
    <3> TAKE j \in 1..Len(new)
    <3>1. j \in 1..Len(old) \/ j = Len(old) + 1
      BY <2>2
    <3>2. edits \in Nat
      BY <1>0
    <3>3. CASE j \in 1..Len(old)
      <4>1. new[j] = old[j] /\ old[j] <= edits /\ old[j] \in Nat
        BY <2>2, <3>3
      <4> QED  BY <3>2, <4>1
    <3> QED  BY <2>2, <3>1, <3>2, <3>3
  <2>5. path' \in (0..edits + 2) \cup {StrayInode}
    BY <1>0, <2>1
  <2> QED
    <3> HIDE DEF new
    <3> QED  BY <2>1, <2>2, <2>3, <2>4, <2>5, EditBytes
<1>2. CASE Truncate
  <2> DEFINE old == file[path].bytes
  <2>1. path \in Inode /\ path # 0 /\ path' = path
    BY <1>2 DEF Truncate, PageIs, FileInv, Files
  <2>2. PICK n \in 0..Len(old) - 1 : Edit(path, SubSeq(old, 1, n))
    BY <1>2 DEF Truncate
  <2> DEFINE new == SubSeq(old, 1, n)
  <2>3. /\ old \in Seq(Nat) /\ new \in Seq(Nat) /\ Len(new) = n /\ n <= Len(old) /\ n \in Nat
        /\ \A j \in 1..n : new[j] = old[j] /\ old[j] <= edits /\ old[j] \in Nat
    <3>1. old \in Seq(Nat) /\ \A j \in 1..Len(old) : old[j] <= edits
      BY <1>0, <2>1
    <3>2. n \in Nat /\ n <= Len(old) /\ Len(old) \in Nat
      BY <2>2, <3>1
    <3> HIDE DEF old
    <3>3. new \in Seq(Nat) /\ Len(new) = n
      BY <3>1, <3>2
    <3>4. \A j \in 1..n : new[j] = old[j] /\ j \in 1..Len(old)
      BY <3>1, <3>2
    <3> QED  BY <3>1, <3>2, <3>3, <3>4
  <2>4. Begins(seen, new) => Begins(seen, old)
    <3>1. seen \in Seq(Nat)
      BY <1>0
    <3>2. Len(seen) \in Nat
      BY <3>1
    <3> HIDE DEF old, new
    <3> QED  BY <2>3, <3>2 DEF Begins
  <2>5. \A j \in 1..Len(new) : new[j] <= edits + 1
    <3> HIDE DEF old, new
    <3>1. edits \in Nat
      BY <1>0
    <3> QED  BY <2>3, <3>1
  <2>6. path' \in (0..edits + 2) \cup {StrayInode} /\ Edit(path, new)
    <3>1. edits \in Nat /\ path \in (0..edits + 1) \cup {StrayInode}
      BY <1>0
    <3>2. path' \in (0..edits + 2) \cup {StrayInode}
      BY <2>1, <3>1
    <3> QED  BY <2>2, <3>2
  <2> QED
    <3> HIDE DEF new
    <3> QED  BY <2>1, <2>3, <2>4, <2>5, <2>6, EditBytes
<1>3. CASE ReplaceFile
  <2> DEFINE new == [b \in 1..FileSize |-> edits + 1]
  <2>1. Edit(edits + 2, new) /\ path' = edits + 2 /\ edits < MaxEdits
    BY <1>3 DEF ReplaceFile, Edit
  <2>2. edits + 2 \in Inode /\ edits + 2 # handle /\ path' \in 0..edits + 2
    BY <1>0, <2>1 DEF Inode, StrayInode, FileInv, Written
  <2>3. new \in Seq(Nat) /\ \A j \in 1..Len(new) : new[j] <= edits + 1
    BY <1>0
  <2> QED
    <3> HIDE DEF new
    <3> QED  BY <2>1, <2>2, <2>3, EditBytes
<1>4. CASE RemoveFile \/ LinkFile
  <2>1. /\ path' \in {0, StrayInode}
        /\ UNCHANGED <<body, got, file, edits, ask, step, at, meta, status, handle, pos, left,
                       declared, seen>>
    BY <1>4 DEF RemoveFile, LinkFile, PathLeadsTo, bodyVars
  <2>2. Written'
    BY <1>0, <2>1 DEF FileInv, Written
  <2>3. Stages'
    BY <2>1 DEF FileInv, Stages, Before, Offered, Bodyless, Streaming, Announces, Announced,
                HeadOnly, Start, Untouched, Reading
  <2> QED  BY <2>2, <2>3
<1> QED  BY <1>1, <1>2, <1>3, <1>4

LEMMA NextBytes == BytesInv /\ [Next]_vars => BytesInv'
<1> SUFFICES ASSUME BytesInv, [Next]_vars, kind' = "file" PROVE FileInv'
  BY DEF BytesInv
<1>1. CASE File
  <2>1. FileInv /\ FileNext
    BY <1>1 DEF File, OfFile, BytesInv
  <2>2. Files' /\ Counts' /\ Progress'
    BY <2>1, FileStep DEF FileInv
  <2>3. Written' /\ Stages'
    BY <2>1, ResolveBytes, StatBytes, OpenBytes, MissingBytes, ReadBytes, EndBytes,
       SystemBytes DEF FileNext
  <2> QED  BY <2>2, <2>3 DEF FileInv
<1>2. CASE Events \/ Form \/ Coding
  BY <1>2 DEF Events, Form, Coding, OfEvents, OfForm, OfCoded
<1>3. CASE UNCHANGED vars
  <2>1. kind = "file" /\ UNCHANGED <<bodyVars, fileVars>>
    BY <1>3 DEF vars
  <2>2. UNCHANGED <<body, got, file, path, edits, ask, step, at, meta, status, handle, pos,
                    left, declared, seen>>
    BY <2>1 DEF bodyVars, fileVars
  <2>3. Files' /\ Counts' /\ Progress' /\ Written'
    BY <2>1, <2>2 DEF BytesInv, FileInv, Files, Counts, Progress, Written
  <2>4. Stages'
    BY <2>1, <2>2 DEF BytesInv, FileInv, Stages, Before, Offered, Bodyless, Streaming,
                      Announces, Announced, HeadOnly, Start, Untouched, Reading
  <2> QED  BY <2>3, <2>4 DEF FileInv
<1> QED  BY <1>1, <1>2, <1>3 DEF Next

\* A client reads the bytes the headers announced, from the first on, and all of them
\* by the end of the body, unless the file that was opened is not the one whose
\* metadata were read or has been cut since.
THEOREM FileDelivered == Spec => [](kind = "file" /\ Untouched => Delivers(Announced))
<1>1. BytesInv => (kind = "file" /\ Untouched => Delivers(Announced))
  <2> SUFFICES ASSUME FileInv, Untouched PROVE Delivers(Announced)
    BY DEF BytesInv
  <2>1. got \in Seq(Nat) /\ Len(got) \in Nat /\ declared \in Nat /\ seen \in Seq(Nat)
        /\ Len(got) <= declared
    BY DEF FileInv, Counts, Progress, Written
  <2>2. CASE handle # 0
    <3>1. Announces /\ Reading
      BY <2>2 DEF FileInv, Stages, Streaming
    <3> DEFINE part == SubSeq(seen, Start + 1, Start + declared)
    <3>2. Announced = part /\ Start \in Nat /\ Start + declared <= Len(seen)
      BY <3>1 DEF Announces
    <3>3. /\ part \in Seq(Nat) /\ Len(part) = declared
          /\ \A i \in 1..declared : part[i] = seen[Start + i]
      BY <2>1, <3>2, SubSeqIs
    <3> HIDE DEF part
    <3>4. \A i \in 1..Len(got) : got[i] = part[i]
      <4>1. \A i \in 1..Len(got) : i \in 1..declared
        BY <2>1
      <4>2. \A i \in 1..Len(got) : got[i] = seen[Start + i]
        BY <3>1 DEF Reading
      <4> QED  BY <3>3, <4>1, <4>2
    <3>5. IsPrefix(got, part)
      BY <2>1, <3>3, <3>4, PrefixBegins DEF Begins
    <3>6. Len(got) = declared => got = part
      <4>1. got = [i \in 1..Len(got) |-> got[i]] /\ part = [i \in 1..declared |-> part[i]]
        BY <2>1, <3>3
      <4> QED  BY <3>4, <4>1
    <3> QED  BY <3>1, <3>2, <3>5, <3>6 DEF Delivers, Reading
  <2>3. CASE handle = 0 /\ step = "answered"
    BY <2>3 DEF FileInv, Stages, Bodyless, Delivers, IsPrefix
  <2>4. CASE step = "open"
    <3>1. got = <<>> /\ body = "none" /\ Announced = SubSeq(seen, Start + 1, Start + declared)
          /\ Start \in Nat /\ Start + declared <= Len(seen)
      BY <2>4 DEF FileInv, Stages, Offered, Announces
    <3>2. Announced \in Seq(Nat)
      BY <2>1, <3>1
    <3>3. Begins(<<>>, Announced) /\ <<>> \in Seq(Nat)
      BY <3>2 DEF Begins
    <3> QED  BY <3>1, <3>2, <3>3, PrefixBegins DEF Delivers
  <2>5. CASE step \in {"resolve", "stat"}
    <3>1. got = <<>> /\ body = "none" /\ Announced = <<>>
      BY <2>5 DEF FileInv, Stages, Before, Announced
    <3> QED  BY <3>1 DEF Delivers, IsPrefix
  <2> QED  BY <2>2, <2>3, <2>4, <2>5 DEF FileInv, Progress
<1> QED  BY InitBytes, NextBytes, <1>1, PTL DEF Spec

-----------------------------------------------------------------------------
(* Conditional requests                                                     *)

\* What a client may send: the date of an instant, or one that nobody can read.
Told(ims) ==
  ims.kind # "absent" =>
    IF ims.readable THEN Instant(ims.instant) /\ ims.date \in Dates(ims.instant)
                    ELSE ims.date.style \notin Styles

\* The date a client sends is what decides.
LEMMA DateDecides ==
  ASSUME NEW ims, Told(ims), ims.kind # "absent", NEW mtime
  PROVE  ~IsModifiedSince(mtime, ims.date) <=> ims.readable /\ ~Earlier(ims.instant, mtime)
<1>1. CASE ims.readable
  <2>1. ParseHttpDate(ims.date) = {ims.instant}
    BY <1>1, DatesAreKept DEF Told
  <2> QED  BY <1>1, <2>1 DEF IsModifiedSince
<1>2. CASE ~ims.readable
  <2>1. ParseHttpDate(ims.date) = {}
    BY <1>2 DEF Told, Styles, ParseHttpDate
  <2> QED  BY <1>2, <2>1 DEF IsModifiedSince
<1> QED  BY <1>1, <1>2

Decided == (kind = "file" /\ step \notin {"resolve", "stat"}) => ConditionsKept

LEMMA DecidedStep ==
  ASSUME \A r \in FileRequests : Told(r.ims), BytesInv, Decided, [Next]_vars
  PROVE  Decided'
<1> SUFFICES ASSUME kind' = "file", step' \notin {"resolve", "stat"} PROVE ConditionsKept'
  BY DEF Decided
<1>0. kind = "file" /\ (FileNext \/ UNCHANGED fileVars)
  BY DEF Next, Events, File, Form, Coding, OfEvents, OfFile, OfForm, OfCoded, vars
<1>1. FileInv /\ ask \in FileRequests
  BY <1>0 DEF BytesInv, FileInv, Files
<1>2. CASE Resolve
  <2>1. status' \notin {200, 304}
    BY <1>2, OutcomeStatus DEF Resolve, AnswerEmpty
  <2> QED  BY <2>1 DEF ConditionsKept
<1>3. ASSUME Stat
      PROVE  ConditionsKept'
  <2> DEFINE now == file[InodeAt(at)]
             m == [len |-> Len(now.bytes), mtime |-> now.mtime]
  <2>1. /\ ask' = ask /\ meta' = m
        /\ \/ NotModified(m) /\ status' = 304
           \/ ~NotModified(m) /\ status' \in {200, 206, 416}
    BY <1>3, Zenon DEF Stat, AnswerEmpty, Offer
  <2>2. ask.inm.kind = "absent" =>
          (NotModified(m) <=> /\ ask.ims.kind # "absent"
                              /\ ~IsModifiedSince(Seconds(m.mtime), ask.ims.date))
    BY DEF NotModified
  <2>3. ask.ims.kind # "absent" =>
          (~IsModifiedSince(Seconds(m.mtime), ask.ims.date)
             <=> ask.ims.readable /\ ~Earlier(ask.ims.instant, Seconds(m.mtime)))
    BY <1>1, DateDecides
  <2>4. meta'.mtime = m.mtime /\ Seconds(meta.mtime)' = Seconds(m.mtime)
    BY <2>1 DEF Seconds
  <2> HIDE DEF m
  <2> QED  BY <2>1, <2>2, <2>3, <2>4 DEF ConditionsKept
<1>4. CASE Missing
  BY <1>4 DEF Missing, AnswerEmpty, ConditionsKept
<1>5. CASE ~(Resolve \/ Stat \/ Missing)
  <2>1. UNCHANGED <<ask, meta, status>> /\ (step' = step \/ step = "open")
    BY <1>0, <1>5 DEF FileNext, Open, ReadChunk, ReadEnd, ReadError, AppendToFile, Truncate,
         ReplaceFile, RemoveFile, LinkFile, PathLeadsTo, FileLosesClient, Edit, fileVars
  <2>2. ConditionsKept
    BY <1>0, <2>1 DEF Decided
  <2> QED  BY <2>1, <2>2 DEF ConditionsKept, Seconds
<1> QED  BY <1>2, <1>3, <1>4, <1>5

\* A client that sends back the date of an instant, however it writes it, is answered
\* 304 exactly when the file was last written in that second or before; a date nobody
\* can read counts as none.
THEOREM ConditionsHold ==
  ASSUME \A r \in FileRequests : Told(r.ims)
  PROVE  Spec => [](kind = "file" => ConditionsKept)
<1>1. Init => Decided
  BY DEF Init, FileInit, Decided
<1>2. BytesInv /\ Decided /\ [Next]_vars => Decided'
  BY DecidedStep
<1>3. BytesInv /\ Decided => (kind = "file" => ConditionsKept)
  <2>1. BytesInv /\ kind = "file" /\ step \in {"resolve", "stat"} => status = 0
    BY DEF BytesInv, FileInv, Stages, Before
  <2> QED  BY <2>1 DEF Decided, ConditionsKept
<1> QED  BY InitBytes, NextBytes, <1>1, <1>2, <1>3, PTL DEF Spec

-----------------------------------------------------------------------------
(* Events                                                                   *)

\* The numbers after x, up to y, in order, with beats between them.
InOrder(s, x, y) ==
  /\ s \in Seq(Nat) /\ x \in Nat /\ y \in Nat /\ x <= y
  /\ \A j \in 1..Len(s) : s[j] # Beat => x < s[j] /\ s[j] <= y
  /\ \A j, k \in 1..Len(s) : (j < k /\ s[j] # Beat /\ s[k] # Beat) => s[j] < s[k]
  /\ \A v \in (x + 1)..y : \E j \in 1..Len(s) : s[j] = v

LEMMA OrderNone == ASSUME NEW x \in Nat, NEW y \in Nat PROVE InOrder(<<>>, x, y) <=> x = y
<1>1. <<>> \in Seq(Nat) /\ Len(<<>>) = 0
  OBVIOUS
<1>2. InOrder(<<>>, x, y) => x = y
  <2> SUFFICES ASSUME InOrder(<<>>, x, y), x # y PROVE FALSE
    OBVIOUS
  <2>1. x + 1 \in (x + 1)..y
    BY DEF InOrder
  <2>. QED  BY <1>1, <2>1 DEF InOrder
<1>3. x = y => InOrder(<<>>, x, y)
  BY <1>1 DEF InOrder
<1>. QED  BY <1>2, <1>3

LEMMA OrderAppend ==
  ASSUME NEW s, NEW x, NEW y, InOrder(s, x, y), NEW v \in {Beat, y + 1}
  PROVE  InOrder(Append(s, v), x, IF v = Beat THEN y ELSE y + 1)
<1> DEFINE t == Append(s, v)
           z == IF v = Beat THEN y ELSE y + 1
<1>0. s \in Seq(Nat) /\ x \in Nat /\ y \in Nat /\ x <= y /\ Len(s) \in Nat
  BY DEF InOrder
<1>1. /\ v \in Nat /\ t \in Seq(Nat) /\ Len(t) = Len(s) + 1 /\ t[Len(s) + 1] = v
      /\ \A j \in 1..Len(s) : t[j] = s[j]
  BY <1>0 DEF Beat
<1>2. z \in Nat /\ x <= z /\ y <= z /\ (v # Beat => z = y + 1 /\ v = z)
  BY <1>0 DEF Beat
<1> HIDE DEF t, z
<1>3. \A j \in 1..Len(t) : j \in 1..Len(s) \/ j = Len(s) + 1
  BY <1>0, <1>1
<1>4. \A j \in 1..Len(t) : t[j] # Beat => x < t[j] /\ t[j] <= z
  BY <1>0, <1>1, <1>2, <1>3 DEF InOrder
<1>5. \A j, k \in 1..Len(t) : (j < k /\ t[j] # Beat /\ t[k] # Beat) => t[j] < t[k]
  <2> TAKE j, k \in 1..Len(t)
  <2> HAVE j < k /\ t[j] # Beat /\ t[k] # Beat
  <2>1. j \in 1..Len(s)
    BY <1>0, <1>1
  <2>2. t[j] <= y /\ t[j] = s[j] /\ t[j] \in Nat
    <3>1. t[j] = s[j] /\ s[j] \in Nat /\ s[j] # Beat
      BY <1>0, <1>1, <2>1
    <3>2. s[j] <= y
      BY <2>1, <3>1 DEF InOrder
    <3> QED  BY <3>1, <3>2
  <2>3. CASE k \in 1..Len(s)
    BY <1>1, <2>1, <2>3 DEF InOrder
  <2>4. CASE k = Len(s) + 1
    BY <1>0, <1>1, <1>2, <2>2, <2>4
  <2>. QED  BY <1>3, <2>3, <2>4
<1>6. \A w \in (x + 1)..z : \E j \in 1..Len(t) : t[j] = w
  <2> TAKE w \in (x + 1)..z
  <2>1. CASE w <= y
    <3>1. w \in (x + 1)..y
      BY <1>0, <1>2, <2>1
    <3>2. PICK j \in 1..Len(s) : s[j] = w
      BY <3>1 DEF InOrder
    <3>. QED  BY <1>0, <1>1, <3>2
  <2>2. CASE w > y
    <3>1. v = w
      BY <1>0, <1>2, <2>2 DEF z
    <3>. QED  BY <1>0, <1>1, <3>1
  <2>. QED  BY <1>0, <1>2, <2>1, <2>2
<1>7. InOrder(t, x, z)
  BY <1>0, <1>1, <1>2, <1>4, <1>5, <1>6 DEF InOrder
<1>. QED  BY <1>7 DEF t, z

\* The first one is a beat or the next number.
LEMMA OrderTail ==
  ASSUME NEW s, NEW x, NEW y, InOrder(s, x, y), s # <<>>
  PROVE  IF Head(s) = Beat THEN InOrder(Tail(s), x, y)
                           ELSE Head(s) = x + 1 /\ InOrder(Tail(s), x + 1, y)
<1> DEFINE t == Tail(s)
           z == IF Head(s) = Beat THEN x ELSE x + 1
<1>0. s \in Seq(Nat) /\ x \in Nat /\ y \in Nat /\ x <= y /\ Len(s) \in Nat /\ Len(s) > 0
  BY DEF InOrder
<1>1. /\ t \in Seq(Nat) /\ Len(t) = Len(s) - 1 /\ Head(s) = s[1]
      /\ \A j \in 1..Len(t) : t[j] = s[j + 1] /\ j + 1 \in 1..Len(s)
  BY <1>0
<1> HIDE DEF t
<1>2. \A j \in 2..Len(s) : j - 1 \in 1..Len(t) /\ t[j - 1] = s[j]
  <2> TAKE j \in 2..Len(s)
  <2>1. j - 1 \in 1..Len(t) /\ j - 1 + 1 = j
    BY <1>0, <1>1
  <2>. QED  BY <1>1, <2>1
<1>3. Head(s) # Beat => Head(s) = x + 1
  <2> SUFFICES ASSUME Head(s) # Beat, Head(s) # x + 1 PROVE FALSE
    OBVIOUS
  <2>1. 1 \in 1..Len(s) /\ s[1] \in Nat
    BY <1>0
  <2>2. x < s[1] /\ s[1] <= y
    BY <1>1, <2>1 DEF InOrder
  <2>3. x + 1 \in (x + 1)..y
    BY <1>0, <2>1, <2>2
  <2>4. PICK j \in 1..Len(s) : s[j] = x + 1
    BY <2>3 DEF InOrder
  <2>5. j > 1 /\ s[j] # Beat
    BY <1>0, <1>1, <2>4 DEF Beat
  <2>6. s[1] < s[j]
    BY <1>1, <2>1, <2>5 DEF InOrder
  <2>. QED  BY <1>0, <2>1, <2>2, <2>4, <2>6
<1>4. \A j \in 1..Len(t) : t[j] # Beat => z < t[j] /\ t[j] <= y
  <2> TAKE j \in 1..Len(t)
  <2> HAVE t[j] # Beat
  <2>1. t[j] = s[j + 1] /\ j + 1 \in 1..Len(s) /\ 1 \in 1..Len(s) /\ 1 < j + 1
    BY <1>0, <1>1
  <2>2. x < t[j] /\ t[j] <= y
    BY <2>1 DEF InOrder
  <2>3. s[1] # Beat => s[1] < t[j]
    BY <2>1 DEF InOrder
  <2>. QED  BY <1>1, <1>3, <2>2, <2>3
<1>5. \A j, k \in 1..Len(t) : (j < k /\ t[j] # Beat /\ t[k] # Beat) => t[j] < t[k]
  <2> TAKE j, k \in 1..Len(t)
  <2> HAVE j < k /\ t[j] # Beat /\ t[k] # Beat
  <2>1. j + 1 < k + 1
    BY <1>0, <1>1
  <2>. QED  BY <1>1, <2>1 DEF InOrder
<1>6. \A w \in (z + 1)..y : \E j \in 1..Len(t) : t[j] = w
  <2> TAKE w \in (z + 1)..y
  <2>1. w \in (x + 1)..y /\ w # 0
    BY <1>0
  <2>2. PICK j \in 1..Len(s) : s[j] = w
    BY <2>1 DEF InOrder
  <2>3. j # 1
    BY <1>0, <1>1, <1>3, <2>1, <2>2 DEF Beat
  <2>4. j \in 2..Len(s)
    BY <1>0, <2>3
  <2>. QED  BY <1>2, <2>2, <2>4
<1>7. z \in Nat /\ z <= y
  <2>1. Head(s) # Beat => x < y
    BY <1>0, <1>1 DEF InOrder
  <2>. QED  BY <1>0, <2>1
<1>8. InOrder(t, z, y)
  BY <1>0, <1>1, <1>4, <1>5, <1>6, <1>7 DEF InOrder
<1>. QED  BY <1>3, <1>8 DEF t

\* The events in the channel are the last ones that were accepted.
Waiting(s, n) ==
  /\ s \in Seq(Nat) /\ n \in Nat /\ Len(s) <= n
  /\ \A i \in 1..Len(s) : s[i] = n - Len(s) + i

LEMMA WaitingAppend ==
  ASSUME NEW s, NEW n, Waiting(s, n)
  PROVE  Waiting(Append(s, n + 1), n + 1) /\ Len(Append(s, n + 1)) = Len(s) + 1
<1>1. s \in Seq(Nat) /\ n \in Nat /\ Len(s) \in Nat
  BY DEF Waiting
<1>. QED  BY <1>1 DEF Waiting

LEMMA WaitingTail ==
  ASSUME NEW s, NEW n, Waiting(s, n), s # <<>>
  PROVE  /\ Waiting(Tail(s), n) /\ Len(Tail(s)) = Len(s) - 1
         /\ Head(s) = n - Len(s) + 1
<1>1. s \in Seq(Nat) /\ n \in Nat /\ Len(s) \in Nat /\ Len(s) > 0 /\ Len(s) <= n
  BY DEF Waiting
<1>2. /\ Tail(s) \in Seq(Nat) /\ Len(Tail(s)) = Len(s) - 1 /\ Head(s) = s[1]
      /\ \A i \in 1..Len(Tail(s)) : Tail(s)[i] = s[i + 1] /\ i + 1 \in 1..Len(s)
  BY <1>1
<1>3. \A i \in 1..Len(Tail(s)) : Tail(s)[i] = n - Len(Tail(s)) + i
  BY <1>1, <1>2 DEF Waiting
<1>. QED  BY <1>1, <1>2, <1>3 DEF Waiting

\* What the client has read: the events from the first one on.
Numbered(s) == s \in Seq(Nat) /\ \A i \in 1..Len(s) : s[i] = i

LEMMA NumberedIs ==
  ASSUME NEW s, Numbered(s), NEW n \in Nat, Len(s) <= n
  PROVE  IsPrefix(s, [i \in 1..n |-> i]) /\ (Len(s) = n => s = [i \in 1..n |-> i])
<1> DEFINE t == [i \in 1..n |-> i]
<1>1. s \in Seq(Nat) /\ Len(s) \in Nat /\ \A i \in 1..Len(s) : s[i] = i
  BY DEF Numbered
<1>2. t \in Seq(Nat) /\ Len(t) = n /\ DOMAIN t = 1..n /\ \A i \in 1..n : t[i] = i
  OBVIOUS
<1> HIDE DEF t
<1>3. SubSeq(t, 1, Len(s)) = s
  <2>1. /\ SubSeq(t, 1, Len(s)) \in Seq(Nat) /\ Len(SubSeq(t, 1, Len(s))) = Len(s)
        /\ \A i \in 1..Len(s) : SubSeq(t, 1, Len(s))[i] = i
    BY <1>1, <1>2
  <2> DEFINE u == SubSeq(t, 1, Len(s))
  <2>2. u = [i \in 1..Len(s) |-> i] /\ s = [i \in 1..Len(s) |-> i]
    <3> HIDE DEF u
    <3> QED  BY <1>1, <2>1 DEF u
  <2> QED  BY <2>2
<1>4. Len(s) = n => s = t
  <2>1. n = Len(s) => s = [i \in 1..n |-> i]
    BY <1>1
  <2> QED  BY <2>1 DEF t
<1>5. IsPrefix(s, t)
  BY <1>1, <1>2, <1>3 DEF IsPrefix
<1> QED  BY <1>4, <1>5 DEF t

LEMMA NumberedYield ==
  ASSUME NEW s, Numbered(s)
  PROVE  /\ s \o <<>> = s
         /\ \A v : v = Len(s) + 1 => Numbered(s \o <<v>>) /\ Len(s \o <<v>>) = Len(s) + 1
<1>1. s \in Seq(Nat) /\ Len(s) \in Nat /\ \A i \in 1..Len(s) : s[i] = i
  BY DEF Numbered
<1>2. s \o <<>> = s
  BY <1>1
<1>3. ASSUME NEW v, v = Len(s) + 1
      PROVE  Numbered(s \o <<v>>) /\ Len(s \o <<v>>) = Len(s) + 1
  <2>1. v \in Nat
    BY <1>1, <1>3
  <2>2. /\ s \o <<v>> \in Seq(Nat) /\ Len(s \o <<v>>) = Len(s) + 1
        /\ \A i \in 1..Len(s) + 1 : (s \o <<v>>)[i] = IF i <= Len(s) THEN s[i] ELSE v
    BY <1>1, <2>1
  <2> QED  BY <1>1, <1>3, <2>2 DEF Numbered
<1> QED  BY <1>2, <1>3

\* The event the merge task holds, and the last one it has merged.
InHand == task = "send" /\ hand # Beat
Ahead == accepted - Len(channel) - (IF InHand THEN 1 ELSE 0)

EventTypes ==
  /\ heartbeat \in BOOLEAN /\ sender \in {"held", "dropped"}
  /\ task \in {"none", "select", "send", "ended"}
  /\ body \in {"none", "open", "ended", "dropped"}
  /\ hand \in Nat /\ merged \in Seq(Nat)

Held == InHand => hand = accepted - Len(channel)

\* Without a heartbeat the client reads the channel; with one it reads what the
\* task has merged, and the task ends only when there is nothing left to merge.
Plainly == task = "none" /\ Len(got) = accepted - Len(channel)

Merging ==
  body \in {"none", "open"} =>
    /\ InOrder(merged, Len(got), Ahead)
    /\ body = "open" /\ task = "ended" => sender = "dropped" /\ channel = <<>>

EventInv ==
  /\ EventTypes /\ Numbered(got) /\ Waiting(channel, accepted) /\ Len(got) <= accepted
  /\ body = "none" => task = "none"
  /\ body = "ended" => sender = "dropped" /\ Len(got) = accepted
  /\ IF heartbeat THEN Held /\ Merging ELSE Plainly

EventsInv == IF kind = "events" THEN EventInv ELSE TRUE

LEMMA InitEvents == Init => EventsInv
<1> SUFFICES ASSUME Init, kind = "events" PROVE EventInv
  BY DEF EventsInv
<1>1. /\ body = "none" /\ got = <<>> /\ heartbeat \in BOOLEAN /\ sender = "held"
      /\ channel = <<>> /\ task = "none" /\ hand = Beat /\ merged = <<>> /\ accepted = 0
  BY DEF Init, BodyInit, EventInit
<1>2. <<>> \in Seq(Nat) /\ Len(<<>>) = 0
  OBVIOUS
<1>3. EventTypes
  BY <1>1, <1>2 DEF EventTypes, Beat
<1>4. Numbered(got) /\ Waiting(channel, accepted)
  BY <1>1, <1>2 DEF Numbered, Waiting
<1>5. InOrder(merged, Len(got), Ahead)
  BY <1>1, <1>2, OrderNone DEF Ahead, InHand
<1>6. Len(got) = 0 /\ Len(channel) = 0
  BY <1>1, <1>2
<1>7. Held /\ Merging
  BY <1>1, <1>5 DEF Held, InHand, Merging
<1>8. Plainly
  <2>1. task = "none" /\ accepted = 0
    BY <1>1
  <2> QED  BY <1>6, <2>1 DEF Plainly
<1>9. Len(got) <= accepted /\ body # "ended" /\ (body = "none" => task = "none")
  BY <1>1, <1>6
<1> QED  BY <1>3, <1>4, <1>7, <1>8, <1>9 DEF EventInv

\* The lengths, as numbers.
LEMMA Lengths ==
  ASSUME EventInv
  PROVE  /\ Len(got) \in Nat /\ accepted \in Nat /\ Len(channel) \in Nat
         /\ Len(channel) <= accepted /\ channel \in Seq(Nat)
  BY DEF EventInv, Numbered, Waiting

LEMMA SendInv == ASSUME EventInv, Send PROVE EventInv'
<1>1. /\ sender = "held" /\ channel' = Append(channel, accepted + 1)
      /\ accepted' = accepted + 1
      /\ UNCHANGED <<body, got, heartbeat, sender, task, hand, merged>>
  BY DEF Send, bodyVars
<1>2. Waiting(channel', accepted') /\ Len(channel') = Len(channel) + 1
  BY <1>1, WaitingAppend DEF EventInv
<1>3. accepted' - Len(channel') = accepted - Len(channel) /\ Len(got) <= accepted'
  BY <1>1, <1>2, Lengths DEF EventInv
<1>4. Ahead' = Ahead /\ InHand' = InHand
  BY <1>1, <1>3 DEF Ahead, InHand
<1>5. EventTypes' /\ Numbered(got)'
  BY <1>1 DEF EventInv, EventTypes, Numbered
<1>6. heartbeat => Held' /\ Merging'
  BY <1>1, <1>3, <1>4 DEF EventInv, Held, Merging
<1>7. ~heartbeat => Plainly'
  BY <1>1, <1>3 DEF EventInv, Plainly
<1>8. body # "ended"
  BY <1>1 DEF EventInv
<1> QED  BY <1>1, <1>2, <1>3, <1>5, <1>6, <1>7, <1>8 DEF EventInv

\* One event for the client.
LEMMA PollInv == ASSUME EventInv, PollEvents PROVE EventInv'
<1>0. /\ body = "open" /\ ~heartbeat
      /\ UNCHANGED <<heartbeat, sender, task, hand, merged, accepted>>
  BY DEF PollEvents
<1>1. CASE channel # <<>> /\ Yield(<<Head(channel)>>) /\ channel' = Tail(channel)
  <2>1. got' = got \o <<Head(channel)>> /\ body' = body
    BY <1>1 DEF Yield
  <2>2. /\ Waiting(channel', accepted') /\ Len(channel') = Len(channel) - 1
        /\ Head(channel) = accepted - Len(channel) + 1 /\ Len(channel) > 0
    BY <1>0, <1>1, WaitingTail, Lengths DEF EventInv
  <2>3. Head(channel) = Len(got) + 1
    BY <1>0, <2>2 DEF EventInv, Plainly
  <2>4. Numbered(got') /\ Len(got') = Len(got) + 1
    BY <2>1, <2>3, NumberedYield DEF EventInv
  <2>5. Plainly' /\ Len(got') <= accepted'
    BY <1>0, <2>2, <2>4, Lengths DEF EventInv, Plainly
  <2>6. EventTypes'
    BY <1>0, <2>1 DEF EventInv, EventTypes
  <2> QED  BY <1>0, <2>1, <2>2, <2>4, <2>5, <2>6 DEF EventInv, Numbered
<1>2. CASE NoMoreEvents /\ End /\ UNCHANGED channel
  <2>1. channel = <<>> /\ sender # "held" /\ body' = "ended" /\ got' = got
    BY <1>2 DEF NoMoreEvents, Drained, End
  <2>2. Len(got) = accepted /\ sender = "dropped"
    BY <1>0, <2>1, Lengths DEF EventInv, Plainly, EventTypes
  <2>3. EventTypes' /\ Plainly' /\ Numbered(got)' /\ Waiting(channel, accepted)'
    BY <1>0, <1>2, <2>1 DEF EventInv, EventTypes, Plainly, Numbered, Waiting
  <2> QED  BY <1>0, <1>2, <2>1, <2>2, <2>3 DEF EventInv
<1> QED  BY <1>1, <1>2 DEF PollEvents

LEMMA PollMergedInv == ASSUME EventInv, PollMerged PROVE EventInv'
<1>0. /\ body = "open" /\ heartbeat
      /\ UNCHANGED <<heartbeat, sender, channel, task, hand, accepted>>
  BY DEF PollMerged
<1>1. InOrder(merged, Len(got), Ahead) /\ Held
  BY <1>0 DEF EventInv, Merging
<1>2. Ahead' = Ahead /\ InHand' = InHand /\ Held' /\ Waiting(channel, accepted)'
  BY <1>0, <1>1 DEF Ahead, InHand, Held, EventInv, Waiting
<1>3. CASE merged # <<>> /\ Yield(IF Head(merged) = Beat THEN <<>> ELSE <<Head(merged)>>)
           /\ merged' = Tail(merged)
  <2>1. body' = body /\ got' = got \o (IF Head(merged) = Beat THEN <<>> ELSE <<Head(merged)>>)
    BY <1>3 DEF Yield
  <2>2. Numbered(got') /\ InOrder(merged', Len(got'), Ahead')
    <3>1. CASE Head(merged) = Beat
      <4>1. got' = got
        BY <2>1, <3>1, NumberedYield DEF EventInv
      <4> QED  BY <1>1, <1>2, <1>3, <3>1, <4>1, OrderTail DEF EventInv
    <3>2. CASE Head(merged) # Beat
      <4>1. Head(merged) = Len(got) + 1 /\ InOrder(merged', Len(got) + 1, Ahead')
        BY <1>1, <1>2, <1>3, <3>2, OrderTail
      <4>2. got' = got \o <<Head(merged)>>
        BY <2>1, <3>2
      <4> QED  BY <4>1, <4>2, NumberedYield DEF EventInv
    <3> QED  BY <3>1, <3>2
  <2>3. merged' \in Seq(Nat) /\ Len(got') <= Ahead'
    BY <2>2 DEF InOrder
  <2>4. Len(got') <= accepted'
    BY <1>0, <2>2, <2>3, Lengths DEF Ahead, Numbered
  <2>5. EventTypes' /\ Merging'
    BY <1>0, <2>1, <2>2, <2>3 DEF EventInv, EventTypes, Merging
  <2> QED  BY <1>0, <1>2, <2>1, <2>2, <2>4, <2>5 DEF EventInv, Numbered
<1>4. CASE Drained(merged, task # "ended") /\ End /\ UNCHANGED merged
  <2>1. merged = <<>> /\ task = "ended" /\ body' = "ended" /\ got' = got
    BY <1>4 DEF Drained, End
  <2>2. sender = "dropped" /\ channel = <<>>
    BY <1>0, <2>1 DEF EventInv, Merging
  <2>3. Ahead = accepted
    BY <2>1, <2>2, Lengths DEF Ahead, InHand
  <2>4. Len(got) = accepted
    BY <1>1, <2>1, <2>3, OrderNone, Lengths
  <2>5. EventTypes' /\ Merging' /\ Numbered(got)'
    BY <1>0, <1>4, <2>1 DEF EventInv, EventTypes, Merging, Numbered
  <2> QED  BY <1>0, <1>2, <2>1, <2>2, <2>4, <2>5 DEF EventInv
<1> QED  BY <1>3, <1>4 DEF PollMerged

\* The task takes an event: what it has merged stays the same.
LEMMA TakeEventInv == ASSUME EventInv, TakeEvent PROVE EventInv'
<1>0. /\ task = "select" /\ channel # <<>> /\ hand' = Head(channel)
      /\ channel' = Tail(channel) /\ task' = "send"
      /\ UNCHANGED <<body, got, heartbeat, sender, merged, accepted>>
  BY DEF TakeEvent, bodyVars
<1>1. heartbeat
  BY <1>0 DEF EventInv, Plainly
<1>2. /\ Waiting(channel', accepted') /\ Len(channel') = Len(channel) - 1
      /\ hand' = accepted - Len(channel) + 1 /\ Len(channel) > 0
  BY <1>0, WaitingTail, Lengths DEF EventInv
<1>3. hand' \in Nat /\ hand' = accepted' - Len(channel)' /\ hand' # Beat
  BY <1>0, <1>2, Lengths DEF Beat
<1>4. InHand' /\ ~InHand
  BY <1>0, <1>3 DEF InHand
<1>5. Ahead' = Ahead
  BY <1>0, <1>2, <1>4, Lengths DEF Ahead
<1>6. EventTypes' /\ Held' /\ Merging'
  BY <1>0, <1>1, <1>3, <1>5 DEF EventInv, EventTypes, Held, Merging
<1>7. Numbered(got)' /\ (Len(got) <= accepted)'
  BY <1>0 DEF EventInv, Numbered
<1> QED  BY <1>0, <1>1, <1>2, <1>6, <1>7 DEF EventInv

\* The task's other steps leave the events' channel alone.
Rest == UNCHANGED <<body, got, heartbeat, sender, channel, accepted>>

LEMMA RestInv ==
  ASSUME EventInv, Rest
  PROVE  /\ Numbered(got)' /\ Waiting(channel, accepted)' /\ (Len(got) <= accepted)'
         /\ (body = "ended" => sender = "dropped" /\ Len(got) = accepted)'
  BY DEF EventInv, Rest, Numbered, Waiting

LEMMA EventsEndInv == ASSUME EventInv, EventsEnd PROVE EventInv'
<1>0. /\ task = "select" /\ channel = <<>> /\ sender # "held" /\ task' = "ended"
      /\ Rest /\ UNCHANGED <<hand, merged>>
  BY DEF EventsEnd, TaskEnds, Breaks, NoMoreEvents, Drained, Rest, bodyVars
<1>1. heartbeat /\ body # "none" /\ sender = "dropped"
  BY <1>0 DEF EventInv, Plainly, EventTypes
<1>2. ~InHand /\ ~InHand' /\ Ahead' = Ahead
  BY <1>0 DEF InHand, Ahead, Rest
<1>3. EventTypes' /\ Held' /\ Merging'
  BY <1>0, <1>1, <1>2 DEF EventInv, EventTypes, Held, Merging, Rest
<1> QED  BY <1>0, <1>1, <1>3, RestInv DEF EventInv, Rest

LEMMA TakeBeatInv == ASSUME EventInv, TakeBeat PROVE EventInv'
<1>0. task = "select" /\ hand' = Beat /\ task' = "send" /\ Rest /\ UNCHANGED merged
  BY DEF TakeBeat, Rest, bodyVars
<1>1. heartbeat /\ body # "none"
  BY <1>0 DEF EventInv, Plainly
<1>2. ~InHand /\ ~InHand' /\ Ahead' = Ahead
  BY <1>0 DEF InHand, Ahead, Rest
<1>3. EventTypes' /\ Held' /\ Merging'
  BY <1>0, <1>1, <1>2 DEF EventInv, EventTypes, Held, Merging, Rest, Beat
<1> QED  BY <1>0, <1>1, <1>3, RestInv DEF EventInv, Rest

LEMMA SendMergedInv == ASSUME EventInv, SendMerged PROVE EventInv'
<1>0. /\ task = "send" /\ body = "open" /\ merged' = Append(merged, hand)
      /\ task' = "select" /\ Rest /\ UNCHANGED hand
  BY DEF SendMerged, Rest, bodyVars
<1>1. heartbeat
  BY <1>0 DEF EventInv, Plainly
<1>2. InOrder(merged, Len(got), Ahead) /\ Held /\ hand \in Nat
  BY <1>0, <1>1 DEF EventInv, Merging, EventTypes
<1>3. ~InHand' /\ Ahead' = accepted - Len(channel)
  BY <1>0, Lengths DEF InHand, Ahead, Rest
<1>4. InOrder(merged', Len(got), Ahead')
  <2>1. CASE hand = Beat
    <3>1. Ahead' = Ahead
      BY <1>3, <2>1, Lengths DEF Ahead, InHand
    <3>2. InOrder(Append(merged, hand), Len(got), Ahead)
      BY <1>2, <2>1, OrderAppend
    <3> QED  BY <1>0, <3>1, <3>2
  <2>2. CASE hand # Beat
    <3>1. hand = Ahead + 1 /\ Ahead' = Ahead + 1
      BY <1>0, <1>2, <1>3, <2>2, Lengths DEF Ahead, InHand, Held
    <3>2. InOrder(Append(merged, hand), Len(got), Ahead + 1)
      BY <1>2, <2>2, <3>1, OrderAppend
    <3> QED  BY <1>0, <3>1, <3>2
  <2> QED  BY <2>1, <2>2
<1>5. merged' \in Seq(Nat)
  BY <1>4 DEF InOrder
<1>6. EventTypes' /\ Held' /\ Merging'
  BY <1>0, <1>1, <1>3, <1>4, <1>5 DEF EventInv, EventTypes, Held, Merging, Rest
<1> QED  BY <1>0, <1>1, <1>6, RestInv DEF EventInv, Rest

LEMMA SendFailsInv == ASSUME EventInv, SendMergedFails PROVE EventInv'
<1>0. task = "send" /\ body # "open" /\ task' = "ended" /\ Rest /\ UNCHANGED <<hand, merged>>
  BY DEF SendMergedFails, TaskEnds, Rest, bodyVars
<1>1. heartbeat /\ body \notin {"none", "open"}
  BY <1>0 DEF EventInv, Plainly
<1>2. EventTypes' /\ Held' /\ Merging'
  BY <1>0, <1>1 DEF EventInv, EventTypes, Held, InHand, Merging, Rest
<1> QED  BY <1>0, <1>1, <1>2, RestInv DEF EventInv, Rest

LEMMA BodyStepInv ==
  ASSUME EventInv, IntoResponse \/ DropSender \/ LoseClient
  PROVE  EventInv'
<1>1. /\ UNCHANGED <<got, heartbeat, channel, hand, merged, accepted>>
      /\ \/ body = "none" /\ body' = "open" /\ sender' = sender
            /\ task' = IF heartbeat THEN "select" ELSE "none"
         \/ body' = body /\ sender = "held" /\ sender' = "dropped" /\ task' = task
         \/ body = "open" /\ body' = "dropped" /\ sender' = sender /\ task' = task
  BY DEF IntoResponse, DropSender, LoseClient, Created, Disconnect, bodyVars
<1>2. Numbered(got)' /\ Waiting(channel, accepted)' /\ (Len(got) <= accepted)'
  BY <1>1 DEF EventInv, Numbered, Waiting
<1>3. body = "none" => task = "none"
  BY DEF EventInv
<1>4. InHand' = InHand /\ Ahead' = Ahead /\ EventTypes'
  BY <1>1, <1>3 DEF EventInv, EventTypes, InHand, Ahead
<1>5. IF heartbeat THEN Held' /\ Merging' ELSE Plainly'
  BY <1>1, <1>3, <1>4 DEF EventInv, Held, Merging, Plainly
<1> QED  BY <1>1, <1>2, <1>3, <1>4, <1>5 DEF EventInv

LEMMA EventStep == ASSUME EventInv, EventNext PROVE EventInv'
BY SendInv, PollInv, PollMergedInv, TakeEventInv, EventsEndInv, TakeBeatInv, SendMergedInv,
   SendFailsInv, BodyStepInv DEF EventNext

LEMMA NextEvents == EventsInv /\ [Next]_vars => EventsInv'
<1> SUFFICES ASSUME EventsInv, [Next]_vars, kind' = "events" PROVE EventInv'
  BY DEF EventsInv
<1>1. CASE Events
  BY <1>1, EventStep DEF Events, OfEvents, EventsInv
<1>2. CASE File \/ Form \/ Coding
  BY <1>2 DEF File, Form, Coding, OfFile, OfForm, OfCoded
<1>3. CASE UNCHANGED vars
  <2>1. kind = "events" /\ UNCHANGED <<bodyVars, eventVars>>
    BY <1>3 DEF vars
  <2> QED
    BY <2>1 DEF EventsInv, EventInv, EventTypes, Numbered, Waiting, Held, InHand, Ahead,
                Merging, Plainly, bodyVars, eventVars
<1> QED  BY <1>1, <1>2, <1>3 DEF Next

\* An event stream delivers every event that send() accepted, in order and once,
\* and all of them by the time it ends, whatever the capacities of the channels and
\* wherever the heartbeats fall.
THEOREM EventsDelivered == Spec => []EventsAsPromised
<1>1. EventsInv => EventsAsPromised
  <2> SUFFICES ASSUME EventInv PROVE Delivers([i \in 1..accepted |-> i])
    BY DEF EventsInv, EventsAsPromised
  <2> QED  BY NumberedIs, Lengths DEF EventInv, Delivers
<1> QED  BY InitEvents, NextEvents, <1>1, PTL DEF Spec

-----------------------------------------------------------------------------
(* A body that is coded on its way                                          *)

\* The recursive function of FlattenSeq over one sequence.
LEMMA FlattenOne == ASSUME NEW b PROVE FlattenSeq(<<b>>) = b
<1> DEFINE s == <<b>>
           Flat(g) == g = [i \in 1..Len(s) |-> IF i = 1 THEN s[i] ELSE g[i - 1] \o s[i]]
           g == CHOOSE g : Flat(g)
<1>1. Len(s) = 1 /\ s[1] = b
  OBVIOUS
<1>2. Flat([i \in 1..1 |-> b])
  BY <1>1
<1>3. Flat(g)
  <2> HIDE DEF Flat
  <2> QED  BY <1>2, Zenon
<1>4. g[1] = b
  <2> HIDE DEF g
  <2> QED  BY <1>1, <1>3
<1>5. FlattenSeq(s) = g[1]
  BY <1>1 DEF FlattenSeq
<1> QED  BY <1>4, <1>5

LEMMA WholeOf ==
  ASSUME NEW bytes, NEW coding
  PROVE  Whole(Plain(bytes)) = bytes /\ Whole(Coded(coding, bytes)) = bytes
  BY FlattenOne DEF Whole, Plain, Coded

LEMMA LeastOf ==
  ASSUME NEW S, S \subseteq Nat, S # {}
  PROVE  Min(S) \in S
<1> DEFINE less == {ss \in Nat \X Nat : ss[1] < ss[2]}
<1>1. IsWellFoundedOn(less, Nat)
  BY NatLessThanWellFounded DEF OpToRel
<1>2. PICK x \in S : \A y \in S : <<y, x>> \notin less
  <2> HIDE DEF less
  <2> QED  BY <1>1, WFMin
<1>3. \A y \in S : x <= y
  <2> TAKE y \in S
  <2>1. x \in Nat /\ y \in Nat /\ <<y, x>> \notin less
    BY <1>2
  <2>2. ~(y < x)
    BY <2>1
  <2> HIDE DEF less
  <2> QED  BY <2>1, <2>2
<1> QED  BY <1>3 DEF Min

\* The response on its way, coded by the server or as the handler left it.
OnTheWire(x) ==
  \/ ~Compresses(x)
     /\ wire = [coding |-> x.coding, stream |-> x.stream, length |-> Size(x.stream)]
  \/ /\ Compresses(x)
     /\ \E c \in Negotiate(AcceptEncoding(x), x.preferred) :
          wire = [coding |-> c, stream |-> Coded(c, x.meant),
                  length |-> Size(Coded(c, x.meant))]

\* What has been collected is the beginning of it and within the bound.
CodedInv ==
  /\ exchange \in Exchanges /\ phase \in {"handler", "sent", "collected", "done"}
  /\ Numbered(got) /\ wire.length \in Nat /\ Len(got) <= wire.length
  /\ phase = "handler" => body = "none" /\ got = <<>>
  /\ phase # "handler" => OnTheWire(exchange)
  /\ phase = "sent" => body = "open" /\ Len(got) <= exchange.cap
  /\ body = "ended" => Len(got) = wire.length /\ Len(got) <= exchange.cap
  /\ phase = "collected" => body = "ended"
  /\ phase = "done" => \/ body = "failed" /\ result = Failed
                       \/ body = "ended" /\ result = Decoded(exchange)

CodingInv == IF kind = "coded" THEN CodedInv ELSE TRUE

LEMMA InitCoding == Init => CodingInv
<1> SUFFICES ASSUME Init, kind = "coded" PROVE CodedInv
  BY DEF CodingInv
<1>1. CodedInit(Exchanges) /\ BodyInit
  BY DEF Init, Of
<1>2. <<>> \in Seq(Nat) /\ Len(<<>>) = 0
  OBVIOUS
<1> QED  BY <1>1, <1>2 DEF CodedInit, BodyInit, CodedInv, Numbered

LEMMA SizeIs ==
  ASSUME NEW x \in Exchanges
  PROVE  Size(x.stream) \in Nat /\ \A c : Size(Coded(c, x.meant)) \in Nat
<1>1. /\ x.stream.members \in Seq(Seq(Nat)) /\ x.stream.members # <<>>
      /\ x.stream.form = "plain" => x.stream = Plain(Head(x.stream.members))
      /\ x.meant \in Seq(Nat)
  BY CodingAssumption
<1>2. Head(x.stream.members) \in Seq(Nat) /\ Len(x.stream.members) \in Nat
  BY <1>1
<1>3. Size(x.stream) \in Nat
  <2>1. CASE x.stream.form = "plain"
    <3>1. Whole(x.stream) = Head(x.stream.members)
      BY <1>1, <2>1, WholeOf
    <3>2. Len(Head(x.stream.members)) \in Nat
      BY <1>2
    <3> QED  BY <2>1, <3>1, <3>2 DEF Size
  <2>2. CASE x.stream.form # "plain"
    BY <1>2, <2>2 DEF Size
  <2> QED  BY <2>1, <2>2
<1>4. ASSUME NEW c PROVE Size(Coded(c, x.meant)) \in Nat
  <2>1. Coded(c, x.meant).form # "plain" /\ Len(Coded(c, x.meant).members) = 1
    BY DEF Coded, Plain
  <2> QED  BY <2>1 DEF Size
<1> QED  BY <1>3, <1>4

\* A handler's plain body is what it meant.
LEMMA CompressedWhole ==
  ASSUME NEW x \in Exchanges, x.own, x.coding = "identity"
  PROVE  Whole(x.stream) = x.meant
<1>1. x.stream = Plain(x.meant)
  BY CodingAssumption DEF Sent, Codings
<1> QED  BY <1>1, WholeOf

LEMMA RespondCoded == ASSUME CodedInv, Respond PROVE CodedInv'
<1> DEFINE x == exchange
<1>1. /\ x \in Exchanges /\ phase = "handler" /\ phase' = "sent" /\ body' = "open"
      /\ got' = <<>> /\ exchange' = x /\ got = <<>>
  BY DEF CodedInv, Respond, Created
<1>2. OnTheWire(x)' /\ wire'.length \in Nat
  <2>1. CASE Compresses(x)
    <3>1. PICK c \in Negotiate(AcceptEncoding(x), x.preferred) :
            wire' = [coding |-> c, stream |-> Coded(c, Whole(x.stream)),
                     length |-> Size(Coded(c, Whole(x.stream)))]
      BY <2>1 DEF Respond
    <3>2. Whole(x.stream) = x.meant
      BY <1>1, <2>1, CompressedWhole DEF Compresses
    <3>3. Size(Coded(c, x.meant)) \in Nat
      BY <1>1, SizeIs
    <3> QED  BY <1>1, <2>1, <3>1, <3>2, <3>3 DEF OnTheWire
  <2>2. CASE ~Compresses(x)
    <3>1. wire' = [coding |-> x.coding, stream |-> x.stream, length |-> Size(x.stream)]
      BY <2>2 DEF Respond
    <3>2. Size(x.stream) \in Nat
      BY <1>1, SizeIs
    <3> QED  BY <1>1, <2>2, <3>1, <3>2 DEF OnTheWire
  <2> QED  BY <2>1, <2>2
<1>3. x.cap \in Nat
  BY <1>1, CodingAssumption
<1>4. Numbered(got') /\ Len(got') = 0
  BY <1>1 DEF Numbered
<1> QED  BY <1>1, <1>2, <1>3, <1>4 DEF CodedInv

LEMMA NumberedFrame ==
  ASSUME NEW s, Numbered(s), NEW n \in Nat
  PROVE  LET next == s \o [i \in 1..n |-> Len(s) + i]
         IN  Numbered(next) /\ Len(next) = Len(s) + n
<1> DEFINE f == [i \in 1..n |-> Len(s) + i]
<1>1. s \in Seq(Nat) /\ Len(s) \in Nat /\ \A i \in 1..Len(s) : s[i] = i
  BY DEF Numbered
<1>2. f \in Seq(Nat) /\ Len(f) = n /\ \A i \in 1..n : f[i] = Len(s) + i
  BY <1>1
<1> HIDE DEF f
<1>3. /\ s \o f \in Seq(Nat) /\ Len(s \o f) = Len(s) + n
      /\ \A i \in 1..Len(s) : (s \o f)[i] = s[i]
      /\ \A i \in 1..n : (s \o f)[Len(s) + i] = f[i]
  <2>1. s \o f \in Seq(Nat)
    BY <1>1, <1>2
  <2> QED  BY <1>1, <1>2, <2>1, ConcatIs
<1>4. \A i \in 1..Len(s) + n : (s \o f)[i] = i
  <2> TAKE i \in 1..Len(s) + n
  <2>1. CASE i \in 1..Len(s)
    BY <1>1, <1>3, <2>1
  <2>2. CASE i \notin 1..Len(s)
    <3>1. PICK j \in 1..n : i = Len(s) + j
      <4>1. i - Len(s) \in 1..n /\ i = Len(s) + (i - Len(s))
        BY <1>1, <2>2
      <4> QED  BY <4>1
    <3> QED  BY <1>2, <1>3, <3>1
  <2> QED  BY <2>1, <2>2
<1>5. Numbered(s \o f)
  BY <1>1, <1>3, <1>4 DEF Numbered
<1> QED  BY <1>3, <1>5 DEF f

LEMMA CollectCoded == ASSUME CodedInv, CollectFrame PROVE CodedInv'
<1>1. /\ exchange \in Exchanges /\ phase = "sent" /\ body = "open" /\ Numbered(got)
      /\ wire.length \in Nat /\ Len(got) <= wire.length /\ Len(got) \in Nat
      /\ UNCHANGED <<exchange, wire>> /\ OnTheWire(exchange)
  BY DEF CodedInv, CollectFrame, CodedPoll, Numbered
<1>2. OnTheWire(exchange)'
  BY <1>1 DEF OnTheWire
<1>3. exchange.cap \in Nat /\ Frame \in Nat
  BY <1>1, CodingAssumption
<1>4. PICK n \in 1..Min({ToCome, Frame}) :
        IF Fits(n) THEN Yield([i \in 1..n |-> Len(got) + i]) /\ UNCHANGED <<phase, result>>
                   ELSE Fail /\ phase' = "done" /\ result' = Failed
  BY DEF CollectFrame
<1>5. n \in Nat /\ n <= ToCome
  <2>1. ToCome \in Int
    BY <1>1 DEF ToCome
  <2>2. Min({ToCome, Frame}) \in Int /\ Min({ToCome, Frame}) <= ToCome
    BY <1>3, <2>1, MinOfTwo
  <2> QED  BY <2>1, <2>2
<1>6. CASE Fits(n)
  <2>1. Numbered(got') /\ Len(got') = Len(got) + n
    BY <1>1, <1>4, <1>5, <1>6, NumberedFrame DEF Yield
  <2>2. body' = "open" /\ phase' = "sent"
    BY <1>1, <1>4, <1>6 DEF Yield
  <2>3. Len(got') <= wire.length /\ Len(got') <= exchange.cap
    BY <1>1, <1>3, <1>5, <1>6, <2>1 DEF Fits, ToCome
  <2> QED  BY <1>1, <1>2, <2>1, <2>2, <2>3 DEF CodedInv
<1>7. CASE ~Fits(n)
  <2>1. body' = "failed" /\ got' = got /\ phase' = "done" /\ result' = Failed
    BY <1>4, <1>7 DEF Fail
  <2> QED  BY <1>1, <1>2, <2>1 DEF CodedInv, Numbered, Failed
<1> QED  BY <1>6, <1>7

LEMMA CodedStep == ASSUME CodedInv, CodedNext PROVE CodedInv'
<1>1. CASE Respond
  BY <1>1, RespondCoded
<1>2. CASE CollectFrame
  BY <1>2, CollectCoded
<1>3. CASE CollectEnd
  <2>1. /\ UNCHANGED <<exchange, wire, result, got>> /\ phase = "sent"
        /\ phase' = "collected" /\ body' = "ended" /\ ToCome = 0
    BY <1>3 DEF CollectEnd, CodedPoll, End
  <2>2. OnTheWire(exchange)' /\ Len(got) = wire.length /\ Numbered(got)'
    BY <2>1 DEF CodedInv, OnTheWire, ToCome, Numbered
  <2> QED  BY <2>1, <2>2 DEF CodedInv
<1>4. CASE CollectError
  <2>1. /\ UNCHANGED <<exchange, wire, got>> /\ phase = "sent"
        /\ phase' = "done" /\ body' = "failed" /\ result' = Failed
    BY <1>4 DEF CollectError, CodedPoll, Fail
  <2>2. OnTheWire(exchange)' /\ Numbered(got)'
    BY <2>1 DEF CodedInv, OnTheWire, Numbered
  <2> QED  BY <2>1, <2>2 DEF CodedInv, Failed
<1>5. CASE BodyBytes
  <2>1. /\ UNCHANGED <<exchange, wire, got, body>> /\ phase = "collected"
        /\ phase' = "done" /\ result' = Decoded(exchange)
    BY <1>5 DEF BodyBytes, bodyVars
  <2>2. OnTheWire(exchange)' /\ Numbered(got)' /\ result' = Decoded(exchange)'
    BY <2>1 DEF CodedInv, OnTheWire, Numbered, Decoded
  <2> QED  BY <2>1, <2>2 DEF CodedInv
<1> QED  BY <1>1, <1>2, <1>3, <1>4, <1>5 DEF CodedNext

LEMMA NextCoding == CodingInv /\ [Next]_vars => CodingInv'
<1> SUFFICES ASSUME CodingInv, [Next]_vars, kind' = "coded" PROVE CodedInv'
  BY DEF CodingInv
<1>1. CASE Coding
  BY <1>1, CodedStep DEF Coding, OfCoded, CodingInv
<1>2. CASE Events \/ File \/ Form
  BY <1>2 DEF File, Form, Events, OfFile, OfForm, OfEvents
<1>3. CASE UNCHANGED vars
  <2>1. kind = "coded" /\ UNCHANGED <<body, got, exchange, phase, wire, result>>
    BY <1>3 DEF vars, bodyVars, codedVars
  <2> QED
    BY <2>1 DEF CodingInv, CodedInv, Numbered, OnTheWire, Decoded, Failed
<1> QED  BY <1>1, <1>2, <1>3 DEF Next

\* A coding that is chosen is one of the server's, and found in what the client sent.
LEMMA ChoiceIs ==
  ASSUME NEW x \in Exchanges, NEW c \in Negotiate(AcceptEncoding(x), x.preferred)
  PROVE  c \in Range(x.preferred) /\ c \in Codings /\ Accepted(AcceptEncoding(x), c)
<1> DEFINE ok == {i \in DOMAIN x.preferred : Accepted(AcceptEncoding(x), x.preferred[i])}
<1>1. ok # {} /\ c = x.preferred[Min(ok)]
  BY DEF Negotiate
<1>2. x.preferred \in Seq(Codings)
  BY CodingAssumption
<1>3. ok \subseteq Nat
  <2>1. DOMAIN x.preferred \subseteq Nat
    BY <1>2
  <2> QED  BY <2>1
<1>4. Min(ok) \in ok
  <2> HIDE DEF ok
  <2> QED  BY <1>1, <1>3, LeastOf
<1>5. Min(ok) \in DOMAIN x.preferred /\ Accepted(AcceptEncoding(x), x.preferred[Min(ok)])
  <2> DEFINE m == Min(ok)
  <2> HIDE DEF m
  <2> QED  BY <1>4 DEF m
<1>6. c \in Range(x.preferred)
  <2> DEFINE m == Min(ok)
  <2> HIDE DEF m
  <2> QED  BY <1>1, <1>5 DEF m, Range
<1> HIDE DEF ok
<1> QED  BY <1>1, <1>2, <1>5, <1>6

\* It is one that the client takes, unless it is refused beside a "*".
LEMMA TakesIs ==
  ASSUME NEW accept, \A i \in DOMAIN accept : accept[i].q \in Nat, NEW c \in Codings,
         ~RefusedBesideAny(accept)
  PROVE  Takes(accept, c) <=> Accepted(accept, c)
<1>1. ASSUME NEW i \in DOMAIN accept, accept[i].name \in {c, "*"}, accept[i].q > 0
      PROVE  Takes(accept, c)
  <2>1. accept[i].q # 0
    BY <1>1
  <2>2. CASE accept[i].name = c
    BY <1>1, <2>1, <2>2 DEF Takes, Entries
  <2>3. CASE accept[i].name = "*" /\ Entries(accept, c) = {}
    BY <1>1, <2>1, <2>3 DEF Takes, Entries
  <2>4. CASE accept[i].name = "*" /\ Entries(accept, c) # {}
    <3>1. PICK j \in Entries(accept, c) : TRUE
      BY <2>4
    <3>2. i \in Entries(accept, "*")
      BY <1>1, <2>4 DEF Entries
    <3>3. accept[j].q # 0
      BY <2>1, <3>1, <3>2 DEF RefusedBesideAny
    <3> QED  BY <2>4, <3>1, <3>3 DEF Takes
  <2> QED  BY <1>1, <2>2, <2>3, <2>4
<1>2. ASSUME Takes(accept, c) PROVE Accepted(accept, c)
  <2>1. PICK i \in Entries(accept, c) \cup Entries(accept, "*") : accept[i].q # 0
    BY <1>2 DEF Takes
  <2>2. i \in DOMAIN accept /\ accept[i].name \in {c, "*"}
    BY <2>1 DEF Entries
  <2>3. accept[i].q \in Nat
    BY <2>2
  <2>4. accept[i].q > 0
    BY <2>1, <2>3
  <2> QED  BY <2>2, <2>4 DEF Accepted
<1> QED  BY <1>1, <1>2 DEF Accepted

LEMMA OfferedIs ==
  ASSUME NEW x \in Exchanges
  PROVE  \A i \in DOMAIN AcceptEncoding(x) : AcceptEncoding(x)[i].q \in Nat
<1> DEFINE both == <<[name |-> "gzip", q |-> 10], [name |-> "deflate", q |-> 10]>>
<1>1. \A i \in DOMAIN x.accept : x.accept[i].q \in Nat
  BY CodingAssumption
<1>2. \A i \in DOMAIN both : both[i].q \in Nat
  OBVIOUS
<1>3. AcceptEncoding(x) \in {x.accept, both}
  BY DEF AcceptEncoding
<1> HIDE DEF both
<1> QED  BY <1>1, <1>2, <1>3

LEMMA NegotiatedIs ==
  ASSUME NEW x \in Exchanges, OnTheWire(x), ~RefusedBesideAny(AcceptEncoding(x))
  PROVE  Negotiated(x)
<1> DEFINE sent == AcceptEncoding(x)
           taken == {c \in Range(x.preferred) : Takes(sent, c)}
           worth == /\ x.own /\ x.status \in 200..299 /\ x.coding = "identity"
                    /\ Len(x.meant) >= x.min
<1>1. /\ Range(x.preferred) \subseteq Codings
      /\ Range(x.preferred) = {x.preferred[i] : i \in DOMAIN x.preferred}
  BY CodingAssumption DEF Range
<1>2. \A c \in Codings : Takes(sent, c) <=> Accepted(sent, c)
  BY OfferedIs, TakesIs
<1> HIDE DEF sent
<1>3. taken # {} <=> Negotiate(sent, x.preferred) # {}
  <2>1. Negotiate(sent, x.preferred) # {}
          <=> \E i \in DOMAIN x.preferred : Accepted(sent, x.preferred[i])
    BY DEF Negotiate
  <2> QED  BY <1>1, <1>2, <2>1
<1>4. worth => Whole(x.stream) = x.meant
  BY CompressedWhole
<1>5. Compresses(x) <=> worth /\ taken # {}
  <2>1. x.own /\ x.coding = "identity" => Whole(x.stream) = x.meant
    BY CompressedWhole
  <2> HIDE DEF taken
  <2> QED  BY <1>3, <2>1 DEF Compresses, sent
<1>6. CASE Compresses(x)
  <2>1. wire.coding \in Negotiate(AcceptEncoding(x), x.preferred)
    BY <1>6 DEF OnTheWire
  <2>2. /\ wire.coding \in Range(x.preferred) /\ wire.coding \in Codings
        /\ Accepted(sent, wire.coding)
    BY <2>1, ChoiceIs DEF sent
  <2>3. wire.coding \in taken
    BY <1>2, <2>2
  <2> HIDE DEF taken
  <2> QED  BY <1>5, <1>6, <2>3 DEF Negotiated, taken, sent
<1>7. CASE ~Compresses(x)
  <2>1. wire.coding = x.coding
    BY <1>7 DEF OnTheWire
  <2> QED  BY <1>5, <1>7, <2>1 DEF Negotiated, sent
<1> QED  BY <1>6, <1>7

LEMMA CodedIs ==
  ASSUME NEW c, NEW bytes \in Seq(Nat)
  PROVE  LET s == Coded(c, bytes)
         IN  /\ s.form = IF c = "gzip" THEN "gzip" ELSE "zlib"
             /\ s.members = <<bytes>> /\ s.trailer = bytes
             /\ Head(s.members) = bytes /\ Len(s.members) = 1
  BY DEF Coded, Plain

\* What the wire's stream is, for a decoder.
LEMMA WireIs ==
  ASSUME NEW x \in Exchanges, OnTheWire(x)
  PROVE  LET s == wire.stream
         IN  /\ wire.length = Size(s) /\ Size(s) \in Nat
             /\ Len(Head(s.members)) \in Nat /\ Len(s.members) \in Nat \ {0}
             /\ x.own /\ wire.coding \in Codings => s = Coded(wire.coding, x.meant)
             /\ wire.coding = "gzip" /\ Len(s.members) = 1 => s.trailer = x.meant
             /\ wire.coding = "deflate" /\ s.form \in {"zlib", "raw"}
                  => Head(s.members) = x.meant
             /\ wire.coding = "gzip" /\ Len(s.members) # 1
                  => ~x.own /\ x.coding = "gzip" /\ s = x.stream
<1> DEFINE s == wire.stream
<1>0. x.meant \in Seq(Nat) /\ x.own \in BOOLEAN
  BY CodingAssumption
<1>1. CASE wire = [coding |-> x.coding, stream |-> x.stream, length |-> Size(x.stream)]
  <2>1. wire.coding = x.coding /\ s = x.stream /\ wire.length = Size(s) /\ Size(s) \in Nat
    BY <1>1, SizeIs
  <2>2. x.stream.members \in Seq(Seq(Nat)) /\ x.stream.members # <<>> /\ Sent(x)
    BY CodingAssumption
  <2>3. Head(x.stream.members) \in Seq(Nat) /\ Len(x.stream.members) \in Nat \ {0}
    BY <2>2
  <2>4. Len(Head(x.stream.members)) \in Nat
    BY <2>3
  <2>5. x.own /\ x.coding \in Codings => x.stream = Coded(x.coding, x.meant)
    BY <2>2 DEF Sent, Codings
  <2>6. CASE x.own
    <3>1. /\ Coded("gzip", x.meant).trailer = x.meant
          /\ Head(Coded("deflate", x.meant).members) = x.meant
          /\ Len(Coded("gzip", x.meant).members) = 1
      BY <1>0, CodedIs
    <3> QED  BY <2>1, <2>3, <2>4, <2>5, <2>6, <3>1 DEF Codings
  <2>7. CASE ~x.own
    <3>1. /\ x.coding = "gzip" /\ Len(x.stream.members) = 1 => x.stream.trailer = x.meant
          /\ x.coding = "deflate" /\ x.stream.form \in {"zlib", "raw"}
               => x.stream.members = <<x.meant>>
      BY <2>2, <2>7 DEF Sent
    <3>2. Head(<<x.meant>>) = x.meant
      BY <1>0
    <3> QED  BY <2>1, <2>3, <2>4, <2>7, <3>1, <3>2
  <2> QED  BY <2>6, <2>7
<1>2. ASSUME NEW c \in Negotiate(AcceptEncoding(x), x.preferred),
             wire = [coding |-> c, stream |-> Coded(c, x.meant),
                     length |-> Size(Coded(c, x.meant))]
      PROVE  /\ wire.length = Size(s) /\ Size(s) \in Nat
             /\ Len(Head(s.members)) \in Nat /\ Len(s.members) \in Nat \ {0}
             /\ s = Coded(wire.coding, x.meant)
             /\ s.trailer = x.meant /\ Head(s.members) = x.meant /\ Len(s.members) = 1
  <2>1. wire.coding = c /\ s = Coded(c, x.meant) /\ wire.length = Size(s) /\ Size(s) \in Nat
    BY <1>2, SizeIs
  <2> QED  BY <1>0, <2>1, CodedIs
<1> QED  BY <1>1, <1>2 DEF OnTheWire

\* Two attempts come to one with a buffer of the bound's size.
LEMMA BoundedIs ==
  ASSUME NEW s, NEW forms, NEW cap \in Nat, Size(s) \in Nat, Len(Head(s.members)) \in Nat
  PROVE  BoundedInflate(s, forms, cap)
           = IF s.form \in forms /\ Len(Head(s.members)) <= cap
               THEN Ok(Plain(Head(s.members))) ELSE Failed
<1> DEFINE room == FirstTry(s, cap)
<1>1. room \in Int /\ room <= cap
  <2>1. Ratio \in Nat /\ Floor \in Int
    BY CodingAssumption
  <2>2. PICK first \in Int : first = Ratio * Size(s)
    BY <2>1
  <2>3. PICK more \in Int : more = Max({first, Floor})
    BY <2>1, MaxOfTwo
  <2>4. room = Min({cap, more})
    BY <2>2, <2>3 DEF FirstTry
  <2>5. Min({cap, more}) \in Int /\ Min({cap, more}) <= cap
    <3>1. cap \in Int
      OBVIOUS
    <3> QED  BY <3>1, MinOfTwo, Zenon
  <2> HIDE DEF room
  <2> QED  BY <2>4, <2>5
<1> HIDE DEF room
<1>2. Ok(Plain(Head(s.members))).ok /\ ~Failed.ok
  BY DEF Ok, Failed
<1>3. \A r : Inflate(s, forms, r) = IF s.form \in forms /\ Len(Head(s.members)) <= r
                                      THEN Ok(Plain(Head(s.members))) ELSE Failed
  BY DEF Inflate
<1>4. BoundedInflate(s, forms, cap)
        = IF Inflate(s, forms, room).ok \/ room >= cap THEN Inflate(s, forms, room)
          ELSE Inflate(s, forms, cap)
  BY DEF BoundedInflate, room
<1> HIDE DEF Ok, Failed
<1> QED  BY <1>1, <1>2, <1>3, <1>4

LEMMA OneOrMore == ASSUME NEW n \in Nat \ {0} PROVE n = 1 \/ n > 1
OBVIOUS

\* A decoder that gives something back, and one that fails.
LEMMA DecodedIs ==
  ASSUME NEW x \in Exchanges, OnTheWire(x), wire.length <= x.cap, body = "ended",
         result = Decoded(x)
  PROVE  IF result.ok THEN Size(result.stream) <= x.cap /\ (~Twins(x) => Returned(x))
         ELSE Excused(x)
<1> DEFINE s == wire.stream
           plain == Plain(Head(s.members))
           within == Len(Head(s.members)) <= x.cap
<1>0. /\ x.cap \in Nat /\ x.meant \in Seq(Nat)
      /\ {x.own, x.feature, x.decompress} \subseteq BOOLEAN
  BY CodingAssumption
<1>1. /\ wire.length = Size(s) /\ Size(s) \in Nat
      /\ Len(Head(s.members)) \in Nat /\ Len(s.members) \in Nat \ {0}
      /\ x.own /\ wire.coding \in Codings => s = Coded(wire.coding, x.meant)
      /\ wire.coding = "gzip" /\ Len(s.members) = 1 => s.trailer = x.meant
      /\ wire.coding = "deflate" /\ s.form \in {"zlib", "raw"} => Head(s.members) = x.meant
      /\ wire.coding = "gzip" /\ Len(s.members) # 1
           => ~x.own /\ x.coding = "gzip" /\ s = x.stream
  BY WireIs
<1>2. \A forms : BoundedInflate(s, forms, x.cap)
                   = IF s.form \in forms /\ within THEN Ok(plain) ELSE Failed
  BY <1>0, <1>1, BoundedIs
<1>3. Size(plain) = Len(Head(s.members)) /\ Whole(plain) = Head(s.members)
  <2>1. plain.form = "plain"
    BY DEF Plain
  <2> QED  BY <2>1, WholeOf DEF Size
<1>4. \A t : Ok(t).ok /\ Ok(t).stream = t
  BY DEF Ok
<1>5. ~Failed.ok
  BY DEF Failed
<1>6. s = Coded(wire.coding, x.meant) =>
        /\ s.form = IF wire.coding = "gzip" THEN "gzip" ELSE "zlib"
        /\ Head(s.members) = x.meant /\ s.trailer = x.meant
  BY <1>0, CodedIs
<1> HIDE DEF plain, s
<1>7. CASE ~x.decompress \/ wire.coding \notin Codings
  <2>1. result = Ok(s)
    BY <1>7 DEF Decoded, Codings, s
  <2> QED  BY <1>1, <1>4, <1>7, <2>1 DEF Returned, Codings, s
<1>8. CASE x.decompress /\ wire.coding \in Codings /\ ~x.feature
  <2>1. result = Failed
    BY <1>8 DEF Decoded, Codings
  <2> QED  BY <1>5, <1>8, <2>1 DEF Excused
<1>9. CASE x.decompress /\ wire.coding = "gzip" /\ x.feature
  <2>1. result = Gunzip(s, x.cap)
    BY <1>9 DEF Decoded, s
  <2>2. result = IF s.form = "gzip" /\ within /\ s.trailer = Head(s.members)
                   THEN Ok(plain) ELSE Failed
    BY <1>2, <1>3, <1>4, <1>5, <2>1 DEF Gunzip, TrailerAgrees
  <2>3. CASE s.form = "gzip" /\ within /\ s.trailer = Head(s.members)
    <3>1. result.ok /\ result.stream = plain /\ Size(plain) <= x.cap
      BY <1>3, <1>4, <2>2, <2>3
    <3>2. Len(s.members) = 1 => plain = Plain(x.meant)
      BY <1>1, <1>9, <2>3 DEF plain
    <3>3. Len(s.members) = 1 \/ Len(s.members) > 1
      <4>1. Len(s.members) \in Nat \ {0}
        BY <1>1
      <4> QED  BY <4>1, OneOrMore, Zenon
    <3>4. Len(s.members) # 1 => Twins(x)
      BY <1>1, <1>9, <2>3, <3>3 DEF Twins
    <3>5. ~Twins(x) => result.stream = Plain(x.meant)
      BY <3>1, <3>2, <3>4
    <3> QED  BY <1>9, <3>1, <3>5 DEF Returned
  <2>4. CASE ~(s.form = "gzip" /\ within /\ s.trailer = Head(s.members))
    <3>1. ~result.ok
      BY <1>5, <2>2, <2>4
    <3>2. s = Coded(wire.coding, x.meant) => Len(x.meant) > x.cap
      BY <1>0, <1>1, <1>6, <1>9, <2>4
    <3> QED  BY <1>0, <1>1, <1>9, <3>1, <3>2 DEF Excused, Codings, s
  <2> QED  BY <2>3, <2>4
<1>10. CASE x.decompress /\ wire.coding = "deflate" /\ x.feature
  <2>1. result = Unzlib(s, x.cap)
    BY <1>10 DEF Decoded, s
  <2>2. result = IF s.form \in {"zlib", "raw"} /\ within THEN Ok(plain) ELSE Failed
    BY <1>2, <2>1 DEF Unzlib
  <2>3. CASE s.form \in {"zlib", "raw"} /\ within
    <3>1. result.ok /\ result.stream = plain /\ Size(plain) <= x.cap
      BY <1>3, <1>4, <2>2, <2>3
    <3>2. plain = Plain(x.meant)
      BY <1>1, <1>10, <2>3 DEF plain
    <3> QED  BY <1>10, <3>1, <3>2 DEF Returned
  <2>4. CASE ~(s.form \in {"zlib", "raw"} /\ within)
    <3>1. ~result.ok
      BY <1>5, <2>2, <2>4
    <3>2. s = Coded(wire.coding, x.meant) => Len(x.meant) > x.cap
      BY <1>0, <1>1, <1>6, <1>10, <2>4
    <3> QED  BY <1>0, <1>1, <1>10, <3>1, <3>2 DEF Excused, Codings, s
  <2> QED  BY <2>3, <2>4
<1> QED  BY <1>0, <1>7, <1>8, <1>9, <1>10 DEF Codings

\* What a handler wrote comes back from its way through coding and decoding, within the
\* client's bound, or the client is told why not; it is coded if the client takes one of
\* the server's codings, and in none that the client does not take.  For bodies of any
\* length, bounds, frames and buffers, and the streams of other servers
\* (CodingAssumption); not for a coding refused beside a "*", nor for a gzip stream
\* whose last member is the same as its first (RefusedBesideAny, Twins).
THEOREM CodedDelivered ==
  Spec => [](kind = "coded" => Delivers([i \in 1..wire.length |-> i]) /\ CodedAsPromised)
<1>1. CodingInv =>
        (kind = "coded" => Delivers([i \in 1..wire.length |-> i]) /\ CodedAsPromised)
  <2> SUFFICES ASSUME CodedInv
               PROVE  Delivers([i \in 1..wire.length |-> i]) /\ CodedAsPromised
    BY DEF CodingInv
  <2> DEFINE x == exchange
  <2>1. Delivers([i \in 1..wire.length |-> i])
    BY NumberedIs DEF CodedInv, Delivers
  <2>2. phase # "handler" /\ ~RefusedBesideAny(AcceptEncoding(x)) => Negotiated(x)
    BY NegotiatedIs DEF CodedInv
  <2>3. ASSUME phase = "done"
        PROVE  IF result.ok THEN Size(result.stream) <= x.cap /\ (~Twins(x) => Returned(x))
               ELSE Excused(x)
    <3>1. x \in Exchanges /\ OnTheWire(x)
      BY <2>3 DEF CodedInv
    <3>2. CASE body = "failed" /\ result = Failed
      BY <3>2 DEF Failed, Excused
    <3>3. CASE body = "ended" /\ result = Decoded(x)
      <4>1. wire.length <= x.cap
        BY <3>3 DEF CodedInv
      <4> QED  BY <3>1, <3>3, <4>1, DecodedIs
    <3> QED  BY <2>3, <3>2, <3>3 DEF CodedInv
  <2> QED  BY <2>1, <2>2, <2>3 DEF CodedAsPromised
<1> QED  BY InitCoding, NextCoding, <1>1, PTL DEF Spec

-----------------------------------------------------------------------------
(* Recursion                                                                *)

LEMMA Induction ==
  ASSUME NEW T, 0 \in T, \A n \in Nat : n \in T => n + 1 \in T
  PROVE  \A n \in Nat : n \in T
<1> DEFINE less == {ss \in Nat \X Nat : ss[1] < ss[2]}
           rest == {n \in Nat : n \notin T}
<1> SUFFICES ASSUME rest # {} PROVE FALSE
  OBVIOUS
<1>1. IsWellFoundedOn(less, Nat)
  BY NatLessThanWellFounded DEF OpToRel
<1>2. rest \subseteq Nat
  OBVIOUS
<1>3. PICK x \in rest : \A y \in rest : <<y, x>> \notin less
  <2> HIDE DEF rest, less
  <2> QED  BY <1>1, <1>2, WFMin
<1>4. x \in Nat /\ x # 0
  OBVIOUS
<1>5. x - 1 \notin rest
  <2>1. <<x - 1, x>> \in less
    BY <1>4
  <2> QED  BY <1>3, <2>1
<1> QED  BY <1>4, <1>5

\* A step H can be iterated from b: what the recursive functions below have in common.
Iterates(g, H, b, N) == g[0] = b /\ \A n \in 1..N : g[n] = H[<<g[n - 1], n>>]

LEMMA IterationExists ==
  ASSUME NEW X, NEW b \in X, NEW N \in Nat, NEW H,
         \A x \in X, n \in Nat : H[<<x, n>>] \in X
  PROVE  \E g \in [0..N -> X] : Iterates(g, H, b, N)
<1> DEFINE U == {n \in Nat : \E g \in [0..n -> X] : Iterates(g, H, b, n)}
<1>1. 0 \in U
  <2> DEFINE g == [k \in 0..0 |-> b]
  <2>1. g \in [0..0 -> X] /\ g[0] = b /\ 1..0 = {}
    OBVIOUS
  <2> HIDE DEF g
  <2> QED  BY <2>1 DEF Iterates
<1>2. ASSUME NEW n \in Nat, n \in U PROVE n + 1 \in U
  <2>1. PICK g \in [0..n -> X] : Iterates(g, H, b, n)
    BY <1>2
  <2> DEFINE f == [k \in 0..(n + 1) |-> IF k = n + 1 THEN H[<<g[n], n + 1>>] ELSE g[k]]
  <2>2. H[<<g[n], n + 1>>] \in X
    OBVIOUS
  <2>3. f \in [0..(n + 1) -> X]
    BY <2>2
  <2>4. f[n + 1] = H[<<g[n], n + 1>>] /\ \A k \in 0..n : f[k] = g[k]
    OBVIOUS
  <2> HIDE DEF f
  <2>5. f[0] = b
    BY <2>1, <2>4 DEF Iterates
  <2>6. ASSUME NEW k \in 1..(n + 1) PROVE f[k] = H[<<f[k - 1], k>>]
    <3>1. CASE k = n + 1
      BY <2>4, <3>1
    <3>2. CASE k # n + 1
      <4>1. k \in 1..n /\ k \in 0..n /\ k - 1 \in 0..n
        BY <3>2
      <4> QED  BY <2>1, <2>4, <4>1 DEF Iterates
    <3> QED  BY <3>1, <3>2
  <2> QED  BY <2>3, <2>5, <2>6 DEF Iterates
<1>3. N \in U
  <2> HIDE DEF U
  <2> QED  BY <1>1, <1>2, Induction
<1> QED  BY <1>3

-----------------------------------------------------------------------------
(* A file's place in the root                                               *)

\* A path by its text, and where it leads, position by position.
Texts(p, g) == \A n \in 0..Len(p) : g[n] = IF n = 0 THEN <<>> ELSE Keep(g[n - 1], p[n])
Ways(p, g) == \A n \in 1..Len(p) : g[n] = IF n = 1 THEN <<"/">> ELSE Down(g[n - 1], p[n])

LEMMA KeepIs ==
  ASSUME NEW S, NEW s \in Seq(S), NEW c \in S
  PROVE  Keep(s, c) \in Seq(S)
<1>1. <<>> \in Seq(S)
  OBVIOUS
<1>2. s # <<>> => Front(s) \in Seq(S)
  BY DEF Front
<1> QED  BY <1>1, <1>2 DEF Keep

LEMMA DownIs ==
  ASSUME NEW S, NEW s \in Seq(S), NEW c \in S
  PROVE  Down(s, c) \in Seq(S)
<1>1. <<>> \in Seq(S)
  OBVIOUS
<1>2. Len(s) > 1 => Front(s) \in Seq(S)
  BY DEF Front
<1> QED  BY <1>1, <1>2 DEF Down

LEMMA LexicalIs ==
  ASSUME NEW p \in Seq(STRING)
  PROVE  \E g \in [0..Len(p) -> Seq(STRING)] : Texts(p, g) /\ Lexical(p) = g[Len(p)]
<1> DEFINE N == Len(p)
           X == Seq(STRING)
           H == [z \in X \X Nat |-> IF z[2] \in 1..N THEN Keep(z[1], p[z[2]]) ELSE z[1]]
           P(g) == g = [n \in 0..N |-> IF n = 0 THEN <<>> ELSE Keep(g[n - 1], p[n])]
           g == CHOOSE g : P(g)
<1>0. N \in Nat /\ <<>> \in X
  <2>1. \A S : <<>> \in Seq(S)
    OBVIOUS
  <2> QED  BY <2>1
<1>1. \A x \in X, n \in Nat : H[<<x, n>>] = IF n \in 1..N THEN Keep(x, p[n]) ELSE x
  <2> HIDE DEF X, N
  <2> QED  OBVIOUS
<1>2. \A x \in X, n \in Nat : H[<<x, n>>] \in X
  <2> SUFFICES ASSUME NEW x \in X, NEW n \in Nat, n \in 1..N PROVE Keep(x, p[n]) \in X
    BY <1>1
  <2>1. p[n] \in STRING
    OBVIOUS
  <2> QED  BY <2>1, KeepIs
<1> HIDE DEF H, X
<1>3. PICK k \in [0..N -> X] : Iterates(k, H, <<>>, N)
  BY <1>0, <1>2, IterationExists
<1>4. \A n \in 0..N : k[n] = IF n = 0 THEN <<>> ELSE Keep(k[n - 1], p[n])
  <2> TAKE n \in 0..N
  <2>1. CASE n = 0
    BY <1>3, <2>1 DEF Iterates
  <2>2. CASE n # 0
    <3>1. n \in 1..N /\ n - 1 \in 0..N /\ n \in Nat
      BY <1>0, <2>2
    <3>2. k[n] = H[<<k[n - 1], n>>] /\ k[n - 1] \in X
      BY <1>3, <3>1 DEF Iterates
    <3> QED  BY <1>1, <2>2, <3>1, <3>2
  <2> QED  BY <2>1, <2>2
<1>5. P(k)
  <2>1. k = [n \in 0..N |-> k[n]]
    OBVIOUS
  <2> QED  BY <1>4, <2>1
<1>6. P(g)
  <2> HIDE DEF P
  <2> QED  BY <1>5
<1> HIDE DEF g
<1>7. Texts(p, g) /\ DOMAIN g = 0..N
  BY <1>6 DEF Texts
<1> DEFINE U == {n \in Nat : n <= N => g[n] \in X}
<1>8. 0 \in U
  BY <1>0, <1>7 DEF Texts
<1>9. ASSUME NEW n \in Nat, n \in U PROVE n + 1 \in U
  <2> SUFFICES ASSUME n + 1 <= N PROVE g[n + 1] \in X
    OBVIOUS
  <2>1. n + 1 \in 0..N /\ n + 1 # 0 /\ n + 1 - 1 = n /\ g[n] \in X /\ n + 1 \in 1..N
    BY <1>0, <1>9
  <2>2. g[n + 1] = Keep(g[n], p[n + 1])
    BY <1>7, <2>1 DEF Texts
  <2>3. p[n + 1] \in STRING
    BY <2>1
  <2> QED  BY <2>1, <2>2, <2>3, KeepIs DEF X
<1>10. \A n \in 0..N : g[n] \in X
  <2>1. \A n \in Nat : n \in U
    <3> HIDE DEF U
    <3> QED  BY <1>8, <1>9, Induction
  <2> QED  BY <1>0, <2>1
<1>11. g \in [0..N -> X]
  BY <1>6, <1>10
<1>12. Lexical(p) = g[N]
  BY DEF Lexical, g
<1> QED  BY <1>7, <1>11, <1>12 DEF X

LEMMA WalkIs ==
  ASSUME NEW p \in Seq(STRING), p # <<>>
  PROVE  \E g \in [1..Len(p) -> Seq(STRING)] : Ways(p, g) /\ Walk(p) = g[Len(p)]
<1> DEFINE N == Len(p)
           X == Seq(STRING)
           H == [z \in X \X Nat |->
                   IF z[2] + 1 \in 1..N THEN Down(z[1], p[z[2] + 1]) ELSE z[1]]
           P(g) == g = [n \in 1..N |-> IF n = 1 THEN <<"/">> ELSE Down(g[n - 1], p[n])]
           g == CHOOSE g : P(g)
<1>0. N \in Nat /\ N - 1 \in Nat /\ N >= 1 /\ <<"/">> \in X
  <2>1. \A S : \A s \in S : <<s>> \in Seq(S)
    OBVIOUS
  <2>2. "/" \in STRING
    BY RootAssumption
  <2>3. <<"/">> \in X
    BY <2>1, <2>2, Zenon
  <2>4. Len(p) \in Nat /\ Len(p) # 0
    OBVIOUS
  <2> QED  BY <2>3, <2>4
<1>1. \A x \in X, n \in Nat :
        H[<<x, n>>] = IF n + 1 \in 1..N THEN Down(x, p[n + 1]) ELSE x
  <2> HIDE DEF X, N
  <2> QED  OBVIOUS
<1>2. \A x \in X, n \in Nat : H[<<x, n>>] \in X
  <2> SUFFICES ASSUME NEW x \in X, NEW n \in Nat, n + 1 \in 1..N
               PROVE  Down(x, p[n + 1]) \in X
    BY <1>1
  <2>1. p[n + 1] \in STRING
    OBVIOUS
  <2> QED  BY <2>1, DownIs
<1> HIDE DEF H, X
<1>3. PICK k \in [0..(N - 1) -> X] : Iterates(k, H, <<"/">>, N - 1)
  BY <1>0, <1>2, IterationExists
<1> DEFINE f == [n \in 1..N |-> k[n - 1]]
<1>4. ASSUME NEW n \in 1..N
      PROVE  f[n] = IF n = 1 THEN <<"/">> ELSE Down(f[n - 1], p[n])
  <2>1. CASE n = 1
    BY <1>3, <2>1 DEF Iterates
  <2>2. CASE n # 1
    <3>1. /\ n - 1 \in 1..(N - 1) /\ n - 1 - 1 \in 0..(N - 1) /\ n - 1 \in Nat
          /\ n - 1 + 1 = n /\ n - 1 \in 1..N
      BY <1>0, <2>2
    <3>2. k[n - 1] = H[<<k[n - 1 - 1], n - 1>>] /\ k[n - 1 - 1] \in X
      BY <1>3, <3>1 DEF Iterates
    <3>3. k[n - 1] = Down(k[n - 1 - 1], p[n])
      BY <1>1, <3>1, <3>2
    <3> QED  BY <2>2, <3>1, <3>3
  <2> QED  BY <2>1, <2>2
<1>5. P(f)
  <2> DEFINE r == [n \in 1..N |-> IF n = 1 THEN <<"/">> ELSE Down(f[n - 1], p[n])]
  <2>1. DOMAIN f = 1..N /\ f = [n \in 1..N |-> f[n]]
    OBVIOUS
  <2> HIDE DEF f
  <2> QED  BY <1>4, <2>1
<1> HIDE DEF f
<1>6. P(g)
  <2> HIDE DEF P
  <2> QED  BY <1>5
<1> HIDE DEF g
<1>7. Ways(p, g) /\ DOMAIN g = 1..N
  BY <1>6 DEF Ways
<1> DEFINE U == {n \in Nat : n + 1 <= N => g[n + 1] \in X}
<1>8. 0 \in U
  BY <1>0, <1>7 DEF Ways
<1>9. ASSUME NEW n \in Nat, n \in U PROVE n + 1 \in U
  <2> SUFFICES ASSUME n + 2 <= N PROVE g[n + 2] \in X
    BY <1>0
  <2>1. n + 2 \in 1..N /\ n + 2 # 1 /\ n + 2 - 1 = n + 1 /\ g[n + 1] \in X
    BY <1>0, <1>9
  <2>2. g[n + 2] = Down(g[n + 1], p[n + 2])
    BY <1>7, <2>1 DEF Ways
  <2>3. p[n + 2] \in STRING
    BY <2>1
  <2> QED  BY <2>1, <2>2, <2>3, DownIs DEF X
<1>10. \A n \in 1..N : g[n] \in X
  <2>1. \A n \in Nat : n \in U
    <3> HIDE DEF U
    <3> QED  BY <1>8, <1>9, Induction
  <2> TAKE n \in 1..N
  <2>2. n - 1 \in Nat /\ n - 1 + 1 = n /\ n <= N
    BY <1>0
  <2>3. n - 1 \in U
    BY <2>1, <2>2
  <2> QED  BY <2>2, <2>3
<1>11. g \in [1..N -> X]
  BY <1>6, <1>10
<1>12. Walk(p) = g[N]
  BY DEF Walk, g
<1> QED  BY <1>7, <1>11, <1>12 DEF X

\* The disk and the text agree on a path, or it leads nowhere, or its text has lost the
\* "/" it began with, by more ".." than there was to take away.
Agree(a, b) == a = <<>> \/ a = b \/ b = <<>> \/ b[1] # "/"

LEMMA StepAgrees ==
  ASSUME NEW S, NEW a \in Seq(S), NEW b \in Seq(S), NEW c \in S, c # "/", Agree(a, b)
  PROVE  Agree(Down(a, c), Keep(b, c))
<1>1. CASE a \notin Directories
  BY <1>1 DEF Agree, Down
<1>2. CASE a \in Directories
  <2>0. Root \in Seq(STRING) /\ Len(Root) \in Nat
    BY RootAssumption
  <2>1. a # <<>>
    <3>1. \A n \in 1..Len(Root) : SubSeq(Root, 1, n) # <<>>
      BY <2>0
    <3>2. Append(Root, "dir") # <<>>
      BY <2>0
    <3> QED  BY <1>2, <3>1, <3>2 DEF Directories
  <2>2. CASE b = <<>>
    BY <2>2 DEF Keep, Agree
  <2>3. CASE b # <<>> /\ b[1] # "/"
    <3>1. c # ".." => Append(b, c)[1] = b[1] /\ Append(b, c) # <<>>
      BY <2>3
    <3>2. Front(b) = <<>> \/ Front(b)[1] = b[1]
      BY <2>3 DEF Front
    <3> QED  BY <2>3, <3>1, <3>2 DEF Keep, Agree
  <2>4. CASE a = b /\ c # ".."
    BY <1>2, <2>4 DEF Keep, Down, Agree
  <2>5. CASE a = b /\ c = ".."
    <3>1. CASE Len(a) > 1
      BY <1>2, <2>1, <2>5, <3>1 DEF Keep, Down, Agree
    <3>2. CASE ~(Len(a) > 1)
      <4>1. Front(b) = <<>>
        BY <2>1, <2>5, <3>2 DEF Front
      <4> QED  BY <2>1, <2>5, <4>1 DEF Keep, Agree
    <3> QED  BY <3>1, <3>2
  <2> QED  BY <2>1, <2>2, <2>3, <2>4, <2>5 DEF Agree
<1> QED  BY <1>1, <1>2

LEMMA WalkAgrees ==
  ASSUME NEW p \in Seq(STRING), p # <<>>, p[1] = "/", \A n \in 2..Len(p) : p[n] # "/"
  PROVE  Agree(Walk(p), Lexical(p))
<1> DEFINE N == Len(p)
<1>0. N \in Nat /\ N >= 1
  OBVIOUS
<1>1. PICK g \in [0..N -> Seq(STRING)] : Texts(p, g) /\ Lexical(p) = g[N]
  BY LexicalIs
<1>2. PICK f \in [1..N -> Seq(STRING)] : Ways(p, f) /\ Walk(p) = f[N]
  BY WalkIs
<1> DEFINE U == {n \in Nat : n + 1 <= N => Agree(f[n + 1], g[n + 1])}
<1>3. 0 \in U
  <2>1. f[1] = <<"/">>
    BY <1>0, <1>2 DEF Ways
  <2>2. g[0] = <<>> /\ g[1] = Keep(g[0], p[1])
    BY <1>0, <1>1 DEF Texts
  <2>3. g[1] = <<"/">>
    BY <2>2 DEF Keep
  <2> QED  BY <2>1, <2>3 DEF Agree
<1>4. ASSUME NEW n \in Nat, n \in U PROVE n + 1 \in U
  <2> SUFFICES ASSUME n + 2 <= N PROVE Agree(f[n + 2], g[n + 2])
    BY <1>0
  <2>1. /\ n + 2 \in 1..N /\ n + 2 \in 2..N /\ n + 2 # 1 /\ n + 2 # 0 /\ n + 2 - 1 = n + 1
        /\ n + 1 \in 1..N /\ n + 1 \in 0..N /\ n + 2 \in 0..N
    BY <1>0
  <2>2. f[n + 2] = Down(f[n + 1], p[n + 2]) /\ g[n + 2] = Keep(g[n + 1], p[n + 2])
    BY <1>1, <1>2, <2>1 DEF Ways, Texts
  <2>3. p[n + 2] \in STRING /\ p[n + 2] # "/" /\ Agree(f[n + 1], g[n + 1])
    BY <1>4, <2>1
  <2>4. f[n + 1] \in Seq(STRING) /\ g[n + 1] \in Seq(STRING)
    BY <2>1
  <2> QED  BY <2>2, <2>3, <2>4, StepAgrees
<1>5. N - 1 \in U
  <2> HIDE DEF U
  <2> QED  BY <1>0, <1>3, <1>4, Induction
<1> QED  BY <1>0, <1>1, <1>2, <1>5

\* Without ".." all of a path remains.
LEMMA PlainRemains ==
  ASSUME NEW p \in Seq(STRING), \A n \in 1..Len(p) : p[n] # ".."
  PROVE  Lexical(p) = p
<1> DEFINE N == Len(p)
<1>0. N \in Nat
  OBVIOUS
<1>1. PICK g \in [0..N -> Seq(STRING)] : Texts(p, g) /\ Lexical(p) = g[N]
  BY LexicalIs
<1> DEFINE U == {n \in Nat : n <= N => g[n] = SubSeq(p, 1, n)}
<1>2. 0 \in U
  BY <1>0, <1>1 DEF Texts
<1>3. ASSUME NEW n \in Nat, n \in U PROVE n + 1 \in U
  <2> SUFFICES ASSUME n + 1 <= N PROVE g[n + 1] = SubSeq(p, 1, n + 1)
    OBVIOUS
  <2>1. n + 1 \in 0..N /\ n + 1 # 0 /\ n + 1 - 1 = n /\ n + 1 \in 1..N
    BY <1>0
  <2>2. g[n + 1] = Keep(g[n], p[n + 1]) /\ p[n + 1] # ".."
    BY <1>1, <2>1 DEF Texts
  <2>4. g[n] = SubSeq(p, 1, n)
    BY <1>0, <1>3, <2>1
  <2>5. g[n + 1] = Append(SubSeq(p, 1, n), p[n + 1])
    BY <2>2, <2>4 DEF Keep
  <2>3. Append(SubSeq(p, 1, n), p[n + 1]) = SubSeq(p, 1, n + 1)
    BY <2>1
  <2> QED  BY <2>3, <2>5
<1>4. N \in U
  <2> HIDE DEF U
  <2> QED  BY <1>0, <1>2, <1>3, Induction
<1>5. SubSeq(p, 1, N) = p
  OBVIOUS
<1> QED  BY <1>0, <1>1, <1>4, <1>5

LEMMA RootIs ==
  /\ Root \in Seq(STRING) /\ Len(Root) \in Nat /\ Len(Root) > 1
  /\ Root[1] = "/" /\ Root[2] # "stray"
  /\ \A n \in 1..Len(Root) : Root[n] \in STRING /\ Root[n] # ".."
  /\ \A n \in 2..Len(Root) : Root[n] # "/"
<1>1. Root \in Seq(STRING) /\ Len(Root) > 1 /\ Root[1] = "/" /\ Root[2] # "stray"
  BY RootAssumption
<1>2. \A n \in 2..Len(Root) : Root[n] # "/" /\ Root[n] # ".."
  BY RootAssumption DEF Component
<1>3. \A n \in 1..Len(Root) : n = 1 \/ n \in 2..Len(Root)
  BY <1>1
<1>4. \A n \in 1..Len(Root) : Root[n] # ".."
  BY <1>1, <1>2, <1>3
<1> QED  BY <1>1, <1>2, <1>4

\* A path below the root.
LEMMA JoinedIs ==
  ASSUME NEW rel \in Seq(Component)
  PROVE  /\ Root \o rel \in Seq(STRING) /\ Root \o rel # <<>> /\ (Root \o rel)[1] = "/"
         /\ \A n \in 2..Len(Root \o rel) : (Root \o rel)[n] # "/"
         /\ Begins(Root, Root \o rel)
         /\ rel \in Seq(Component \ {".."}) =>
              \A n \in 1..Len(Root \o rel) : (Root \o rel)[n] # ".."
<1> DEFINE p == Root \o rel
<1>1. rel \in Seq(STRING) /\ Len(rel) \in Nat
  <2>1. \A n \in 1..Len(rel) : rel[n] \in STRING
    BY DEF Component
  <2> QED  BY <2>1
<1>2. \A n \in 1..Len(rel) : rel[n] # "/"
  BY DEF Component
<1>3. rel \in Seq(Component \ {".."}) => \A n \in 1..Len(rel) : rel[n] # ".."
  OBVIOUS
<1>4. /\ p \in Seq(STRING) /\ Len(p) = Len(Root) + Len(rel)
      /\ \A n \in 1..Len(Root) : p[n] = Root[n]
      /\ \A n \in 1..Len(p) : n > Len(Root) => p[n] = rel[n - Len(Root)]
  BY <1>1, RootIs
<1> HIDE DEF p
<1>5. \A n \in 1..Len(p) :
        n \in 1..Len(Root) \/ (n > Len(Root) /\ n - Len(Root) \in 1..Len(rel))
  BY <1>1, <1>4, RootIs
<1>6. p # <<>> /\ p[1] = "/" /\ Begins(Root, p)
  BY <1>1, <1>4, RootIs DEF Begins
<1>7. \A n \in 2..Len(p) : p[n] # "/"
  <2> TAKE n \in 2..Len(p)
  <2>1. n \in 1..Len(p) /\ (n \in 1..Len(Root) => n \in 2..Len(Root))
    BY <1>1, <1>4, RootIs
  <2> QED  BY <1>2, <1>4, <1>5, <2>1, RootIs
<1>8. rel \in Seq(Component \ {".."}) => \A n \in 1..Len(p) : p[n] # ".."
  BY <1>3, <1>4, <1>5, RootIs
<1> QED  BY <1>4, <1>6, <1>7, <1>8 DEF p

\* What is below the root by its text is below it on the disk, if it is there at all.
LEMMA SafeStays ==
  ASSUME NEW rel \in Seq(Component), IsPathSafe(Root \o rel)
  PROVE  Walk(Root \o rel) = <<>> \/ IsPrefix(Root, Walk(Root \o rel))
<1> DEFINE p == Root \o rel
           t == Lexical(p)
<1>1. p \in Seq(STRING) /\ p # <<>> /\ p[1] = "/" /\ \A n \in 2..Len(p) : p[n] # "/"
  BY JoinedIs
<1>2. t \in Seq(STRING)
  <2> HIDE DEF p, t
  <2>1. PICK g \in [0..Len(p) -> Seq(STRING)] : t = g[Len(p)]
    BY <1>1, LexicalIs DEF t
  <2>2. Len(p) \in 0..Len(p)
    BY <1>1
  <2> QED  BY <2>1, <2>2
<1>3. Agree(Walk(p), t)
  <2> HIDE DEF p
  <2> QED  BY <1>1, WalkAgrees
<1>4. IsPrefix(Root, t)
  BY DEF IsPathSafe
<1> HIDE DEF p, t
<1>5. Begins(Root, t)
  BY <1>2, <1>4, RootIs, PrefixBegins
<1>6. t # <<>> /\ t[1] = "/"
  <2>1. Len(t) > 1 /\ 1 \in 1..Len(Root)
    BY <1>2, <1>5, RootIs DEF Begins
  <2> QED  BY <1>5, <2>1, RootIs DEF Begins
<1>7. Walk(p) = <<>> \/ Walk(p) = t
  BY <1>3, <1>6 DEF Agree
<1> QED  BY <1>4, <1>7 DEF p

LEMMA PlainSafe ==
  ASSUME NEW rel \in Seq(Component \ {".."})
  PROVE  IsPathSafe(Root \o rel) /\ Walk(Root \o rel) \in {<<>>, Root \o rel}
<1> DEFINE p == Root \o rel
<1>0. rel \in Seq(Component)
  OBVIOUS
<1>1. /\ p \in Seq(STRING) /\ p # <<>> /\ p[1] = "/" /\ \A n \in 2..Len(p) : p[n] # "/"
      /\ Begins(Root, p) /\ \A n \in 1..Len(p) : p[n] # ".."
  BY <1>0, JoinedIs
<1> HIDE DEF p
<1>2. Lexical(p) = p
  BY <1>1, PlainRemains
<1>3. Walk(p) \in {<<>>, p}
  BY <1>1, <1>2, WalkAgrees DEF Agree
<1>4. IsPrefix(Root, p)
  BY <1>1, RootIs, PrefixBegins
<1> QED  BY <1>2, <1>3, <1>4 DEF p, IsPathSafe

LEMMA StrayOutside == ~IsPrefix(Root, Stray) /\ IsPrefix(Root, Page) /\ Page \notin {Link, Root}
<1> DEFINE S == STRING \cup {"/", "page", "stray"}
<1>1. Stray \in Seq(S) /\ Len(Stray) = 2 /\ Stray[2] = "stray"
  <2>1. "/" \in S /\ "stray" \in S
    OBVIOUS
  <2> HIDE DEF S
  <2> QED  BY <2>1 DEF Stray
<1>2. Root \in Seq(S) /\ Page \in Seq(S)
  <2>1. "page" \in S /\ \A n \in 1..Len(Root) : Root[n] \in S
    BY RootIs
  <2> HIDE DEF S
  <2>2. Root \in Seq(S)
    BY <2>1, RootIs
  <2> QED  BY <2>1, <2>2 DEF Page
<1> HIDE DEF S
<1>3. ~Begins(Root, Stray)
  <2>1. 2 \in 1..Len(Root)
    BY RootIs
  <2> QED  BY <1>1, <2>1, RootIs DEF Begins
<1>4. Begins(Root, Page)
  BY RootIs DEF Begins, Page
<1>5. Page \notin {Link, Root}
  <2>1. /\ Page[Len(Root) + 1] = "page" /\ Link[Len(Root) + 1] = "link"
        /\ Len(Page) = Len(Root) + 1
    BY RootIs DEF Page, Link
  <2> QED  BY <2>1, RootIs
<1> QED  BY <1>1, <1>2, <1>3, <1>4, <1>5, RootIs, PrefixBegins

\* A path that hyper or the application names, with what comes of it.
Paths(r) ==
  /\ r.at \in Seq(Component)
  /\ r.index \in Seq(Component \ {".."}) /\ r.fallback \in Seq(Component \ {".."})

Rel(r) == IF r.at = <<>> THEN r.index ELSE r.at

\* Where an outcome o of the request r may lead, the page being a file, a link or none.
Rooted(r, o, page) ==
  /\ o.status = 0 =>
       /\ o.at # <<>> /\ Walk(o.at) # Stray
       /\ r.deny => Resolved(o.at, page) # Stray /\ (Walk(o.at) = Page => page = "file")
  /\ Walk(Root \o Rel(r)) = Page /\ page = "file" =>
       (o.status = 0 => Walk(o.at) = Page) /\ o.status # 404
  /\ o.status = 403 =>
       \/ ".." \in Range(r.at)
       \/ /\ r.deny
          /\ Stray \in {Resolved(Root \o Rel(r), page), Resolved(Root \o r.fallback, page)}

\* A file below the root is served, unless it is a link out of it that is denied.
LEMMA ContainedRooted ==
  ASSUME NEW r, Paths(r), NEW page, NEW rel \in {Rel(r), r.fallback},
         rel \in Seq(Component), IsPathSafe(Root \o rel), IsFile(Root \o rel, page),
         Walk(Root \o Rel(r)) = Page /\ page = "file" => rel = Rel(r)
  PROVE  Rooted(r, Contained(r, Root \o rel, page), page)
<1> DEFINE p == Root \o rel
           o == Contained(r, p, page)
<1>1. p # <<>>
  BY JoinedIs
<1>2. Walk(p) = <<>> \/ IsPrefix(Root, Walk(p))
  BY SafeStays
<1> HIDE DEF p
<1>3. Stray # <<>>
  BY DEF Stray
<1>4. Walk(p) # Stray
  BY <1>2, <1>3, StrayOutside
<1>5. \/ Resolved(p, page) = Stray
      \/ Resolved(p, page) = Page /\ Walk(p) = Page /\ page = "file"
  BY StrayOutside DEF IsFile, Resolved, p
<1>6. ASSUME Resolved(p, page) = Stray PROVE Rooted(r, o, page)
  <2>1. o = IF r.deny THEN Refuse(403) ELSE Serve(p)
    BY <1>6, StrayOutside DEF Contained
  <2>2. CASE r.deny
    <3>1. o.status = 403
      BY <2>1, <2>2 DEF Refuse
    <3>2. Stray \in {Resolved(Root \o Rel(r), page), Resolved(Root \o r.fallback, page)}
      BY <1>6 DEF p
    <3> HIDE DEF o
    <3> QED  BY <2>2, <3>1, <3>2 DEF Rooted
  <2>3. CASE ~r.deny
    <3>1. o.status = 0 /\ o.at = p
      BY <2>1, <2>3 DEF Serve
    <3>2. ~(Walk(Root \o Rel(r)) = Page /\ page = "file")
      BY <1>6, StrayOutside DEF p, Resolved
    <3> HIDE DEF o
    <3> QED  BY <1>1, <1>4, <2>3, <3>1, <3>2 DEF Rooted
  <2> QED  BY <2>2, <2>3
<1>7. ASSUME Resolved(p, page) = Page, Walk(p) = Page, page = "file"
      PROVE  Rooted(r, o, page)
  <2>1. o = Serve(p)
    BY <1>7, StrayOutside DEF Contained
  <2>2. o.status = 0 /\ o.at = p
    BY <2>1 DEF Serve
  <2>3. Page # Stray
    BY StrayOutside
  <2> HIDE DEF o
  <2> QED  BY <1>1, <1>4, <1>7, <2>2, <2>3 DEF Rooted
<1> QED  BY <1>5, <1>6, <1>7 DEF p

LEMMA OutcomeRooted ==
  ASSUME NEW r, Paths(r), r.server = "dir", NEW page
  PROVE  Rooted(r, Outcome(r, page), page)
<1> DEFINE rel == Rel(r)
           joined == Root \o rel
           fallback == Root \o r.fallback
           instead == IF r.fallback # <<>> /\ IsFile(fallback, page)
                        THEN Contained(r, fallback, page) ELSE Refuse(404)
           o == Outcome(r, page)
<1>1. rel \in Seq(Component) /\ r.fallback \in Seq(Component)
  <2>1. \A s \in Seq(Component \ {".."}) : s \in Seq(Component)
    OBVIOUS
  <2> QED  BY <2>1 DEF Paths, Rel
<1>2. ASSUME o.status = 405 PROVE Rooted(r, o, page)
  <2> HIDE DEF o
  <2> QED  BY <1>2 DEF Rooted
<1>3. ASSUME rel = <<>> PROVE Walk(joined) # Page
  <2>1. <<>> \in Seq(Component \ {".."}) /\ Root \o <<>> = Root
    <3>1. \A S : <<>> \in Seq(S)
      OBVIOUS
    <3>2. \A S : \A s \in Seq(S) : s \o <<>> = s
      OBVIOUS
    <3>3. Root \in Seq(STRING)
      BY RootIs
    <3> QED  BY <3>1, <3>2, <3>3
  <2>2. Walk(Root) \in {<<>>, Root}
    BY <2>1, PlainSafe
  <2>3. Page # <<>>
    BY RootIs DEF Page
  <2> QED  BY <1>3, <2>1, <2>2, <2>3, StrayOutside
<1>4. ASSUME o = Refuse(404), rel = <<>> \/ ~IsFile(joined, page)
      PROVE  Rooted(r, o, page)
  <2>1. ~(Walk(joined) = Page /\ page = "file")
    BY <1>3, <1>4 DEF IsFile
  <2>2. o.status = 404
    BY <1>4 DEF Refuse
  <2> HIDE DEF o
  <2> QED  BY <2>1, <2>2 DEF Rooted
<1>5. ASSUME o = Refuse(403), ~IsPathSafe(joined) PROVE Rooted(r, o, page)
  <2>1. rel = r.at /\ r.at \notin Seq(Component \ {".."})
    BY <1>5, PlainSafe DEF Paths, Rel
  <2>2. ".." \in Range(r.at)
    <3>1. r.at \in Seq(Component) /\ r.at \notin Seq(Component \ {".."})
      BY <1>1, <2>1
    <3>2. \E n \in 1..Len(r.at) : r.at[n] = ".."
      BY <3>1
    <3> QED  BY <3>1, <3>2 DEF Range
  <2>3. o.status = 403
    BY <1>5 DEF Refuse
  <2> HIDE DEF o
  <2> QED  BY <2>2, <2>3 DEF Rooted
<1>6. ASSUME o = Contained(r, joined, page), IsPathSafe(joined), IsFile(joined, page)
      PROVE  Rooted(r, o, page)
  BY <1>1, <1>6, ContainedRooted
<1>7. ASSUME o = Contained(r, fallback, page), IsFile(fallback, page),
             rel = <<>> \/ ~IsFile(joined, page)
      PROVE  Rooted(r, o, page)
  <2>1. IsPathSafe(fallback)
    BY PlainSafe DEF Paths
  <2>2. ~(Walk(joined) = Page /\ page = "file")
    BY <1>3, <1>7 DEF IsFile
  <2> QED  BY <1>1, <1>7, <2>1, <2>2, ContainedRooted
<1>8. \/ o.status = 405
      \/ o = Refuse(404) /\ (rel = <<>> \/ ~IsFile(joined, page))
      \/ o = Refuse(403) /\ ~IsPathSafe(joined)
      \/ o = Contained(r, joined, page) /\ IsPathSafe(joined) /\ IsFile(joined, page)
      \/ /\ o = Contained(r, fallback, page) /\ IsFile(fallback, page)
         /\ rel = <<>> \/ ~IsFile(joined, page)
  <2>1. o.status = 405 \/ o = ServeDirectory(r, page)
    <3>1. Refuse(405).status = 405
      BY DEF Refuse
    <3> QED  BY <3>1, Zenon DEF Outcome
  <2>2. \/ rel = <<>> /\ ServeDirectory(r, page) = Refuse(404)
        \/ ~IsPathSafe(joined) /\ ServeDirectory(r, page) = Refuse(403)
        \/ /\ IsPathSafe(joined) /\ IsFile(joined, page)
           /\ ServeDirectory(r, page) = Contained(r, joined, page)
        \/ ~IsFile(joined, page) /\ ServeDirectory(r, page) = instead
    <3> HIDE DEF o
    <3> QED  BY DEF ServeDirectory, Rel
  <2>3. \/ instead = Refuse(404)
        \/ instead = Contained(r, fallback, page) /\ IsFile(fallback, page)
    BY Zenon
  <2> HIDE DEF o, instead, joined, fallback
  <2> QED  BY <2>1, <2>2, <2>3
<1> HIDE DEF o
<1> QED  BY <1>2, <1>4, <1>5, <1>6, <1>7, <1>8 DEF o

\* Until the path is resolved there is neither a status nor a file; with symlink
\* protection it was then that of a file.
Resolution ==
  /\ step = "resolve" => at = <<>> /\ status = 0 /\ handle = 0
  /\ ask.server = "dir" =>
       /\ step \in {"stat", "open"} => at # <<>>
       /\ ask.deny /\ at # <<>> /\ Walk(at) = Page => found = "file"

RootInv == kind = "file" => FromTheRoot /\ Resolution

LEMMA InitRoot == Init => RootInv
<1> SUFFICES ASSUME Init PROVE at = <<>> /\ status = 0 /\ handle = 0 /\ step = "resolve"
  BY FileAssumption DEF RootInv, FromTheRoot, Resolution, StrayInode
<1> QED  BY DEF Init, FileInit

LEMMA AskedPaths == ASSUME Files PROVE Paths(ask)
  BY FileAssumption DEF Files, Paths

LEMMA ResolveRoot ==
  ASSUME Files, Resolution, Resolve
  PROVE  FromTheRoot' /\ Resolution'
<1> DEFINE page == PageIs
           o == Outcome(ask, page)
<1>1. /\ step = "resolve" /\ at = <<>> /\ status = 0 /\ handle = 0
      /\ ask' = ask /\ found' = page
  BY DEF Resolve, Resolution
<1>2. /\ handle' = 0
      /\ \/ o.status # 0 /\ status' = o.status /\ at' = <<>> /\ step' = "answered"
         \/ o.status = 0 /\ status' = 0 /\ at' = o.at /\ step' = "stat"
  BY <1>1 DEF Resolve, AnswerEmpty
<1>3. ask.server = "dir" => Rooted(ask, o, page)
  BY AskedPaths, OutcomeRooted
<1>4. StrayInode # 0
  BY FileAssumption DEF StrayInode
<1> HIDE DEF page, o
<1>5. FromTheRoot'
  BY <1>1, <1>2, <1>3, <1>4 DEF FromTheRoot, Rooted, Rel, StrayInode
<1>6. Resolution'
  BY <1>1, <1>2, <1>3 DEF Resolution, Rooted
<1> QED  BY <1>5, <1>6

LEMMA OtherRoot ==
  ASSUME FromTheRoot, Resolution, UNCHANGED <<ask, at, found, handle>>,
         step' = step \/ (step # "resolve" /\ step' = "answered")
           \/ (step = "stat" /\ step' = "open"),
         status' = status \/ (step # "resolve" /\ status' \in {200, 206, 304, 416, 500})
  PROVE  FromTheRoot' /\ Resolution'
<1>1. FromTheRoot'
  BY DEF FromTheRoot, StrayInode
<1>2. Resolution'
  BY DEF Resolution
<1> QED  BY <1>1, <1>2

\* What is opened lies outside only if a link has come since.
LEMMA OpenRoot ==
  ASSUME Files, FromTheRoot, Resolution, Open
  PROVE  FromTheRoot' /\ Resolution'
<1>1. /\ step = "open" /\ step' = "answered" /\ handle' = InodeAt(at)
      /\ UNCHANGED <<ask, at, found, status>>
  BY DEF Open
<1>2. ASSUME ask.server = "dir", ask.deny, InodeAt(at) = StrayInode
      PROVE  Walk(at) = Page /\ found = "file"
  <2>1. at # <<>> /\ Resolved(at, found) # Stray
    BY <1>1, <1>2 DEF FromTheRoot, Resolution
  <2>2. CASE Walk(at) # Page
    <3>1. Resolved(at, PageIs) = Resolved(at, found)
      BY <2>2 DEF Resolved
    <3>2. InodeAt(at) = 0 /\ StrayInode # 0
      BY <2>1, <2>2, <3>1, FileAssumption DEF InodeAt, StrayInode
    <3> QED  BY <1>2, <3>2
  <2> QED  BY <1>2, <2>1, <2>2 DEF Resolution
<1>3. FromTheRoot'
  <2> USE DEF StrayInode
  <2> QED  BY <1>1, <1>2 DEF FromTheRoot
<1>4. Resolution'
  BY <1>1 DEF Resolution
<1> QED  BY <1>3, <1>4

LEMMA FileRoot ==
  ASSUME Files, FromTheRoot, Resolution, FileNext
  PROVE  FromTheRoot' /\ Resolution'
<1>1. CASE Resolve
  BY <1>1, ResolveRoot
<1>2. CASE Stat
  <2>1. /\ step = "stat" /\ UNCHANGED <<ask, at, found, handle>>
        /\ step' \in {"open", "answered"} /\ status' \in {200, 206, 304, 416}
    BY <1>2, Zenon DEF Stat, AnswerEmpty, Offer
  <2> QED  BY <2>1, OtherRoot
<1>3. CASE Open
  BY <1>3, OpenRoot
<1>4. CASE Missing
  BY <1>4, OtherRoot DEF Missing, AnswerEmpty
<1>5. CASE ReadChunk \/ ReadEnd \/ ReadError
  BY <1>5, OtherRoot DEF ReadChunk, ReadEnd, ReadError
<1>6. CASE AppendToFile \/ Truncate \/ ReplaceFile
  BY <1>6, OtherRoot DEF AppendToFile, Truncate, ReplaceFile, Edit
<1>7. CASE RemoveFile \/ LinkFile
  BY <1>7, OtherRoot DEF RemoveFile, LinkFile, PathLeadsTo
<1>8. CASE FileLosesClient
  BY <1>8, OtherRoot DEF FileLosesClient, fileVars
<1> QED  BY <1>1, <1>2, <1>3, <1>4, <1>5, <1>6, <1>7, <1>8 DEF FileNext

LEMMA NextRoot == Inv /\ RootInv /\ [Next]_vars => RootInv'
<1> SUFFICES ASSUME Inv, RootInv, [Next]_vars, kind' = "file"
             PROVE  FromTheRoot' /\ Resolution'
  BY DEF RootInv
<1>1. kind = "file" /\ (FileNext \/ UNCHANGED fileVars)
  BY DEF Next, Events, File, Form, Coding, OfEvents, OfFile, OfForm, OfCoded, vars
<1>2. Files /\ FromTheRoot /\ Resolution
  BY <1>1 DEF Inv, RootInv
<1>3. CASE UNCHANGED fileVars
  BY <1>2, <1>3, OtherRoot DEF fileVars
<1> QED  BY <1>1, <1>2, <1>3, FileRoot

\* What a directory serves is the file in the root that was asked for, by whatever path;
\* one outside only through a link, and with symlink protection only through one that
\* takes the file's place after the path was checked; nothing is forbidden that stays
\* within, and what is there is found (ServeDir::serve, is_path_safe).
THEOREM ServedFromRoot == Spec => [](kind = "file" => FromTheRoot)
<1>1. RootInv => (kind = "file" => FromTheRoot)
  BY DEF RootInv
<1> QED  BY InitInv, NextInv, InitRoot, NextRoot, <1>1, PTL DEF Spec

-----------------------------------------------------------------------------
(* Flattening                                                               *)

Flattens(ss, g) == \A n \in 1..Len(ss) : g[n] = IF n = 1 THEN ss[1] ELSE g[n - 1] \o ss[n]

LEMMA FlattensAt ==
  ASSUME NEW ss, NEW g, Flattens(ss, g)
  PROVE  1 \in 1..Len(ss) => g[1] = ss[1]
  BY Zenon DEF Flattens

LEMMA FlattensNext ==
  ASSUME NEW ss, NEW g, Flattens(ss, g), NEW n \in Nat, n + 2 \in 1..Len(ss)
  PROVE  g[n + 2] = g[n + 1] \o ss[n + 2]
<1>1. PICK k : k = n + 2
  OBVIOUS
<1>2. PICK m : m = n + 1
  OBVIOUS
<1>3. k \in 1..Len(ss) /\ k # 1 /\ m = k - 1
  BY <1>1, <1>2
<1>4. g[k] = g[m] \o ss[k]
  BY <1>3, Zenon DEF Flattens
<1> QED  BY <1>1, <1>2, <1>4

LEMMA JoinIs ==
  ASSUME NEW S, NEW s \in Seq(S), NEW t \in Seq(S)
  PROVE  s \o t \in Seq(S)
OBVIOUS

LEMMA FlattenIs ==
  ASSUME NEW S, NEW ss \in Seq(Seq(S)), ss # <<>>
  PROVE  \E g \in [1..Len(ss) -> Seq(S)] : Flattens(ss, g) /\ FlattenSeq(ss) = g[Len(ss)]
<1> DEFINE N == Len(ss)
           X == Seq(S)
           H == [z \in X \X Nat |->
                   IF z[2] + 1 \in 1..N THEN z[1] \o ss[z[2] + 1] ELSE z[1]]
           P(g) == g = [n \in 1..N |-> IF n = 1 THEN ss[n] ELSE g[n - 1] \o ss[n]]
           g == CHOOSE g : P(g)
<1>0. N \in Nat /\ N - 1 \in Nat /\ N >= 1 /\ \A n \in 1..N : ss[n] \in X
  OBVIOUS
<1>1. \A x \in X, n \in Nat :
        H[<<x, n>>] = IF n + 1 \in 1..N THEN x \o ss[n + 1] ELSE x
  <2> HIDE DEF X, N
  <2> QED  OBVIOUS
<1>2. \A x \in X, n \in Nat : H[<<x, n>>] \in X
  <2> SUFFICES ASSUME NEW x \in X, NEW n \in Nat, n + 1 \in 1..N
               PROVE  x \o ss[n + 1] \in X
    BY <1>1
  <2>1. ss[n + 1] \in X
    BY <1>0
  <2> QED  BY <2>1, JoinIs
<1>a. ss[1] \in X
  BY <1>0
<1> HIDE DEF H, X
<1>3. PICK k \in [0..(N - 1) -> X] : Iterates(k, H, ss[1], N - 1)
  BY <1>0, <1>2, <1>a, IterationExists
<1> DEFINE f == [n \in 1..N |-> k[n - 1]]
<1>4. ASSUME NEW n \in 1..N
      PROVE  f[n] = IF n = 1 THEN ss[n] ELSE f[n - 1] \o ss[n]
  <2>1. CASE n = 1
    BY <1>3, <2>1 DEF Iterates
  <2>2. CASE n # 1
    <3>1. /\ n - 1 \in 1..(N - 1) /\ n - 1 - 1 \in 0..(N - 1) /\ n - 1 \in Nat
          /\ n - 1 + 1 = n /\ n - 1 \in 1..N
      BY <1>0, <2>2
    <3>2. k[n - 1] = H[<<k[n - 1 - 1], n - 1>>] /\ k[n - 1 - 1] \in X
      BY <1>3, <3>1 DEF Iterates
    <3>3. k[n - 1] = k[n - 1 - 1] \o ss[n]
      BY <1>1, <3>1, <3>2
    <3> QED  BY <2>2, <3>1, <3>3
  <2> QED  BY <2>1, <2>2
<1>5. P(f)
  <2>1. f = [n \in 1..N |-> f[n]]
    OBVIOUS
  <2> HIDE DEF f
  <2> QED  BY <1>4, <2>1
<1> HIDE DEF f
<1>6. P(g)
  <2> HIDE DEF P
  <2> QED  BY <1>5
<1> HIDE DEF g
<1>7. Flattens(ss, g) /\ DOMAIN g = 1..N
  BY <1>6 DEF Flattens
<1> DEFINE U == {n \in Nat : n + 1 <= N => g[n + 1] \in X}
<1>8. 0 \in U
  BY <1>0, <1>7 DEF Flattens
<1>9. ASSUME NEW n \in Nat, n \in U PROVE n + 1 \in U
  <2> SUFFICES ASSUME n + 2 <= N PROVE g[n + 2] \in X
    BY <1>0
  <2>1. n + 2 \in 1..N /\ n + 2 # 1 /\ n + 2 - 1 = n + 1 /\ g[n + 1] \in X
    BY <1>0, <1>9
  <2>2. g[n + 2] = g[n + 1] \o ss[n + 2]
    BY <1>7, <2>1, FlattensNext
  <2> QED  BY <1>0, <2>1, <2>2, JoinIs DEF X
<1>10. \A n \in 1..N : g[n] \in X
  <2>1. \A n \in Nat : n \in U
    <3> HIDE DEF U
    <3> QED  BY <1>8, <1>9, Induction
  <2> TAKE n \in 1..N
  <2>2. n - 1 \in Nat /\ n - 1 + 1 = n /\ n <= N
    BY <1>0
  <2>3. n - 1 \in U
    BY <2>1, <2>2
  <2> QED  BY <2>2, <2>3
<1>11. g \in [1..N -> X]
  BY <1>6, <1>10
<1>12. FlattenSeq(ss) = g[N]
  BY <1>0 DEF FlattenSeq, g
<1> QED  BY <1>7, <1>11, <1>12 DEF X

LEMMA FlattenNone == FlattenSeq(<<>>) = <<>> /\ \A S : <<>> \in Seq(S)
<1>1. Len(<<>>) = 0
  OBVIOUS
<1> QED  BY <1>1 DEF FlattenSeq

LEMMA FlattenType ==
  ASSUME NEW S, NEW ss \in Seq(Seq(S))
  PROVE  FlattenSeq(ss) \in Seq(S)
<1>1. CASE ss = <<>>
  BY <1>1, FlattenNone
<1>2. CASE ss # <<>>
  <2>1. PICK g \in [1..Len(ss) -> Seq(S)] : FlattenSeq(ss) = g[Len(ss)]
    BY <1>2, FlattenIs
  <2>2. Len(ss) \in 1..Len(ss)
    BY <1>2
  <2> QED  BY <2>1, <2>2
<1> QED  BY <1>1, <1>2

LEMMA JoinNone == ASSUME NEW S, NEW s \in Seq(S) PROVE <<>> \o s = s /\ s \o <<>> = s
OBVIOUS

LEMMA JoinJoins ==
  ASSUME NEW S, NEW s \in Seq(S), NEW t \in Seq(S), NEW u \in Seq(S)
  PROVE  (s \o t) \o u = s \o (t \o u)
OBVIOUS

LEMMA FlattenAppend ==
  ASSUME NEW S, NEW ss \in Seq(Seq(S)), NEW s \in Seq(S)
  PROVE  FlattenSeq(Append(ss, s)) = FlattenSeq(ss) \o s
<1> DEFINE X == Seq(S)
           tt == Append(ss, s)
           N == Len(ss)
<1> HIDE DEF X
<1>0. /\ tt \in Seq(X) /\ tt # <<>> /\ Len(tt) = N + 1 /\ N \in Nat
      /\ tt[N + 1] = s /\ \A n \in 1..N : tt[n] = ss[n]
  <2>1. tt \in Seq(X) /\ Len(tt) = N + 1 /\ N \in Nat
    BY DEF X
  <2>2. tt[N + 1] = s /\ \A n \in 1..N : tt[n] = ss[n]
    BY DEF X
  <2>3. tt # <<>>
    BY <2>1
  <2> QED  BY <2>1, <2>2, <2>3
<1> HIDE DEF tt
<1>1. PICK f \in [1..N + 1 -> X] : Flattens(tt, f) /\ FlattenSeq(tt) = f[N + 1]
  BY <1>0, FlattenIs DEF X
<1>2. CASE ss = <<>>
  <2>1. f[1] = tt[1] /\ N = 0
    <3>1. 1 \in 1..Len(tt)
      BY <1>0
    <3> QED  BY <1>1, <1>2, <3>1, FlattensAt
  <2> QED  BY <1>0, <1>1, <1>2, <2>1, FlattenNone, JoinNone DEF tt
<1>3. CASE ss # <<>>
  <2>1. PICK g \in [1..N -> X] : Flattens(ss, g) /\ FlattenSeq(ss) = g[N]
    BY <1>3, FlattenIs DEF X
  <2>0. N >= 1
    BY <1>3
  <2> DEFINE U == {n \in Nat : n + 1 <= N => f[n + 1] = g[n + 1]}
  <2>2. 0 \in U
    <3>1. 1 \in 1..Len(tt) /\ 1 \in 1..N /\ tt[1] = ss[1]
      BY <1>0, <2>0
    <3>2. f[1] = tt[1] /\ g[1] = ss[1]
      BY <1>1, <2>1, <3>1, FlattensAt, Zenon
    <3>3. f[0 + 1] = g[0 + 1]
      BY <3>1, <3>2
    <3> QED  BY <3>3
  <2>3. ASSUME NEW n \in Nat, n \in U PROVE n + 1 \in U
    <3> SUFFICES ASSUME n + 2 <= N PROVE f[n + 2] = g[n + 2]
      BY <1>0
    <3>1. n + 2 \in 1..N /\ n + 2 \in 1..Len(tt) /\ n + 2 # 1 /\ n + 2 - 1 = n + 1
      BY <1>0
    <3>2. f[n + 2] = f[n + 1] \o tt[n + 2] /\ g[n + 2] = g[n + 1] \o ss[n + 2]
      BY <1>1, <2>1, <3>1, FlattensNext
    <3>3. f[n + 1] = g[n + 1]
      BY <1>0, <2>3
    <3> QED  BY <1>0, <3>1, <3>2, <3>3
  <2>4. N - 1 \in U
    <3>1. N - 1 \in Nat
      BY <1>0, <2>0
    <3> HIDE DEF U
    <3> QED  BY <2>2, <2>3, <3>1, Induction
  <2>5. f[N] = g[N]
    BY <1>0, <2>0, <2>4
  <2>6. f[N + 1] = f[N] \o s
    <3>1. N - 1 \in Nat /\ N - 1 + 2 \in 1..Len(tt) /\ N - 1 + 2 = N + 1 /\ N - 1 + 1 = N
      BY <1>0, <2>0
    <3>2. f[N - 1 + 2] = f[N - 1 + 1] \o tt[N - 1 + 2]
      BY <1>1, <3>1, FlattensNext
    <3> QED  BY <1>0, <3>1, <3>2
  <2> QED  BY <1>1, <2>1, <2>5, <2>6 DEF tt
<1> QED  BY <1>2, <1>3

LEMMA FirstOnes ==
  ASSUME NEW S, NEW t \in Seq(S)
  PROVE  /\ SubSeq(t, 1, 0) = <<>> /\ SubSeq(t, 1, Len(t)) = t
         /\ \A n \in Nat : n + 1 <= Len(t) =>
              /\ SubSeq(t, 1, n) \in Seq(S) /\ t[n + 1] \in S
              /\ SubSeq(t, 1, n + 1) = Append(SubSeq(t, 1, n), t[n + 1])
<1>1. SubSeq(t, 1, 0) = <<>>
  OBVIOUS
<1>2. SubSeq(t, 1, Len(t)) = t
  OBVIOUS
<1>3. ASSUME NEW n \in Nat, n + 1 <= Len(t)
      PROVE  /\ SubSeq(t, 1, n) \in Seq(S) /\ t[n + 1] \in S
             /\ SubSeq(t, 1, n + 1) = Append(SubSeq(t, 1, n), t[n + 1])
  BY <1>3
<1> QED  BY <1>1, <1>2, <1>3

LEMMA JoinAppend ==
  ASSUME NEW S, NEW s \in Seq(S), NEW t \in Seq(S), NEW e \in S
  PROVE  s \o Append(t, e) = Append(s \o t, e)
OBVIOUS

LEMMA FlattenJoin ==
  ASSUME NEW S, NEW ss \in Seq(Seq(S)), NEW tt \in Seq(Seq(S))
  PROVE  FlattenSeq(ss \o tt) = FlattenSeq(ss) \o FlattenSeq(tt)
<1> DEFINE X == Seq(S)
           of(n) == SubSeq(tt, 1, n)
           U == {n \in Nat : n <= Len(tt) =>
                   FlattenSeq(ss \o of(n)) = FlattenSeq(ss) \o FlattenSeq(of(n))}
<1> HIDE DEF X
<1>0. ss \in Seq(X) /\ tt \in Seq(X) /\ Len(tt) \in Nat
  BY DEF X
<1>1. 0 \in U
  <2>1. of(0) = <<>> /\ FlattenSeq(<<>>) = <<>>
    BY <1>0, FirstOnes, FlattenNone
  <2>2. FlattenSeq(ss) \in Seq(S)
    BY FlattenType
  <2>3. ss \o <<>> = ss
    BY <1>0, JoinNone
  <2>4. FlattenSeq(ss) \o <<>> = FlattenSeq(ss)
    BY <2>2, JoinNone
  <2> HIDE DEF of
  <2>5. FlattenSeq(ss \o of(0)) = FlattenSeq(ss) \o FlattenSeq(of(0))
    BY <2>1, <2>3, <2>4
  <2> QED  BY <2>5
<1>2. ASSUME NEW n \in Nat, n \in U PROVE n + 1 \in U
  <2> SUFFICES ASSUME n + 1 <= Len(tt)
               PROVE  FlattenSeq(ss \o of(n + 1)) = FlattenSeq(ss) \o FlattenSeq(of(n + 1))
    OBVIOUS
  <2> DEFINE e == tt[n + 1]
  <2>1. of(n) \in Seq(X) /\ e \in X /\ of(n + 1) = Append(of(n), e)
    BY <1>0, FirstOnes
  <2>2. FlattenSeq(ss \o of(n)) = FlattenSeq(ss) \o FlattenSeq(of(n))
    BY <1>0, <1>2
  <2> HIDE DEF of, e
  <2>3. ss \o of(n) \in Seq(X) /\ ss \o of(n + 1) = Append(ss \o of(n), e)
    <3>1. ss \o of(n) \in Seq(X)
      BY <1>0, <2>1, JoinIs
    <3>2. ss \o Append(of(n), e) = Append(ss \o of(n), e)
      BY <1>0, <2>1, JoinAppend
    <3> QED  BY <2>1, <3>1, <3>2
  <2>4. FlattenSeq(ss \o of(n + 1)) = FlattenSeq(ss \o of(n)) \o e
    BY <2>1, <2>3, FlattenAppend DEF X
  <2>5. FlattenSeq(of(n + 1)) = FlattenSeq(of(n)) \o e
    BY <2>1, FlattenAppend DEF X
  <2>6. FlattenSeq(ss) \in Seq(S) /\ FlattenSeq(of(n)) \in Seq(S) /\ e \in Seq(S)
    BY <1>0, <2>1, FlattenType DEF X
  <2>7. (FlattenSeq(ss) \o FlattenSeq(of(n))) \o e = FlattenSeq(ss) \o (FlattenSeq(of(n)) \o e)
    <3> DEFINE a == FlattenSeq(ss)
               b == FlattenSeq(of(n))
    <3> HIDE DEF a, b
    <3>1. a \in Seq(S) /\ b \in Seq(S) /\ e \in Seq(S)
      BY <2>6 DEF a, b
    <3>2. (a \o b) \o e = a \o (b \o e)
      BY <3>1, JoinJoins
    <3> QED  BY <3>2 DEF a, b
  <2> QED  BY <2>2, <2>4, <2>5, <2>7, Zenon
<1>3. Len(tt) \in U
  <2> HIDE DEF U
  <2> QED  BY <1>0, <1>1, <1>2, Induction
<1>4. of(Len(tt)) = tt
  BY <1>0, FirstOnes
<1> HIDE DEF of
<1> QED  BY <1>0, <1>3, <1>4

\* Functions and sequences, by names that the provers need not look through.
Maps(X, Y) == [X -> Y]
Lists(X) == Seq(X)

\* A sequence that is made of another, element by element.
Mapped(f, s) == [j \in DOMAIN s |-> f[s[j]]]

\* a is s with f applied to every element.
MapOf(a, f, s, Y) ==
  a \in Lists(Y) /\ Len(a) = Len(s) /\ \A j \in 1..Len(s) : a[j] = f[s[j]]

\* u is s and then t.
JoinOf(u, s, t, S) ==
  /\ u \in Lists(S) /\ Len(s) \in Nat /\ Len(t) \in Nat /\ Len(u) = Len(s) + Len(t)
  /\ \A j \in 1..Len(s) : u[j] = s[j]
  /\ \A j \in 1..Len(t) : u[Len(s) + j] = t[j]

LEMMA ListIs == ASSUME NEW S, NEW s \in Lists(S) PROVE s = [j \in 1..Len(s) |-> s[j]]
  BY DEF Lists

LEMMA MapType ==
  ASSUME NEW X, NEW Y, NEW f \in Maps(X, Y), NEW s \in Lists(X)
  PROVE  MapOf(Mapped(f, s), f, s, Y)
<1>1. Len(s) \in Nat /\ DOMAIN s = 1..Len(s) /\ \A j \in 1..Len(s) : f[s[j]] \in Y
  BY DEF Maps, Lists
<1> QED  BY <1>1 DEF Mapped, Lists, MapOf

LEMMA MapNone == ASSUME NEW f PROVE Mapped(f, <<>>) = <<>>
  BY DEF Mapped

LEMMA MapOne ==
  ASSUME NEW X, NEW Y, NEW f \in Maps(X, Y), NEW x \in X
  PROVE  Mapped(f, <<x>>) = <<f[x]>>
<1>1. <<x>> \in Lists(X) /\ Len(<<x>>) = 1 /\ <<x>>[1] = x
  BY DEF Lists
<1>2. MapOf(Mapped(f, <<x>>), f, <<x>>, Y)
  BY <1>1, MapType
<1> DEFINE a == Mapped(f, <<x>>)
<1> HIDE DEF a
<1>3. a \in Lists(Y) /\ Len(a) = 1 /\ a[1] = f[x]
  <2>1. a \in Lists(Y) /\ Len(a) = Len(<<x>>) /\ \A j \in 1..Len(<<x>>) : a[j] = f[<<x>>[j]]
    BY <1>2, Zenon DEF MapOf, a
  <2>2. 1 \in 1..Len(<<x>>)
    BY <1>1
  <2> QED  BY <1>1, <2>1, <2>2
<1>4. a = [j \in 1..1 |-> a[j]]
  BY <1>3 DEF Lists
<1> QED  BY <1>3, <1>4 DEF a

LEMMA JoinAt ==
  ASSUME NEW S, NEW s \in Lists(S), NEW t \in Lists(S)
  PROVE  JoinOf(s \o t, s, t, S)
  BY DEF Lists, JoinOf

LEMMA MapsJoin ==
  ASSUME NEW X, NEW Y, NEW f \in Maps(X, Y), NEW s \in Lists(X), NEW t \in Lists(X)
  PROVE  Mapped(f, s \o t) = Mapped(f, s) \o Mapped(f, t)
<1>1. JoinOf(s \o t, s, t, X)
  BY JoinAt
<1>2. MapOf(Mapped(f, s), f, s, Y) /\ MapOf(Mapped(f, t), f, t, Y)
  BY MapType
<1>3. MapOf(Mapped(f, s \o t), f, s \o t, Y)
  <2>1. s \o t \in Lists(X)
    BY <1>1 DEF JoinOf
  <2> QED  BY <2>1, MapType
<1>4. JoinOf(Mapped(f, s) \o Mapped(f, t), Mapped(f, s), Mapped(f, t), Y)
  <2>1. Mapped(f, s) \in Lists(Y) /\ Mapped(f, t) \in Lists(Y)
    BY <1>2 DEF MapOf
  <2> QED  BY <2>1, JoinAt
<1> DEFINE u == s \o t
           a == Mapped(f, s)
           b == Mapped(f, t)
           c == Mapped(f, s \o t)
           z == Mapped(f, s) \o Mapped(f, t)
<1>5. /\ JoinOf(u, s, t, X) /\ MapOf(a, f, s, Y) /\ MapOf(b, f, t, Y) /\ MapOf(c, f, u, Y)
      /\ JoinOf(z, a, b, Y)
  BY <1>1, <1>2, <1>3, <1>4
<1> HIDE DEF a, b, c, u, z
<1>6. /\ Len(s) \in Nat /\ Len(t) \in Nat /\ Len(u) = Len(s) + Len(t)
      /\ Len(a) = Len(s) /\ Len(b) = Len(t) /\ Len(c) = Len(u) /\ Len(z) = Len(u)
  BY <1>5 DEF JoinOf, MapOf
<1>7. ASSUME NEW j \in 1..Len(u) PROVE c[j] = z[j]
  <2>0. c[j] = f[u[j]]
    BY <1>5 DEF MapOf
  <2>1. CASE j \in 1..Len(s)
    <3>1. u[j] = s[j]
      BY <1>5, <2>1 DEF JoinOf
    <3>2. a[j] = f[s[j]]
      BY <1>5, <2>1 DEF MapOf
    <3>3. z[j] = a[j]
      BY <1>5, <1>6, <2>1 DEF JoinOf
    <3> QED  BY <2>0, <3>1, <3>2, <3>3
  <2>2. CASE j \notin 1..Len(s)
    <3>1. PICK k : k \in 1..Len(t) /\ j = Len(s) + k
      <4>1. j - Len(s) \in 1..Len(t) /\ j = Len(s) + (j - Len(s))
        BY <1>6, <2>2
      <4> QED  BY <4>1
    <3>2. u[Len(s) + k] = t[k]
      BY <1>5, <3>1 DEF JoinOf
    <3>3. b[k] = f[t[k]]
      BY <1>5, <3>1 DEF MapOf
    <3>4. z[Len(a) + k] = b[k]
      BY <1>5, <1>6, <3>1 DEF JoinOf
    <3> QED  BY <1>6, <2>0, <3>1, <3>2, <3>3, <3>4
  <2> QED  BY <2>1, <2>2
<1>8. c = [j \in 1..Len(c) |-> c[j]] /\ z = [j \in 1..Len(z) |-> z[j]]
  <2>1. c \in Lists(Y) /\ z \in Lists(Y)
    BY <1>5 DEF MapOf, JoinOf
  <2> QED  BY <2>1, ListIs
<1>9. c = z
  BY <1>6, <1>7, <1>8
<1> QED  BY <1>9 DEF a, b, c, z

\* What the elements of s are each made into, one after the other.
Spread(f, s) == FlattenSeq(Mapped(f, s))

LEMMA SpreadNone == ASSUME NEW f PROVE Spread(f, <<>>) = <<>>
  BY MapNone, FlattenNone DEF Spread

LEMMA SpreadOne ==
  ASSUME NEW X, NEW S, NEW f \in Maps(X, Lists(S)), NEW x \in X
  PROVE  Spread(f, <<x>>) = f[x]
<1>1. Mapped(f, <<x>>) = <<f[x]>>
  BY MapOne, Zenon
<1> QED  BY <1>1, FlattenOne DEF Spread

LEMMA SpreadType ==
  ASSUME NEW X, NEW S, NEW f \in Maps(X, Lists(S)), NEW s \in Lists(X)
  PROVE  Spread(f, s) \in Lists(S)
<1>1. Mapped(f, s) \in Lists(Lists(S))
  BY MapType DEF MapOf
<1> QED  BY <1>1, FlattenType DEF Spread, Lists

Joins(u, s, t) == u = s \o t

LEMMA SpreadJoin ==
  ASSUME NEW X, NEW S, NEW f \in Maps(X, Lists(S)), NEW s \in Lists(X), NEW t \in Lists(X),
         NEW u, Joins(u, s, t)
  PROVE  Joins(Spread(f, u), Spread(f, s), Spread(f, t))
<1>1. Mapped(f, s) \in Lists(Lists(S)) /\ Mapped(f, t) \in Lists(Lists(S))
  BY MapType DEF MapOf
<1>2. Mapped(f, s \o t) = Mapped(f, s) \o Mapped(f, t)
  BY MapsJoin
<1>3. Mapped(f, u) = Mapped(f, s) \o Mapped(f, t)
  BY <1>2, Zenon DEF Joins
<1> QED  BY <1>1, <1>3, FlattenJoin DEF Spread, Lists, Joins

LEMMA SpreadAppend ==
  ASSUME NEW X, NEW S, NEW f \in Maps(X, Lists(S)), NEW s \in Lists(X), NEW x \in X,
         NEW u, u = Append(s, x)
  PROVE  Joins(Spread(f, u), Spread(f, s), f[x])
<1>1. <<x>> \in Lists(X) /\ Joins(u, s, <<x>>)
  BY DEF Lists, Joins
<1>2. Spread(f, <<x>>) = f[x]
  BY SpreadOne, Zenon
<1>3. Joins(Spread(f, u), Spread(f, s), Spread(f, <<x>>))
  BY <1>1, SpreadJoin
<1> QED  BY <1>2, <1>3

\* To spread what is flattened is to flatten what is spread.
LEMMA SpreadFlat ==
  ASSUME NEW X, NEW S, NEW f \in Maps(X, Lists(S)), NEW ss \in Lists(Lists(X)),
         NEW h, h = [s \in Lists(X) |-> Spread(f, s)]
  PROVE  Spread(f, FlattenSeq(ss)) = Spread(h, ss)
<1> DEFINE Y == Lists(X)
           of(n) == SubSeq(ss, 1, n)
           U == {n \in Nat : n <= Len(ss) => Spread(f, FlattenSeq(of(n))) = Spread(h, of(n))}
<1>0. h \in Maps(Y, Lists(S)) /\ \A s \in Y : h[s] = Spread(f, s)
  <2>1. \A s \in Y : Spread(f, s) \in Lists(S)
    BY SpreadType, Zenon
  <2> QED  BY <2>1 DEF Maps
<1>1. ss \in Seq(Y) /\ Len(ss) \in Nat
  BY DEF Lists
<1> HIDE DEF Y
<1>2. 0 \in U
  <2>1. of(0) = <<>> /\ FlattenSeq(<<>>) = <<>>
    BY <1>1, FirstOnes, FlattenNone
  <2>2. Spread(f, <<>>) = <<>> /\ Spread(h, <<>>) = <<>>
    BY SpreadNone
  <2> HIDE DEF of
  <2>3. Spread(f, FlattenSeq(of(0))) = Spread(h, of(0))
    BY <2>1, <2>2
  <2> QED  BY <2>3
<1>3. ASSUME NEW n \in Nat, n \in U PROVE n + 1 \in U
  <2> SUFFICES ASSUME n + 1 <= Len(ss)
               PROVE  Spread(f, FlattenSeq(of(n + 1))) = Spread(h, of(n + 1))
    OBVIOUS
  <2> DEFINE e == ss[n + 1]
             w == FlattenSeq(of(n))
  <2>1. of(n) \in Seq(Y) /\ e \in Y /\ of(n + 1) = Append(of(n), e)
    BY <1>1, FirstOnes
  <2>2. Spread(f, w) = Spread(h, of(n))
    BY <1>1, <1>3
  <2> HIDE DEF of, e
  <2>3. FlattenSeq(of(n + 1)) = w \o e /\ w \in Lists(X)
    BY <2>1, FlattenAppend, FlattenType DEF Y, Lists
  <2> HIDE DEF w
  <2>4. Spread(f, w \o e) = Spread(f, w) \o Spread(f, e)
    <3>1. e \in Lists(X)
      BY <2>1 DEF Y
    <3>2. Joins(w \o e, w, e)
      BY DEF Joins
    <3>3. Joins(Spread(f, w \o e), Spread(f, w), Spread(f, e))
      BY <2>3, <3>1, <3>2, SpreadJoin
    <3> QED  BY <3>3 DEF Joins
  <2>5. Spread(h, of(n + 1)) = Spread(h, of(n)) \o h[e]
    <3>1. of(n) \in Lists(Y)
      BY <2>1 DEF Lists
    <3>2. h \in Maps(Y, Lists(S)) /\ e \in Y /\ of(n + 1) = Append(of(n), e)
      BY <1>0, <2>1
    <3>3. Joins(Spread(h, of(n + 1)), Spread(h, of(n)), h[e])
      BY <3>1, <3>2, SpreadAppend
    <3> QED  BY <3>3 DEF Joins
  <2>6. h[e] = Spread(f, e)
    BY <1>0, <2>1
  <2> QED  BY <2>2, <2>3, <2>4, <2>5, <2>6, Zenon
<1>4. Len(ss) \in U
  <2> HIDE DEF U
  <2> QED  BY <1>1, <1>2, <1>3, Induction
<1>5. of(Len(ss)) = ss
  BY <1>1, FirstOnes
<1> HIDE DEF of
<1> QED  BY <1>1, <1>4, <1>5

-----------------------------------------------------------------------------
(* The boundary                                                             *)

LEMMA ImageFinite ==
  ASSUME NEW S, NEW T, NEW f \in [S -> T], IsFiniteSet(S), \A t \in T : \E s \in S : f[s] = t
  PROVE  IsFiniteSet(T)
<1>1. f \in Surjection(S, T)
  BY DEF Surjection
<1> QED  BY <1>1, FS_Surjection

\* Among more numbers than a set has elements, one is not in the set.
LEMMA OneIsLeft ==
  ASSUME NEW T, IsFiniteSet(T)
  PROVE  /\ Cardinality(T) \in Nat
         /\ Min(0..Cardinality(T) \ T) \in 0..Cardinality(T) \ T
<1> DEFINE n == Cardinality(T)
           S == 0..n \ T
<1>1. n \in Nat
  BY FS_CardinalityType
<1>2. S # {}
  <2> SUFFICES ASSUME 0..n \subseteq T PROVE FALSE
    OBVIOUS
  <2>1. Cardinality(0..n) <= n
    BY FS_Subset
  <2>2. Cardinality(0..n) = n - 0 + 1
    <3>1. 0 \in Int /\ n \in Int /\ ~(0 > n)
      BY <1>1
    <3> QED  BY <3>1, FS_Interval
  <2> QED  BY <1>1, <2>1, <2>2
<1>3. S \subseteq Nat
  BY <1>1
<1>4. Min(S) \in S
  <2> HIDE DEF S
  <2> QED  BY <1>2, <1>3, LeastOf
<1> QED  BY <1>1, <1>4

\* What FormAssumption says of the form.
LEMMA FormIs ==
  ASSUME form \in Forms
  PROVE  /\ Len(form) \in Nat /\ DOMAIN form = 1..Len(form)
         /\ \A i \in 1..Len(form) :
              /\ form[i].streamed \in BOOLEAN /\ form[i].fails \in BOOLEAN
              /\ form[i].chunks \in Seq(Range(form[i].chunks))
              /\ \A c \in Range(form[i].chunks) : c[1] = "data"
              /\ ~form[i].streamed => Len(form[i].chunks) = 1
<1>1. form \in Seq(Range(form))
  BY FormAssumption
<1>2. Len(form) \in Nat /\ DOMAIN form = 1..Len(form)
  BY <1>1
<1>3. \A i \in 1..Len(form) : form[i] \in Range(form)
  BY <1>2 DEF Range
<1> QED  BY <1>2, <1>3, FormAssumption

\* A chunk collides with finitely many boundaries, and there are finitely many parts.
LEMMA TakenFinite == ASSUME form \in Forms PROVE IsFiniteSet(Taken)
<1> DEFINE With(i) == {q \in Collides : q[1] = Head(form[i].chunks)}
           Each == {With(i) : i \in InMemory}
           Hits == {q \in Collides : \E i \in InMemory : q[1] = Head(form[i].chunks)}
<1>1. IsFiniteSet(InMemory)
  <2>1. InMemory \in SUBSET (1..Len(form)) /\ Len(form) \in Int /\ 1 \in Int
    BY FormIs DEF InMemory
  <2> QED  BY <2>1, FS_Interval, FS_Subset
<1>2. IsFiniteSet(Each)
  <2> DEFINE f == [i \in InMemory |-> With(i)]
  <2>1. f \in [InMemory -> Each] /\ \A t \in Each : \E i \in InMemory : f[i] = t
    OBVIOUS
  <2> HIDE DEF f, Each
  <2> QED  BY <1>1, <2>1, ImageFinite
<1>3. ASSUME NEW T \in Each PROVE IsFiniteSet(T)
  <2>1. PICK i \in InMemory : T = With(i)
    BY <1>3
  <2>2. CASE T = {}
    BY <2>2, FS_EmptySet
  <2>3. CASE T # {}
    <3>1. PICK q \in Collides : q[1] = Head(form[i].chunks)
      BY <2>1, <2>3
    <3>2. IsFiniteSet({p \in Collides : p[1] = q[1]})
      BY FormAssumption
    <3> QED  BY <2>1, <3>1, <3>2
  <2> QED  BY <2>2, <2>3
<1>4. UNION Each = Hits
  OBVIOUS
<1>5. IsFiniteSet(Hits)
  <2>1. IsFiniteSet(UNION Each)
    <3> HIDE DEF Each
    <3> QED  BY <1>2, <1>3, FS_UNION
  <2> HIDE DEF Each, Hits
  <2> QED  BY <1>4, <2>1
<1>6. Taken = {q[2] : q \in Hits}
  BY DEF Taken
<1> DEFINE f == [q \in Hits |-> q[2]]
<1>7. f \in [Hits -> Taken] /\ \A t \in Taken : \E q \in Hits : f[q] = t
  <2> HIDE DEF Hits
  <2> QED  BY <1>6
<1> HIDE DEF f, Hits
<1> QED  BY <1>5, <1>7, ImageFinite

\* No part in memory contains the boundary.
LEMMA BoundaryIs ==
  ASSUME form \in Forms
  PROVE  /\ Boundary \in Nat
         /\ \A i \in InMemory : <<Head(form[i].chunks), Boundary>> \notin Collides
<1>1. Boundary \in Nat /\ Boundary \notin Taken
  BY TakenFinite, OneIsLeft DEF Boundary
<1>2. ASSUME NEW i \in InMemory, <<Head(form[i].chunks), Boundary>> \in Collides
      PROVE  FALSE
  <2> DEFINE q == <<Head(form[i].chunks), Boundary>>
  <2>1. q \in Collides /\ q[1] = Head(form[i].chunks) /\ q[2] = Boundary
    BY <1>2
  <2> HIDE DEF q
  <2>2. Boundary \in Taken
    BY <2>1 DEF Taken
  <2> QED  BY <1>1, <2>2
<1> QED  BY <1>1, <1>2

-----------------------------------------------------------------------------
(* The parts of a form, in their frames                                     *)

\* What the chunks of the queue are, and the items that hold them; what a chunk and
\* an item add to the body, and what a queue still will.
Pieces ==
  (UNION {Range(form[i].chunks) : i \in DOMAIN form})
    \cup {Preamble(i) : i \in DOMAIN form} \cup {Close(i) : i \in DOMAIN form} \cup {Final}

Items ==
  {x \in [nested : BOOLEAN, chunks : Lists(Pieces), fails : BOOLEAN] :
     ~x.nested => Len(x.chunks) = 1}

Fill == [c \in Pieces |-> Chunks(c)]
Pour == [x \in Items |-> Spread(Fill, x.chunks)]
Unsent(q) == Spread(Pour, q)

LEMMA SameForm ==
  ASSUME form' = form
  PROVE  /\ Serialized' = Serialized /\ Boundary' = Boundary /\ InMemory' = InMemory
         /\ Pieces' = Pieces /\ Items' = Items /\ Pour' = Pour
<1>1. Taken' = Taken /\ InMemory' = InMemory
  BY DEF Taken, InMemory
<1>2. Boundary' = Boundary
  BY <1>1 DEF Boundary
<1>3. (\A i : Preamble(i)' = Preamble(i)) /\ \A i : Close(i)' = Close(i)
  BY <1>2 DEF Preamble, Close
<1>4. \A i : Framed(i)' = Framed(i)
  BY <1>3 DEF Framed
<1>5. Serialized' = Serialized
  BY <1>4 DEF Serialized
<1>6. Pieces' = Pieces
  BY <1>3 DEF Pieces
<1>7. Items' = Items /\ Fill' = Fill
  BY <1>6 DEF Items, Fill
<1>8. Pour' = Pour
  BY <1>7 DEF Pour
<1> QED  BY <1>1, <1>2, <1>5, <1>6, <1>7, <1>8

LEMMA FillIs ==
  /\ Fill \in Maps(Pieces, Lists(Pieces))
  /\ \A c \in Pieces : Fill[c] = Chunks(c)
<1>1. ASSUME NEW c \in Pieces PROVE Chunks(c) \in Lists(Pieces)
  BY DEF Chunks, Lists
<1> QED  BY <1>1 DEF Fill, Maps

LEMMA PourIs ==
  /\ Pour \in Maps(Items, Lists(Pieces))
  /\ \A x \in Items : Pour[x] = Spread(Fill, x.chunks)
<1>1. ASSUME NEW x \in Items PROVE Spread(Fill, x.chunks) \in Lists(Pieces)
  <2>1. x.chunks \in Lists(Pieces)
    BY DEF Items
  <2> QED  BY <2>1, FillIs, SpreadType
<1> QED  BY <1>1 DEF Pour, Maps

LEMMA FilledIs ==
  ASSUME NEW s \in Lists(Pieces)
  PROVE  Filled(s) = Spread(Fill, s)
<1>1. \A j \in DOMAIN s : Fill[s[j]] = Chunks(s[j])
  <2>1. \A j \in DOMAIN s : s[j] \in Pieces
    BY DEF Lists
  <2> QED  BY <2>1, FillIs
<1> QED  BY <1>1 DEF Filled, Spread, Mapped

\* Frames are not empty.
LEMMA FramesShow ==
  /\ \A i : Chunks(Preamble(i)) = <<Preamble(i)>> /\ Chunks(Close(i)) = <<Close(i)>>
  /\ Chunks(Final) = <<Final>>
<1>1. \A i : Preamble(i)[1] = "part" /\ Close(i)[1] = "end"
  BY DEF Preamble, Close
<1>2. Final[1] = "final"
  BY DEF Final
<1>3. Empty[1] = "data"
  BY FormAssumption
<1> QED  BY <1>1, <1>2, <1>3 DEF Chunks

LEMMA OneShown ==
  ASSUME NEW c \in Pieces
  PROVE  Ready(c) \in Items /\ Pour[Ready(c)] = Chunks(c)
<1>1. <<c>> \in Lists(Pieces) /\ Len(<<c>>) = 1
  BY DEF Lists
<1>2. Ready(c) \in Items /\ Ready(c).chunks = <<c>>
  BY <1>1 DEF Ready, Items
<1>3. Spread(Fill, <<c>>) = Fill[c]
  BY FillIs, SpreadOne
<1> QED  BY <1>2, <1>3, FillIs, PourIs

\* A part in memory is one chunk.
LEMMA HeadFilled ==
  ASSUME NEW s \in Lists(Pieces), Len(s) = 1
  PROVE  s = <<Head(s)>> /\ Head(s) \in Pieces /\ Filled(s) = Chunks(Head(s))
<1>1. s = <<Head(s)>> /\ Head(s) \in Pieces
  BY DEF Lists
<1>2. Spread(Fill, <<Head(s)>>) = Fill[Head(s)]
  BY <1>1, FillIs, SpreadOne
<1> QED  BY <1>1, <1>2, FillIs, FilledIs

LEMMA PartChunks ==
  ASSUME form \in Forms, NEW i \in DOMAIN form
  PROVE  /\ form[i].chunks \in Lists(Pieces) /\ form[i].streamed \in BOOLEAN
         /\ form[i].fails \in BOOLEAN /\ (~form[i].streamed => Len(form[i].chunks) = 1)
<1>1. Range(form[i].chunks) \subseteq Pieces
  BY DEF Pieces
<1>2. /\ form[i].chunks \in Seq(Range(form[i].chunks)) /\ form[i].streamed \in BOOLEAN
      /\ form[i].fails \in BOOLEAN /\ (~form[i].streamed => Len(form[i].chunks) = 1)
  BY FormIs
<1> QED  BY <1>1, <1>2 DEF Lists

\* The chunks of a part, in memory or not.
LEMMA PartShown ==
  ASSUME form \in Forms, NEW i \in DOMAIN form
  PROVE  LET p == form[i]
             x == IF p.streamed THEN Nested(p) ELSE Ready(Head(p.chunks))
         IN  x \in Items /\ Pour[x] = Filled(p.chunks)
<1> DEFINE p == form[i]
<1>1. p.chunks \in Lists(Pieces) /\ p.streamed \in BOOLEAN /\ p.fails \in BOOLEAN
      /\ (~p.streamed => Len(p.chunks) = 1)
  BY PartChunks
<1> HIDE DEF p
<1>2. CASE p.streamed
  <2>1. Nested(p) \in Items /\ Nested(p).chunks = p.chunks
    BY <1>1 DEF Nested, Items
  <2> QED  BY <1>1, <1>2, <2>1, PourIs, FilledIs DEF p
<1>3. CASE ~p.streamed
  <2>1. Head(p.chunks) \in Pieces /\ Filled(p.chunks) = Chunks(Head(p.chunks))
    BY <1>1, <1>3, HeadFilled
  <2>2. Ready(Head(p.chunks)) \in Items /\ Pour[Ready(Head(p.chunks))] = Chunks(Head(p.chunks))
    BY <2>1, OneShown
  <2> QED  BY <1>3, <2>1, <2>2 DEF p
<1> QED  BY <1>2, <1>3

LEMMA FramePieces == \A i \in DOMAIN form : Preamble(i) \in Pieces /\ Close(i) \in Pieces
  BY DEF Pieces

\* A part of the queue yields the part of the form in its frame.
LEMMA QueuedIs ==
  ASSUME form \in Forms, NEW i \in DOMAIN form
  PROVE  /\ Queued(i, form[i]) \in Lists(Items)
         /\ Spread(Pour, Queued(i, form[i])) = Framed(i)
         /\ Framed(i) \in Lists(Pieces)
<1> DEFINE p == form[i]
           u == Ready(Preamble(i))
           x == IF p.streamed THEN Nested(p) ELSE Ready(Head(p.chunks))
           v == Ready(Close(i))
<1>1. Preamble(i) \in Pieces /\ Close(i) \in Pieces
  BY FramePieces
<1>2. u \in Items /\ Pour[u] = <<Preamble(i)>> /\ v \in Items /\ Pour[v] = <<Close(i)>>
  BY <1>1, OneShown, FramesShow
<1>3. x \in Items /\ Pour[x] = Filled(p.chunks)
  BY PartShown
<1>4. Queued(i, form[i]) = <<u, x, v>>
  BY DEF Queued
<1> HIDE DEF u, x, v, p
<1>5. <<u>> \in Lists(Items) /\ <<u, x>> \in Lists(Items) /\ <<u, x, v>> \in Lists(Items)
      /\ <<u, x>> = Append(<<u>>, x) /\ <<u, x, v>> = Append(<<u, x>>, v)
  BY <1>2, <1>3 DEF Lists
<1>6. Spread(Pour, <<u>>) = Pour[u]
  BY <1>2, PourIs, SpreadOne
<1>7. Joins(Spread(Pour, <<u, x>>), Spread(Pour, <<u>>), Pour[x])
  BY <1>3, <1>5, PourIs, SpreadAppend
<1>8. Joins(Spread(Pour, <<u, x, v>>), Spread(Pour, <<u, x>>), Pour[v])
  BY <1>2, <1>5, PourIs, SpreadAppend
<1>9. Spread(Pour, <<u, x, v>>) = Framed(i)
  BY <1>2, <1>3, <1>6, <1>7, <1>8 DEF Framed, p, Joins
<1>10. Spread(Pour, <<u, x, v>>) \in Lists(Pieces)
  BY <1>5, PourIs, SpreadType
<1> QED  BY <1>4, <1>5, <1>9, <1>10

LEMMA PrefixOfJoin ==
  ASSUME NEW S, NEW s \in Lists(S), NEW t \in Lists(S)
  PROVE  IsPrefix(s, s \o t)
<1>1. s \o t \in Lists(S) /\ Begins(s, s \o t)
  BY JoinAt DEF JoinOf, Begins
<1> QED  BY <1>1, PrefixBegins DEF Lists

LEMMA PrefixOfItself == ASSUME NEW S, NEW s \in Lists(S) PROVE IsPrefix(s, s)
  BY PrefixBegins DEF Lists, Begins

\* The queue that is built yields the body the parts stand for.
LEMMA BuiltIs ==
  ASSUME form \in Forms
  PROVE  LET q == FlattenSeq([i \in DOMAIN form |-> Queued(i, form[i])]) \o <<Ready(Final)>>
         IN  q \in Lists(Items) /\ Unsent(q) = Serialized /\ Serialized \in Lists(Pieces)
<1> DEFINE ss == [i \in DOMAIN form |-> Queued(i, form[i])]
           h == [s \in Lists(Items) |-> Spread(Pour, s)]
           flat == FlattenSeq(ss)
           frames == FlattenSeq([i \in DOMAIN form |-> Framed(i)])
<1>1. ss \in Lists(Lists(Items)) /\ \A i \in DOMAIN form : ss[i] = Queued(i, form[i])
  <2>1. \A i \in DOMAIN form : Queued(i, form[i]) \in Lists(Items)
    BY QueuedIs
  <2>2. Len(form) \in Nat /\ DOMAIN form = 1..Len(form)
    BY FormIs
  <2> QED  BY <2>1, <2>2 DEF Lists
<1>2. \A i \in DOMAIN form : h[ss[i]] = Framed(i)
  <2> TAKE i \in DOMAIN form
  <2>1. ss[i] = Queued(i, form[i])
    OBVIOUS
  <2> HIDE DEF ss
  <2> QED  BY <2>1, QueuedIs
<1>3. Spread(h, ss) = frames
  <2>1. DOMAIN ss = DOMAIN form
    OBVIOUS
  <2> HIDE DEF h, ss
  <2> QED  BY <1>2, <2>1 DEF Spread, Mapped
<1>4. flat \in Lists(Items)
  <2> HIDE DEF ss
  <2> QED  BY <1>1, FlattenType DEF Lists
<1>5. Spread(Pour, flat) = frames
  <2>1. h = [s \in Lists(Items) |-> Spread(Pour, s)]
    OBVIOUS
  <2> HIDE DEF ss, h, frames
  <2> QED  BY <1>1, <1>3, <2>1, PourIs, SpreadFlat
<1>6. Ready(Final) \in Items /\ Pour[Ready(Final)] = <<Final>>
  <2>1. Final \in Pieces
    BY DEF Pieces
  <2> QED  BY <2>1, OneShown, FramesShow
<1> HIDE DEF flat, ss, h
<1>7. /\ flat \o <<Ready(Final)>> = Append(flat, Ready(Final))
      /\ flat \o <<Ready(Final)>> \in Lists(Items)
  BY <1>4, <1>6 DEF Lists
<1>8. Spread(Pour, Append(flat, Ready(Final))) = Spread(Pour, flat) \o <<Final>>
  <2>1. Joins(Spread(Pour, Append(flat, Ready(Final))), Spread(Pour, flat),
              Pour[Ready(Final)])
    BY <1>4, <1>6, PourIs, SpreadAppend
  <2> QED  BY <1>6, <2>1 DEF Joins
<1>9. Unsent(flat \o <<Ready(Final)>>) = Serialized
  BY <1>5, <1>7, <1>8 DEF Unsent, Serialized
<1>10. Spread(Pour, flat \o <<Ready(Final)>>) \in Lists(Pieces)
  BY <1>7, PourIs, SpreadType
<1> QED  BY <1>7, <1>9, <1>10 DEF Unsent, flat, ss

\* The buffer, when every part is in memory.
LEMMA BufferIs ==
  ASSUME form \in Forms, InMemory = DOMAIN form
  PROVE  FlattenSeq([i \in DOMAIN form |->
            <<Preamble(i)>> \o Chunks(Head(form[i].chunks)) \o <<Close(i)>>]) \o <<Final>>
           = Serialized
<1>1. \A i \in DOMAIN form : Filled(form[i].chunks) = Chunks(Head(form[i].chunks))
  BY PartChunks, HeadFilled DEF InMemory
<1> QED  BY <1>1 DEF Serialized, Framed

\* What has been yielded, and what the queue still holds, are the form.
FormState(b, g, q) ==
  /\ q \in Lists(Items) /\ g \in Lists(Pieces)
  /\ b \in {"none", "open", "ended", "failed", "dropped"}
  /\ b = "none" => g = <<>>
  /\ b = "open" => g \o Unsent(q) = Serialized
  /\ b \in {"failed", "dropped"} => IsPrefix(g, Serialized)
  /\ b = "ended" => g = Serialized

FormInv == form \in Forms /\ FormState(body, got, queue)

FormsInv == IF kind = "form" THEN FormInv ELSE TRUE

LEMMA EmptyLists == \A S : <<>> \in Lists(S)
  BY FlattenNone DEF Lists

LEMMA InitForms == Init => FormsInv
<1> SUFFICES ASSUME Init, kind = "form" PROVE FormInv
  BY DEF FormsInv
<1>1. form \in Forms /\ body = "none" /\ got = <<>> /\ queue = <<>>
  BY DEF Init, BodyInit, PartInit, Of
<1> QED  BY <1>1, EmptyLists DEF FormInv, FormState

\* A queue that is polled.
LEMMA HeadUnsent ==
  ASSUME NEW q \in Lists(Items), q # <<>>
  PROVE  /\ Head(q) \in Items /\ Tail(q) \in Lists(Items)
         /\ Unsent(q) = Spread(Fill, Head(q).chunks) \o Unsent(Tail(q))
         /\ Unsent(Tail(q)) \in Lists(Pieces)
         /\ Spread(Fill, Head(q).chunks) \in Lists(Pieces)
<1>0. q = <<Head(q)>> \o Tail(q)
  BY DEF Lists
<1>1. Head(q) \in Items /\ Tail(q) \in Lists(Items) /\ <<Head(q)>> \in Lists(Items)
  BY DEF Lists
<1>2. Spread(Pour, <<Head(q)>> \o Tail(q)) = Spread(Pour, <<Head(q)>>) \o Spread(Pour, Tail(q))
  <2>1. Joins(<<Head(q)>> \o Tail(q), <<Head(q)>>, Tail(q))
    BY DEF Joins
  <2>2. Joins(Spread(Pour, <<Head(q)>> \o Tail(q)), Spread(Pour, <<Head(q)>>),
              Spread(Pour, Tail(q)))
    BY <1>1, <2>1, PourIs, SpreadJoin
  <2> QED  BY <2>2 DEF Joins
<1>3. Spread(Pour, <<Head(q)>>) = Pour[Head(q)]
  BY <1>1, PourIs, SpreadOne
<1>4. Spread(Pour, Tail(q)) \in Lists(Pieces)
  BY <1>1, PourIs, SpreadType
<1>5. Head(q).chunks \in Lists(Pieces)
  BY <1>1 DEF Items
<1>6. Spread(Fill, Head(q).chunks) \in Lists(Pieces)
  BY <1>5, FillIs, SpreadType
<1> QED  BY <1>0, <1>1, <1>2, <1>3, <1>4, <1>6, PourIs DEF Unsent

LEMMA ReadyForm ==
  ASSUME FormInv, PollReady
  PROVE  FormState(body', got', queue')
<1> DEFINE x == Head(queue)
           r == Tail(queue)
           c == Chunks(x.chunks[1])
<1>1. /\ body = "open" /\ body' = "open" /\ queue # <<>> /\ ~x.nested /\ queue' = r
      /\ got' = got \o c
  BY DEF PollReady, PartPoll, Yield
<1>2. /\ queue \in Lists(Items) /\ got \in Lists(Pieces) /\ got \o Unsent(queue) = Serialized
  BY <1>1 DEF FormInv, FormState
<1>3. /\ x \in Items /\ r \in Lists(Items) /\ Unsent(r) \in Lists(Pieces)
      /\ Unsent(queue) = Spread(Fill, x.chunks) \o Unsent(r)
      /\ Spread(Fill, x.chunks) \in Lists(Pieces)
  BY <1>1, <1>2, HeadUnsent
<1>4. x.chunks \in Lists(Pieces) /\ Len(x.chunks) = 1
  BY <1>1, <1>3 DEF Items
<1>5. Spread(Fill, x.chunks) = c
  <2>1. x.chunks[1] = Head(x.chunks)
    BY <1>4 DEF Lists
  <2> QED  BY <1>4, <2>1, HeadFilled, FilledIs
<1> HIDE DEF c, r
<1>6. got \o c \in Lists(Pieces) /\ (got \o c) \o Unsent(r) = got \o (c \o Unsent(r))
  <2>1. got \in Lists(Pieces) /\ c \in Lists(Pieces) /\ Unsent(r) \in Lists(Pieces)
    BY <1>2, <1>3, <1>5
  <2>2. got \o c \in Lists(Pieces)
    BY <2>1, JoinIs DEF Lists
  <2>3. (got \o c) \o Unsent(r) = got \o (c \o Unsent(r))
    BY <2>1, JoinJoins DEF Lists
  <2> QED  BY <2>2, <2>3
<1> QED  BY <1>1, <1>2, <1>3, <1>5, <1>6 DEF FormState

LEMMA NestedForm ==
  ASSUME FormInv, PollNested
  PROVE  FormState(body', got', queue')
<1> DEFINE x == Head(queue)
           r == Tail(queue)
<1>1. body = "open" /\ queue # <<>> /\ x.nested
  BY DEF PollNested, PartPoll
<1>2. queue \in Lists(Items) /\ got \in Lists(Pieces) /\ got \o Unsent(queue) = Serialized
  BY <1>1 DEF FormInv, FormState
<1>3. /\ x \in Items /\ r \in Lists(Items) /\ Unsent(r) \in Lists(Pieces)
      /\ Unsent(queue) = Spread(Fill, x.chunks) \o Unsent(r)
      /\ Spread(Fill, x.chunks) \in Lists(Pieces)
  BY <1>1, <1>2, HeadUnsent
<1>4. x.chunks \in Lists(Pieces)
  BY <1>3 DEF Items
<1>5. CASE x.chunks # <<>>
  <2> DEFINE k == x.chunks
             c == Chunks(Head(k))
             y == [x EXCEPT !.chunks = Tail(@)]
  <2>1. body' = "open" /\ got' = got \o c /\ queue' = <<y>> \o r
    BY <1>1, <1>5 DEF PollNested, Yield, Resumed
  <2>2. k # <<>> /\ k \in Lists(Pieces)
    BY <1>4, <1>5
  <2>3. y \in Items /\ y.chunks = Tail(k)
    <3>1. Tail(k) \in Lists(Pieces)
      BY <2>2 DEF Lists
    <3> QED  BY <1>1, <1>3, <3>1 DEF Items
  <2> HIDE DEF y, k
  <2>4. /\ Head(k) \in Pieces /\ Tail(k) \in Lists(Pieces) /\ <<Head(k)>> \in Lists(Pieces)
        /\ k = <<Head(k)>> \o Tail(k)
    BY <2>2 DEF Lists
  <2>5. Spread(Fill, <<Head(k)>> \o Tail(k))
          = Spread(Fill, <<Head(k)>>) \o Spread(Fill, Tail(k))
    <3>1. Joins(<<Head(k)>> \o Tail(k), <<Head(k)>>, Tail(k))
      BY DEF Joins
    <3>2. Joins(Spread(Fill, <<Head(k)>> \o Tail(k)), Spread(Fill, <<Head(k)>>),
                Spread(Fill, Tail(k)))
      BY <2>4, <3>1, FillIs, SpreadJoin
    <3> QED  BY <3>2 DEF Joins
  <2>6. Spread(Fill, <<Head(k)>>) = c /\ c \in Lists(Pieces)
    <3>1. Spread(Fill, <<Head(k)>>) = Fill[Head(k)]
      BY <2>4, FillIs, SpreadOne
    <3>2. Fill[Head(k)] \in Lists(Pieces)
      BY <2>4, FillIs DEF Maps
    <3> QED  BY <2>4, <3>1, <3>2, FillIs
  <2> DEFINE z == <<y>> \o r
  <2>7. /\ z \in Lists(Items) /\ z # <<>> /\ Head(z) = y /\ Tail(z) = r
    BY <1>3, <2>3 DEF Lists
  <2> HIDE DEF z
  <2>8. /\ Unsent(z) = Spread(Fill, Tail(k)) \o Unsent(r)
        /\ Spread(Fill, Tail(k)) \in Lists(Pieces)
    BY <2>3, <2>7, HeadUnsent
  <2> HIDE DEF c, r
  <2>9. Unsent(queue) = c \o Unsent(z)
    <3>1. (c \o Spread(Fill, Tail(k))) \o Unsent(r) = c \o (Spread(Fill, Tail(k)) \o Unsent(r))
      <4>1. /\ c \in Lists(Pieces) /\ Unsent(r) \in Lists(Pieces)
            /\ Spread(Fill, Tail(k)) \in Lists(Pieces)
        BY <1>3, <2>6, <2>8
      <4> QED  BY <4>1, JoinJoins DEF Lists
    <3> QED  BY <1>3, <2>4, <2>5, <2>6, <2>8, <3>1 DEF k
  <2>10. Unsent(z) \in Lists(Pieces)
    BY <1>3, <2>8, JoinIs DEF Lists
  <2>11. got \o c \in Lists(Pieces) /\ (got \o c) \o Unsent(z) = got \o (c \o Unsent(z))
    <3>1. got \in Lists(Pieces) /\ c \in Lists(Pieces)
      BY <1>2, <2>6
    <3>2. got \o c \in Lists(Pieces)
      BY <3>1, JoinIs DEF Lists
    <3>3. (got \o c) \o Unsent(z) = got \o (c \o Unsent(z))
      BY <3>1, <2>10, JoinJoins DEF Lists
    <3> QED  BY <3>2, <3>3
  <2> QED  BY <1>2, <2>1, <2>7, <2>9, <2>11 DEF FormState, z
<1>6. CASE x.chunks = <<>>
  <2>1. Spread(Fill, x.chunks) = <<>>
    BY <1>6, SpreadNone
  <2>2. <<>> \o Unsent(r) = Unsent(r)
    BY <1>3, JoinNone DEF Lists
  <2>3. got \o Unsent(r) = Serialized
    BY <1>2, <1>3, <2>1, <2>2
  <2>4. queue' = r /\ got' = got /\ body' \in {"open", "failed"}
    BY <1>1, <1>6 DEF PollNested, Fail, bodyVars
  <2>5. IsPrefix(got, Serialized)
    <3> HIDE DEF r
    <3>1. IsPrefix(got, got \o Unsent(r))
      BY <1>2, <1>3, PrefixOfJoin
    <3> QED  BY <2>3, <3>1
  <2> QED  BY <1>2, <1>3, <2>3, <2>4, <2>5 DEF FormState
<1> QED  BY <1>5, <1>6

LEMMA FormStep ==
  ASSUME FormInv, PartNext
  PROVE  form' = form /\ FormState(body', got', queue')
<1>0. form \in Forms /\ FormState(body, got, queue)
  BY DEF FormInv
<1>1. CASE Build
  <2>1. got' = Serialized /\ body' = "ended" /\ form' = form /\ queue' = queue
    BY <1>0, <1>1, BufferIs DEF Build, partVars
  <2> QED  BY <1>0, <2>1, BuiltIs DEF FormState
<1>2. CASE BuildStream
  <2>1. body = "none" /\ body' = "open" /\ got' = got /\ form' = form
    BY <1>2 DEF BuildStream, Created
  <2>2. queue' \in Lists(Items) /\ Unsent(queue') = Serialized /\ Serialized \in Lists(Pieces)
    BY <1>0, <1>2, BuiltIs DEF BuildStream
  <2>3. <<>> \o Serialized = Serialized /\ got = <<>>
    BY <1>0, <2>1, <2>2, JoinNone DEF Lists, FormState
  <2> QED  BY <1>0, <2>1, <2>2, <2>3 DEF FormState
<1>3. CASE PollReady
  BY <1>3, ReadyForm DEF PollReady
<1>4. CASE PollNested
  BY <1>4, NestedForm DEF PollNested
<1>5. CASE PollDrained
  <2>1. body = "open" /\ body' = "ended" /\ queue = <<>> /\ UNCHANGED <<got, form, queue>>
    BY <1>5 DEF PollDrained, PartPoll, End, partVars
  <2>2. Unsent(queue) = <<>> /\ got \o <<>> = got
    BY <1>0, <2>1, SpreadNone, JoinNone DEF Unsent, FormState, Lists
  <2> QED  BY <1>0, <2>1, <2>2 DEF FormState
<1>6. CASE PartLosesClient
  <2>1. body = "open" /\ body' = "dropped" /\ UNCHANGED <<got, form, queue>>
    BY <1>6 DEF PartLosesClient, Disconnect, partVars
  <2>2. Spread(Pour, queue) \in Lists(Pieces)
    BY <1>0, PourIs, SpreadType DEF FormState
  <2>3. IsPrefix(got, got \o Unsent(queue))
    BY <1>0, <2>2, PrefixOfJoin DEF FormState, Unsent
  <2> QED  BY <1>0, <2>1, <2>3 DEF FormState
<1> QED  BY <1>1, <1>2, <1>3, <1>4, <1>5, <1>6 DEF PartNext

LEMMA NextForms == FormsInv /\ [Next]_vars => FormsInv'
<1> SUFFICES ASSUME FormsInv, [Next]_vars, kind' = "form" PROVE FormInv'
  BY DEF FormsInv
<1>1. kind = "form" /\ (PartNext \/ UNCHANGED <<bodyVars, partVars>>)
  BY DEF Next, Events, File, Form, Coding, OfEvents, OfFile, OfForm, OfCoded, vars
<1>2. FormInv
  BY <1>1 DEF FormsInv
<1>3. form' = form /\ FormState(body', got', queue')
  <2>1. CASE UNCHANGED <<bodyVars, partVars>>
    BY <1>2, <2>1 DEF FormInv, bodyVars, partVars
  <2> QED  BY <1>1, <1>2, <2>1, FormStep
<1> QED  BY <1>2, <1>3, SameForm DEF FormInv, FormState, Unsent

\* The boundary of a part that has been sent is the form's.
LEMMA SentBoundary ==
  ASSUME form \in Forms, NEW g \in Lists(Pieces), NEW j \in DOMAIN g, g[j][1] = "part"
  PROVE  g[j][2] = Boundary
<1>1. g[j] \in Pieces
  BY DEF Lists
<1>2. \A c : c \in UNION {Range(form[i].chunks) : i \in DOMAIN form} => c[1] = "data"
  BY FormIs
<1>3. \A i : /\ Close(i)[1] = "end"
             /\ Preamble(i)[2] = Boundary
  BY DEF Close, Preamble
<1>4. Final[1] = "final"
  BY DEF Final
<1> QED  BY <1>1, <1>2, <1>3, <1>4 DEF Pieces

\* A form arrives in its order, each part within its frame, and all of it by the time
\* the body ends, whichever parts are streams and whatever their chunks; its boundary
\* is in none of the parts in memory (StreamingMultipart, find_unique_boundary).
THEOREM FormDelivered == Spec => []FormAsPromised
<1>1. FormsInv => FormAsPromised
  <2> SUFFICES ASSUME FormInv
               PROVE  /\ Delivers(Serialized)
                      /\ \A k \in Boundaries, i \in InMemory :
                           <<Head(form[i].chunks), k>> \notin Collides
    BY DEF FormsInv, FormAsPromised
  <2>0. form \in Forms /\ FormState(body, got, queue)
    BY DEF FormInv
  <2>1. Delivers(Serialized)
    <3>1. Serialized \in Lists(Pieces)
      BY <2>0, BuiltIs
    <3>2. CASE body = "none"
      <4>1. got = <<>> /\ <<>> \o Serialized = Serialized
        BY <2>0, <3>1, <3>2, JoinNone DEF FormState, Lists
      <4> QED  BY <3>1, <3>2, <4>1, EmptyLists, PrefixOfJoin DEF Delivers
    <3>3. CASE body = "open"
      <4>1. Spread(Pour, queue) \in Lists(Pieces)
        BY <2>0, PourIs, SpreadType DEF FormState
      <4>2. IsPrefix(got, got \o Unsent(queue))
        BY <2>0, <4>1, PrefixOfJoin DEF FormState, Unsent
      <4> QED  BY <2>0, <3>3, <4>2 DEF FormState, Delivers
    <3>4. CASE body = "ended"
      BY <2>0, <3>1, <3>4, PrefixOfItself DEF FormState, Delivers
    <3>5. CASE body \in {"failed", "dropped"}
      BY <2>0, <3>5 DEF FormState, Delivers
    <3> QED  BY <2>0, <3>2, <3>3, <3>4, <3>5 DEF FormState
  <2>2. Boundaries \subseteq {Boundary}
    BY <2>0, SentBoundary DEF Boundaries, FormState
  <2> QED  BY <2>0, <2>1, <2>2, BoundaryIs
<1> QED  BY InitForms, NextForms, <1>1, PTL DEF Spec

-----------------------------------------------------------------------------
(* Every body                                                               *)

\* A client reads what was promised it, whichever the body: the four kinds together,
\* for requests whose dates are of instants (Told), as those of clients are.
THEOREM BodyPromised ==
  ASSUME \A r \in FileRequests : Told(r.ims)
  PROVE  Spec => []BodyAsPromised
<1>1. /\ EventsAsPromised /\ FormAsPromised
      /\ kind = "file" /\ Untouched => Delivers(Announced)
      /\ kind = "file" => LengthKept
      /\ kind = "file" => FromTheRoot
      /\ kind = "file" => ConditionsKept
      /\ kind = "coded" => Delivers([i \in 1..wire.length |-> i]) /\ CodedAsPromised
      => BodyAsPromised
  BY DEF BodyAsPromised, FileAsPromised
<1>2. Spec => [](kind = "file" => ConditionsKept)
  BY ConditionsHold
<1> QED
  BY EventsDelivered, FormDelivered, FileDelivered, ContentLengthKept, ServedFromRoot, <1>2,
     CodedDelivered, <1>1, PTL
=============================================================================
