------------------------------- MODULE Dates -------------------------------
(***************************************************************************)
(* The Date object (src/js_date.c): its constructor, its accessors, and    *)
(* get_date, the reader of dates written in words.                         *)
(*                                                                         *)
(* A date counts milliseconds from 1970.  It is kept here as the two parts *)
(* every accessor first splits it into, date / 1000 and date % 1000; C     *)
(* truncates, so both parts have the sign of the date.  The host's zone is *)
(* LocalZone seconds west of Greenwich, the whole year round.              *)
(***************************************************************************)
EXTENDS Integers, Sequences, FiniteSets, FiniteSetsExt, SequencesExt, TLC

CONSTANT LocalZone

MINUTE == 60
HOUR == 60 * MINUTE
DAY == 24 * HOUR

-----------------------------------------------------------------------------
(* The calendar of the C library: gmtime_r, localtime_r and mktime.        *)

IsLeap(y) == y % 4 = 0 /\ (y % 100 # 0 \/ y % 400 = 0)

MonthDays(y, m) ==
  CASE m = 2 -> IF IsLeap(y) THEN 29 ELSE 28
    [] m \in {4, 6, 9, 11} -> 30
    [] OTHER -> 31

\* days from the first of January 1970 to the first of January of y
YearStart(y) ==
  365 * (y - 1970) + (y - 1969) \div 4 - (y - 1901) \div 100 + (y - 1601) \div 400

DaysBefore(y, m) ==
  LET sum[k \in 1..m] == IF k = 1 THEN 0 ELSE sum[k - 1] + MonthDays(y, k - 1) IN sum[m]

MonthStart(y, m) == YearStart(y) + DaysBefore(y, m)

\* struct tm: month 0..11, day of the month from 1
GmTime(secs) ==
  LET day == secs \div DAY
      rest == secs % DAY
      guess == 1970 + day \div 365
      year == CHOOSE y \in guess - 1..guess + 1 : YearStart(y) <= day /\ day < YearStart(y + 1)
      mon == CHOOSE m \in 1..12 :
               MonthStart(year, m) <= day /\ day < MonthStart(year, m) + MonthDays(year, m)
  IN [year |-> year, mon |-> mon - 1, mday |-> day - MonthStart(year, mon) + 1,
      yday |-> day - YearStart(year), wday |-> (day + 4) % 7,
      hour |-> rest \div HOUR, min |-> (rest % HOUR) \div MINUTE, sec |-> rest % MINUTE]

LocalTime(secs) == GmTime(secs - LocalZone)

\* mktime normalises its fields
MkTime(tm) ==
  LET year == tm.year + tm.mon \div 12
  IN DAY * (MonthStart(year, (tm.mon % 12) + 1) + tm.mday - 1)
     + HOUR * tm.hour + MINUTE * tm.min + tm.sec + LocalZone

-----------------------------------------------------------------------------
(* Construction and access.                                                *)

\* the parts C's / and % make of 1000 * secs + millis
Split(secs, millis) ==
  IF secs < 0 /\ millis > 0 THEN [secs |-> secs + 1, ms |-> millis - 1000]
  ELSE [secs |-> secs, ms |-> millis]

\* Mutant: months are counted from one
NewDateMonthFromOne(args) ==
  LET Arg(i) == IF i <= Len(args) THEN args[i] ELSE 0
      tm == [year |-> IF Arg(1) > 100 THEN Arg(1) ELSE Arg(1) + 1900, mon |-> Arg(2) - 1,
             mday |-> Arg(3), hour |-> Arg(4), min |-> Arg(5), sec |-> Arg(6)]
  IN Split(MkTime(tm), IF Arg(7) > 999 THEN 999 ELSE Arg(7))

\* new Date(year, month, day, hours, minutes, seconds, millis), two to seven numbers
NewDate(args) ==
  LET Arg(i) == IF i <= Len(args) THEN args[i] ELSE 0
      \* mon is args[1] and the day stays 0 when only the month is given
      tm == [year |-> IF Arg(1) > 100 THEN Arg(1) ELSE Arg(1) + 1900, mon |-> Arg(2),
             mday |-> Arg(3), hour |-> Arg(4), min |-> Arg(5), sec |-> Arg(6)]
  IN Split(MkTime(tm), IF Arg(7) > 999 THEN 999 ELSE Arg(7))

GetFullYear(date) == LocalTime(date.secs).year
GetMonth(date) == LocalTime(date.secs).mon
GetDate(date) == LocalTime(date.secs).mday
GetDay(date) == LocalTime(date.secs).wday
GetHours(date) == LocalTime(date.secs).hour
GetMinutes(date) == LocalTime(date.secs).min
GetSeconds(date) == LocalTime(date.secs).sec
GetMilliseconds(date) == date.ms
GetUTCFullYear(date) == GmTime(date.secs).year
GetUTCMonth(date) == GmTime(date.secs).mon
GetUTCDate(date) == GmTime(date.secs).mday
GetUTCDay(date) == GmTime(date.secs).wday
GetUTCHours(date) == GmTime(date.secs).hour
GetUTCMinutes(date) == GmTime(date.secs).min
GetUTCSeconds(date) == GmTime(date.secs).sec
GetTimezoneOffset == LocalZone \div 60

\* setTime replaces the date of an object; with no argument the answer is not a number
SetTime(date, args) == IF args = <<>> THEN date ELSE args[1]

\* the other setters answer undefined and leave the date as it is
Setters == {"setUTCDate", "setUTCDay", "setUTCFullYear", "setUTCHours", "setUTCMilliseconds",
  "setUTCMinutes", "setUTCMonth", "setUTCSeconds", "setTimezoneOffset", "setMilliseconds",
  "setMinutes", "setMonth", "setSeconds", "setFullYear", "setHours", "setDate", "setDay", "setYear"}
SetField(setter, date, args) == date

\* conversions that answer undefined
Unwritten == {"toTimeString", "toUTCString", "toISOString", "toGMTString", "toLocaleDateString",
  "toLocaleFormat", "toLocaleString", "toLocaleTimeString", "toJSON", "parse", "now", "UTC"}

\* the numbers toString writes, in its order
DateToString(date) ==
  LET tm == LocalTime(date.secs)
  IN <<tm.year, tm.mon + 1, tm.mday, tm.hour, tm.min, tm.sec, date.ms>>

-----------------------------------------------------------------------------
(* The words of get_date.  A lexeme is the run of letters and digits the   *)
(* tokenizer looks up, its number (None when it starts with a letter) and  *)
(* the letters after it; or a mark of punctuation, which has no word.      *)

None == -1
tAM == 0
tPM == 1

Months == <<"january", "february", "march", "april", "may", "june", "july", "august",
            "september", "october", "november", "december">>
WeekDays == <<"sunday", "monday", "tuesday", "wednesday", "thursday", "friday", "saturday">>

\* standard and daylight zones, in hours and minutes west
Zones == <<<<"gmt", 0>>, <<"ut", 0>>, <<"utc", 0>>, <<"wet", 0>>, <<"wat", 60>>, <<"at", 120>>,
  <<"nft", 210>>, <<"nst", 210>>, <<"ast", 240>>, <<"est", 300>>, <<"cst", 360>>, <<"mst", 420>>,
  <<"pst", 480>>, <<"yst", 540>>, <<"hst", 600>>, <<"cat", 600>>, <<"ahst", 600>>, <<"nt", 660>>,
  <<"idlw", 720>>, <<"cet", -60>>, <<"met", -60>>, <<"mewt", -60>>, <<"swt", -60>>, <<"fwt", -60>>,
  <<"eet", -120>>, <<"bt", -180>>, <<"it", -210>>, <<"zp4", -240>>, <<"zp5", -300>>, <<"ist", -330>>,
  <<"zp6", -360>>, <<"wast", -420>>, <<"jt", -450>>, <<"cct", -480>>, <<"jst", -540>>,
  <<"cast", -570>>, <<"east", -600>>, <<"gst", -600>>, <<"nzt", -720>>, <<"nzst", -720>>,
  <<"idle", -720>>>>
DayZones == <<<<"bst", 0>>, <<"ndt", 210>>, <<"adt", 240>>, <<"edt", 300>>, <<"cdt", 360>>,
  <<"mdt", 420>>, <<"pdt", 480>>, <<"ydt", 540>>, <<"hdt", 600>>, <<"mest", -60>>, <<"sst", -60>>,
  <<"fst", -60>>, <<"wadt", -420>>, <<"cadt", -570>>, <<"eadt", -600>>, <<"nzdt", -720>>>>
\* { abbreviation, name, seconds }
Units == <<<<9, "fortnights", 14 * DAY>>, <<4, "weeks", 7 * DAY>>, <<3, "days", DAY>>,
  <<4, "hours", HOUR>>, <<3, "minutes", MINUTE>>, <<3, "seconds", 1>>, <<8, "tomorrow", DAY>>,
  <<9, "yesterday", -DAY>>, <<5, "today", 0>>, <<3, "now", 0>>, <<4, "this", 0>>>>
Ordinals == <<<<"last", -1>>, <<"next", 2>>, <<"first", 1>>, <<"1st", 1>>, <<"2nd", 2>>,
  <<"third", 3>>, <<"3rd", 3>>, <<"fourth", 4>>, <<"4th", 4>>, <<"fifth", 5>>, <<"5th", 5>>,
  <<"sixth", 6>>, <<"seventh", 7>>, <<"eighth", 8>>, <<"ninth", 9>>, <<"tenth", 10>>,
  <<"eleventh", 11>>, <<"twelfth", 12>>>>
Military == <<<<"a", 1>>, <<"b", 2>>, <<"c", 3>>, <<"d", 4>>, <<"e", 5>>, <<"f", 6>>, <<"g", 7>>,
  <<"h", 8>>, <<"i", 9>>, <<"k", 10>>, <<"l", 11>>, <<"m", 12>>, <<"n", -1>>, <<"o", -2>>,
  <<"p", -3>>, <<"q", -4>>, <<"r", -5>>, <<"s", -6>>, <<"t", -7>>, <<"u", -8>>, <<"v", -9>>,
  <<"w", -10>>, <<"x", -11>>, <<"y", -12>>, <<"z", 0>>>>

Entry(abbrev, name, token, value) ==
  [abbrev |-> abbrev, name |-> name, token |-> token, value |-> value]
\* rows of name and value, written out in full
Whole(token, unit, rows) ==
  [i \in 1..Len(rows) |-> Entry(Len(rows[i][1]), rows[i][1], token, rows[i][2] * unit)]

TimeWords ==
     <<Entry(2, "am", "tAMPM", tAM), Entry(2, "pm", "tAMPM", tPM)>>
  \o [m \in 1..12 |-> Entry(3, Months[m], "tMONTH", m)]
  \o [d \in 1..7 |-> Entry(IF d \in {1, 3, 5, 6, 7} THEN 2 ELSE 3, WeekDays[d], "tDAY", d - 1)]
  \o Whole("tZONE", MINUTE, Zones) \o Whole("tDAYZONE", MINUTE, DayZones)
  \o <<Entry(3, "dst", "tDST", 0), Entry(4, "years", "tMONTH_UNIT", 12),
       Entry(5, "months", "tMONTH_UNIT", 1)>>
  \o [i \in 1..Len(Units) |-> Entry(Units[i][1], Units[i][2], "tSEC_UNIT", Units[i][3])]
  \o Whole("tUNUMBER", 1, Ordinals) \o <<Entry(3, "ago", "tAGO", 1)>>
  \o Whole("tZONE", HOUR, Military)

\* the entries a word of letters and digits agrees with
Fits(word) ==
  {i \in 1..Len(TimeWords) :
     /\ TimeWords[i].abbrev <= Len(word)
     /\ Len(word) <= Len(TimeWords[i].name)
     /\ SubSeq(TimeWords[i].name, 1, Len(word)) = word}

Token(token, value) == [token |-> token, value |-> value]

\* nexttoken: the first entry that fits the whole run, or its number and then
\* its letters, or the first character, which no phrase knows
TokensOf(lexeme) ==
  LET Letters(word) ==
        LET fits == Fits(word)
        IN IF word = "" THEN <<>> ELSE IF fits = {} THEN <<Token("unknown", 0)>>
           ELSE <<Token(TimeWords[Min(fits)].token, TimeWords[Min(fits)].value)>>
      run == IF lexeme.num = None THEN lexeme.word ELSE ToString(lexeme.num) \o lexeme.word
  IN IF lexeme.mark # "" THEN IF lexeme.mark = "comment" THEN <<>> ELSE <<Token(lexeme.mark, 0)>>
     ELSE IF lexeme.num = None \/ Fits(run) # {} THEN Letters(run)
     ELSE <<Token("tUNUMBER", lexeme.num)>> \o Letters(lexeme.word)

-----------------------------------------------------------------------------
(* The phrases.  g is the parser's state (struct gdstate) with the place   *)
(* of its next token; a phrase that does not match returns g as it was.    *)

Fresh == [at |-> 1, HaveYear |-> 0, HaveMonth |-> 0, HaveDay |-> 0, HaveWeekDay |-> 0,
          HaveTime |-> 0, HaveZone |-> 0, HaveRel |-> 0, Timezone |-> 0, Day |-> 0, Hour |-> 0,
          Minutes |-> 0, Month |-> 0, Seconds |-> 0, Year |-> 0, DST |-> "on",
          DayOrdinal |-> 0, DayNumber |-> 0, RelMonth |-> 0, RelSeconds |-> 0]

\* tokens past the end are zero
Tok(t, i) == IF i <= Len(t) THEN t[i] ELSE Token("end", 0)
Shape(t, g, shape) == \A i \in 1..Len(shape) : Tok(t, g.at + i - 1).token = shape[i]
Value(t, g, i) == Tok(t, g.at + i).value

N == "tUNUMBER"

Clock(g, h, m, s, n) ==
  [g EXCEPT !.HaveTime = @ + 1, !.Hour = h, !.Minutes = m, !.Seconds = s, !.at = @ + n]

Meridian(t, g) ==
  IF ~Shape(t, g, <<"tAMPM">>) THEN g
  ELSE [g EXCEPT !.Hour = (IF @ = 12 THEN 0 ELSE @) + (IF Value(t, g, 0) = tPM THEN 12 ELSE 0),
                 !.at = @ + 1]

Offset(t, g, sign, direction) ==
  IF ~Shape(t, g, <<sign, N>>) THEN g
  ELSE [g EXCEPT !.HaveZone = @ + 1, !.DST = "off", !.at = @ + 2,
                 !.Timezone = direction * ((Value(t, g, 1) \div 100) * HOUR
                                           + (Value(t, g, 1) % 100) * MINUTE)]

TimePhrase(t, g) ==
  LET clock == CASE Shape(t, g, <<N, ":", N, ":", N>>) ->
                      Clock(g, Value(t, g, 0), Value(t, g, 2), Value(t, g, 4), 5)
                 [] Shape(t, g, <<N, ":", N>>) /\ ~Shape(t, g, <<N, ":", N, ":", N>>) ->
                      Clock(g, Value(t, g, 0), Value(t, g, 2), 0, 3)
                 [] Shape(t, g, <<N, "tAMPM">>) -> Clock(g, Value(t, g, 0), 0, 0, 1)
                 [] OTHER -> g
  IN IF clock = g THEN g
     ELSE Offset(t, Offset(t, Meridian(t, clock), "+", -1), "-", 1)

\* a zone's "dst" is looked at but not taken
ZonePhrase(t, g) ==
  LET Zone(dst) == [g EXCEPT !.HaveZone = @ + 1, !.Timezone = Value(t, g, 0), !.DST = dst,
                             !.at = @ + 1]
  IN CASE Shape(t, g, <<"tZONE", "tDST">>) -> Zone("on")
       [] Shape(t, g, <<"tZONE">>) /\ ~Shape(t, g, <<"tZONE", "tDST">>) -> Zone("off")
       [] Shape(t, g, <<"tDAYZONE">>) -> Zone("on")
       [] OTHER -> g

Civil(g, y, m, d, n) ==
  [g EXCEPT !.HaveYear = @ + 1, !.HaveMonth = @ + 1, !.HaveDay = @ + 1,
            !.Year = y, !.Month = m, !.Day = d, !.at = @ + n]
MonthDay(g, m, d, n) ==
  [g EXCEPT !.HaveMonth = @ + 1, !.HaveDay = @ + 1, !.Month = m, !.Day = d, !.at = @ + n]

DatePhrase(t, g) ==
  LET Is(shape) == Shape(t, g, shape)
      v(i) == Value(t, g, i)
  IN IF Is(<<N, "/", N, "/", N>>)
       THEN IF v(0) >= 13 THEN Civil(g, v(0), v(2), v(4), 5) ELSE Civil(g, v(4), v(0), v(2), 5)
     ELSE IF Is(<<N, "/", N>>) THEN MonthDay(g, v(0), v(2), 3)
     ELSE IF Is(<<N, "-", N, "-", N>>) THEN Civil(g, v(0), v(2), v(4), 5)
     ELSE IF Is(<<N, "-", "tMONTH", "-", N>>)
       THEN IF v(0) > 31 THEN Civil(g, v(0), v(2), v(4), 5) ELSE Civil(g, v(4), v(2), v(0), 5)
     ELSE IF Is(<<"tMONTH", N, ",", N>>) THEN Civil(g, v(3), v(0), v(1), 4)
     ELSE IF Is(<<"tMONTH", N>>) THEN MonthDay(g, v(0), v(1), 2)
     ELSE IF Is(<<N, "tMONTH", N>>) THEN Civil(g, v(2), v(1), v(0), 3)
     ELSE IF Is(<<N, "tMONTH">>) THEN MonthDay(g, v(1), v(0), 2)
     ELSE g

DayPhrase(t, g) ==
  LET Week(ordinal, number, n) ==
        [g EXCEPT !.HaveWeekDay = @ + 1, !.DayOrdinal = ordinal, !.DayNumber = number, !.at = @ + n]
  IN CASE Shape(t, g, <<"tDAY", ",">>) -> Week(1, Value(t, g, 0), 2)
       [] Shape(t, g, <<"tDAY">>) /\ ~Shape(t, g, <<"tDAY", ",">>) -> Week(1, Value(t, g, 0), 1)
       [] Shape(t, g, <<N, "tDAY">>) -> Week(Value(t, g, 0), Value(t, g, 1), 2)
       [] OTHER -> g

\* an unsigned number of seconds takes its factors one token too late
RelUnitPhrase(t, g) ==
  LET Secs(n, k) == [g EXCEPT !.HaveRel = @ + 1, !.RelSeconds = @ + n, !.at = @ + k]
      Mons(n, k) == [g EXCEPT !.HaveRel = @ + 1, !.RelMonth = @ + n, !.at = @ + k]
      v(i) == Value(t, g, i)
  IN CASE Shape(t, g, <<"-", N, "tSEC_UNIT">>) -> Secs(-(v(1) * v(2)), 3)
       [] Shape(t, g, <<"+", N, "tSEC_UNIT">>) -> Secs(v(1) * v(2), 3)
       [] Shape(t, g, <<N, "tSEC_UNIT">>) -> Secs(v(1) * v(2), 3)
       [] Shape(t, g, <<"-", N, "tMONTH_UNIT">>) -> Mons(-(v(1) * v(2)), 3)
       [] Shape(t, g, <<"+", N, "tMONTH_UNIT">>) -> Mons(v(1) * v(2), 3)
       [] Shape(t, g, <<N, "tMONTH_UNIT">>) -> Mons(v(0) * v(1), 2)
       [] Shape(t, g, <<"tSEC_UNIT">>) -> Secs(v(0), 1)
       [] Shape(t, g, <<"tMONTH_UNIT">>) -> Mons(v(0), 1)
       [] OTHER -> g

\* "ago" turns round every offset met so far
Ago(t, g) ==
  IF ~Shape(t, g, <<"tAGO">>) THEN g
  ELSE [g EXCEPT !.RelSeconds = -@, !.RelMonth = -@, !.at = @ + 1]

BareNumber(t, g) ==
  LET n == Value(t, g, 0)
  IN CASE ~Shape(t, g, <<N>>) -> g
       [] OTHER ->
          IF g.HaveTime > 0 /\ g.HaveYear = 0 /\ g.HaveRel = 0
            THEN [g EXCEPT !.HaveYear = 1, !.Year = n, !.at = @ + 1]
          ELSE IF n > 10000 THEN Civil(g, n \div 10000, (n \div 100) % 100, n % 100, 1)
          ELSE IF n < 24 THEN Clock(g, n, 0, 0, 1)
          ELSE IF n \div 100 < 24 /\ n % 100 < 60    \* "513" does not count as a time
            THEN [g EXCEPT !.Hour = n \div 100, !.Minutes = n % 100, !.Seconds = 0, !.at = @ + 1]
          ELSE g

\* the first phrase that moves past a token
Phrase(t, g) ==
  LET Else(this, next) == IF this # g THEN this ELSE next
      rel == RelUnitPhrase(t, g)
  IN Else(TimePhrase(t, g), Else(ZonePhrase(t, g), Else(DatePhrase(t, g), Else(DayPhrase(t, g),
       IF rel # g THEN Ago(t, rel) ELSE BareNumber(t, g)))))

-----------------------------------------------------------------------------
(* The absolute time.                                                      *)

Convert(month, day, year4, hours, minutes, seconds, zone, dst) ==
  LET year == IF year4 < 69 THEN year4 + 2000 ELSE IF year4 < 100 THEN year4 + 1900 ELSE year4
      years[y \in 1970..year] ==
        IF y = 1970 THEN 0 ELSE years[y - 1] + 365 + (IF (y - 1) % 4 = 0 THEN 1 ELSE 0)
      julian == day - 1 + DaysBefore(year, month) + years[year]
  IN IF \/ year \notin 1970..2038 \/ month \notin 1..12
        \/ hours \notin 0..23 \/ minutes \notin 0..59 \/ seconds \notin 0..59
     THEN -1
     ELSE IF day \notin 1..MonthDays(year, month) THEN -1
     ELSE julian * DAY + zone + hours * HOUR + minutes * MINUTE + seconds
          - (IF dst = "on" THEN HOUR ELSE 0)

DSTCorrect(start, future) ==
  LET Hour(secs) == (LocalTime(secs).hour + 1) % 24
  IN (future - start) + (Hour(start) - Hour(future)) * HOUR

\* the weekday counted from is that of a variable nobody has set: any of the seven
RelativeDate(start, dst, ordinal, number, weekday) ==
  LET then == start + DAY * ((number - weekday + 7) % 7)
              + 7 * DAY * (IF ordinal <= 0 THEN ordinal ELSE ordinal - 1)
  IN IF dst = "maybe" THEN DSTCorrect(start, then) ELSE then - start

\* a day the month does not have makes Convert answer -1, and -1 is taken for the time
RelativeMonth(start, zone, rel) ==
  LET tm == LocalTime(start)
      month == 12 * tm.year + tm.mon + rel
  IN IF rel = 0 THEN 0
     ELSE DSTCorrect(start, Convert((month % 12) + 1, tm.mday, month \div 12, tm.hour, tm.min, tm.sec,
                                    zone, "maybe"))

\* a - b in seconds, leap days from the years' numbers
DiffTm(a, b) ==
  LET ay == a.year - 1
      by == b.year - 1
      days == a.yday - b.yday + (ay \div 4 - by \div 4) - (ay \div 100 - by \div 100)
              + ((ay \div 100) \div 4 - (by \div 100) \div 4) + (ay - by) * 365
  IN days * DAY + (a.hour - b.hour) * HOUR + (a.min - b.min) * MINUTE + (a.sec - b.sec)

MaxTokens == 255

\* phrase after phrase until the tokens end; a phrase that stays put ends it too
Phrases(t) ==
  LET g[k \in 0..Len(t)] ==
        IF k = 0 THEN Fresh
        ELSE LET before == g[k - 1] IN IF before.at > Len(t) THEN before ELSE Phrase(t, before)
  IN g[Len(t)]

\* what the parsed phrases can say, taking "now" to be 0, the start of 1970
TimesOf(parsed) ==
  LET zoned == parsed.HaveZone > 0
      g == IF zoned THEN parsed
           ELSE [parsed EXCEPT !.Timezone = DiffTm(GmTime(0), LocalTime(0)), !.DST = "maybe"]
      local == IF zoned THEN GmTime(-g.Timezone) ELSE LocalTime(0)
      year == IF g.HaveYear > 0 THEN g.Year ELSE local.year
      month == IF g.HaveMonth > 0 THEN g.Month ELSE local.mon + 1
      day == IF g.HaveDay > 0 THEN g.Day ELSE local.mday
      dated == g.HaveYear > 0 \/ g.HaveMonth > 0 \/ g.HaveDay > 0
      absolute == dated \/ g.HaveTime > 0 \/ g.HaveWeekDay > 0
      start == IF absolute
               THEN Convert(month, day, year, g.Hour, g.Minutes, g.Seconds, g.Timezone, g.DST)
               ELSE IF g.HaveRel > 0 THEN 0
               ELSE -(local.hour * HOUR + local.min * MINUTE + local.sec)
      moved == start + g.RelSeconds
      months == moved + RelativeMonth(moved, g.Timezone, g.RelMonth)
      finals == IF g.HaveWeekDay > 0 /\ ~dated
                THEN {months + RelativeDate(months, g.DST, g.DayOrdinal, g.DayNumber, weekday) :
                        weekday \in 0..6}
                ELSE {months}
  IN IF \/ \E n \in {g.HaveTime, g.HaveZone, g.HaveWeekDay, g.HaveYear, g.HaveMonth, g.HaveDay} :
             n > 1
        \/ absolute /\ start < 0
     THEN {-1}
     ELSE {IF final = -1 THEN 0 ELSE final : final \in finals}

\* get_date: the answers the text can have
GetDates(text) ==
  LET t == FlattenSeq([i \in 1..Len(text) |-> TokensOf(text[i])])
      parsed == Phrases(t)
  IN IF Len(t) > MaxTokens \/ parsed.at <= Len(t) THEN {-1} ELSE TimesOf(parsed)
=============================================================================
