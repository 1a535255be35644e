------------------------------ MODULE Metadata ------------------------------
(***************************************************************************)
(* What a profile says of its subscription: title, update interval and     *)
(* quota, from the headers of the answer (fetch/headers.rs) and from the   *)
(* #-directives of its body (parse/mod.rs), merged by normalize.           *)
(*                                                                         *)
(* Headers are [title, interval, quota], directives a sequence of          *)
(* <<key, value>>.  An interval that is not a u32, and an empty quota, are *)
(* Absent; a quota is the sequence of its <<field, number>> parts whose    *)
(* number is one.  Directives inside Base64 are not seen and not part of   *)
(* the sequence.  Announcement and support link have no directive.         *)
(***************************************************************************)
EXTENDS Profile

Quotas == {"upload", "download", "total", "expire"}
Silent == [title |-> Absent, interval |-> Absent, quota |-> Absent]

\* The last value stated for a key; Absent may also be that value.
LastOf(pairs, key, default) ==
  LET i == SelectLastInSeq(pairs, LAMBDA p : p[1] = key)
  IN  IF i = 0 THEN default ELSE pairs[i][2]

Hour == 3600    \* in seconds

\* Mutant: 3600 is taken for hours.
HoursBeyond(interval) ==
  CASE interval = Absent -> 0
    [] interval # Absent /\ interval > Hour -> interval \div Hour
    [] OTHER -> interval

\* Below 3600 the number counts hours, from there on seconds.
Hours(interval) ==
  CASE interval = Absent -> 0
    [] interval # Absent /\ interval >= Hour -> interval \div Hour
    [] OTHER -> interval

\* A text without a part that can be read is a quota of zeros, no limit.
UserInfo(quota) ==
  IF quota = Absent THEN Absent
  ELSE [f \in Quotas |-> LastOf(quota, f, IF f = "expire" THEN Absent ELSE 0)]

\* Each directive overwrites what the last one of its key said, also with nothing.
BodyMetadata(directives) ==
  [title    |-> LastOf(directives, "title", Absent),
   interval |-> LastOf(directives, "interval", Absent),
   quota    |-> LastOf(directives, "quota", Absent)]

\* Mutant: a header that is there counts, whatever it says.
MergePresent(headers, directives) ==
  LET body == BodyMetadata(directives) IN
  [title    |-> OrElse(OrElse(headers.title, body.title), ""),
   interval |-> Hours(OrElse(headers.interval, body.interval)),
   quota    |-> OrElse(UserInfo(headers.quota), UserInfo(body.quota))]

\* Headers come first; an empty title or an interval of 0 hides no directive.
Merge(headers, directives) ==
  LET body == BodyMetadata(directives) IN
  [title    |-> IF headers.title \in {Absent, ""} THEN OrElse(body.title, "")
                                                  ELSE headers.title,
   interval |-> IF Hours(headers.interval) > 0 THEN Hours(headers.interval)
                                               ELSE Hours(body.interval),
   quota    |-> OrElse(UserInfo(headers.quota), UserInfo(body.quota))]
=============================================================================
