--------------------------- MODULE MCResponseBody ---------------------------
(* Instances of ResponseBody for TLC.                                        *)
EXTENDS ResponseBody

Absent == [kind |-> "absent"]
range(k, f, l) == [kind |-> k, first |-> f, last |-> l]

\* No range, a closed one, one that is too long, an open one, suffixes longer
\* and shorter than the file.
Ranges ==
  {Absent, range("closed", 1, 2), range("closed", 2, 1), range("closed", 1, 3),
   range("open", 2, 0), range("open", 3, 0),
   range("suffix", 0, 0), range("suffix", 0, 2), range("suffix", 0, 5)}

ServedRoot == <<"/", "srv">>

\* A GET for the page, through ServeFile.
Get ==
  [method |-> "GET", range |-> Absent, inm |-> Absent, ims |-> Absent,
   server |-> "file", at |-> <<"page">>, index |-> <<>>, fallback |-> <<>>,
   deny |-> FALSE, born |-> [day |-> 0, sec |-> 0]]

Tags ==
  {[kind |-> "etags", any |-> FALSE, etags |-> {<<0, FileSize>>}],
   [kind |-> "etags", any |-> TRUE, etags |-> {}]}

\* Paths that name the page, a link out of the root, a directory and nothing; that
\* leave the root for good, on the way, and by more than there is.
Paths ==
  {<<>>, <<"page">>, <<"link">>, <<"dir">>, <<"other">>,
   <<"dir", "..", "page">>, <<"other", "..", "page">>, <<"..", "stray">>,
   <<"..", "srv", "page">>, <<"..", "..", "srv", "page">>, <<"dir", "..", "..", "stray">>}

Lookups ==
  {[Get EXCEPT !.method = IF p \in {<<"link">>, <<"page">>} THEN "GET" ELSE "HEAD",
               !.server = "dir", !.at = p, !.index = i, !.fallback = f, !.deny = d] :
     p \in Paths, i \in {<<>>, <<"page">>}, f \in {<<>>, <<"page">>, <<"link">>},
     d \in BOOLEAN}

\* The calendar by counting: years and months that have passed, leap years among
\* them.
Leap(y) == y % 4 = 0 /\ (y % 100 # 0 \/ y % 400 = 0)
Days(y, m) == CASE m = 2 -> IF Leap(y) THEN 29 ELSE 28
                [] m \in {4, 6, 9, 11} -> 30
                [] OTHER -> 31

Instant(y, m, d, s) ==
  [day |-> 365 * (y - 1970) + Cardinality({k \in 1970..y - 1 : Leap(k)})
             + FoldFunction(LAMBDA a, b : a + b, 0, [k \in 1..m - 1 |-> Days(y, k)])
             + d - 1,
   sec |-> s]

\* The first second of a month and the last one, around the end of February and of
\* the year, in years of every sort.
Moments ==
  {[year |-> y, month |-> m, day |-> 1, hour |-> 0, min |-> 0, sec |-> 0] :
     y \in {1970, 1999, 2000, 2024, 2069, 2100}, m \in {1, 3, 12}}
    \cup {[year |-> y, month |-> m, day |-> Days(y, m), hour |-> 23, min |-> 59, sec |-> 59] :
     y \in {1970, 1999, 2000, 2024, 2069, 2100}, m \in {1, 2, 12}}

InstantOf(f) == Instant(f.year, f.month, f.day, f.hour * 3600 + f.min * 60 + f.sec)

TwoDigits(f) == [f EXCEPT !.year = @ % 100]
Style(f, s) == [style |-> s] @@ f

\* A date as this server writes it, and as others do: their fields are those of the
\* calendar.
Dated(f, date, readable) ==
  [kind |-> "date", date |-> date, instant |-> InstantOf(f), readable |-> readable]

DatesOf(f) ==
  {Dated(f, FormatHttpDate(InstantOf(f)), TRUE),
   Dated(f, Style(f, "asctime"), TRUE),
   Dated(f, Style(f, "unknown"), FALSE)}
    \cup {Dated(f, Style(TwoDigits(f), "rfc850"), TRUE) : x \in {f.year} \cap 1970..2069}

\* The client has seen the file as it was born, or a day before.
Revalidations ==
  UNION {{[Get EXCEPT !.method = "HEAD", !.born = b, !.ims = d] :
            b \in {InstantOf(f), After(InstantOf(f), 86400)},
            d \in DatesOf(f)} : f \in Moments}

Asked ==
  {[Get EXCEPT !.method = m, !.range = r] : m \in {"GET", "HEAD", "POST"}, r \in Ranges}
    \cup {[Get EXCEPT !.inm = t] : t \in Tags} \cup Lookups \cup Revalidations

part(streamed, chunks, fails) == [streamed |-> streamed, chunks |-> chunks, fails |-> fails]

NoBytes == <<"data", "">>
a == <<"data", "a">>
b == <<"data", "b">>
c == <<"data", "c">>

\* Chunks that hold the boundary, and the boundary with a suffix.
once == <<"data", "boundary">>
twice == <<"data", "boundary0001">>
Collisions == {<<once, 0>>, <<twice, 0>>, <<twice, 1>>}

Parts ==
  {part(FALSE, <<chunk>>, FALSE) : chunk \in {a, Empty, once, twice}}
    \cup {part(TRUE, s, f) : s \in {<<>>, <<b, c>>, <<Empty, once, Empty>>},
                             f \in BOOLEAN}

AllForms == UNION {[1..n -> Parts] : n \in 0..2}

-----------------------------------------------------------------------------
accept(name, q) == [name |-> name, q |-> q]

Accepts ==
  {<<>>, <<accept("gzip", 10)>>, <<accept("*", 10)>>, <<accept("br", 10)>>,
   <<accept("gzip", 0), accept("deflate", 10)>>,
   <<accept("gzip", 0), accept("deflate", 0)>>,
   <<accept("gzip", 0), accept("*", 10)>>, <<accept("*", 0), accept("gzip", 10)>>,
   <<accept("deflate", 9), accept("gzip", 8)>>}

Long == <<1, 2, 3, 4, 5, 6>>
Short == <<1, 2>>

\* Responses of this server, coded by the handler or not.
Own ==
  {[accept |-> a1, feature |-> f, decompress |-> d, cap |-> n, own |-> TRUE, status |-> s,
    coding |-> t[1], stream |-> t[2], meant |-> t[3], preferred |-> p, min |-> 2] :
     a1 \in Accepts, f \in BOOLEAN, d \in BOOLEAN, n \in {2, 3, 6}, s \in {200, 404},
     t \in {<<"identity", Plain(Long), Long>>, <<"identity", Plain(Short), Short>>,
            <<"identity", Plain(<<1>>), <<1>>>>, <<"identity", Plain(<<>>), <<>>>>,
            <<"gzip", Coded("gzip", Long), Long>>},
     p \in {<<"gzip", "deflate">>, <<"deflate">>}}

coded(f, members, trailer) == [form |-> f, members |-> members, trailer |-> trailer]

\* Responses of other servers: codings in every container, of several members,
\* damaged, mislabelled or unknown.
Others ==
  {[accept |-> <<>>, feature |-> f, decompress |-> d, cap |-> n, own |-> FALSE, status |-> 200,
    coding |-> t[1], stream |-> t[2], meant |-> t[3], preferred |-> <<>>, min |-> 0] :
     f \in BOOLEAN, d \in BOOLEAN, n \in {2, 3, 6},
     t \in {<<"deflate", coded("zlib", <<Short>>, Short), Short>>,
            <<"deflate", coded("raw", <<Long>>, Long), Long>>,
            <<"deflate", coded("gzip", <<Short>>, Short), Short>>,
            <<"gzip", coded("gzip", <<Short, <<3>>>>, <<3>>), <<1, 2, 3>>>>,
            <<"gzip", coded("gzip", <<Short, <<3, 4>>>>, <<3, 4>>), <<1, 2, 3, 4>>>>,
            <<"gzip", coded("gzip", <<Short, Short>>, Short), Short \o Short>>,
            <<"gzip", coded("gzip", <<Short, <<3>>, Short>>, Short), <<1, 2, 3, 1, 2>>>>,
            <<"gzip", coded("gzip", <<<<1, 9>>>>, Short), Short>>,
            <<"gzip", Plain(Long), Long>>,
            <<"br", coded("br", <<Long>>, Long), Long>>}}

AllExchanges == Own \cup Others
=============================================================================
