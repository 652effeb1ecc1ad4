---------------------------- MODULE Negotiation ----------------------------
(***************************************************************************)
(* The Accept header and the choice of a content type (oxihttp-core/src/   *)
(* content_type.rs; Request::negotiate in oxihttp-server/src/router.rs).   *)
(*                                                                         *)
(* A media range is a pair <<type, subtype>>, either of which may be "*"; a *)
(* header is the sequence of its entries [range, mark, q].  Qualities are  *)
(* tenths; mark says how the quality is written: not at all, as ";q=", or  *)
(* with a space after the semicolon.                                       *)
(***************************************************************************)
EXTENDS Integers, Sequences, SequencesExt

MaxQuality == 10

\* extract_quality: only ";q=" is looked for, and the default is the maximum.
Quality(e) == IF e.mark = "tight" THEN e.q ELSE MaxQuality

\* ContentType::from_str has one variant for both names of XML.
Variant(range) ==
  IF range = <<"text", "xml">> THEN <<"application", "xml">> ELSE range

\* Before the first entry whose quality is below q.
Place(sorted, q) ==
  Min({i \in DOMAIN sorted : Quality(sorted[i]) < q} \cup {Len(sorted) + 1})

\* Mutant: of two entries with the same quality the later one is preferred.
Ranked_NewestFirst(sorted, e) == InsertAt(sorted, Place(sorted, Quality(e) + 1), e)

\* The stable sort, one entry at a time: e comes after its equals.
Ranked(sorted, e) == InsertAt(sorted, Place(sorted, Quality(e)), e)

parse_accept(header) ==
  LET of[n \in 0..Len(header)] ==
        IF n = 0 THEN <<>> ELSE Ranked(of[n - 1], header[n])
  IN  of[Len(header)]

\* Does a range of the header take a supported type?
Takes(e, mime) ==
  LET range == Variant(e.range)
  IN  \/ range = Variant(mime)
      \/ range = <<"*", "*">>
      \/ range[2] = "*" /\ range[1] = Variant(mime)[1]

\* The entries in their order, and for each the supported types in theirs: what is
\* found is the index of a supported type, or 0.
negotiate_content_type(header, supported) ==
  LET entries == parse_accept(header)
      takers  == {i \in DOMAIN entries : \E k \in DOMAIN supported :
                                           Takes(entries[i], supported[k])}
      best    == entries[CHOOSE i \in takers : \A j \in takers : i <= j]
      offers  == {k \in DOMAIN supported : Takes(best, supported[k])}
  IN  IF takers = {} THEN 0 ELSE CHOOSE k \in offers : \A l \in offers : k <= l

\* A request without the header accepts anything; of several lines the first counts.
Anything == [range |-> <<"*", "*">>, mark |-> "none", q |-> MaxQuality]

negotiate_from_headers(lines, supported) ==
  negotiate_content_type(IF lines = <<>> THEN <<Anything>> ELSE lines[1], supported)
=============================================================================
