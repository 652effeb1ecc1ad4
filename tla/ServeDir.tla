------------------------------ MODULE ServeDir ------------------------------
(***************************************************************************)
(* How ServeDir and ServeFile (oxihttp-server/src/static_files.rs) find    *)
(* the file of a request.  A path is the sequence of its components, the   *)
(* first of them "/".                                                      *)
(*                                                                         *)
(* The served directory holds "page", which is a file, a link or nothing,  *)
(* a directory "dir" and a "link"; the links lead to the file Stray, which *)
(* lies outside.                                                           *)
(***************************************************************************)
EXTENDS Integers, Sequences, SequencesExt

CONSTANT Root     \* the canonical path of the served directory

\* Below "/" a component is a name or "..", of which a canonical path has none.
Component == STRING \ {"/"}

ASSUME RootAssumption ==
  /\ Root \in Seq(STRING) /\ Len(Root) > 1 /\ Root[1] = "/"
  /\ \A n \in 2..Len(Root) : Root[n] \in Component \ {".."}
  /\ Root[2] # "stray"

Page == Append(Root, "page")
Link == Append(Root, "link")
Stray == <<"/", "stray">>

Directories == {SubSeq(Root, 1, n) : n \in 1..Len(Root)} \cup {Append(Root, "dir")}

\* The entry c of a directory; <<>> if dir is none.
Down(dir, c) ==
  IF dir \notin Directories THEN <<>>
  ELSE IF c # ".." THEN Append(dir, c)
  ELSE IF Len(dir) > 1 THEN Front(dir) ELSE dir

\* Where the operating system finds a path: component by component, each in a
\* directory; <<>> if one is not there.
Walk(p) ==
  LET to[n \in 1..Len(p)] == IF n = 1 THEN <<"/">> ELSE Down(to[n - 1], p[n])
  IN  to[Len(p)]

\* canonicalize() follows links; page tells what the page is, "file", "link" or "none".
Resolved(p, page) ==
  IF Walk(p) = Link \/ (Walk(p) = Page /\ page = "link") THEN Stray ELSE Walk(p)

\* A component takes its place behind those kept so far; ".." takes away the last.
Keep(kept, c) ==
  IF c # ".." THEN Append(kept, c) ELSE IF kept # <<>> THEN Front(kept) ELSE kept

\* The components that remain of a path by its text.
Lexical(p) ==
  LET of[n \in 0..Len(p)] == IF n = 0 THEN <<>> ELSE Keep(of[n - 1], p[n])
  IN  of[Len(p)]

\* Mutant: the path as it was sent begins with the root.
IsPathSafe_Textual(candidate) == IsPrefix(Root, candidate)

IsPathSafe(candidate) == IsPrefix(Root, Lexical(candidate))

\* is_file() follows them, too.
IsFile(p, page) == (Walk(p) = Page /\ page = "file") \/ Resolved(p, page) = Stray

\* What serve() makes of a request: an error status, or the path it hands to
\* respond_with_file with status 0.
Refuse(s) == [status |-> s, at |-> <<>>]
Serve(p) == [status |-> 0, at |-> p]

\* Mutant: the path is checked without its links being followed.
Contained_Unresolved(r, p, page) ==
  IF r.deny /\ ~IsPrefix(Root, Walk(p)) THEN Refuse(403) ELSE Serve(p)

Contained(r, p, page) ==
  IF r.deny /\ ~IsPrefix(Root, Resolved(p, page)) THEN Refuse(403) ELSE Serve(p)

ServeDirectory(r, page) ==
  LET rel == IF r.at = <<>> THEN r.index ELSE r.at
      joined == Root \o rel
      fallback == Root \o r.fallback
  IN  CASE rel = <<>> -> Refuse(404)
        [] rel # <<>> /\ ~IsPathSafe(joined) -> Refuse(403)
        [] rel # <<>> /\ IsPathSafe(joined) /\ IsFile(joined, page) ->
             Contained(r, joined, page)
        [] OTHER -> IF r.fallback # <<>> /\ IsFile(fallback, page)
                      THEN Contained(r, fallback, page) ELSE Refuse(404)

Outcome(r, page) ==
  CASE r.method \notin {"GET", "HEAD"} -> Refuse(405)
    [] r.method \in {"GET", "HEAD"} /\ r.server = "file" -> Serve(Page)
    [] OTHER -> ServeDirectory(r, page)
=============================================================================
