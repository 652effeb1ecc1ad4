----------------------------- MODULE FileStream -----------------------------
(***************************************************************************)
(* The response for a file (ServeDir, ServeFile, respond_with_file and     *)
(* FileRangeStream of oxihttp-server/src/static_files.rs): the path is     *)
(* resolved, the metadata are read next, then the file is opened and read  *)
(* chunk by chunk while the client takes them, and at any time somebody    *)
(* else may append to the file, truncate it, put another one or a link in  *)
(* its place or remove it.                                                 *)
(*                                                                         *)
(* A byte is the number of the edit that wrote it, the time of an edit its *)
(* number; two edits make a second, after the one the file was born in.    *)
(***************************************************************************)
EXTENDS BodyStream, HttpDate, ServeDir

CONSTANTS
  FileRequests,  \* the requests: [method, range, inm, ims], how they are served,
                 \* [server, at, index, fallback, deny], and when the file was born
  Chunk,         \* CHUNK_SIZE
  FileSize,      \* bytes of the file at first
  MaxEdits       \* bound: edits

ASSUME FileAssumption ==
  /\ Chunk \in Nat \ {0} /\ FileSize \in Nat /\ MaxEdits \in Nat
  /\ \A r \in FileRequests :
       /\ r.born.day \in Nat /\ r.born.sec \in Nat
       /\ r.range.kind \in {"absent", "closed", "open", "suffix"}
       /\ r.range.kind # "absent" => r.range.first \in Nat /\ r.range.last \in Nat
       /\ r.at \in Seq(Component)
       \* The application names its index and its fallback within the root.
       /\ r.index \in Seq(Component \ {".."}) /\ r.fallback \in Seq(Component \ {".."})

VARIABLES
  file,      \* inode: [bytes, mtime]
  path,      \* the inode the path leads to, 0 if none, StrayInode through a link
  edits,     \* history: edits there were, and the clock
  ask,       \* the request
  step,      \* the handler: "resolve", "stat", "open", "answered"
  at,        \* the path it has resolved
  found,     \* history: what the page was then: "file", "link" or "none"
  meta,      \* [len, mtime] as metadata() returned them
  status,    \* of the response: 200, 206, 304, 403, 404, 405, 416, 500 for an error
  handle,    \* the inode that was opened
  pos,       \* where it is read
  left,      \* FileRangeStream::remaining
  declared,  \* Content-Length
  seen       \* history: the bytes of the file when its metadata were read

fileVars == <<file, path, edits, ask, step, at, found, meta, status, handle, pos, left,
              declared, seen>>

\* The last one is the file outside of the root, which nobody edits.
StrayInode == MaxEdits + 2
Inode == 1..StrayInode

Seconds(t) == After(ask.born, t \div 2)
Etag(m) == <<m.mtime, m.len>>

PageIs == IF path = 0 THEN "none" ELSE IF path = StrayInode THEN "link" ELSE "file"

\* The inode a path leads to, 0 if none.
InodeAt(p) ==
  IF Walk(p) = Page THEN path ELSE IF Resolved(p, PageIs) = Stray THEN StrayInode ELSE 0

HeadOnly == ask.method = "HEAD"

FileInit(requests) ==
  /\ file = [i \in Inode |-> [bytes |-> [b \in 1..FileSize |-> 0], mtime |-> 0]]
  /\ path = 1 /\ edits = 0
  /\ ask \in requests
  /\ step = "resolve" /\ at = <<>> /\ found = "file" /\ status = 0
  /\ meta = [len |-> 0, mtime |-> 0]
  /\ handle = 0 /\ pos = 0 /\ left = 0 /\ declared = 0 /\ seen = <<>>

-----------------------------------------------------------------------------
(* The handler                                                              *)

\* The offsets parse_single_range takes from [kind, first, last], and whether it
\* accepts them.
RangeStart(r, len) ==
  IF r.kind = "suffix" THEN Max({len - r.last, 0}) ELSE r.first

RangeEnd(r, len) == IF r.kind = "closed" THEN r.last ELSE Max({len - 1, 0})

Satisfiable(r, len) ==
  /\ r.kind = "suffix" => r.last > 0
  /\ RangeStart(r, len) < len /\ RangeEnd(r, len) < len
  /\ RangeStart(r, len) <= RangeEnd(r, len)

NotModified(m) ==
  \/ ask.inm.kind # "absent" /\ (ask.inm.any \/ Etag(m) \in ask.inm.etags)
  \/ ask.ims.kind # "absent" /\ ~IsModifiedSince(Seconds(m.mtime), ask.ims.date)

\* A response without a body.
AnswerEmpty(s, length) ==
  /\ step' = "answered" /\ status' = s /\ declared' = length
  /\ body = "none" /\ body' = "ended" /\ UNCHANGED got
  /\ UNCHANGED <<handle, pos, left>>

Offer(s, start, length) ==
  IF HeadOnly THEN AnswerEmpty(s, length)
  ELSE /\ step' = "open" /\ status' = s /\ declared' = length
       /\ pos' = start /\ left' = length
       /\ UNCHANGED <<bodyVars, handle>>

\* The method, the path and its safety.
Resolve ==
  /\ step = "resolve"
  /\ found' = PageIs
  /\ LET o == Outcome(ask, PageIs)
     IN  \/ o.status # 0 /\ AnswerEmpty(o.status, 0) /\ UNCHANGED at
         \/ /\ o.status = 0
            /\ step' = "stat" /\ at' = o.at
            /\ UNCHANGED <<bodyVars, status, handle, pos, left, declared>>
  /\ UNCHANGED <<file, path, edits, ask, meta, seen>>

\* metadata(), the conditional headers and the range.
Stat ==
  /\ step = "stat" /\ InodeAt(at) # 0
  /\ LET now == file[InodeAt(at)]
         m == [len |-> Len(now.bytes), mtime |-> now.mtime]
         r == ask.range
     IN  /\ meta' = m
         /\ seen' = now.bytes
         /\ CASE NotModified(m) -> AnswerEmpty(304, 0)
              [] ~NotModified(m) /\ r.kind # "absent" /\ ~Satisfiable(r, m.len) ->
                   AnswerEmpty(416, 0)
              [] ~NotModified(m) /\ r.kind # "absent" /\ Satisfiable(r, m.len) ->
                   Offer(206, RangeStart(r, m.len),
                         RangeEnd(r, m.len) - RangeStart(r, m.len) + 1)
              [] OTHER -> Offer(200, 0, m.len)
  /\ UNCHANGED <<file, path, edits, ask, at, found>>

\* File::open and seek; the path is looked up once more.
Open ==
  /\ step = "open" /\ InodeAt(at) # 0
  /\ handle' = InodeAt(at)
  /\ step' = "answered"
  /\ Created
  /\ UNCHANGED <<file, path, edits, ask, at, found, meta, status, pos, left, declared,
                 seen>>

\* The file is gone before it is opened, or before its metadata are read.
Missing ==
  /\ step \in {"stat", "open"} /\ InodeAt(at) = 0
  /\ AnswerEmpty(500, 0)
  /\ UNCHANGED <<file, path, edits, ask, at, found, meta, seen>>

\* Mutant: a chunk is read in full.
Want_Chunk == Chunk

Want == Min({left, Chunk})

Available == Len(file[handle].bytes) - pos

FilePoll == body = "open" /\ step = "answered" /\ handle # 0

\* A read returns some of the bytes there are.
ReadChunk ==
  /\ FilePoll /\ left > 0
  /\ \E n \in 1..Min({Want, Available}) :
       /\ Yield(SubSeq(file[handle].bytes, pos + 1, pos + n))
       /\ pos' = pos + n
       /\ left' = left - n
  /\ UNCHANGED <<file, path, edits, ask, step, at, found, meta, status, handle, declared,
                 seen>>

\* All is read, or the end of the file has come too soon.
ReadEnd ==
  /\ FilePoll
  /\ left = 0 \/ Available <= 0
  /\ End
  /\ left' = 0
  /\ UNCHANGED <<file, path, edits, ask, step, at, found, meta, status, handle, pos,
                 declared, seen>>

ReadError ==
  /\ FilePoll /\ left > 0
  /\ Fail
  /\ left' = 0
  /\ UNCHANGED <<file, path, edits, ask, step, at, found, meta, status, handle, pos,
                 declared, seen>>

-----------------------------------------------------------------------------
(* The file system                                                          *)

Edit(i, bytes) ==
  /\ edits < MaxEdits
  /\ edits' = edits + 1
  /\ file' = [file EXCEPT ![i] = [bytes |-> bytes, mtime |-> edits + 1]]
  /\ UNCHANGED <<bodyVars, ask, step, at, found, meta, status, handle, pos, left, declared,
                 seen>>

AppendToFile ==
  PageIs = "file" /\ Edit(path, Append(file[path].bytes, edits + 1)) /\ UNCHANGED path

Truncate ==
  /\ PageIs = "file"
  /\ \E n \in 0..Len(file[path].bytes) - 1 : Edit(path, SubSeq(file[path].bytes, 1, n))
  /\ UNCHANGED path

\* A new file is renamed over the old one.
ReplaceFile ==
  /\ Edit(edits + 2, [b \in 1..FileSize |-> edits + 1])
  /\ path' = edits + 2

PathLeadsTo(i) ==
  /\ path # i /\ path' = i
  /\ UNCHANGED <<bodyVars, file, edits, ask, step, at, found, meta, status, handle, pos, left,
                 declared, seen>>

RemoveFile == PathLeadsTo(0)

\* A link that leads out of the root comes in the file's place.
LinkFile == PathLeadsTo(StrayInode)

FileLosesClient == FilePoll /\ Disconnect /\ UNCHANGED fileVars

FileNext ==
  \/ Resolve \/ Stat \/ Open \/ Missing \/ ReadChunk \/ ReadEnd \/ ReadError
  \/ AppendToFile \/ Truncate \/ ReplaceFile \/ RemoveFile \/ LinkFile
  \/ FileLosesClient

\* A body never outgrows its Content-Length, whatever happens to the file.
LengthKept == Len(got) <= declared

\* What the response announces, while the file read begins as the one whose
\* metadata were read: appending to it does no harm.
Untouched == handle # 0 => IsPrefix(seen, file[handle].bytes)

Announced ==
  IF status \in {200, 206} /\ ~HeadOnly
    THEN IF ask.range.kind = "absent" THEN seen
         ELSE SubSeq(seen, RangeStart(ask.range, meta.len) + 1,
                     RangeEnd(ask.range, meta.len) + 1)
    ELSE <<>>

\* A response is made from the file that was asked for, if it is in the root; from
\* one outside only through a link, and with symlink protection only through one that
\* has come since the path was checked; nothing else is forbidden, and what is there is
\* found, unless it is asked for by way of "..": static_files.rs:18-24 has that rejected,
\* while is_path_safe lets it pass within the root.
FromTheRoot ==
  LET asked == Root \o (IF ask.at = <<>> THEN ask.index ELSE ask.at)
      fallback == Root \o ask.fallback
  IN  ask.server = "dir" =>
        /\ at # <<>> => Walk(at) # Stray /\ (ask.deny => Resolved(at, found) # Stray)
        /\ ask.deny /\ handle = StrayInode => Walk(at) = Page /\ found = "file"
        /\ Walk(asked) = Page /\ found = "file" /\ ".." \notin Range(ask.at) =>
             (at # <<>> => Walk(at) = Page) /\ status # 404
        /\ status = 403 =>
             \/ ".." \in Range(ask.at)
             \/ ask.deny /\ Stray \in {Resolved(asked, found), Resolved(fallback, found)}

\* A client that sends the date of an instant is told that nothing has changed
\* exactly when the file was last written in that second or before.
ConditionsKept ==
  status \in {200, 304} /\ ask.inm.kind = "absent" =>
    (status = 304 <=> /\ ask.ims.kind # "absent" /\ ask.ims.readable
                      /\ ~Earlier(ask.ims.instant, Seconds(meta.mtime)))
=============================================================================
