----------------------------- MODULE TarStream -----------------------------
(***************************************************************************)
(* Package archive of the registry-buddy: a goroutine writes a tar into a  *)
(* pipe while somebody reads it.  A pipe has no buffer: a write ends when   *)
(* it has been read or the reader is closed.  GenerateTar's goroutine hands *)
(* its result to the reader's Close over a channel without buffer;          *)
(* TarBuilder's does not.  Streams are independent of each other.           *)
(***************************************************************************)
EXTENDS Integers, Sequences

CONSTANTS
    Streams,
    Archives   \* what a zip or a TarBuilder may hold: sequences of entries

\* An entry: directories, and files of some content, have nothing to tell apart.
\* `fat' is the creator version's file system (isFatFile).
Entries == [kind: {"file", "symlink"}, mode: Int, time: Int, fat: BOOLEAN]

ASSUME TarStreamAssumption == Archives \subseteq Seq(Entries)

\* WriteZipToTar with the mode -1: an entry keeps its mode, unless FAT had none.
FileMode(e) == IF e.fat THEN 511 ELSE e.mode

NormalizedDateTime == 0

\* Mutant: the time stamps of the zip are kept.
HeaderWithTime(e) == [kind |-> e.kind, mode |-> FileMode(e), time |-> e.time, broken |-> FALSE]
\* finalizeHeader, NormalizeHeader: no time stamp and no owner of the zip is kept.
\* A symlink that could not be opened is broken: its target is empty.
Header(e) ==
    [kind |-> e.kind, mode |-> FileMode(e), time |-> NormalizedDateTime, broken |-> FALSE]
Headers == [kind: {"file", "symlink"}, mode: Int, time: Int, broken: BOOLEAN]
Broken(h) == [h EXCEPT !.broken = TRUE]
\* TarBuilder.WriteTo writes the entries as they were added.
BuilderHeader(e) == [kind |-> e.kind, mode |-> e.mode, time |-> e.time, broken |-> FALSE]

VARIABLES
    source,  \* what the goroutine writes: "zip" (ReadZipAsTar), "builder", "none"
    gen,     \* where the goroutine is
    result,  \* what its function has come to: "ok", "error" or "panic"
    zip,     \* the zip file is open
    entries, \* what there is to write
    tar,     \* the entries that have been read from the pipe, whole
    trailer, \* the end of the tar has been read from the pipe
    pipe,    \* the write end of the pipe: "open", or closed with "eof" or "error"
    reader   \* who reads: "none", "reading", at "eof" or "error", "closing", "closed"

stream == <<source, gen, result, zip, entries, tar, trailer, pipe, reader>>

TarInit ==
    /\ source = [s \in Streams |-> "none"] /\ gen = [s \in Streams |-> "none"]
    /\ result = [s \in Streams |-> "ok"] /\ zip = [s \in Streams |-> FALSE]
    /\ entries = [s \in Streams |-> <<>>] /\ tar = [s \in Streams |-> <<>>]
    /\ trailer = [s \in Streams |-> FALSE]
    /\ pipe = [s \in Streams |-> "open"] /\ reader = [s \in Streams |-> "none"]

\* The entries that are left, and the next of them.
More(s) == Len(tar[s]) < Len(entries[s])
Current(s) == entries[s][Len(tar[s]) + 1]
HeaderOf(s) == IF source[s] = "zip" THEN Header(Current(s)) ELSE BuilderHeader(Current(s))

\* The goroutine has reached step g.
Goto(s, g) == gen' = [gen EXCEPT ![s] = g]

\* ReadZipAsTar, GenerateTarWithWriter.
ReadZipAsTar(s) ==
    /\ gen[s] = "none"
    /\ source' = [source EXCEPT ![s] = "zip"]
    /\ reader' = [reader EXCEPT ![s] = "reading"]
    /\ Goto(s, "open")
    /\ UNCHANGED <<result, zip, entries, tar, trailer, pipe>>

\* TarBuilder.Reader, with the files and directories that were added.
BuilderReader(s) ==
    /\ gen[s] = "none"
    /\ source' = [source EXCEPT ![s] = "builder"]
    /\ \E a \in Archives : entries' = [entries EXCEPT ![s] = a]
    /\ reader' = [reader EXCEPT ![s] = "reading"]
    /\ Goto(s, "entry")
    /\ UNCHANGED <<result, zip, tar, trailer, pipe>>
-----------------------------------------------------------------------------
(* The goroutine.                                                            *)

\* Mutant: the deferred Close of the zip file is missing.
ReturnOnly(s, r, next) ==
    /\ result' = [result EXCEPT ![s] = r]
    /\ Goto(s, next)
    /\ UNCHANGED zip
\* The function returns or panics; its deferred calls close the zip file.  A tar
\* writer that has an entry unfinished or a write failed will add no trailer.
Return(s, r, next) ==
    /\ result' = [result EXCEPT ![s] = r]
    /\ zip' = [zip EXCEPT ![s] = FALSE]
    /\ Goto(s, next)

\* zip.OpenReader.
OpenZip(s) ==
    /\ gen[s] = "open"
    /\ \/ /\ \E a \in Archives : entries' = [entries EXCEPT ![s] = a]
          /\ zip' = [zip EXCEPT ![s] = TRUE]
          /\ Goto(s, "entry")
          /\ UNCHANGED result
       \/ Return(s, "error", "trailer") /\ UNCHANGED entries
    /\ UNCHANGED <<source, tar, trailer, pipe, reader>>

\* What ends WriteZipToTar and TarBuilder.WriteTo between two entries: an unreadable
\* symlink, a header that tar refuses, a panic (of a zip), or the last entry.
EntryFails(s) ==
    /\ gen[s] = "entry" /\ More(s)
    /\ \E r \in IF source[s] = "zip" THEN {"error", "panic"} ELSE {"error"} :
          Return(s, r, "trailer")
    /\ UNCHANGED <<source, entries, tar, trailer, pipe, reader>>

LastEntry(s) ==
    /\ gen[s] = "entry" /\ ~More(s)
    /\ Return(s, "ok", "trailer")
    /\ UNCHANGED <<source, entries, tar, trailer, pipe, reader>>

Read(s, h) == tar' = [tar EXCEPT ![s] = Append(@, h)]

\* The header of the next entry, which is all of a symlink.
WriteHeader(s) ==
    /\ gen[s] = "entry" /\ More(s) /\ reader[s] = "reading"
    /\ \/ Current(s).kind = "file" /\ Goto(s, "content") /\ UNCHANGED tar
       \/ Current(s).kind = "symlink" /\ Read(s, HeaderOf(s)) /\ UNCHANGED gen
       \/ /\ Current(s).kind = "symlink" /\ source[s] = "zip"
          /\ Read(s, Broken(HeaderOf(s)))
          /\ UNCHANGED gen
    /\ UNCHANGED <<source, result, zip, entries, trailer, pipe, reader>>

\* io.Copy of a file; the content of a TarBuilder's entry.
WriteContent(s) ==
    /\ gen[s] = "content" /\ reader[s] = "reading"
    /\ Read(s, HeaderOf(s))
    /\ Goto(s, "entry")
    /\ UNCHANGED <<source, result, zip, entries, trailer, pipe, reader>>

\* Mutant: the error of io.Copy is dropped.
CopyIgnored == "ok"
\* A file of the zip cannot be opened or read to its end, or its checksum is found
\* to be wrong after its last byte: then its entry and the trailer are written.
CopyError == "error"
ContentFails(s) ==
    /\ gen[s] = "content" /\ source[s] = "zip"
    /\ \/ \E r \in {CopyError, "panic"} : Return(s, r, "finish") /\ UNCHANGED tar
       \/ /\ reader[s] = "reading"
          /\ Read(s, HeaderOf(s))
          /\ Return(s, CopyError, "trailer")
    /\ UNCHANGED <<source, entries, trailer, pipe, reader>>

\* Mutant: Close waits for the result without closing the pipe first.
ReaderStillThere(s) == reader[s] = "closed"
\* A write meets a reader that has been closed.
ReaderGone(s) == reader[s] \in {"closing", "closed"}
WriteFails(s) ==
    /\ \/ gen[s] = "content"
       \/ gen[s] = "entry" /\ More(s)
    /\ ReaderGone(s)
    /\ Return(s, "error", "finish")
    /\ UNCHANGED <<source, entries, tar, trailer, pipe, reader>>

\* tw.Close.
CloseTar(s) ==
    /\ gen[s] = "trailer"
    /\ \/ reader[s] = "reading" /\ trailer' = [trailer EXCEPT ![s] = TRUE]
       \/ ReaderGone(s) /\ UNCHANGED trailer
    /\ Goto(s, "finish")
    /\ UNCHANGED <<source, result, zip, entries, tar, pipe, reader>>

\* Mutant: the recovery of a panic leaves the pipe open.
PipeEndOfReturn(r) == IF r = "ok" THEN "eof" ELSE IF r = "error" THEN "error" ELSE "open"
\* pw.CloseWithError.  GenerateTar's goroutine then has a result to send, unless
\* it comes from the recovery of a panic.
PipeEnd(r) == IF r = "ok" THEN "eof" ELSE "error"
ClosePipe(s) ==
    /\ gen[s] = "finish"
    /\ pipe' = [pipe EXCEPT ![s] = PipeEnd(result[s])]
    /\ Goto(s, IF source[s] = "zip" /\ result[s] # "panic" THEN "send" ELSE "ended")
    /\ UNCHANGED <<source, result, zip, entries, tar, trailer, reader>>

Generate(s) ==
    \/ OpenZip(s) \/ EntryFails(s) \/ LastEntry(s) \/ WriteHeader(s) \/ WriteContent(s)
    \/ ContentFails(s) \/ WriteFails(s) \/ CloseTar(s) \/ ClosePipe(s)
-----------------------------------------------------------------------------
(* The reader.                                                               *)

\* All has been read, and the write end is closed.
ReadEnd(s) ==
    /\ reader[s] = "reading" /\ pipe[s] # "open"
    /\ reader' = [reader EXCEPT ![s] = pipe[s]]
    /\ UNCHANGED <<source, gen, result, zip, entries, tar, trailer, pipe>>

\* pr.Close, then GenerateTar's reader waits for the goroutine's result.  A reader
\* that is already closed is refused, and nothing changes.
AfterClose(s) == IF source[s] = "zip" THEN "closing" ELSE "closed"
Close(s) ==
    /\ reader[s] \in {"reading", "eof", "error"}
    /\ reader' = [reader EXCEPT ![s] = AfterClose(s)]
    /\ UNCHANGED <<source, gen, result, zip, entries, tar, trailer, pipe>>

\* The result passes from the goroutine to Close, and both end.
Rendezvous(s) ==
    /\ gen[s] = "send" /\ reader[s] = "closing"
    /\ Goto(s, "ended")
    /\ reader' = [reader EXCEPT ![s] = "closed"]
    /\ UNCHANGED <<source, result, zip, entries, tar, trailer, pipe>>
-----------------------------------------------------------------------------
TarTypeOK ==
    /\ source \in [Streams -> {"none", "zip", "builder"}]
    /\ gen \in [Streams -> {"none", "open", "entry", "content", "trailer", "finish", "send", "ended"}]
    /\ result \in [Streams -> {"ok", "error", "panic"}]
    /\ zip \in [Streams -> BOOLEAN]
    /\ entries \in [Streams -> Archives \cup {<<>>}]
    /\ tar \in [Streams -> Seq(Headers)]
    /\ trailer \in [Streams -> BOOLEAN]
    /\ pipe \in [Streams -> {"open", "eof", "error"}]
    /\ reader \in [Streams -> {"none", "reading", "eof", "error", "closing", "closed"}]
=============================================================================
