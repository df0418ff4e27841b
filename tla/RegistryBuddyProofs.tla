------------------------ MODULE RegistryBuddyProofs ------------------------
(***************************************************************************)
(* Proofs about RegistryBuddy and TarStream, for every set of streams,     *)
(* archives and health checks.                                             *)
(***************************************************************************)
EXTENDS RegistryBuddy, TLAPS

Left(s) == gen[s] \in {"send", "ended"}

\* Where the goroutine, the pipe and the reader of a stream are in relation to
\* each other.  A function that returned without an error has written all entries,
\* and its trailer has been read unless the reader was gone.
Positions(s) ==
    /\ gen[s] = "none" => source[s] = "none" /\ reader[s] = "none"
    /\ gen[s] \in {"none", "open"} => tar[s] = <<>>
    /\ gen[s] \in {"none", "open", "entry", "content"} => result[s] = "ok"
    /\ zip[s] => gen[s] \in {"entry", "content"}
    /\ pipe[s] = IF Left(s) THEN PipeEnd(result[s]) ELSE "open"
    /\ reader[s] \in {"eof", "error"} => pipe[s] = reader[s]

Written(s) ==
    /\ Len(tar[s]) <= Len(entries[s])
    /\ gen[s] = "content" => More(s)
    /\ gen[s] \in {"trailer", "finish", "send", "ended"} /\ result[s] = "ok" => ~More(s)
    /\ gen[s] \in {"finish", "send", "ended"} /\ result[s] = "ok" =>
          trailer[s] \/ ReaderGone(s)
    /\ reader[s] = "eof" => trailer[s]

\* What has been read is what the headers of the entries are made to.
Normal(s) ==
    source[s] = "zip" =>
        \A i \in 1..Len(tar[s]) :
            tar[s][i] \in {Header(entries[s][i]), Broken(Header(entries[s][i]))}

StreamInv == \A s \in Streams : Positions(s) /\ Written(s) /\ Normal(s)

\* A request that writes has read its tar to the end; one that is answered has
\* left its goroutine nothing but the result.
Answered(q) ==
    /\ request[q] \in {"body", "begin"} => gen[q] = "none"
    /\ request[q] = "writing" => reader[q] = "eof"
    /\ request[q] = "done" => gen[q] = "none" \/ Left(q)
    /\ answer[q] = 200 => request[q] = "done" /\ reader[q] = "eof" /\ q \in pushed

\* Nothing new is accepted once the shutdown has begun.
Closed == handling = "done" => InFlight = {}

IInv == TypeOK /\ StreamInv /\ (\A q \in Streams : Answered(q)) /\ Closed /\ CleanEnd

\* What happens to a stream.
StreamStep(s) ==
    \/ ReadZipAsTar(s) \/ BuilderReader(s) \/ Generate(s)
    \/ ReadEnd(s) \/ Close(s) \/ Rendezvous(s)

USE RegistryBuddyAssumption, TarStreamAssumption

LEMMA StreamFrame ==
    ASSUME Next PROVE UNCHANGED stream \/ \E s \in Streams : StreamStep(s)
BY DEF Next, Process, Handler, StreamStep, Streaming, OtherReader, Upload, LayerRead,
       RemoteWrite, HealthzHandler, Arrive, ReadBody, LoadConfig, Listen, ServerClosed, MainEnds,
       Signal, StartDraining, Drained, DeadlineExceeded

-----------------------------------------------------------------------------
(* The streams.                                                            *)

LEMMA HeaderType ==
    ASSUME NEW e \in Entries
    PROVE  Header(e) \in Headers /\ BuilderHeader(e) \in Headers
           /\ Broken(Header(e)) \in Headers /\ Broken(BuilderHeader(e)) \in Headers
<1>1. e.kind \in {"file", "symlink"} /\ e.mode \in Int /\ e.time \in Int
  BY DEF Entries
<1>2. FileMode(e) \in Int
  BY <1>1 DEF FileMode
<1>3. Header(e) \in Headers
  BY <1>1, <1>2 DEF Header, Headers, NormalizedDateTime
<1>4. BuilderHeader(e) \in Headers
  BY <1>1 DEF BuilderHeader, Headers
<1>5. ASSUME NEW h \in Headers PROVE Broken(h) \in Headers
  BY <1>5 DEF Broken, Headers
<1> QED
  BY <1>3, <1>4, <1>5

LEMMA CurrentType ==
    ASSUME NEW s \in Streams, TarTypeOK, More(s)
    PROVE  Current(s) \in Entries /\ HeaderOf(s) \in Headers /\ Broken(HeaderOf(s)) \in Headers
<1>1. entries[s] \in Seq(Entries)
  BY DEF TarTypeOK, More
<1>2. tar[s] \in Seq(Headers)
  BY DEF TarTypeOK
<1>3. Len(tar[s]) + 1 \in 1..Len(entries[s])
  BY <1>1, <1>2 DEF More
<1>4. Current(s) \in Entries
  BY <1>1, <1>3 DEF Current
<1> QED
  BY <1>4, HeaderType DEF HeaderOf

LEMMA TarTypeStep ==
    ASSUME NEW s \in Streams, TarTypeOK, Written(s), StreamStep(s) PROVE TarTypeOK'
<1> USE DEF TarTypeOK, Goto, Return, PipeEnd, CopyError
<1>1. CASE ReadZipAsTar(s)
  BY <1>1 DEF ReadZipAsTar
<1>2. CASE BuilderReader(s)
  BY <1>2 DEF BuilderReader
<1>3. CASE OpenZip(s)
  BY <1>3 DEF OpenZip
<1>4. CASE EntryFails(s)
  BY <1>4 DEF EntryFails
<1>5. CASE LastEntry(s)
  BY <1>5 DEF LastEntry
<1>6. CASE WriteHeader(s)
  <2>1. HeaderOf(s) \in Headers /\ Broken(HeaderOf(s)) \in Headers
    BY <1>6, CurrentType DEF WriteHeader
  <2>2. ASSUME NEW h \in Headers, Read(s, h) PROVE tar' \in [Streams -> Seq(Headers)]
    BY <2>2 DEF Read
  <2>3. tar' \in [Streams -> Seq(Headers)]
    BY <1>6, <2>1, <2>2 DEF WriteHeader
  <2> QED
    BY <1>6, <2>3 DEF WriteHeader
<1>7. CASE WriteContent(s)
  <2>1. HeaderOf(s) \in Headers
    BY <1>7, CurrentType DEF WriteContent, Written
  <2> QED
    BY <1>7, <2>1 DEF WriteContent, Read
<1>8. CASE ContentFails(s)
  <2>1. HeaderOf(s) \in Headers
    BY <1>8, CurrentType DEF ContentFails, Written
  <2>2. ASSUME NEW h \in Headers, Read(s, h) PROVE tar' \in [Streams -> Seq(Headers)]
    BY <2>2 DEF Read
  <2>3. tar' \in [Streams -> Seq(Headers)]
    BY <1>8, <2>1, <2>2 DEF ContentFails
  <2>4. ASSUME NEW r \in {"ok", "error", "panic"}, NEW g \in {"finish", "trailer"}, Return(s, r, g)
        PROVE  /\ result' \in [Streams -> {"ok", "error", "panic"}]
               /\ zip' \in [Streams -> BOOLEAN]
               /\ gen' \in [Streams -> {"none", "open", "entry", "content", "trailer", "finish", "send", "ended"}]
    BY <2>4
  <2>5. \E r \in {"ok", "error", "panic"}, g \in {"finish", "trailer"} : Return(s, r, g)
    BY <1>8 DEF ContentFails
  <2>6. UNCHANGED <<source, entries, trailer, pipe, reader>>
    BY <1>8 DEF ContentFails
  <2> QED
    BY <2>3, <2>4, <2>5, <2>6
<1>9. CASE WriteFails(s)
  BY <1>9 DEF WriteFails
<1>10. CASE CloseTar(s)
  BY <1>10 DEF CloseTar
<1>11. CASE ClosePipe(s)
  BY <1>11 DEF ClosePipe
<1>12. CASE ReadEnd(s)
  BY <1>12 DEF ReadEnd
<1>13. CASE Close(s)
  BY <1>13 DEF Close, AfterClose
<1>14. CASE Rendezvous(s)
  BY <1>14 DEF Rendezvous
<1> QED
  BY <1>1, <1>2, <1>3, <1>4, <1>5, <1>6, <1>7, <1>8, <1>9, <1>10, <1>11, <1>12, <1>13, <1>14
     DEF StreamStep, Generate

\* The other streams stay as they are.
LEMMA OthersStay ==
    ASSUME NEW s \in Streams, NEW t \in Streams \ {s}, TarTypeOK, StreamStep(s)
    PROVE  /\ source'[t] = source[t] /\ gen'[t] = gen[t] /\ result'[t] = result[t]
           /\ zip'[t] = zip[t] /\ entries'[t] = entries[t] /\ tar'[t] = tar[t]
           /\ trailer'[t] = trailer[t] /\ pipe'[t] = pipe[t] /\ reader'[t] = reader[t]
<1> USE DEF TarTypeOK, Goto, Return
<1>1. CASE ReadZipAsTar(s)
  BY <1>1 DEF ReadZipAsTar
<1>2. CASE BuilderReader(s)
  BY <1>2 DEF BuilderReader
<1>3. CASE OpenZip(s)
  BY <1>3 DEF OpenZip
<1>4. CASE EntryFails(s)
  BY <1>4 DEF EntryFails
<1>5. CASE LastEntry(s)
  BY <1>5 DEF LastEntry
<1>6. CASE WriteHeader(s)
  BY <1>6 DEF WriteHeader, Read
<1>7. CASE WriteContent(s)
  BY <1>7 DEF WriteContent, Read
<1>8. CASE ContentFails(s)
  BY <1>8 DEF ContentFails, Read
<1>9. CASE WriteFails(s)
  BY <1>9 DEF WriteFails
<1>10. CASE CloseTar(s)
  BY <1>10 DEF CloseTar
<1>11. CASE ClosePipe(s)
  BY <1>11 DEF ClosePipe
<1>12. CASE ReadEnd(s)
  BY <1>12 DEF ReadEnd
<1>13. CASE Close(s)
  BY <1>13 DEF Close
<1>14. CASE Rendezvous(s)
  BY <1>14 DEF Rendezvous
<1> QED
  BY <1>1, <1>2, <1>3, <1>4, <1>5, <1>6, <1>7, <1>8, <1>9, <1>10, <1>11, <1>12, <1>13, <1>14
     DEF StreamStep, Generate

LEMMA PositionsStep ==
    ASSUME NEW s \in Streams, TarTypeOK, Positions(s), StreamStep(s) PROVE Positions(s)'
<1> USE DEF TarTypeOK, Goto, Return, Positions, Left, PipeEnd, CopyError
<1>1. CASE ReadZipAsTar(s)
  BY <1>1 DEF ReadZipAsTar
<1>2. CASE BuilderReader(s)
  BY <1>2 DEF BuilderReader
<1>3. CASE OpenZip(s)
  BY <1>3 DEF OpenZip
<1>4. CASE EntryFails(s)
  BY <1>4 DEF EntryFails
<1>5. CASE LastEntry(s)
  BY <1>5 DEF LastEntry
<1>6. CASE WriteHeader(s)
  BY <1>6 DEF WriteHeader, Read
<1>7. CASE WriteContent(s)
  BY <1>7 DEF WriteContent, Read
<1>8. CASE ContentFails(s)
  BY <1>8 DEF ContentFails, Read
<1>9. CASE WriteFails(s)
  BY <1>9 DEF WriteFails
<1>10. CASE CloseTar(s)
  BY <1>10 DEF CloseTar
<1>11. CASE ClosePipe(s)
  BY <1>11 DEF ClosePipe
<1>12. CASE ReadEnd(s)
  BY <1>12 DEF ReadEnd
<1>13. CASE Close(s)
  BY <1>13 DEF Close, AfterClose
<1>14. CASE Rendezvous(s)
  BY <1>14 DEF Rendezvous
<1> QED
  BY <1>1, <1>2, <1>3, <1>4, <1>5, <1>6, <1>7, <1>8, <1>9, <1>10, <1>11, <1>12, <1>13, <1>14
     DEF StreamStep, Generate

LEMMA WrittenStep ==
    ASSUME NEW s \in Streams, TarTypeOK, Positions(s), Written(s), StreamStep(s)
    PROVE  Written(s)'
<1>0. /\ tar[s] \in Seq(Headers) /\ Len(tar[s]) \in Nat
      /\ entries[s] \in Seq(Entries) /\ Len(entries[s]) \in Nat
  <2>1. tar[s] \in Seq(Headers)
    BY DEF TarTypeOK
  <2>2. <<>> \in Seq(Entries)
    OBVIOUS
  <2>3. entries[s] \in Seq(Entries)
    BY <2>2 DEF TarTypeOK
  <2> QED
    BY <2>1, <2>3
<1> USE <1>0 DEF TarTypeOK, Goto, Return, Positions, Left, PipeEnd, Written, More, ReaderGone
<1>1. CASE ReadZipAsTar(s)
  BY <1>1 DEF ReadZipAsTar
<1>2. CASE BuilderReader(s)
  <2>1. \A a \in Archives : a \in Seq(Entries) /\ Len(a) \in Nat
    OBVIOUS
  <2> QED
    BY <1>2, <2>1 DEF BuilderReader
<1>3. CASE OpenZip(s)
  <2>1. \A a \in Archives : a \in Seq(Entries) /\ Len(a) \in Nat
    OBVIOUS
  <2> QED
    BY <1>3, <2>1 DEF OpenZip
<1>4. CASE EntryFails(s)
  BY <1>4 DEF EntryFails
<1>5. CASE LastEntry(s)
  BY <1>5 DEF LastEntry
<1>6. CASE WriteHeader(s)
  <2>1. CASE UNCHANGED tar
    BY <1>6, <2>1 DEF WriteHeader
  <2>2. ASSUME NEW h, Read(s, h), UNCHANGED gen PROVE Written(s)'
    <3>1. Len(tar'[s]) = Len(tar[s]) + 1
      BY <2>2 DEF Read
    <3> QED
      BY <1>6, <2>2, <3>1 DEF WriteHeader
  <2> QED
    BY <1>6, <2>1, <2>2 DEF WriteHeader
<1>7. CASE WriteContent(s)
  <2>1. Len(tar'[s]) = Len(tar[s]) + 1
    BY <1>7 DEF WriteContent, Read
  <2> QED
    BY <1>7, <2>1 DEF WriteContent
<1>8. CASE ContentFails(s)
  <2>1. CASE UNCHANGED tar
    BY <1>8, <2>1 DEF ContentFails, CopyError
  <2>2. CASE Read(s, HeaderOf(s)) /\ Return(s, CopyError, "trailer")
    <3>1. Len(tar'[s]) = Len(tar[s]) + 1
      BY <2>2 DEF Read
    <3> QED
      BY <1>8, <2>2, <3>1 DEF ContentFails, CopyError
  <2> QED
    BY <1>8, <2>1, <2>2 DEF ContentFails
<1>9. CASE WriteFails(s)
  BY <1>9 DEF WriteFails
<1>10. CASE CloseTar(s)
  BY <1>10 DEF CloseTar
<1>11. CASE ClosePipe(s)
  BY <1>11 DEF ClosePipe
<1>12. CASE ReadEnd(s)
  BY <1>12 DEF ReadEnd
<1>13. CASE Close(s)
  BY <1>13 DEF Close, AfterClose
<1>14. CASE Rendezvous(s)
  BY <1>14 DEF Rendezvous
<1> QED
  BY <1>1, <1>2, <1>3, <1>4, <1>5, <1>6, <1>7, <1>8, <1>9, <1>10, <1>11, <1>12, <1>13, <1>14
     DEF StreamStep, Generate

\* One more header keeps the tar normal.
LEMMA ReadNormal ==
    ASSUME NEW s \in Streams, TarTypeOK, Normal(s), UNCHANGED <<source, entries>>,
           Read(s, HeaderOf(s)) \/ Read(s, Broken(HeaderOf(s)))
    PROVE  Normal(s)'
<1>1. SUFFICES ASSUME source[s] = "zip"
      PROVE \A i \in 1..Len(tar'[s]) :
                tar'[s][i] \in {Header(entries[s][i]), Broken(Header(entries[s][i]))}
  BY DEF Normal
<1> DEFINE n == Len(tar[s]) + 1
<1>2. PICK h \in {Header(entries[s][n]), Broken(Header(entries[s][n]))} : Read(s, h)
  BY <1>1 DEF HeaderOf, Current
<1>3. tar[s] \in Seq(Headers) /\ n - 1 \in Nat /\ tar'[s] = Append(tar[s], h)
  BY <1>2 DEF TarTypeOK, Read
<1>4. \A i \in 1..(n - 1) : tar'[s][i] = tar[s][i]
  BY <1>3
<1>5. Len(tar'[s]) = n /\ tar'[s][n] = h
  BY <1>3
<1>6. \A i \in 1..n : i = n \/ i \in 1..(n - 1)
  BY <1>3
<1>7. \A i \in 1..(n - 1) :
          tar[s][i] \in {Header(entries[s][i]), Broken(Header(entries[s][i]))}
  BY <1>1, <1>3 DEF Normal
<1> HIDE DEF n
<1> QED
  BY <1>2, <1>4, <1>5, <1>6, <1>7

LEMMA NormalStep ==
    ASSUME NEW s \in Streams, TarTypeOK, Positions(s), Normal(s), StreamStep(s)
    PROVE  Normal(s)'
<1> USE DEF TarTypeOK, Positions, Normal
<1>1. CASE ReadZipAsTar(s)
  BY <1>1 DEF ReadZipAsTar
<1>2. CASE BuilderReader(s)
  BY <1>2 DEF BuilderReader
<1>3. CASE OpenZip(s)
  BY <1>3 DEF OpenZip
<1>4. CASE EntryFails(s)
  BY <1>4 DEF EntryFails
<1>5. CASE LastEntry(s)
  BY <1>5 DEF LastEntry
<1>6. CASE WriteHeader(s)
  <2>1. CASE UNCHANGED tar
    BY <1>6, <2>1 DEF WriteHeader
  <2>2. CASE Read(s, HeaderOf(s)) \/ Read(s, Broken(HeaderOf(s)))
    BY <1>6, <2>2, ReadNormal DEF WriteHeader
  <2> QED
    BY <1>6, <2>1, <2>2 DEF WriteHeader
<1>7. CASE WriteContent(s)
  BY <1>7, ReadNormal DEF WriteContent
<1>8. CASE ContentFails(s)
  BY <1>8, ReadNormal DEF ContentFails
<1>9. CASE WriteFails(s)
  BY <1>9 DEF WriteFails
<1>10. CASE CloseTar(s)
  BY <1>10 DEF CloseTar
<1>11. CASE ClosePipe(s)
  BY <1>11 DEF ClosePipe
<1>12. CASE ReadEnd(s)
  BY <1>12 DEF ReadEnd
<1>13. CASE Close(s)
  BY <1>13 DEF Close
<1>14. CASE Rendezvous(s)
  BY <1>14 DEF Rendezvous
<1> QED
  BY <1>1, <1>2, <1>3, <1>4, <1>5, <1>6, <1>7, <1>8, <1>9, <1>10, <1>11, <1>12, <1>13, <1>14
     DEF StreamStep, Generate

LEMMA StreamInvStep ==
    ASSUME TypeOK, StreamInv, Next PROVE TarTypeOK' /\ StreamInv'
<1>0. TarTypeOK
  BY DEF TypeOK
<1>1. CASE UNCHANGED stream
  BY <1>0, <1>1 DEF stream, TarTypeOK, StreamInv, Positions, Written, Normal, Left, More,
                   ReaderGone
<1>2. ASSUME NEW s \in Streams, StreamStep(s) PROVE TarTypeOK' /\ StreamInv'
  <2>1. TarTypeOK'
    BY <1>0, <1>2, TarTypeStep DEF StreamInv
  <2>2. Positions(s)' /\ Written(s)' /\ Normal(s)'
    BY <1>0, <1>2, PositionsStep, WrittenStep, NormalStep DEF StreamInv
  <2>3. ASSUME NEW t \in Streams \ {s} PROVE Positions(t)' /\ Written(t)' /\ Normal(t)'
    BY <1>0, <1>2, <2>3, OthersStay
       DEF StreamInv, Positions, Written, Normal, Left, More, ReaderGone
  <2> QED
    BY <2>1, <2>2, <2>3 DEF StreamInv
<1> QED
  BY <1>1, <1>2, StreamFrame

-----------------------------------------------------------------------------
(* The requests and the process.                                           *)

LEMMA TypeStep == ASSUME TypeOK, StreamInv, Next PROVE TypeOK'
<1>0. TarTypeOK'
  BY StreamInvStep
<1> USE <1>0 DEF TypeOK, Requests, Exit, Answer, requests, server, InFlight
<1>1. CASE LoadConfig
  BY <1>1 DEF LoadConfig
<1>2. CASE Listen
  BY <1>2 DEF Listen
<1>3. CASE ServerClosed
  BY <1>3 DEF ServerClosed
<1>4. CASE MainEnds
  BY <1>4 DEF MainEnds
<1>5. CASE StartDraining
  BY <1>5 DEF StartDraining
<1>6. CASE Drained
  BY <1>6 DEF Drained
<1>7. CASE Signal
  <2>1. CASE main = "config"
    BY <1>7, <2>1 DEF Signal
  <2>2. CASE main # "config"
    BY <1>7, <2>2 DEF Signal
  <2> QED
    BY <2>1, <2>2
<1>8. CASE DeadlineExceeded
  BY <1>8 DEF DeadlineExceeded
<1>9. ASSUME NEW q \in Pings, HealthzHandler(q) PROVE TypeOK'
  BY <1>9 DEF HealthzHandler, Check
<1>10. ASSUME NEW q \in Requests, Arrive(q) PROVE TypeOK'
  BY <1>10 DEF Arrive
<1>11. ASSUME NEW q \in Streams, Upload(q) PROVE TypeOK'
  BY <1>11 DEF Upload
<1>12. ASSUME NEW q \in Streams, LayerRead(q) PROVE TypeOK'
  BY <1>12 DEF LayerRead
<1>13. ASSUME NEW q \in Streams, RemoteWrite(q) PROVE TypeOK'
  BY <1>13 DEF RemoteWrite
<1>14. ASSUME NEW q \in Streams, Streaming(q) PROVE TypeOK'
  BY <1>14 DEF Streaming
<1>15. ASSUME NEW q \in Streams, OtherReader(q) PROVE TypeOK'
  BY <1>15 DEF OtherReader
<1>16. ASSUME NEW q \in Streams, ReadBody(q) PROVE TypeOK'
  BY <1>16 DEF ReadBody
<1> QED
  BY <1>16, <1>1, <1>2, <1>3, <1>4, <1>5, <1>6, <1>7, <1>8, <1>9, <1>10, <1>11, <1>12, <1>13, <1>14, <1>15
     DEF Next, Process, Handler

\* Only a read that finds the pipe closed moves the reader of a request's tar, and
\* a goroutine that has only its result left stays so.
LEMMA StreamFacts ==
    ASSUME TypeOK, StreamInv, NEW q \in Streams, NEW s \in Streams, Streaming(s)
    PROVE  /\ gen[q] = "none" => gen'[q] = "none"
           /\ Left(q) => Left(q)'
           /\ reader[q] = "eof" => reader'[q] = "eof"
<1>0. TarTypeOK /\ Positions(s)
  BY DEF TypeOK, StreamInv
<1>1. StreamStep(s) /\ (Generate(s) \/ ReadEnd(s) \/ Rendezvous(s))
  BY DEF Streaming, StreamStep
<1>2. CASE q # s
  BY <1>0, <1>1, <1>2, OthersStay DEF Left
<1>3. CASE q = s
  <2>1. CASE Generate(s)
    BY <1>0, <1>3, <2>1
       DEF Generate, TarTypeOK, Positions, Left, OpenZip, EntryFails, LastEntry, WriteHeader,
           WriteContent, ContentFails, WriteFails, CloseTar, ClosePipe, Goto, Return
  <2>2. CASE ReadEnd(s)
    BY <1>0, <1>3, <2>2 DEF ReadEnd, TarTypeOK, Left
  <2>3. CASE Rendezvous(s)
    BY <1>0, <1>3, <2>3 DEF Rendezvous, TarTypeOK, Left, Goto
  <2> QED
    BY <1>1, <2>1, <2>2, <2>3
<1> QED
  BY <1>2, <1>3

LEMMA AnsweredStep ==
    ASSUME TypeOK, StreamInv, \A q \in Streams : Answered(q), Next,
           NEW r \in Streams
    PROVE  Answered(r)'
<1>0. Positions(r) /\ Answered(r) /\ r \notin Pings
  BY DEF StreamInv
<1> USE <1>0 DEF TypeOK, TarTypeOK, Requests, Answer, Answered, Left, requests, server
<1>1. CASE Process \/ Signal \/ DeadlineExceeded
  BY <1>1 DEF Process, LoadConfig, Listen, ServerClosed, MainEnds, StartDraining, Drained, Signal, DeadlineExceeded, stream
<1>2. ASSUME NEW q \in Pings, HealthzHandler(q) PROVE Answered(r)'
  BY <1>2 DEF HealthzHandler, stream
<1>3. ASSUME NEW q \in Requests, Arrive(q) PROVE Answered(r)'
  BY <1>3 DEF Arrive, stream
<1>4. ASSUME NEW q \in Streams, Upload(q) PROVE Answered(r)'
  <2>1. CASE ReadZipAsTar(q)
    <3>1. gen' = [gen EXCEPT ![q] = "open"] /\ reader' = [reader EXCEPT ![q] = "reading"]
      BY <2>1 DEF ReadZipAsTar, Goto
    <3>2. /\ request[q] = "begin" /\ request' = [request EXCEPT ![q] = "reading"]
          /\ UNCHANGED <<answer, pushed>>
      <4>1. ~UNCHANGED stream
        BY <2>1, <3>1 DEF stream, ReadZipAsTar
      <4> QED
        BY <1>4, <4>1 DEF Upload
    <3>3. CASE r = q
      BY <3>1, <3>2, <3>3
    <3>4. CASE r # q
      BY <3>1, <3>2, <3>4
    <3> QED
      BY <3>3, <3>4
  <2>2. CASE UNCHANGED stream
    BY <1>4, <2>2 DEF Upload, stream
  <2> QED
    BY <1>4, <2>1, <2>2 DEF Upload
<1>5. ASSUME NEW q \in Streams, LayerRead(q) PROVE Answered(r)'
  BY <1>5 DEF LayerRead, LayerMade, Positions, PipeEnd, stream
<1>6. ASSUME NEW q \in Streams, RemoteWrite(q) PROVE Answered(r)'
  BY <1>6 DEF RemoteWrite, Positions, PipeEnd, stream
<1>7. ASSUME NEW s \in Streams, Streaming(s) PROVE Answered(r)'
  BY <1>7, StreamFacts DEF Streaming
<1>8. ASSUME NEW s \in Streams, OtherReader(s) PROVE Answered(r)'
  BY <1>8 DEF OtherReader, ReadZipAsTar, BuilderReader, Close, Goto
<1>9. ASSUME NEW q \in Streams, ReadBody(q) PROVE Answered(r)'
  BY <1>9 DEF ReadBody, stream
<1> QED
  BY <1>9, <1>1, <1>2, <1>3, <1>4, <1>5, <1>6, <1>7, <1>8 DEF Next, Handler

LEMMA ProcessStep ==
    ASSUME TypeOK, Closed, CleanEnd, Next PROVE Closed' /\ CleanEnd'
<1> USE DEF TypeOK, Requests, Closed, CleanEnd, InFlight, Exit, Answer, requests, server
<1>1. CASE LoadConfig
  BY <1>1 DEF LoadConfig
<1>2. CASE Listen
  BY <1>2 DEF Listen
<1>3. CASE ServerClosed
  BY <1>3 DEF ServerClosed
<1>4. CASE MainEnds
  BY <1>4 DEF MainEnds, MainMayEnd
<1>5. CASE StartDraining
  BY <1>5 DEF StartDraining
<1>6. CASE Drained
  BY <1>6 DEF Drained
<1>7. CASE Signal
  BY <1>7 DEF Signal
<1>8. CASE DeadlineExceeded
  BY <1>8 DEF DeadlineExceeded
<1>9. ASSUME NEW q \in Pings, HealthzHandler(q) PROVE Closed' /\ CleanEnd'
  BY <1>9 DEF HealthzHandler
<1>10. ASSUME NEW q \in Requests, Arrive(q) PROVE Closed' /\ CleanEnd'
  BY <1>10 DEF Arrive
<1>11. ASSUME NEW q \in Streams, Upload(q) PROVE Closed' /\ CleanEnd'
  BY <1>11 DEF Upload
<1>12. ASSUME NEW q \in Streams, LayerRead(q) PROVE Closed' /\ CleanEnd'
  BY <1>12 DEF LayerRead
<1>13. ASSUME NEW q \in Streams, RemoteWrite(q) PROVE Closed' /\ CleanEnd'
  BY <1>13 DEF RemoteWrite
<1>14. ASSUME NEW q \in Streams, Streaming(q) PROVE Closed' /\ CleanEnd'
  BY <1>14 DEF Streaming
<1>15. ASSUME NEW q \in Streams, OtherReader(q) PROVE Closed' /\ CleanEnd'
  BY <1>15 DEF OtherReader
<1>16. ASSUME NEW q \in Streams, ReadBody(q) PROVE Closed' /\ CleanEnd'
  BY <1>16 DEF ReadBody
<1> QED
  BY <1>16, <1>1, <1>2, <1>3, <1>4, <1>5, <1>6, <1>7, <1>8, <1>9, <1>10, <1>11, <1>12, <1>13, <1>14, <1>15
     DEF Next, Process, Handler
-----------------------------------------------------------------------------
(* The inductive invariant and what follows from it.                       *)

LEMMA InitIInv == Init => IInv
<1> SUFFICES ASSUME Init PROVE IInv
  OBVIOUS
<1> USE DEF Init, TarInit, Requests
<1>1. TypeOK
  <2>1. <<>> \in Seq(Headers)
    OBVIOUS
  <2>2. tar \in [Streams -> Seq(Headers)]
    BY <2>1
  <2>3. TarTypeOK
    BY <2>2 DEF TarTypeOK
  <2>4. main # "exited" /\ code = None
    OBVIOUS
  <2> QED
    BY <2>3, <2>4 DEF TypeOK
<1>2. ASSUME NEW s \in Streams PROVE Positions(s) /\ Written(s) /\ Normal(s)
  BY DEF Positions, Written, Normal, Left, More
<1>3. ASSUME NEW q \in Streams PROVE Answered(q)
  BY DEF Answered
<1>4. Closed /\ CleanEnd
  BY DEF Closed, CleanEnd
<1> QED
  BY <1>1, <1>2, <1>3, <1>4 DEF IInv, StreamInv

LEMMA StepIInv == IInv /\ [Next]_vars => IInv'
<1> SUFFICES ASSUME IInv, [Next]_vars PROVE IInv'
  OBVIOUS
<1>1. CASE Next
  BY <1>1, TypeStep, StreamInvStep, AnsweredStep, ProcessStep DEF IInv
<1>2. CASE UNCHANGED vars
  BY <1>2
     DEF vars, stream, server, requests, IInv, TypeOK, TarTypeOK, StreamInv, Positions, Written,
         Normal, Left, More, ReaderGone, Answered, Closed, InFlight, CleanEnd
<1> QED
  BY <1>1, <1>2

THEOREM Invariant == Spec => []IInv
BY InitIInv, StepIInv, PTL DEF Spec

\* Type correctness, and an exit code exactly when the process has ended.
THEOREM TypeCorrect == Spec => []TypeOK
<1>1. IInv => TypeOK
  BY DEF IInv
<1> QED
  BY <1>1, Invariant, PTL

LEMMA EofIsWhole ==
    ASSUME IInv, NEW s \in Streams, reader[s] = "eof"
    PROVE  ~More(s) /\ Len(tar[s]) = Len(entries[s]) /\ trailer[s]
<1>1. /\ tar[s] \in Seq(Headers) /\ Len(tar[s]) \in Nat /\ Len(entries[s]) \in Nat
  <2>1. <<>> \in Seq(Entries)
    OBVIOUS
  <2>2. tar[s] \in Seq(Headers) /\ entries[s] \in Archives \cup {<<>>}
    BY DEF IInv, TypeOK, TarTypeOK
  <2>3. entries[s] \in Seq(Entries)
    BY <2>1, <2>2
  <2> QED
    BY <2>2, <2>3
<1>2. Positions(s) /\ Written(s)
  BY DEF IInv, StreamInv
<1>3. Left(s) /\ result[s] = "ok"
  BY <1>2 DEF Positions, PipeEnd, IInv, TypeOK, TarTypeOK
<1> QED
  BY <1>1, <1>2, <1>3 DEF Written, More, Left

\* The end of the file is never reached before the end of the tar, whatever fails
\* or panics in the goroutine and whenever the reader is closed.
THEOREM EndIsWhole == Spec => []EndMeansWhole
<1>1. IInv => EndMeansWhole
  BY EofIsWhole DEF EndMeansWhole
<1> QED
  BY <1>1, Invariant, PTL

\* Two zips that differ in time stamps only give the same tar.
THEOREM SameTar == Spec => []Reproducible
<1>1. ASSUME IInv, NEW s \in Streams, source[s] = "zip", reader[s] = "eof", Sound(tar[s]),
             NEW a \in Archives, SameButForTime(a, entries[s])
      PROVE  tar[s] = [i \in DOMAIN a |-> Header(a[i])]
  <2>1. tar[s] \in Seq(Headers) /\ a \in Seq(Entries)
    BY <1>1 DEF IInv, TypeOK, TarTypeOK
  <2>2. Len(a) \in Nat /\ Len(tar[s]) = Len(a) /\ DOMAIN a = 1..Len(a) /\ DOMAIN tar[s] = 1..Len(a)
    BY <1>1, <2>1, EofIsWhole DEF SameButForTime
  <2>3. ASSUME NEW i \in 1..Len(a) PROVE tar[s][i] = Header(a[i])
    <3>1. entries[s] \in Seq(Entries) /\ Len(entries[s]) = Len(a)
      <4>1. <<>> \in Seq(Entries)
        OBVIOUS
      <4> QED
        BY <1>1, <4>1 DEF IInv, TypeOK, TarTypeOK, SameButForTime
    <3>2. a[i] \in Entries /\ entries[s][i] \in Entries
      BY <2>1, <2>2, <3>1
    <3>3. [a[i] EXCEPT !.time = 0] = [entries[s][i] EXCEPT !.time = 0]
      BY <1>1, <2>2 DEF SameButForTime
    <3>4. a[i].kind = entries[s][i].kind /\ a[i].mode = entries[s][i].mode
          /\ a[i].fat = entries[s][i].fat
      <4>1. \A e \in Entries :
               /\ [e EXCEPT !.time = 0].kind = e.kind
               /\ [e EXCEPT !.time = 0].mode = e.mode
               /\ [e EXCEPT !.time = 0].fat = e.fat
        BY DEF Entries
      <4> QED
        BY <3>2, <3>3, <4>1
    <3>5. Header(a[i]) = Header(entries[s][i])
      BY <3>4 DEF Header, FileMode
    <3>6. tar[s][i] \in {Header(entries[s][i]), Broken(Header(entries[s][i]))}
      BY <1>1, <2>2 DEF IInv, StreamInv, Normal
    <3>7. ~tar[s][i].broken
      BY <1>1, <2>2 DEF Sound
    <3>8. Broken(Header(entries[s][i])).broken
      BY DEF Broken, Header
    <3> QED
      BY <3>5, <3>6, <3>7, <3>8
  <2> QED
    BY <2>1, <2>2, <2>3
<1>2. IInv => Reproducible
  BY <1>1 DEF Reproducible
<1> QED
  BY <1>2, Invariant, PTL

\* A 200 is given for a tar that is whole and in the registry.
THEOREM HashIsTrue == Spec => []HashMeansPushed
<1>1. IInv => HashMeansPushed
  BY EofIsWhole DEF IInv, HashMeansPushed, Answered
<1> QED
  BY <1>1, Invariant, PTL

\* An answered package's zip file is closed.
THEOREM ZipIsReleased == Spec => []ZipReleased
<1>1. IInv => ZipReleased
  BY DEF IInv, ZipReleased, Answered, StreamInv, Positions, Left, TypeOK, TarTypeOK
<1> QED
  BY <1>1, Invariant, PTL

\* An exit with 0 cuts nothing off.
THEOREM EndIsClean == Spec => []CleanEnd
<1>1. IInv => CleanEnd
  BY DEF IInv
<1> QED
  BY <1>1, Invariant, PTL

-----------------------------------------------------------------------------
(* The refinement of PackageService.                                       *)

promise == <<Phase, InFlight, answer, [q \in Streams |-> Stored(q)], code>>

\* A request is done when it has its answer, and a package that is in the registry
\* is the whole of a tar that nothing touches any more.
Settled ==
    /\ \A q \in Requests : request[q] = "done" <=> answer[q] # None
    /\ \A q \in pushed : request[q] = "done" /\ reader[q] = "eof"

\* An answer is the end of its request alone.
LEMMA AnswerSettles ==
    ASSUME TypeOK, Settled, NEW q \in Requests, NEW a \in {200, 400, 401, 422, 500, Lost}, Answer(q, a)
    PROVE  \A r \in Requests : /\ request'[r] = "done" <=> answer'[r] # None
                               /\ request[r] = "done" => request'[r] = "done"
                               /\ request'[q] = "done"
<1>1. /\ request \in [Requests -> {"none", "body", "begin", "reading", "writing", "done"}]
      /\ answer \in [Requests -> {None, 200, 400, 401, 422, 500, Lost}]
  BY DEF TypeOK
<1>2. PICK sent \in {a, Lost} : answer' = [answer EXCEPT ![q] = sent]
  BY DEF Answer
<1>3. sent # None
  BY <1>2
<1> QED
  BY <1>1, <1>2, <1>3 DEF Answer, Settled

LEMMA SettledStep == ASSUME IInv, Settled, Next PROVE Settled'
<1>0. /\ request \in [Requests -> {"none", "body", "begin", "reading", "writing", "done"}]
      /\ reader \in [Streams -> {"none", "reading", "eof", "error", "closing", "closed"}]
      /\ pushed \subseteq Streams /\ Streams \subseteq Requests /\ TypeOK
  BY DEF IInv, TypeOK, TarTypeOK, Requests
<1>1. CASE UNCHANGED <<request, answer, pushed, reader>>
  BY <1>1 DEF Settled
<1>2. ASSUME NEW q \in Requests, NEW a \in {200, 400, 401, 422, 500, Lost}, Answer(q, a),
             UNCHANGED reader, \/ UNCHANGED pushed
                               \/ pushed' = pushed \cup {q} /\ reader[q] = "eof"
      PROVE  Settled'
  BY <1>0, <1>2, AnswerSettles DEF Settled
<1>3. ASSUME NEW q \in Requests, request[q] # "done", NEW w \in {"body", "begin", "reading", "writing"},
             request' = [request EXCEPT ![q] = w], UNCHANGED <<answer, pushed>>,
             \A r \in Streams \ {q} : reader'[r] = reader[r]
      PROVE  Settled'
  BY <1>0, <1>3 DEF Settled
<1>4. CASE Process \/ Signal \/ DeadlineExceeded
  BY <1>1, <1>4 DEF Process, LoadConfig, Listen, ServerClosed, MainEnds, StartDraining, Drained,
                    Signal, DeadlineExceeded, stream, requests
<1>5. ASSUME NEW q \in Pings, HealthzHandler(q) PROVE Settled'
  BY <1>2, <1>5 DEF HealthzHandler, Requests, stream
<1>6. ASSUME NEW q \in Requests, Arrive(q) PROVE Settled'
  BY <1>3, <1>6 DEF Arrive, stream
<1>7. ASSUME NEW q \in Streams, Upload(q) PROVE Settled'
  BY <1>0, <1>2, <1>3, <1>7 DEF Upload, ReadZipAsTar, stream
<1>8. ASSUME NEW q \in Streams, LayerRead(q) PROVE Settled'
  BY <1>0, <1>2, <1>3, <1>8 DEF LayerRead, stream
<1>9. ASSUME NEW q \in Streams, RemoteWrite(q) PROVE Settled'
  <2>1. reader[q] = "eof"
    BY <1>9 DEF RemoteWrite, IInv, Answered
  <2> QED
    BY <1>0, <1>2, <1>9, <2>1 DEF RemoteWrite, stream
<1>10. ASSUME NEW s \in Streams, Streaming(s) PROVE Settled'
  BY <1>0, <1>10, StreamFacts DEF Streaming, requests, IInv, Settled
<1>11. ASSUME NEW s \in Streams, OtherReader(s) PROVE Settled'
  BY <1>0, <1>11 DEF OtherReader, ReadZipAsTar, BuilderReader, Close, requests, Settled
<1>12. ASSUME NEW q \in Streams, ReadBody(q) PROVE Settled'
  BY <1>0, <1>2, <1>3, <1>12 DEF ReadBody, stream
<1> QED
  BY <1>12, <1>4, <1>5, <1>6, <1>7, <1>8, <1>9, <1>10, <1>11 DEF Next, Handler

\* A tar of which the end was read is whole, so what is in the registry is.
StoredWhole == \A q \in Streams : Stored(q) = IF q \in pushed THEN "package" ELSE "nothing"

LEMMA PushedIsWhole == ASSUME IInv, Settled PROVE StoredWhole
<1>1. ASSUME NEW q \in Streams, q \in pushed PROVE Stored(q) = "package"
  <2>1. reader[q] = "eof"
    BY <1>1 DEF Settled
  <2>2. ~More(q) /\ trailer[q]
    BY <2>1, EofIsWhole
  <2> QED
    BY <1>1, <2>2 DEF Stored
<1> QED
  BY <1>1 DEF Stored, StoredWhole

\* What happens to the process is a change of phase, or nothing.
LEMMA ProcessServes ==
    ASSUME TypeOK, Closed, Process \/ Signal \/ DeadlineExceeded,
           \A q \in Streams : Stored(q)' = Stored(q)
    PROVE  Service!Open \/ Service!Close \/ Service!End \/ Service!Die \/ UNCHANGED promise
<1>1. UNCHANGED <<InFlight, answer, [q \in Streams |-> Stored(q)]>>
  BY DEF Process, LoadConfig, Listen, ServerClosed, MainEnds, StartDraining, Drained, Signal,
         DeadlineExceeded, requests, InFlight
<1>2. ASSUME NEW c \in {1, 143}, Alive, Exit(c) PROVE Service!Die
  BY <1>1, <1>2 DEF Exit, Alive, Phase, Service!Die
<1>3. CASE LoadConfig
  <2>1. CASE main = "config" /\ main' = "listen" /\ UNCHANGED <<code, handling>>
    BY <1>1, <2>1 DEF Phase, Alive, promise
  <2> QED
    BY <1>2, <1>3, <2>1 DEF LoadConfig, Alive
<1>4. CASE Listen
  <2>1. CASE handling = "waiting" /\ main' = "serve" /\ UNCHANGED <<code, handling>>
    BY <1>1, <1>4, <2>1 DEF Listen, Phase, Alive, Service!Open
  <2>2. CASE handling # "waiting" /\ main' = "wait" /\ UNCHANGED <<code, handling>>
    BY <1>1, <1>4, <2>2 DEF Listen, Phase, Alive, promise
  <2> QED
    BY <1>2, <1>4, <2>1, <2>2 DEF Listen, Alive
<1>5. CASE ServerClosed
  BY <1>1, <1>5 DEF ServerClosed, Phase, Alive, promise
<1>6. CASE MainEnds
  BY <1>1, <1>6 DEF MainEnds, MainMayEnd, Exit, Closed, Phase, Alive, Service!End
<1>7. CASE StartDraining
  BY <1>1, <1>7 DEF StartDraining, TypeOK, Phase, Alive, Service!Close, promise
<1>8. CASE Drained
  BY <1>1, <1>8 DEF Drained, Phase, Alive, promise
<1>9. CASE Signal
  <2>1. CASE UNCHANGED <<main, code, handling>>
    BY <1>1, <2>1 DEF Phase, Alive, promise
  <2> QED
    BY <1>2, <1>9, <2>1 DEF Signal
<1>10. CASE DeadlineExceeded
  BY <1>2, <1>10 DEF DeadlineExceeded
<1> QED
  BY <1>3, <1>4, <1>5, <1>6, <1>7, <1>8, <1>9, <1>10 DEF Process

\* A handler that writes its answer has one request less in the works.
LEMMA AnswerServes ==
    ASSUME TypeOK, NEW q \in Requests, NEW A, NEW a \in A \cup {Lost}, Alive, q \in InFlight,
           Answer(q, a), UNCHANGED server
    PROVE  Service!Answer(q, A)
<1>1. request \in [Requests -> {"none", "body", "begin", "reading", "writing", "done"}]
  BY DEF TypeOK
<1>2. InFlight' = InFlight \ {q}
  BY <1>1 DEF Answer, InFlight
<1>3. Phase # "ended" /\ UNCHANGED <<Phase, code>>
  BY DEF Phase, Alive, server
<1> QED
  BY <1>2, <1>3 DEF Answer, Service!Answer

\* Requests are taken in, refused or answered.
LEMMA RequestServes ==
    ASSUME TypeOK, Settled, StoredWhole, StoredWhole',
           NEW q \in Requests,
           \/ Arrive(q)
           \/ q \in Streams /\ (ReadBody(q) \/ Handler(q) \/ RemoteWrite(q))
           \/ q \in Pings /\ HealthzHandler(q)
    PROVE  [Service!Next]_promise
<1>0. /\ request \in [Requests -> {"none", "body", "begin", "reading", "writing", "done"}]
      /\ pushed \subseteq Streams
      /\ UNCHANGED server
  BY DEF TypeOK, Arrive, ReadBody, Handler, Upload, LayerRead, RemoteWrite, HealthzHandler
<1>1. UNCHANGED <<Phase, code>>
  BY <1>0 DEF server, Phase, Alive
<1>2. ASSUME UNCHANGED pushed
      PROVE  UNCHANGED [s \in Streams |-> Stored(s)]
  BY <1>2 DEF StoredWhole
<1>3. ASSUME q \in Streams, pushed' = pushed \cup {q}
      PROVE  [s \in Streams |-> Stored(s)]' = [[s \in Streams |-> Stored(s)] EXCEPT ![q] = "package"]
  BY <1>3 DEF StoredWhole
<1>4. CASE Arrive(q)
  <2>1. /\ Phase = "open" /\ q \notin InFlight /\ answer[q] = None
        /\ UNCHANGED [s \in Streams |-> Stored(s)]
    BY <1>2, <1>4 DEF Arrive, Phase, Alive, InFlight, Settled
  <2>2. InFlight' = InFlight \cup {q}
    BY <1>0, <1>4 DEF Arrive, InFlight
  <2> QED
    BY <1>1, <1>4, <2>1, <2>2 DEF Arrive, Service!Take, Service!Next, Requests, Service!Requests
<1>5. ASSUME q \in Streams, Alive, q \in InFlight, Answer(q, 500), UNCHANGED pushed
      PROVE  [Service!Next]_promise
  BY <1>0, <1>2, <1>5, AnswerServes DEF Service!Fail, Service!Next
<1>6. ASSUME q \in InFlight, request'[q] \in {"begin", "reading", "writing"},
             request' = [request EXCEPT ![q] = request'[q]], UNCHANGED <<answer, pushed>>
      PROVE  [Service!Next]_promise
  <2>1. InFlight' = InFlight
    BY <1>0, <1>6 DEF InFlight
  <2> QED
    BY <1>1, <1>2, <1>6, <2>1 DEF promise
<1>7. CASE q \in Streams /\ Upload(q)
  BY <1>0, <1>5, <1>6, <1>7 DEF Upload, InFlight
<1>8. CASE q \in Streams /\ LayerRead(q)
  BY <1>0, <1>5, <1>6, <1>8 DEF LayerRead, InFlight
<1>9. CASE q \in Streams /\ RemoteWrite(q)
  <2>1. Alive /\ q \in InFlight
    BY <1>9 DEF RemoteWrite, InFlight
  <2>2. ASSUME pushed' = pushed \cup {q}, NEW a \in {200, 500}, Answer(q, a)
        PROVE  [Service!Next]_promise
    <3>1. Service!Answer(q, {200, 500})
      BY <1>0, <2>1, <2>2, AnswerServes
    <3>2. Service!Store(q)
      BY <1>3, <1>9, <2>2, <3>1 DEF Service!Store
    <3> QED
      BY <1>9, <3>2 DEF Service!Next
  <2> QED
    BY <1>5, <1>9, <2>1, <2>2 DEF RemoteWrite
<1>10. CASE q \in Pings /\ HealthzHandler(q)
  <2>1. Alive /\ q \in InFlight /\ UNCHANGED pushed
    BY <1>10 DEF HealthzHandler, InFlight
  <2>2. PICK a \in {200, 401, Lost} : Answer(q, a)
    BY <1>10 DEF HealthzHandler
  <2>3. Service!Answer(q, {200, 401})
    BY <1>0, <2>1, <2>2, AnswerServes
  <2> QED
    BY <1>2, <1>10, <2>1, <2>3 DEF Service!Check, Service!Next
<1>11. CASE q \in Streams /\ ReadBody(q)
  <2>1. Alive /\ q \in InFlight /\ UNCHANGED pushed
    BY <1>11 DEF ReadBody, InFlight
  <2>2. ASSUME NEW a \in {400, 422}, Answer(q, a) PROVE [Service!Next]_promise
    <3>1. Service!Answer(q, {400, 422})
      BY <1>0, <2>1, <2>2, AnswerServes
    <3> QED
      BY <1>2, <1>11, <2>1, <3>1 DEF Service!Refuse, Service!Next
  <2>3. CASE request' = [request EXCEPT ![q] = "begin"] /\ UNCHANGED answer
    BY <1>0, <1>6, <2>1, <2>3
  <2> QED
    BY <1>11, <2>2, <2>3 DEF ReadBody
<1> QED
  BY <1>4, <1>7, <1>8, <1>9, <1>10, <1>11 DEF Handler

LEMMA StepServes == ASSUME IInv, Settled, StoredWhole, [Next]_vars, StoredWhole' PROVE [Service!Next]_promise
<1>1. ASSUME UNCHANGED <<requests, server>>
      PROVE  UNCHANGED promise
  <2>1. UNCHANGED [q \in Streams |-> Stored(q)]
    BY <1>1 DEF StoredWhole, requests
  <2> QED
    BY <1>1, <2>1 DEF promise, Phase, Alive, InFlight, requests, server
<1>2. CASE Process \/ Signal \/ DeadlineExceeded
  <2>1. UNCHANGED requests
    BY <1>2 DEF Process, LoadConfig, Listen, ServerClosed, MainEnds, StartDraining, Drained, Signal,
                DeadlineExceeded
  <2>2. \A q \in Streams : Stored(q)' = Stored(q)
    BY <2>1 DEF StoredWhole, requests
  <2> QED
    BY <1>2, <2>2, ProcessServes DEF IInv, Service!Next
<1>3. CASE \E s \in Streams : Streaming(s) \/ OtherReader(s)
  BY <1>1, <1>3 DEF Streaming, OtherReader
<1>4. CASE \E q \in Requests : \/ Arrive(q)
                               \/ q \in Streams /\ (ReadBody(q) \/ Handler(q) \/ RemoteWrite(q))
                               \/ q \in Pings /\ HealthzHandler(q)
  BY <1>4, RequestServes DEF IInv
<1>5. CASE UNCHANGED vars
  BY <1>1, <1>5 DEF vars
<1> QED
  BY <1>2, <1>3, <1>4, <1>5 DEF Next, Requests

\* The process keeps its promise to clients and kubelet: behind the goroutine, the
\* pipe, its panics and the shutdown, a request has one answer, a package is stored
\* whole or not at all, and 0 is the end of a service that owes no answer.
THEOREM Refinement == Spec => ImplementsService
<1>1. Init => Service!Init /\ Settled
  BY DEF Init, Service!Init, Service!Requests, Requests, Settled, Phase, Alive, InFlight, Stored
<1>2. IInv /\ Settled /\ [Next]_vars => Settled'
  <2>1. ASSUME Settled, UNCHANGED vars PROVE Settled'
    BY <2>1 DEF Settled, vars, requests, stream
  <2> QED
    BY <2>1, SettledStep
<1>3. IInv /\ Settled => StoredWhole
  BY PushedIsWhole
<1>4. IInv /\ Settled /\ StoredWhole /\ StoredWhole' /\ [Next]_vars => [Service!Next]_promise
  BY StepServes
<1> QED
  BY <1>1, <1>2, <1>3, <1>4, Invariant, PTL DEF Spec, ImplementsService, Service!Spec, Service!vars, promise
=============================================================================
