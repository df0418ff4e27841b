--------------------------- MODULE RegistryBuddy ---------------------------
(***************************************************************************)
(* The registry-buddy as a process: the start, the requests in flight and  *)
(* the end after a signal.  A request is POST /packages, whose handler     *)
(* turns a zip into an image with a tar stream (TarStream) and writes it   *)
(* to the registry, or a GET /healthz.  DELETE /images is in ImageDeleter; *)
(* for the server it is one more request that waits for a registry.  A     *)
(* stream without a request is read by another user of the archive         *)
(* package, who may close it.  Registries may never answer: no call to     *)
(* them has a timeout.                                                     *)
(***************************************************************************)
EXTENDS TarStream, FiniteSets

CONSTANTS
    Pings,     \* GET /healthz requests; every stream may be POST /packages
    Lost, None

ASSUME RegistryBuddyAssumption ==
    /\ Pings \cap Streams = {}
    /\ Lost \notin Nat /\ None \notin Nat /\ Lost # None

Requests == Streams \cup Pings

VARIABLES
    main,      \* main: "config", "listen", "serve", "wait", "exited"
    code,      \* its exit code
    signalled, \* SIGINT or SIGTERM waits in the channel shutdown
    handling,  \* handleServerShutdown: "waiting", "draining", "done"
    request,   \* where a request's handler is
    answer,    \* what the client gets
    pushed,    \* packages whose image is in the registry
    cut        \* history: requests in flight when the process ended

server == <<main, code, signalled, handling, cut>>
requests == <<request, answer, pushed>>
vars == <<stream, server, requests>>

Alive == main # "exited"
InFlight == {q \in Requests : request[q] \notin {"none", "done"}}

Init ==
    /\ TarInit
    /\ main = "config" /\ code = None /\ signalled = FALSE /\ handling = "waiting"
    /\ request = [q \in Requests |-> "none"] /\ answer = [q \in Requests |-> None]
    /\ pushed = {} /\ cut = {}
-----------------------------------------------------------------------------
(* The process: main, newServer, handleServerShutdown.                       *)

\* Mutant: the process dies without a word.
ExitSilently(c) == main' = "exited" /\ code' = None /\ cut' = InFlight
\* Every goroutine ends with the process, Fatalf's included.
Exit(c) ==
    /\ main' = "exited"
    /\ code' = c
    /\ cut' = InFlight

LoadConfig ==
    /\ main = "config"
    /\ \/ main' = "listen" /\ UNCHANGED <<code, cut>>
       \/ Exit(1)
    /\ UNCHANGED <<stream, requests, signalled, handling>>

\* ListenAndServe takes the port, fails to, or finds the server shut down.
Listen ==
    /\ main = "listen"
    /\ \/ handling = "waiting" /\ main' = "serve" /\ UNCHANGED <<code, cut>>
       \/ handling # "waiting" /\ main' = "wait" /\ UNCHANGED <<code, cut>>
       \/ Exit(1)
    /\ UNCHANGED <<stream, requests, signalled, handling>>

\* ListenAndServe returns as soon as Shutdown has closed the listener.
ServerClosed ==
    /\ main = "serve" /\ handling # "waiting"
    /\ main' = "wait"
    /\ UNCHANGED <<stream, requests, code, signalled, handling, cut>>

\* Mutant: main ends with ListenAndServe.
MainEndsAtOnce == TRUE
\* <-done
MainMayEnd == handling = "done"
MainEnds ==
    /\ main = "wait" /\ MainMayEnd
    /\ Exit(0)
    /\ UNCHANGED <<stream, requests, signalled, handling>>

\* Notify is called once the configuration is loaded; a signal before it kills.
Signal ==
    /\ Alive /\ ~signalled /\ handling = "waiting"
    /\ IF main = "config" THEN Exit(143) /\ UNCHANGED signalled
                          ELSE signalled' = TRUE /\ UNCHANGED <<main, code, cut>>
    /\ UNCHANGED <<stream, requests, handling>>

\* Shutdown closes the listener and the idle connections.
StartDraining ==
    /\ Alive /\ signalled
    /\ signalled' = FALSE
    /\ handling' = "draining"
    /\ UNCHANGED <<stream, requests, main, code, cut>>

\* Shutdown returns when no request is in flight, and done is closed.
Drained ==
    /\ Alive /\ handling = "draining" /\ InFlight = {}
    /\ handling' = "done"
    /\ UNCHANGED <<stream, requests, main, code, signalled, cut>>

\* Mutant: a context without a timeout.
NeverExpires == FALSE
\* ... or with the context's error after 25 seconds, at any time of a request.
Expired == TRUE
DeadlineExceeded ==
    /\ Alive /\ handling = "draining" /\ Expired
    /\ Exit(1)
    /\ UNCHANGED <<stream, requests, signalled, handling>>
-----------------------------------------------------------------------------
(* Requests.                                                                 *)

\* The handler writes its answer, of which nothing is sent if it comes after the
\* connection's WriteTimeout of 60 seconds.
Answer(q, a) ==
    /\ request' = [request EXCEPT ![q] = "done"]
    /\ \E sent \in {a, Lost} : answer' = [answer EXCEPT ![q] = sent]

\* A request is in flight with its first byte; only a package has a body.
Arrive(q) ==
    /\ main = "serve" /\ handling = "waiting" /\ request[q] = "none"
    /\ q \in Streams => gen[q] = "none"
    /\ request' = [request EXCEPT ![q] = IF q \in Streams THEN "body" ELSE "begin"]
    /\ UNCHANGED <<stream, server, answer, pushed>>

\* PostPackageHandler reads the body, as slowly as the client sends it and also while
\* the server drains, and checks it.
ReadBody(q) ==
    /\ Alive /\ request[q] = "body"
    /\ \/ \E a \in {400, 422} : Answer(q, a)
       \/ request' = [request EXCEPT ![q] = "begin"] /\ UNCHANGED answer
    /\ UNCHANGED <<stream, server, pushed>>

\* Upload: a random image, and a layer from the tar of the zip.
Upload(q) ==
    /\ Alive /\ request[q] = "begin"
    /\ \/ /\ ReadZipAsTar(q)
          /\ request' = [request EXCEPT ![q] = "reading"]
          /\ UNCHANGED answer
       \/ Answer(q, 500) /\ UNCHANGED stream
    /\ UNCHANGED <<server, pushed>>

\* Mutant: the layer's error is dropped.
LayerAnyway(q) == TRUE
\* LayerFromReader has read all there is, and does not close the reader.  An image
\* that cannot be made or a reference that cannot be parsed is an error like an
\* unreadable tar.
LayerMade(q) == reader[q] = "eof"
LayerRead(q) ==
    /\ Alive /\ request[q] = "reading" /\ reader[q] \in {"eof", "error"}
    /\ \/ /\ LayerMade(q)
          /\ request' = [request EXCEPT ![q] = "writing"]
          /\ UNCHANGED answer
       \/ Answer(q, 500)
    /\ UNCHANGED <<stream, server, pushed>>

\* remote.Write: the image is written or not, and its answer may get lost.
RemoteWrite(q) ==
    /\ Alive /\ request[q] = "writing"
    /\ \/ pushed' = pushed \cup {q} /\ \E a \in {200, 500} : Answer(q, a)
       \/ UNCHANGED pushed /\ Answer(q, 500)
    /\ UNCHANGED <<stream, server>>

\* healthz.Check asks the registry, and panics on a bad repository: net/http recovers
\* and closes the connection.
Check == {"nil", "error", "panic"}
HealthzHandler(q) ==
    /\ Alive /\ q \in Pings /\ request[q] = "begin"
    /\ \E err \in Check :
          Answer(q, IF err = "nil" THEN 200 ELSE IF err = "error" THEN 401 ELSE Lost)
    /\ UNCHANGED <<stream, server, pushed>>
-----------------------------------------------------------------------------
Streaming(s) ==
    /\ Alive
    /\ Generate(s) \/ ReadEnd(s) \/ Rendezvous(s)
    /\ UNCHANGED <<server, requests>>

OtherReader(s) ==
    /\ Alive /\ request[s] = "none"
    /\ ReadZipAsTar(s) \/ BuilderReader(s) \/ Close(s)
    /\ UNCHANGED <<server, requests>>

Process == LoadConfig \/ Listen \/ ServerClosed \/ MainEnds \/ StartDraining \/ Drained
Handler(q) == Upload(q) \/ LayerRead(q)

Next ==
    \/ Process \/ Signal \/ DeadlineExceeded
    \/ \E q \in Pings : HealthzHandler(q)
    \/ \E q \in Requests : Arrive(q)
    \/ \E s \in Streams :
          ReadBody(s) \/ Handler(s) \/ RemoteWrite(s) \/ Streaming(s) \/ OtherReader(s)

Spec == Init /\ [][Next]_vars

\* Goroutines run, deadlines pass. Nothing is assumed of registries, clients and
\* signals, nor that a reader is ever closed.
FairSpec ==
    /\ Spec
    /\ WF_vars(Process) /\ WF_vars(DeadlineExceeded)
    /\ \A q \in Streams : WF_vars(Handler(q))
    /\ \A s \in Streams : WF_vars(Streaming(s))
-----------------------------------------------------------------------------
TypeOK ==
    /\ TarTypeOK
    /\ main \in {"config", "listen", "serve", "wait", "exited"}
    /\ code \in {None, 0, 1, 143} /\ (main = "exited" <=> code # None)
    /\ signalled \in BOOLEAN /\ handling \in {"waiting", "draining", "done"}
    /\ request \in [Requests -> {"none", "body", "begin", "reading", "writing", "done"}]
    /\ answer \in [Requests -> {None, 200, 400, 401, 422, 500, Lost}]
    /\ pushed \subseteq Streams /\ cut \subseteq Requests

\* A reader gets to the end of the file only if it has read every entry and the
\* end of the tar: no error or panic of the goroutine is taken for the end
\* (GenerateTarWithWriter, WriteZipToTar).
EndMeansWhole ==
    \A s \in Streams : reader[s] = "eof" => Len(tar[s]) = Len(entries[s]) /\ trailer[s]

\* Zips that differ in time stamps only become the same tar, and so the same layer
\* in the registry, but for symlinks that could not be opened (NormalizeHeader).
SameButForTime(a, b) ==
    Len(a) = Len(b) /\ \A i \in DOMAIN a : [a[i] EXCEPT !.time = 0] = [b[i] EXCEPT !.time = 0]
Sound(h) == \A i \in DOMAIN h : ~h[i].broken
Reproducible ==
    \A s \in Streams :
        source[s] = "zip" /\ reader[s] = "eof" /\ Sound(tar[s]) =>
            \A a \in Archives : SameButForTime(a, entries[s]) =>
                tar[s] = [i \in DOMAIN a |-> Header(a[i])]

\* A 200 for a package means that its whole tar is in the registry.
HashMeansPushed ==
    \A q \in Streams :
        answer[q] = 200 => q \in pushed /\ ~More(q) /\ trailer[q]

\* When a package is answered, the goroutine has let go of its zip file, which
\* Cloud Controller then removes; at most the result is left, for a Close that
\* nobody calls.
ZipReleased ==
    \A q \in Streams :
        request[q] = "done" => ~zip[q] /\ gen[q] \in {"none", "send", "ended"}

\* A process that ends with 0 has cut no request off (main, handleServerShutdown).
CleanEnd == code = 0 => cut = {}

\* The process keeps the promise of PackageService, whatever streams, handlers and
\* main do to each other: main's and handleServerShutdown's positions are one phase,
\* and a package is in the registry whole or not at all (Upload, GenerateTarWithWriter).
Phase == IF ~Alive THEN "ended"
         ELSE IF handling # "waiting" THEN "closed"
         ELSE IF main = "serve" THEN "open" ELSE "starting"
Stored(q) == IF q \notin pushed THEN "nothing"
             ELSE IF More(q) \/ ~trailer[q] THEN "part" ELSE "package"
Service == INSTANCE PackageService
    WITH Packages <- Streams, phase <- Phase, working <- InFlight,
         registry <- [q \in Streams |-> Stored(q)]
ImplementsService == Service!Spec

\* After a signal the process ends, whether the registry answers or not.
SignalEnds == signalled ~> ~Alive

\* A Close returns, unless the goroutine panicked: it waits for a result that a
\* panic does not send.
CloseReturns ==
    \A s \in Streams :
        reader[s] = "closing" ~> reader[s] = "closed" \/ result[s] = "panic" \/ ~Alive

\* A package's tar is read to an end, whatever goes wrong in it: its request is
\* answered or has the registry to wait for.
TarsEnd ==
    \A q \in Streams :
        request[q] = "reading" ~> request[q] \in {"writing", "done"} \/ ~Alive
=============================================================================
