------------------------------ MODULE Transport ------------------------------
(***************************************************************************)
(* The control plane as its callers meet it (src/src/transport, index.ts,  *)
(* src/src/logs): how a client finds the service, what becomes of a        *)
(* request from the first hook to the last, and how the events that the    *)
(* handlers log reach the bus, the session's log file and the streams of   *)
(* GET /v1/events.                                                         *)
(*                                                                         *)
(* Requests are of the classes that the routes fall into.  What the        *)
(* handlers do to sessions, grants, pauses, challenges and pages is the    *)
(* subject of the other modules; here a handler looks its session up,      *)
(* works over awaits, and logs what the lifecycle of a session is told by. *)
(*                                                                         *)
(* Every start of the service is a process of its own, with its sessions   *)
(* and its bus.  Nothing keeps a second one from starting beside the first *)
(* with the same files: they share the token's, the endpoint's and the     *)
(* logs, and only one of them can listen on a port.                        *)
(***************************************************************************)
EXTENDS Integers, Sequences

CONSTANTS Requests, \* requests sent to the service
          Streams,  \* event streams opened
          Sessions, \* session ids, those that no launch gave out included
          MaxStarts \* bound: starts of the service

\* 0 is no session: the events of identities are logged without one.
ASSUME TransportAssumption == MaxStarts \in Nat /\ 0 \notin Sessions

Starts == 1..MaxStarts

VARIABLES start,    \* how often the service has been started
          phase,    \* how far each start has come
          port,     \* what each start listens on
          tokenFile, endpoint, \* which start wrote the file, 0 if none did
          at,       \* where each request is
          req,      \* what it asks for, what its sender read, whom it reached
          registered, \* sessions in the map of their manager
          home,     \* the start that launched a session, 0 if none did
          logFiles, \* sessions that have a log file
          emitted,  \* the events of each start's bus: is it a lifecycle event
          host,     \* the start that a stream is connected to
          gen,      \* where the generator of a stream is
          queue, sent, \* events it has in hand, and those it handed over
          from,     \* events emitted before it subscribed
          aborted   \* has its socket closed

service == <<start, phase, port, tokenFile, endpoint>>
requests == <<at, req>>
sessionVars == <<registered, home>>
streamVars == <<host, gen, queue, sent, from, aborted>>
vars == <<service, requests, sessionVars, logFiles, emitted, streamVars>>

NoRequest == [route |-> "none", session |-> 0, endpoint |-> 0, token |-> 0,
              server |-> 0, status |-> 0]

\* A port is FEATHER_PORT, or one that the kernel gives; it is named after the
\* first start, or an earlier one, that has it.
Init ==
    /\ start = 0 /\ phase = [n \in Starts |-> "none"]
    /\ port \in {p \in [Starts -> Starts] : \A n \in Starts : p[n] <= n}
    /\ tokenFile = 0 /\ endpoint = 0
    /\ at = [r \in Requests |-> "idle"]
    /\ req = [r \in Requests |-> NoRequest]
    /\ registered = {} /\ home = [s \in Sessions |-> 0] /\ logFiles = {}
    /\ emitted = [n \in Starts |-> <<>>]
    /\ host = [s \in Streams |-> 0]
    /\ gen = [s \in Streams |-> "off"]
    /\ queue = [s \in Streams |-> <<>>]
    /\ sent = [s \in Streams |-> <<>>]
    /\ from = [s \in Streams |-> 0]
    /\ aborted = [s \in Streams |-> FALSE]

Listening(n) == phase[n] \in {"listening", "up"}

\* Another process has the port.
PortTaken(n) == \E m \in Starts : Listening(m) /\ port[m] = port[n]

\* A stream that has subscribed and not ended.
Live(s) == gen[s] \in {"yielded", "parked", "woken"}

(***************************************************************************)
(* The service starts, publishes itself and ends.                          *)
(***************************************************************************)
\* Defective variant: the token stays in memory.
WriteNoToken ==
    /\ start < MaxStarts
    /\ start' = start + 1
    /\ phase' = [phase EXCEPT ![start + 1] = "token"]
    /\ UNCHANGED <<port, tokenFile, endpoint>>

\* startHttpServer: a new token, its file first, whoever else is running ...
WriteToken ==
    /\ start < MaxStarts
    /\ start' = start + 1
    /\ phase' = [phase EXCEPT ![start + 1] = "token"]
    /\ tokenFile' = start + 1
    /\ UNCHANGED <<port, endpoint>>

Listen(n) ==
    /\ phase[n] = "token"
    /\ ~PortTaken(n)
    /\ phase' = [phase EXCEPT ![n] = "listening"]
    /\ UNCHANGED <<start, port, tokenFile, endpoint>>

\* EADDRINUSE ends main(), and the token's file stays as it is.
ListenFails(n) ==
    /\ phase[n] = "token"
    /\ PortTaken(n)
    /\ phase' = [phase EXCEPT ![n] = "ended"]
    /\ UNCHANGED <<start, port, tokenFile, endpoint>>

\* ... and the endpoint's once it listens.
WriteEndpoint(n) ==
    /\ phase[n] = "listening"
    /\ phase' = [phase EXCEPT ![n] = "up"]
    /\ endpoint' = n
    /\ UNCHANGED <<start, port, tokenFile>>

Startup ==
    /\ WriteToken \/ \E n \in Starts : Listen(n) \/ ListenFails(n) \/ WriteEndpoint(n)
    /\ UNCHANGED <<requests, sessionVars, logFiles, emitted, streamVars>>

\* The process ends.  Nobody removes the files; what it had in memory is gone.
Stops(n) ==
    /\ phase[n] \notin {"none", "ended"}
    /\ phase' = [phase EXCEPT ![n] = "ended"]
    /\ at' = [r \in Requests |-> IF req[r].server = n THEN "done" ELSE at[r]]
    /\ req' = [r \in Requests |-> IF req[r].server = n THEN NoRequest ELSE req[r]]
    /\ registered' = {s \in registered : home[s] # n}
    /\ emitted' = [emitted EXCEPT ![n] = <<>>]
    /\ gen' = [s \in Streams |-> IF host[s] = n THEN "ended" ELSE gen[s]]
    /\ queue' = [s \in Streams |-> IF host[s] = n THEN <<>> ELSE queue[s]]
    /\ sent' = [s \in Streams |-> IF host[s] = n THEN <<>> ELSE sent[s]]
    /\ from' = [s \in Streams |-> IF host[s] = n THEN 0 ELSE from[s]]
    /\ UNCHANGED <<start, port, tokenFile, endpoint, home, logFiles, host, aborted>>

(***************************************************************************)
(* The bus, and the log file of a session.                                 *)
(***************************************************************************)
\* emitBusEvent calls every subscriber of the process at once: a lifecycle
\* event is queued, and a stream that waits is woken.
Publish(n, life) ==
    LET Told(s) == life /\ host[s] = n
    IN /\ emitted' = [emitted EXCEPT ![n] = Append(@, life)]
       /\ queue' = [s \in Streams |-> IF Told(s) /\ Live(s)
                                       THEN Append(queue[s], Len(emitted[n]) + 1) ELSE queue[s]]
       /\ gen' = [s \in Streams |-> IF Told(s) /\ gen[s] = "parked" THEN "woken" ELSE gen[s]]
       /\ UNCHANGED <<host, sent, from, aborted>>

\* FeatherLogger.log: the bus first, then the file of the session, if any.
Log(n, life, session) ==
    /\ Publish(n, life)
    /\ logFiles' = logFiles \cup ({session} \cap Sessions)

quietVars == <<emitted, logFiles, streamVars>>
Quiet == UNCHANGED quietVars

(***************************************************************************)
(* What the routes are.                                                    *)
(***************************************************************************)
ActionRoutes == {"action"} \* navigate, observe, click, type, ... on a page
HumanRoutes == {"human"}  \* resume, approvals, the MFA page and its submit
Routes == ActionRoutes \cup HumanRoutes
             \cup {"launch", "close", "ask", "request", "identity", "read"}

OfSession(route) == route \notin {"launch", "identity", "read"}
Unsafe(route) == route # "read"                    \* not a GET
NeedsToken(route) == route \notin HumanRoutes
HasBody(route) == route \notin HumanRoutes \cup {"read"}
\* POST /v1/sessions/:sessionId/<action>, `grants` and `await-human` included;
\* `cookies/export` and `mfa/challenge`, the requests of class "ask", do not match.
Traced(route) == route \in ActionRoutes \cup {"request"}

\* An error has the status of its code, or 500, which stands for all of them:
\* none is 401.
ErrorStatus == 500

\* Which answer the hooks and the parsing give: none of them changes any state.
\* Text that is no JSON is met by the parser before the token is looked at.
Verdict(route, flaws) ==
    LET stopped == "host" \in flaws \/ (Unsafe(route) /\ flaws \cap {"origin", "text"} # {})
    IN IF stopped THEN ErrorStatus
       ELSE IF "token" \in flaws /\ NeedsToken(route) THEN 401
       ELSE IF "body" \in flaws /\ HasBody(route) THEN ErrorStatus ELSE 0

(***************************************************************************)
(* A client reads the two files and sends its request.                     *)
(***************************************************************************)
ReadEndpoint(r) ==
    /\ at[r] = "idle"
    /\ endpoint # 0
    /\ req' = [req EXCEPT ![r].endpoint = endpoint]
    /\ at' = [at EXCEPT ![r] = "found"]
    /\ UNCHANGED <<service, sessionVars, quietVars>>

ReadToken(r) ==
    /\ at[r] = "found"
    /\ req' = [req EXCEPT ![r].token = tokenFile]
    /\ at' = [at EXCEPT ![r] = "ready"]
    /\ UNCHANGED <<service, sessionVars, quietVars>>

\* Whoever listens on the port that it read.
Reaches(r, n) == Listening(n) /\ port[n] = port[req[r].endpoint]

Send(r, n) ==
    /\ at[r] = "ready"
    /\ Reaches(r, n)
    /\ \E route \in Routes, flaws \in SUBSET {"host", "origin", "text", "body"} :
       \E session \in IF OfSession(route) THEN Sessions ELSE {0} :
          LET token == IF req[r].token = n THEN {} ELSE {"token"}
              verdict == Verdict(route, flaws \cup token)
          IN /\ req' = [req EXCEPT ![r] = [route |-> route, session |-> session, status |-> verdict,
                                           endpoint |-> @.endpoint, token |-> @.token, server |-> n]]
             /\ at' = [at EXCEPT ![r] = IF verdict = 0 THEN "admitted" ELSE "answered"]
    /\ UNCHANGED <<service, sessionVars, quietVars>>

Ends(r) ==
    /\ at' = [at EXCEPT ![r] = "done"]
    /\ req' = [req EXCEPT ![r] = NoRequest]

Refused(r) ==
    /\ at[r] = "ready"
    /\ \A n \in Starts : ~Reaches(r, n)
    /\ Ends(r)
    /\ UNCHANGED <<service, sessionVars, quietVars>>

(***************************************************************************)
(* The handlers.                                                           *)
(***************************************************************************)
Answer(r, status) ==
    /\ req' = [req EXCEPT ![r].status = status]
    /\ at' = [at EXCEPT ![r] = "answered"]

\* The sessions of the process that serves the request.
Registered(r) == {s \in registered : home[s] = req[r].server}
Tells(r, session) == Log(req[r].server, TRUE, session)

Works(r) == at' = [at EXCEPT ![r] = "working"] /\ UNCHANGED req

LaunchBegins(r) ==
    /\ at[r] = "admitted" /\ req[r].route = "launch"
    /\ \E s \in Sessions :
          /\ home[s] = 0
          /\ req' = [req EXCEPT ![r].session = s]
          /\ home' = [home EXCEPT ![s] = req[r].server]
          /\ Tells(r, s)
    /\ at' = [at EXCEPT ![r] = "working"]
    /\ UNCHANGED <<service, registered>>

LaunchEnds(r) ==
    /\ at[r] = "working" /\ req[r].route = "launch"
    /\ Tells(r, req[r].session)
    /\ \/ Answer(r, 200) /\ registered' = registered \cup {req[r].session}
       \/ Answer(r, ErrorStatus) /\ UNCHANGED registered
    /\ UNCHANGED <<service, home>>

\* Handlers that serve one session look it up before they await anything.
Misses(r) ==
    /\ at[r] = "admitted" /\ req[r].route \in {"action", "ask", "request", "close"}
    /\ req[r].session \notin Registered(r)
    /\ Answer(r, ErrorStatus)
    /\ UNCHANGED <<service, sessionVars, quietVars>>

ActionBegins(r) ==
    /\ at[r] = "admitted" /\ req[r].route = "action"
    /\ req[r].session \in Registered(r)
    /\ Works(r)
    /\ UNCHANGED <<service, sessionVars, quietVars>>

ActionEnds(r) ==
    /\ at[r] = "working" /\ req[r].route = "action"
    /\ \E status \in {200, ErrorStatus} : Answer(r, status)
    /\ UNCHANGED <<service, sessionVars, quietVars>>

\* grants, await-human, cookies/export, mfa/challenge: the log tells of them.
Asks(r) ==
    /\ at[r] = "admitted" /\ req[r].route \in {"ask", "request"}
    /\ req[r].session \in Registered(r)
    /\ \/ Answer(r, ErrorStatus) /\ Quiet
       \/ Answer(r, 200) /\ Tells(r, req[r].session)
    /\ UNCHANGED <<service, sessionVars>>

CloseBegins(r) ==
    /\ at[r] = "admitted" /\ req[r].route = "close"
    /\ req[r].session \in Registered(r)
    /\ Works(r)
    /\ Tells(r, req[r].session)
    /\ UNCHANGED <<service, sessionVars>>

\* Once the session is closed its challenges and grants are too.
CloseEnds(r) ==
    /\ at[r] = "working" /\ req[r].route = "close"
    /\ Tells(r, req[r].session)
    /\ \/ Answer(r, 200) /\ registered' = registered \ {req[r].session}
       \/ Answer(r, ErrorStatus) /\ UNCHANGED registered
    /\ UNCHANGED <<service, home>>

\* Pages and forms of the human: 200 with the outcome, if the token in the
\* address is one that is waited for; the session it names is logged.
Human(r) ==
    /\ at[r] = "admitted" /\ req[r].route = "human"
    /\ \/ Answer(r, ErrorStatus) /\ Quiet
       \/ Answer(r, 200) /\ Quiet
       \/ Answer(r, 200) /\ req[r].session \in Registered(r) /\ Tells(r, req[r].session)
    /\ UNCHANGED <<service, sessionVars>>

\* Identities belong to no session.
Identity(r) ==
    /\ at[r] = "admitted" /\ req[r].route = "identity"
    /\ \/ Answer(r, 200) /\ Tells(r, 0)
       \/ Answer(r, ErrorStatus) /\ Quiet
    /\ UNCHANGED <<service, sessionVars>>

Reads(r) ==
    /\ at[r] = "admitted" /\ req[r].route = "read"
    /\ \E status \in {200, ErrorStatus} : Answer(r, status)
    /\ UNCHANGED <<service, sessionVars, quietVars>>

\* Defective variant: whatever the address names is traced.
TraceAnything(r) ==
    /\ at[r] = "answered"
    /\ IF Traced(req[r].route) /\ req[r].status # 401
       THEN Log(req[r].server, FALSE, req[r].session) ELSE Quiet
    /\ Ends(r)
    /\ UNCHANGED <<service, sessionVars>>

\* The onResponse hook comes after the answer, when the session may be gone.
Trace(r) ==
    /\ at[r] = "answered"
    /\ IF Traced(req[r].route) /\ req[r].status # 401 /\ req[r].session \in Registered(r)
       THEN Log(req[r].server, FALSE, req[r].session) ELSE Quiet
    /\ Ends(r)
    /\ UNCHANGED <<service, sessionVars>>

(***************************************************************************)
(* GET /v1/events                                                          *)
(***************************************************************************)
Connect(s, n) ==
    /\ gen[s] = "off"
    /\ Listening(n)
    /\ gen' = [gen EXCEPT ![s] = "new"]
    /\ host' = [host EXCEPT ![s] = n]
    /\ UNCHANGED <<queue, sent, from, aborted>>

\* What the loop does next, once it runs: hand over, stop, or wait.
Continue(s) ==
    \/ /\ queue[s] # <<>>
       /\ sent' = [sent EXCEPT ![s] = Append(@, Head(queue[s]))]
       /\ queue' = [queue EXCEPT ![s] = Tail(@)]
       /\ gen' = [gen EXCEPT ![s] = "yielded"]
    \/ /\ queue[s] = <<>>
       /\ gen' = [gen EXCEPT ![s] = IF aborted[s] THEN "ended" ELSE "parked"]
       /\ UNCHANGED <<queue, sent>>

\* The first pull subscribes.
Begin(s) ==
    /\ gen[s] = "new"
    /\ gen' = [gen EXCEPT ![s] = IF aborted[s] THEN "ended" ELSE "parked"]
    /\ from' = [from EXCEPT ![s] = Len(emitted[host[s]])]
    /\ UNCHANGED <<host, queue, sent, aborted>>

\* The plugin pulls the next event.
Pull(s) ==
    /\ gen[s] = "yielded"
    /\ Continue(s)
    /\ UNCHANGED <<host, from, aborted>>

\* Defective variant: the events in hand are dropped by whoever wakes up.
WakeEmptyHanded(s) ==
    /\ gen[s] = "woken"
    /\ IF aborted[s]
       THEN gen' = [gen EXCEPT ![s] = "ended"] /\ UNCHANGED <<queue, sent>>
       ELSE /\ queue' = [queue EXCEPT ![s] = Tail(@)]
            /\ gen' = [gen EXCEPT ![s] = "parked"] /\ UNCHANGED sent
    /\ UNCHANGED <<host, from, aborted>>

\* A stream that was woken looks at the signal first.
Wake(s) ==
    /\ gen[s] = "woken"
    /\ IF aborted[s]
       THEN gen' = [gen EXCEPT ![s] = "ended"] /\ UNCHANGED <<queue, sent>>
       ELSE Continue(s)
    /\ UNCHANGED <<host, from, aborted>>

\* Defective variant: a stream that waits does not hear of the abort.
AbortUnheard(s) ==
    /\ gen[s] \notin {"off", "ended"} /\ ~aborted[s]
    /\ aborted' = [aborted EXCEPT ![s] = TRUE]
    /\ UNCHANGED <<host, gen, queue, sent, from>>

\* The client hangs up.
Abort(s) ==
    /\ gen[s] \notin {"off", "ended"} /\ ~aborted[s]
    /\ aborted' = [aborted EXCEPT ![s] = TRUE]
    /\ gen' = [gen EXCEPT ![s] = IF @ = "parked" THEN "woken" ELSE @]
    /\ UNCHANGED <<host, queue, sent, from>>

(***************************************************************************)
(* Specification                                                           *)
(***************************************************************************)
Handler(r) ==
    \/ LaunchBegins(r) \/ LaunchEnds(r) \/ Misses(r) \/ ActionBegins(r)
    \/ ActionEnds(r) \/ Asks(r) \/ CloseBegins(r) \/ CloseEnds(r)
    \/ Human(r) \/ Identity(r) \/ Reads(r) \/ Trace(r)

Client(r) ==
    ReadEndpoint(r) \/ ReadToken(r) \/ Refused(r) \/ \E n \in Starts : Send(r, n)

Stream(s) ==
    /\ Begin(s) \/ Pull(s) \/ Wake(s) \/ Abort(s) \/ \E n \in Starts : Connect(s, n)
    /\ UNCHANGED <<service, requests, sessionVars, logFiles, emitted>>

Next ==
    \/ Startup \/ \E n \in Starts : Stops(n)
    \/ \E r \in Requests : Client(r) \/ Handler(r)
    \/ \E s \in Streams : Stream(s)

\* A promise that is settled goes on; a connected client reads its stream.
Fairness ==
    /\ \A r \in Requests : WF_vars(Handler(r))
    /\ \A s \in Streams : /\ WF_vars(Wake(s) /\ Stream(s))
                          /\ WF_vars(~aborted[s] /\ Pull(s) /\ Stream(s))

Spec == Init /\ [][Next]_vars /\ Fairness

(***************************************************************************)
(* Properties                                                              *)
(***************************************************************************)
Window(s) == sent[s] \o queue[s]

\* What a stream has handed over and what it has in hand are the lifecycle
\* events since it subscribed, each once and in the order of the bus (sse.ts:39).
\* And no wake-up is lost: a stream that waits has nothing in hand and its client
\* is still there (sse.ts:62-66).
StreamIsWindow ==
    /\ \A s \in Streams : Live(s) =>
           /\ \A i, j \in DOMAIN Window(s) : i < j => Window(s)[i] < Window(s)[j]
           /\ {Window(s)[i] : i \in DOMAIN Window(s)}
                 = {i \in DOMAIN emitted[host[s]] : i > from[s] /\ emitted[host[s]][i]}
    /\ \A s \in Streams : gen[s] = "parked" => queue[s] = <<>> /\ ~aborted[s]

\* A stream whose client hangs up while it waits gives its subscription up.
\* (One that has just handed an event over is not woken by the signal.)
HungUpStreamsEnd ==
    \A s \in Streams : aborted[s] /\ gen[s] \in {"parked", "woken"} ~> gen[s] = "ended"

\* No request makes a log file for a session that never was (routes.ts:318-321).
LogFilesAreOfSessions == \A s \in logFiles : home[s] # 0

\* The token's file is written before the service listens and the endpoint's
\* after it.  So whoever reads the endpoint and then the token is turned away
\* by the process whose address it read only if a later start had replaced the
\* token by then, and otherwise by another process on that port.
TurnedAwayByLaterStart ==
    \A r \in Requests : at[r] = "answered" /\ req[r].status = 401 =>
        IF req[r].server = req[r].endpoint
        THEN req[r].endpoint < req[r].token
        ELSE ~Listening(req[r].endpoint)
=============================================================================
