--------------------------- MODULE Transport_proofs ---------------------------
(***************************************************************************)
(* For any requests, streams, sessions and number of starts: who is turned *)
(* away, which log files there are, and what a stream hands over.          *)
(***************************************************************************)
EXTENDS Transport, TLAPS

Stages == {"idle", "found", "ready", "admitted", "working", "answered", "done"}
Generators == {"off", "new", "yielded", "parked", "woken", "ended"}
RequestRecords == [route : Routes \cup {"none"}, session : Sessions \cup {0},
                   endpoint : Nat, token : Nat, server : Starts \cup {0}, status : {0, 200, 401, 500}]
Phases == {"none", "token", "listening", "up", "ended"}

\* The service's part and that of the requests.  Who works on a session works
\* on one that was launched.
ServiceOK ==
    /\ start \in Nat /\ tokenFile \in Nat /\ endpoint \in Nat
    /\ phase \in [Starts -> Phases]
    /\ port \in [Starts -> Starts]
    /\ at \in [Requests -> Stages]
    /\ req \in [Requests -> RequestRecords]
    /\ home \in [Sessions -> Starts \cup {0}]
    /\ registered \subseteq Sessions
    /\ \A s \in registered : home[s] # 0
    /\ \A r \in Requests :
          /\ at[r] = "working" => req[r].session \in Sessions /\ home[req[r].session] # 0
          /\ at[r] \in {"admitted", "working", "answered"} => req[r].server \in Starts

\* The part of the bus and its streams.
StreamsOK ==
    /\ emitted \in [Starts -> Seq(BOOLEAN)]
    /\ host \in [Streams -> Starts \cup {0}]
    /\ gen \in [Streams -> Generators]
    /\ queue \in [Streams -> Seq(Nat)]
    /\ sent \in [Streams -> Seq(Nat)]
    /\ from \in [Streams -> Nat]
    /\ aborted \in [Streams -> BOOLEAN]

\* The files are written in the order token, endpoint, and read in the other.
\* Whose address is in the endpoint's file has listened, and at most one
\* process listens on a port.
Published(n) == n \in Starts /\ n <= start /\ phase[n] \in {"up", "ended"}

InOrder(r) ==
    /\ at[r] \in {"found", "ready"} => Published(req[r].endpoint)
    /\ at[r] = "ready" => req[r].endpoint <= req[r].token
    /\ at[r] = "answered" /\ req[r].status = 401 =>
          IF req[r].server = req[r].endpoint THEN req[r].endpoint < req[r].token
          ELSE req[r].endpoint \in Starts /\ phase[req[r].endpoint] = "ended"

FilesInOrder ==
    /\ tokenFile = start
    /\ endpoint # 0 => Published(endpoint)
    /\ \A n \in Starts : n > start <=> phase[n] = "none"
    /\ \A n, m \in Starts : Listening(n) /\ Listening(m) /\ port[n] = port[m] => n = m
    /\ \A r \in Requests : InOrder(r)

\* The promise of StreamIsWindow to one stream.
Bus(s) == emitted[host[s]]
Lifecycle(s) == {i \in DOMAIN Bus(s) : i > from[s] /\ Bus(s)[i]}
WindowOf(s) ==
    /\ \A i, j \in DOMAIN Window(s) : i < j => Window(s)[i] < Window(s)[j]
    /\ {Window(s)[i] : i \in DOMAIN Window(s)} = Lifecycle(s)

StreamInv(s) ==
    /\ gen[s] # "off" => host[s] \in Starts /\ from[s] <= Len(Bus(s))
    /\ gen[s] \in {"off", "new"} => queue[s] = <<>> /\ sent[s] = <<>> /\ from[s] = 0
    /\ gen[s] = "parked" => queue[s] = <<>> /\ ~aborted[s]
    /\ Live(s) => WindowOf(s)

-----------------------------------------------------------------------------
LEMMA ServiceInit == Init => ServiceOK
<1> SUFFICES ASSUME Init PROVE ServiceOK
    OBVIOUS
<1>1. NoRequest \in RequestRecords BY DEF RequestRecords, NoRequest
<1>2. at \in [Requests -> Stages] /\ req \in [Requests -> RequestRecords] BY <1>1 DEF Init, Stages
<1>3. phase \in [Starts -> Phases] /\ port \in [Starts -> Starts] BY DEF Init, Phases
<1>4. \A r \in Requests : at[r] = "idle" BY DEF Init
<1>. QED BY <1>2, <1>3, <1>4 DEF Init, ServiceOK

\* A request that is turned away for its token carries one of another start.
LEMMA Sending ==
    ASSUME ServiceOK, NEW r \in Requests, NEW n \in Starts, Send(r, n)
    PROVE  /\ req' \in [Requests -> RequestRecords]
           /\ at' \in [Requests -> Stages]
           /\ at'[r] \in {"admitted", "answered"}
           /\ req'[r].status = 401 => req[r].token # n
           /\ req'[r].endpoint = req[r].endpoint /\ req'[r].token = req[r].token /\ req'[r].server = n
           /\ \A q \in Requests \ {r} : req'[q] = req[q] /\ at'[q] = at[q]
<1> USE DEF ServiceOK
<1>1. \A route, flaws : Verdict(route, flaws) \in {0, 401, 500} BY DEF Verdict, ErrorStatus
<1>2. PICK route \in Routes, flaws \in SUBSET {"host", "origin", "text", "body"},
           session \in Sessions \cup {0} :
        LET token == IF req[r].token = n THEN {} ELSE {"token"}
            verdict == Verdict(route, flaws \cup token)
        IN /\ req' = [req EXCEPT ![r] = [route |-> route, session |-> session, status |-> verdict,
                                         endpoint |-> @.endpoint, token |-> @.token, server |-> n]]
           /\ at' = [at EXCEPT ![r] = IF verdict = 0 THEN "admitted" ELSE "answered"]
  BY DEF Send
<1> DEFINE answer == Verdict(route, flaws \cup IF req[r].token = n THEN {} ELSE {"token"})
<1> DEFINE record == [route |-> route, session |-> session, status |-> answer,
                      endpoint |-> req[r].endpoint, token |-> req[r].token, server |-> n]
<1>3. answer \in {0, 401, 500} BY <1>1
<1>4. answer = 401 => req[r].token # n
  <2>1. answer = 401 => "token" \in flaws \cup IF req[r].token = n THEN {} ELSE {"token"}
    BY DEF Verdict, ErrorStatus
  <2>. QED BY <2>1
<1>5. /\ req' = [req EXCEPT ![r] = record]
      /\ at' = [at EXCEPT ![r] = IF answer = 0 THEN "admitted" ELSE "answered"]
  BY <1>2
<1> HIDE DEF answer
<1>6. record \in RequestRecords BY <1>3 DEF RequestRecords
<1>7. /\ record.status = answer /\ record.endpoint = req[r].endpoint
      /\ record.token = req[r].token /\ record.server = n
  OBVIOUS
<1> HIDE DEF record
<1>8. /\ req' \in [Requests -> RequestRecords] /\ req'[r] = record
      /\ \A q \in Requests \ {r} : req'[q] = req[q]
  BY <1>5, <1>6
<1>9. /\ at' \in [Requests -> Stages] /\ at'[r] \in {"admitted", "answered"}
      /\ \A q \in Requests \ {r} : at'[q] = at[q]
  BY <1>5 DEF Stages
<1>. QED BY <1>4, <1>7, <1>8, <1>9

LEMMA Answering ==
    ASSUME ServiceOK, NEW r \in Requests, NEW status \in {200, 500}, Answer(r, status)
    PROVE  /\ req' \in [Requests -> RequestRecords]
           /\ at' \in [Requests -> Stages]
           /\ req'[r].status = status /\ req'[r].server = req[r].server
           /\ at'[r] = "answered"
           /\ \A q \in Requests \ {r} : req'[q] = req[q] /\ at'[q] = at[q]
BY DEF Answer, ServiceOK, RequestRecords, Stages

LEMMA Working ==
    ASSUME ServiceOK, NEW r \in Requests, Works(r)
    PROVE  /\ at' \in [Requests -> Stages] /\ req' = req
           /\ at'[r] = "working"
           /\ \A q \in Requests \ {r} : at'[q] = at[q]
BY DEF Works, ServiceOK, Stages

LEMMA Ending ==
    ASSUME ServiceOK, NEW r \in Requests, Ends(r)
    PROVE  /\ req' \in [Requests -> RequestRecords]
           /\ at' \in [Requests -> Stages]
           /\ at'[r] = "done"
           /\ \A q \in Requests \ {r} : req'[q] = req[q] /\ at'[q] = at[q]
BY DEF Ends, NoRequest, ServiceOK, RequestRecords, Stages

LEMMA HumanServed ==
    ASSUME NEW r \in Requests, Human(r)
    PROVE  /\ Answer(r, 200) \/ Answer(r, 500)
           /\ UNCHANGED service /\ UNCHANGED sessionVars
<1>1. Answer(r, 200) \/ Answer(r, 500) BY DEF Human, ErrorStatus
<1>2. UNCHANGED service /\ UNCHANGED sessionVars BY DEF Human
<1>. QED BY <1>1, <1>2

LEMMA ServiceStep == ServiceOK /\ [Next]_vars => ServiceOK'
<1> USE DEF ServiceOK
<1> SUFFICES ASSUME ServiceOK, [Next]_vars PROVE ServiceOK'
    OBVIOUS
<1>1. CASE Startup
  BY <1>1 DEF Startup, WriteToken, Listen, ListenFails, WriteEndpoint, requests, sessionVars, Phases, Starts
<1>2. ASSUME NEW n \in Starts, Stops(n) PROVE ServiceOK'
  <2>1. at' \in [Requests -> Stages] BY <1>2 DEF Stops, Stages
  <2>2. NoRequest \in RequestRecords BY DEF NoRequest, RequestRecords
  <2>3. req' \in [Requests -> RequestRecords] BY <1>2, <2>2 DEF Stops
  <2>4. \A r \in Requests : at'[r] # "done" => at'[r] = at[r] /\ req'[r] = req[r]
    BY <1>2 DEF Stops
  <2>5. phase' \in [Starts -> Phases] BY <1>2 DEF Stops, Phases
  <2>6. /\ registered' \subseteq registered
        /\ UNCHANGED <<start, port, tokenFile, endpoint, home>>
    BY <1>2 DEF Stops
  <2>. QED BY <2>1, <2>3, <2>4, <2>5, <2>6
<1>3. ASSUME NEW r \in Requests, Client(r) PROVE ServiceOK'
  <2> USE DEF service, sessionVars
  <2>1. CASE ReadEndpoint(r) BY <2>1 DEF ReadEndpoint, RequestRecords, Stages
  <2>2. CASE ReadToken(r) BY <2>2 DEF ReadToken, RequestRecords, Stages
  <2>3. ASSUME NEW n \in Starts, Send(r, n) PROVE ServiceOK'
    <3>1. UNCHANGED <<start, phase, port, tokenFile, endpoint, registered, home>> BY <2>3 DEF Send
    <3>2. /\ req' \in [Requests -> RequestRecords] /\ at' \in [Requests -> Stages]
          /\ at'[r] \in {"admitted", "answered"} /\ req'[r].server = n
          /\ \A q \in Requests \ {r} : req'[q] = req[q] /\ at'[q] = at[q]
      BY <2>3, Sending
    <3>. QED BY <3>1, <3>2
  <2>4. CASE Refused(r)
    BY <2>4, Ending DEF Refused
  <2>. QED BY <1>3, <2>1, <2>2, <2>3, <2>4 DEF Client
<1>4. ASSUME NEW r \in Requests, Handler(r) PROVE ServiceOK'
  <2> USE DEF service, sessionVars, ErrorStatus, Registered
  <2>1. CASE LaunchBegins(r)
    <3>1. PICK s \in Sessions : /\ home[s] = 0
                               /\ req' = [req EXCEPT ![r].session = s]
                               /\ home' = [home EXCEPT ![s] = req[r].server]
      BY <2>1 DEF LaunchBegins
    <3>2. /\ req' \in [Requests -> RequestRecords] /\ req'[r].session = s /\ req'[r].server = req[r].server
          /\ \A q \in Requests \ {r} : req'[q] = req[q]
      BY <3>1 DEF RequestRecords
    <3>3. at' = [at EXCEPT ![r] = "working"] /\ at' \in [Requests -> Stages] /\ at[r] = "admitted"
      BY <2>1 DEF LaunchBegins, Stages
    <3>4. req[r].server \in Starts /\ req[r].server # 0 BY <3>3 DEF Starts
    <3>5. /\ home' \in [Sessions -> Starts \cup {0}] /\ home'[s] # 0
          /\ \A q \in Sessions \ {s} : home'[q] = home[q]
      BY <3>1, <3>4
    <3>6. UNCHANGED <<start, phase, port, tokenFile, endpoint, registered>> BY <2>1 DEF LaunchBegins
    <3>7. s \notin registered BY <3>1
    <3>8. \A q \in Requests : at'[q] \in {"admitted", "working", "answered"} =>
             req'[q].server \in Starts /\ (q # r => at'[q] = at[q])
      BY <3>2, <3>3, <3>4
    <3>9. \A q \in Requests : at'[q] = "working" => req'[q].session \in Sessions /\ home'[req'[q].session] # 0
      BY <3>2, <3>3, <3>5
    <3>10. \A q \in registered' : home'[q] # 0 BY <3>5, <3>6
    <3>. QED BY <3>2, <3>3, <3>5, <3>6, <3>8, <3>9, <3>10
  <2>2. CASE LaunchEnds(r)
    BY <2>2, Answering DEF LaunchEnds
  <2>3. CASE Misses(r) BY <2>3, Answering DEF Misses
  <2>4. CASE ActionBegins(r) BY <2>4, Working DEF ActionBegins
  <2>5. CASE ActionEnds(r) BY <2>5, Answering DEF ActionEnds
  <2>6. CASE Asks(r)
    <3>1. (Answer(r, 500) \/ Answer(r, 200)) /\ at[r] = "admitted" BY <2>6 DEF Asks
    <3>2. UNCHANGED <<service, sessionVars>> BY <2>6 DEF Asks
    <3>. QED BY <3>1, <3>2, Answering
  <2>7. CASE CloseBegins(r) BY <2>7, Working DEF CloseBegins
  <2>8. CASE CloseEnds(r) BY <2>8, Answering DEF CloseEnds
  <2>9. CASE Human(r)
    <3>1. (Answer(r, 500) \/ Answer(r, 200)) /\ at[r] = "admitted" BY <2>9, HumanServed DEF Human
    <3>2. UNCHANGED <<service, sessionVars>> BY <2>9, HumanServed
    <3>. QED BY <3>1, <3>2, Answering
  <2>10. CASE Identity(r)
    <3>1. (Answer(r, 500) \/ Answer(r, 200)) /\ at[r] = "admitted" BY <2>10 DEF Identity
    <3>2. UNCHANGED <<service, sessionVars>> BY <2>10 DEF Identity
    <3>. QED BY <3>1, <3>2, Answering
  <2>11. CASE Reads(r) BY <2>11, Answering DEF Reads
  <2>12. CASE Trace(r) BY <2>12, Ending DEF Trace
  <2>. QED BY <1>4, <2>1, <2>2, <2>3, <2>4, <2>5, <2>6, <2>7, <2>8, <2>9, <2>10, <2>11, <2>12
           DEF Handler
<1>5. ASSUME NEW s \in Streams, Stream(s) PROVE ServiceOK'
  BY <1>5 DEF Stream, service, requests, sessionVars
<1>6. CASE UNCHANGED vars
  BY <1>6 DEF vars, service, requests, sessionVars
<1>. QED BY <1>1, <1>2, <1>3, <1>4, <1>5, <1>6 DEF Next

LEMMA ServiceHolds == Spec => []ServiceOK
BY ServiceInit, ServiceStep, PTL DEF Spec

-----------------------------------------------------------------------------
\* What a handler does to the requests: it fills in an answer that is no 401,
\* goes to work, or is done; the files are not its business.
LEMMA HandlerServes ==
    ASSUME ServiceOK, NEW r \in Requests, Handler(r)
    PROVE  /\ UNCHANGED service
           /\ at'[r] \in {"answered", "working", "done"}
           /\ at'[r] = "answered" => req'[r].status # 401
           /\ \A q \in Requests \ {r} : req'[q] = req[q] /\ at'[q] = at[q]
<1> USE DEF ErrorStatus
<1>1. CASE LaunchBegins(r)
  <2>1. PICK s \in Sessions : req' = [req EXCEPT ![r].session = s] BY <1>1 DEF LaunchBegins
  <2>. QED BY <1>1, <2>1 DEF LaunchBegins, ServiceOK
<1>2. ASSUME LaunchEnds(r) \/ Misses(r) \/ ActionEnds(r) \/ Asks(r) \/ CloseEnds(r)
                \/ Human(r) \/ Identity(r) \/ Reads(r)
      PROVE  UNCHANGED service /\ (Answer(r, 200) \/ Answer(r, 500))
  <2>1. CASE LaunchEnds(r) BY <2>1 DEF LaunchEnds
  <2>2. CASE Misses(r) BY <2>2 DEF Misses
  <2>3. CASE ActionEnds(r) BY <2>3 DEF ActionEnds
  <2>4. CASE Asks(r) BY <2>4 DEF Asks
  <2>5. CASE CloseEnds(r) BY <2>5 DEF CloseEnds
  <2>6. CASE Human(r) BY <2>6, HumanServed
  <2>7. CASE Identity(r) BY <2>7 DEF Identity
  <2>8. CASE Reads(r) BY <2>8 DEF Reads
  <2>. QED BY <1>2, <2>1, <2>2, <2>3, <2>4, <2>5, <2>6, <2>7, <2>8
<1>3. ASSUME Answer(r, 200) \/ Answer(r, 500), UNCHANGED service
      PROVE  /\ at'[r] = "answered" /\ req'[r].status # 401
             /\ \A q \in Requests \ {r} : req'[q] = req[q] /\ at'[q] = at[q]
  BY <1>3, Answering
<1>4. CASE ActionBegins(r) \/ CloseBegins(r)
  <2>1. Works(r) /\ UNCHANGED service BY <1>4 DEF ActionBegins, CloseBegins
  <2>. QED BY <2>1, Working
<1>5. CASE Trace(r)
  <2>1. Ends(r) /\ UNCHANGED service BY <1>5 DEF Trace
  <2>. QED BY <2>1, Ending
<1>. QED BY <1>1, <1>2, <1>3, <1>4, <1>5 DEF Handler

LEMMA FilesInit == Init => FilesInOrder
<1> SUFFICES ASSUME Init PROVE FilesInOrder
    OBVIOUS
<1>1. \A n \in Starts : n > start /\ phase[n] = "none" BY DEF Init, Starts
<1>. QED BY <1>1 DEF Init, FilesInOrder, InOrder, Listening

\* What a request has read and met stands when no process goes on.
LEMMA SameOrder ==
    ASSUME NEW r \in Requests, InOrder(r), UNCHANGED <<start, phase>>, at'[r] = at[r], req'[r] = req[r]
    PROVE  InOrder(r)'
BY DEF InOrder, Published

\* Processes only go on: who has published its address has, or has ended.
LEMMA PhasesStep ==
    ASSUME ServiceOK, FilesInOrder, Startup \/ \E n \in Starts : Stops(n)
    PROVE  /\ \A n : Published(n) => Published(n)'
           /\ \A n \in Starts : phase[n] = "ended" => phase'[n] = "ended"
           /\ tokenFile' = start'
           /\ endpoint' # 0 => Published(endpoint)'
           /\ \A n \in Starts : n > start' <=> phase'[n] = "none"
           /\ \A n, m \in Starts : Listening(n)' /\ Listening(m)' /\ port'[n] = port'[m] => n = m
<1> USE DEF FilesInOrder, Starts
<1>0. start \in Nat /\ phase \in [Starts -> Phases] /\ MaxStarts \in Nat
  BY TransportAssumption DEF ServiceOK
<1>1. CASE WriteToken
  <2>1. /\ start' = start + 1 /\ tokenFile' = start + 1 /\ UNCHANGED <<port, endpoint>>
        /\ start + 1 \in Starts /\ phase' = [phase EXCEPT ![start + 1] = "token"]
    BY <1>0, <1>1 DEF WriteToken
  <2>2. phase[start + 1] = "none" BY <1>0, <2>1
  <2>3. \A n \in Starts : phase'[n] = IF n = start + 1 THEN "token" ELSE phase[n] BY <1>0, <2>1
  <2>4. \A n : Published(n) => n # start + 1 /\ Published(n)'
    BY <1>0, <2>1, <2>2, <2>3 DEF Published
  <2>5. \A n \in Starts : n > start' <=> phase'[n] = "none" BY <1>0, <2>1, <2>3
  <2>6. \A n \in Starts : Listening(n)' => Listening(n) BY <2>3 DEF Listening
  <2>7. \A n \in Starts : phase[n] = "ended" => phase'[n] = "ended" BY <1>0, <2>1, <2>2
  <2>. QED BY <2>1, <2>4, <2>5, <2>6, <2>7
<1>2. ASSUME NEW n \in Starts, phase[n] \notin {"none", "ended"}, NEW p \in {"listening", "up", "ended"},
             phase' = [phase EXCEPT ![n] = p], phase[n] = "up" => p = "ended", UNCHANGED <<start, port, tokenFile>>,
             endpoint' = endpoint \/ (endpoint' = n /\ p = "up"),
             p \in {"listening", "up"} => Listening(n) \/ ~PortTaken(n)
      PROVE  /\ \A m : Published(m) => Published(m)'
             /\ \A m \in Starts : phase[m] = "ended" => phase'[m] = "ended"
             /\ tokenFile' = start'
             /\ endpoint' # 0 => Published(endpoint)'
             /\ \A m \in Starts : m > start' <=> phase'[m] = "none"
             /\ \A m, q \in Starts : Listening(m)' /\ Listening(q)' /\ port'[m] = port'[q] => m = q
  <2>1. \A m \in Starts : phase'[m] = IF m = n THEN p ELSE phase[m] BY <1>0, <1>2
  <2>2. \A m : Published(m) => Published(m)' BY <1>2, <2>1 DEF Published
  <2>3. n <= start BY <1>0, <1>2
  <2>4. endpoint' # 0 => Published(endpoint)'
    <3>1. CASE endpoint' = endpoint
      <4>1. ASSUME endpoint # 0 PROVE Published(endpoint)' BY <2>2, <3>1, <4>1 DEF Published
      <4>. QED BY <3>1, <4>1
    <3>2. CASE endpoint' = n /\ p = "up" BY <1>2, <2>1, <2>3, <3>2 DEF Published
    <3>. QED BY <1>2, <3>1, <3>2
  <2>5. \A m \in Starts : m > start' <=> phase'[m] = "none" BY <1>2, <2>1
  <2>6. ASSUME NEW m \in Starts, NEW q \in Starts, Listening(m)', Listening(q)', port'[m] = port'[q]
        PROVE  m = q
    <3>1. /\ Listening(m) \/ (m = n /\ p \in {"listening", "up"})
          /\ Listening(q) \/ (q = n /\ p \in {"listening", "up"})
          /\ port[m] = port[q]
      BY <1>2, <2>1, <2>6 DEF Listening
    <3>. QED BY <1>2, <3>1 DEF PortTaken
  <2>7. \A m \in Starts : phase[m] = "ended" => phase'[m] = "ended" BY <1>0, <1>2
  <2>. QED BY <1>2, <2>2, <2>4, <2>5, <2>6, <2>7
<1>3. ASSUME NEW n \in Starts, Listen(n) \/ ListenFails(n) \/ WriteEndpoint(n) \/ Stops(n)
      PROVE  \E p \in {"listening", "up", "ended"} :
                /\ phase[n] \notin {"none", "ended"}
                /\ phase' = [phase EXCEPT ![n] = p]
                /\ phase[n] = "up" => p = "ended"
                /\ UNCHANGED <<start, port, tokenFile>>
                /\ endpoint' = endpoint \/ (endpoint' = n /\ p = "up")
                /\ p \in {"listening", "up"} => Listening(n) \/ ~PortTaken(n)
  <2>1. CASE Listen(n) BY <2>1 DEF Listen
  <2>2. CASE ListenFails(n) BY <2>2 DEF ListenFails
  <2>3. CASE WriteEndpoint(n) BY <2>3 DEF WriteEndpoint, Listening
  <2>4. CASE Stops(n) BY <2>4 DEF Stops
  <2>. QED BY <1>3, <2>1, <2>2, <2>3, <2>4
<1>. QED BY <1>1, <1>2, <1>3 DEF Startup

LEMMA FilesStep == ServiceOK /\ FilesInOrder /\ [Next]_vars => FilesInOrder'
<1> SUFFICES ASSUME ServiceOK, FilesInOrder, [Next]_vars PROVE FilesInOrder'
    OBVIOUS
<1>0. \A r \in Requests : req[r].endpoint \in Nat /\ req[r].token \in Nat
  BY DEF ServiceOK, RequestRecords
<1>1. ASSUME Startup \/ \E n \in Starts : Stops(n),
             \A r \in Requests : at'[r] # "done" => at'[r] = at[r] /\ req'[r] = req[r]
      PROVE  FilesInOrder'
  <2>1. /\ \A n : Published(n) => Published(n)'
        /\ \A n \in Starts : phase[n] = "ended" => phase'[n] = "ended"
        /\ tokenFile' = start'
        /\ endpoint' # 0 => Published(endpoint)'
        /\ \A n \in Starts : n > start' <=> phase'[n] = "none"
        /\ \A n, m \in Starts : Listening(n)' /\ Listening(m)' /\ port'[n] = port'[m] => n = m
    BY <1>1, PhasesStep
  <2>2. ASSUME NEW r \in Requests PROVE InOrder(r)'
    <3>1. CASE at'[r] = "done" BY <3>1 DEF InOrder
    <3>2. CASE at'[r] # "done"
      <4>1. at'[r] = at[r] /\ req'[r] = req[r] /\ InOrder(r) BY <1>1, <3>2 DEF FilesInOrder
      <4>2. \A e : Published(e) => e \in Starts /\ e <= start' /\ phase'[e] \in {"up", "ended"}
        BY <2>1 DEF Published
      <4>. QED BY <2>1, <4>1, <4>2 DEF InOrder, Published
    <3>. QED BY <3>1, <3>2
  <2>. QED BY <2>1, <2>2 DEF FilesInOrder
<1>2. CASE Startup BY <1>1, <1>2 DEF Startup, requests
<1>3. ASSUME NEW n \in Starts, Stops(n) PROVE FilesInOrder'
  BY <1>1, <1>3 DEF Stops
(* Otherwise the processes stand, and at most one request goes on. *)
<1>4. ASSUME UNCHANGED service, \A r \in Requests : InOrder(r)' PROVE FilesInOrder'
  BY <1>4 DEF FilesInOrder, service, Published, Listening
<1>5. ASSUME NEW r \in Requests, UNCHANGED service, InOrder(r)',
             \A q \in Requests \ {r} : req'[q] = req[q] /\ at'[q] = at[q]
      PROVE  FilesInOrder'
  <2>1. \A q \in Requests : InOrder(q)' BY <1>5, SameOrder DEF service, FilesInOrder
  <2>. QED BY <1>4, <1>5, <2>1
<1>6. ASSUME NEW r \in Requests, Client(r) PROVE FilesInOrder'
  <2>1. UNCHANGED service
    BY <1>6 DEF Client, ReadEndpoint, ReadToken, Send, Refused
  <2>2. CASE ReadEndpoint(r)
    <3>1. /\ at'[r] = "found" /\ req'[r].endpoint = endpoint
          /\ \A q \in Requests \ {r} : req'[q] = req[q] /\ at'[q] = at[q]
      BY <2>2 DEF ReadEndpoint, ServiceOK, RequestRecords
    <3>2. Published(endpoint) BY <2>2 DEF ReadEndpoint, FilesInOrder
    <3>3. InOrder(r)' BY <2>1, <3>1, <3>2 DEF InOrder, Published, service
    <3>. QED BY <1>5, <2>1, <3>1, <3>3
  <2>3. CASE ReadToken(r)
    <3>1. /\ at[r] = "found" /\ at'[r] = "ready"
          /\ req'[r].endpoint = req[r].endpoint /\ req'[r].token = tokenFile
          /\ \A q \in Requests \ {r} : req'[q] = req[q] /\ at'[q] = at[q]
      BY <2>3 DEF ReadToken, ServiceOK, RequestRecords
    <3>2. Published(req[r].endpoint) /\ tokenFile = start BY <3>1 DEF FilesInOrder, InOrder
    <3>3. InOrder(r)' BY <2>1, <3>1, <3>2 DEF InOrder, Published, service
    <3>. QED BY <1>5, <2>1, <3>1, <3>3
  <2>4. ASSUME NEW n \in Starts, Send(r, n) PROVE FilesInOrder'
    <3> DEFINE e == req[r].endpoint
    <3>1. at[r] = "ready" /\ Listening(n) /\ port[n] = port[e] BY <2>4 DEF Send, Reaches
    <3>2. Published(e) /\ e <= req[r].token BY <3>1 DEF FilesInOrder, InOrder
    <3>3. /\ at'[r] \in {"admitted", "answered"}
          /\ req'[r].status = 401 => req[r].token # n
          /\ req'[r].endpoint = e /\ req'[r].token = req[r].token /\ req'[r].server = n
          /\ \A q \in Requests \ {r} : req'[q] = req[q] /\ at'[q] = at[q]
      BY <2>4, Sending
    <3>4. n = e /\ req[r].token # n => e < req[r].token BY <1>0, <3>2
    <3>5. n # e => phase[e] = "ended" BY <3>1, <3>2 DEF FilesInOrder, Published, Listening
    <3>6. e \in Starts BY <3>2 DEF Published
    <3> HIDE DEF e
    <3>7. InOrder(r)' BY <2>1, <3>3, <3>4, <3>5, <3>6 DEF InOrder, service
    <3>. QED BY <1>5, <2>1, <3>3, <3>7
  <2>5. CASE Refused(r)
    <3>1. at'[r] = "done" /\ \A q \in Requests \ {r} : req'[q] = req[q] /\ at'[q] = at[q]
      BY <2>5, Ending DEF Refused
    <3>. QED BY <1>5, <2>1, <3>1 DEF InOrder
  <2>. QED BY <1>6, <2>2, <2>3, <2>4, <2>5 DEF Client
<1>7. ASSUME NEW r \in Requests, Handler(r) PROVE FilesInOrder'
  <2>1. /\ UNCHANGED service
        /\ at'[r] \in {"answered", "working", "done"}
        /\ at'[r] = "answered" => req'[r].status # 401
        /\ \A q \in Requests \ {r} : req'[q] = req[q] /\ at'[q] = at[q]
    BY <1>7, HandlerServes
  <2>. QED BY <1>5, <2>1 DEF InOrder
<1>8. ASSUME UNCHANGED service, UNCHANGED requests PROVE FilesInOrder'
  <2>1. \A q \in Requests : InOrder(q)' BY <1>8, SameOrder DEF service, requests, FilesInOrder
  <2>. QED BY <1>4, <1>8, <2>1
<1>9. ASSUME NEW s \in Streams, Stream(s) PROVE FilesInOrder'
  BY <1>8, <1>9 DEF Stream
<1>10. CASE UNCHANGED vars BY <1>8, <1>10 DEF vars
<1>. QED BY <1>2, <1>3, <1>6, <1>7, <1>9, <1>10 DEF Next

\* A client that reads the endpoint and then the token is turned away by the
\* process it found only if a later start had replaced the token, and else by
\* another process on the port of one that has ended (http.ts:19-78).
THEOREM TurnedAwayOnlyByLater == Spec => []TurnedAwayByLaterStart
<1>1. ServiceOK /\ FilesInOrder /\ [Next]_vars => FilesInOrder' BY FilesStep
<1>2. FilesInOrder => TurnedAwayByLaterStart
  BY DEF FilesInOrder, InOrder, TurnedAwayByLaterStart, Listening
<1>. QED BY <1>1, <1>2, FilesInit, ServiceHolds, PTL DEF Spec

-----------------------------------------------------------------------------
\* Whatever is logged of a session is logged of one that was launched.
LEMMA LoggedSessions ==
    ASSUME ServiceOK, NEW r \in Requests, Handler(r)
    PROVE  /\ \A s \in Sessions : home[s] # 0 => home'[s] # 0
           /\ \/ logFiles' = logFiles
              \/ \E n, session, life : Log(n, life, session) /\ (session \in Sessions => home'[session] # 0)
<1> USE DEF ServiceOK, quietVars, Quiet, Tells, Registered, sessionVars
<1>0. 0 \notin Sessions BY TransportAssumption
<1>1. CASE LaunchBegins(r)
  <2>1. PICK s \in Sessions : /\ home' = [home EXCEPT ![s] = req[r].server]
                             /\ Log(req[r].server, TRUE, s)
    BY <1>1 DEF LaunchBegins
  <2>2. req[r].server \in Starts /\ req[r].server # 0 BY <1>1 DEF LaunchBegins, Starts
  <2>. QED BY <2>1, <2>2
<1>2. CASE LaunchEnds(r) BY <1>2 DEF LaunchEnds
<1>3. CASE Misses(r) \/ ActionBegins(r) \/ ActionEnds(r) \/ Reads(r)
  BY <1>3 DEF Misses, ActionBegins, ActionEnds, Reads
<1>4. CASE Asks(r) BY <1>4 DEF Asks
<1>5. CASE CloseBegins(r) BY <1>5 DEF CloseBegins
<1>6. CASE CloseEnds(r) BY <1>6 DEF CloseEnds
<1>7. CASE Human(r) BY <1>7 DEF Human
<1>8. CASE Identity(r) BY <1>0, <1>8 DEF Identity
<1>9. CASE Trace(r)
  <2>1. home' = home BY <1>9 DEF Trace
  <2>2. CASE req[r].session \in Registered(r) /\ Log(req[r].server, FALSE, req[r].session)
    BY <2>1, <2>2
  <2>3. CASE Quiet BY <2>1, <2>3
  <2>. QED BY <1>9, <2>2, <2>3 DEF Trace
<1>. QED BY <1>1, <1>2, <1>3, <1>4, <1>5, <1>6, <1>7, <1>8, <1>9 DEF Handler

\* Neither a request for a session that never was nor an event of an identity
\* makes a log file (routes.ts:318-321, logger.ts:63).
THEOREM LogFilesOfSessions == Spec => []LogFilesAreOfSessions
<1> DEFINE Told == logFiles \subseteq Sessions /\ \A s \in logFiles : home[s] # 0
<1>1. Init => Told BY DEF Init
<1>2. ASSUME ServiceOK, Told, [Next]_vars PROVE Told'
  <2>1. ASSUME NEW r \in Requests, Handler(r) PROVE Told'
    <3>1. \A s \in Sessions : home[s] # 0 => home'[s] # 0 BY <1>2, <2>1, LoggedSessions
    <3>2. CASE logFiles' = logFiles BY <1>2, <3>1, <3>2
    <3>3. ASSUME NEW n, NEW session, NEW life, Log(n, life, session), session \in Sessions => home'[session] # 0
          PROVE Told'
      BY <1>2, <3>1, <3>3 DEF Log
    <3>. QED BY <1>2, <2>1, <3>2, <3>3, LoggedSessions
  <2>2. ASSUME NEW r \in Requests, Client(r) PROVE Told'
    BY <1>2, <2>2 DEF Client, ReadEndpoint, ReadToken, Send, Refused, quietVars, sessionVars
  <2>3. CASE Startup BY <1>2, <2>3 DEF Startup, sessionVars
  <2>4. ASSUME NEW n \in Starts, Stops(n) PROVE Told' BY <1>2, <2>4 DEF Stops
  <2>5. ASSUME NEW s \in Streams, Stream(s) PROVE Told'
    BY <1>2, <2>5 DEF Stream, sessionVars
  <2>6. CASE UNCHANGED vars BY <1>2, <2>6 DEF vars, sessionVars
  <2>. QED BY <1>2, <2>1, <2>2, <2>3, <2>4, <2>5, <2>6 DEF Next
<1>3. Told => LogFilesAreOfSessions BY DEF LogFilesAreOfSessions
<1>. QED BY <1>1, <1>2, <1>3, ServiceHolds, PTL DEF Spec

-----------------------------------------------------------------------------
LEMMA StreamsInit == Init => StreamsOK /\ \A s \in Streams : StreamInv(s)
BY DEF Init, StreamsOK, Generators, StreamInv, Live

LEMMA SameSequence ==
    ASSUME NEW a \in Seq(Nat), NEW b \in Seq(Nat), Len(a) = Len(b), \A i \in 1..Len(a) : a[i] = b[i]
    PROVE  a = b
BY SMTT(30)

\* Taking an event in hand puts it at the window's end.
LEMMA TakenInHand ==
    ASSUME NEW p \in Seq(Nat), NEW q \in Seq(Nat), NEW n \in Nat
    PROVE  p \o Append(q, n) = Append(p \o q, n)
<1>1. p \o Append(q, n) \in Seq(Nat) /\ Append(p \o q, n) \in Seq(Nat) OBVIOUS
<1>2. Len(p \o Append(q, n)) = Len(Append(p \o q, n)) OBVIOUS
<1>3. ASSUME NEW i \in 1..Len(p \o Append(q, n)) PROVE (p \o Append(q, n))[i] = Append(p \o q, n)[i]
  <2>0. i \in Nat /\ Len(p) \in Nat /\ Len(q) \in Nat /\ Len(p \o q) = Len(p) + Len(q) BY <1>1
  <2>1. CASE i <= Len(p) BY <2>1
  <2>2. CASE i \in Len(p) + 1 .. Len(p) + Len(q)
    <3>1. (p \o Append(q, n))[i] = Append(q, n)[i - Len(p)] BY <2>0, <2>2
    <3>2. i - Len(p) \in 1..Len(q) BY <2>0, <2>2
    <3>3. Append(q, n)[i - Len(p)] = q[i - Len(p)] BY <3>2
    <3>4. (p \o q)[i] = q[i - Len(p)] BY <2>0, <2>2
    <3>5. Append(p \o q, n)[i] = (p \o q)[i] BY <2>0, <2>2
    <3>. QED BY <3>1, <3>3, <3>4, <3>5
  <2>3. CASE i = Len(p) + Len(q) + 1
    <3>1. (p \o Append(q, n))[i] = Append(q, n)[Len(q) + 1] BY <2>0, <2>3
    <3>2. Append(q, n)[Len(q) + 1] = n OBVIOUS
    <3>3. Append(p \o q, n)[i] = n BY <2>0, <2>3
    <3>. QED BY <3>1, <3>2, <3>3
  <2>. QED BY <2>0, <2>1, <2>2, <2>3
<1>. QED BY <1>1, <1>2, <1>3, SameSequence

\* Handing the first event over moves it within the window.
LEMMA HandedOver ==
    ASSUME NEW p \in Seq(Nat), NEW q \in Seq(Nat), q # <<>>
    PROVE  Append(p, Head(q)) \o Tail(q) = p \o q
<1>1. Append(p, Head(q)) \o Tail(q) \in Seq(Nat) /\ p \o q \in Seq(Nat) OBVIOUS
<1>2. Len(Append(p, Head(q)) \o Tail(q)) = Len(p \o q) OBVIOUS
<1>3. ASSUME NEW i \in 1..Len(p \o q) PROVE (Append(p, Head(q)) \o Tail(q))[i] = (p \o q)[i]
  <2>1. CASE i <= Len(p) BY <2>1
  <2>2. CASE i = Len(p) + 1 BY <2>2
  <2>3. CASE i > Len(p) + 1 BY <2>3
  <2>. QED BY <2>1, <2>2, <2>3
<1>. QED BY <1>1, <1>2, <1>3, SameSequence

\* The window after an event of the bus: the event is its last element, if the
\* stream is told of it.
LEMMA WindowGrows ==
    ASSUME StreamsOK, NEW s \in Streams, NEW life \in BOOLEAN, WindowOf(s), from[s] <= Len(Bus(s)),
           host[s] \in Starts, Bus(s)' = Append(Bus(s), life), sent'[s] = sent[s], from'[s] = from[s],
           queue'[s] = IF life THEN Append(queue[s], Len(Bus(s)) + 1) ELSE queue[s]
    PROVE  WindowOf(s)'
<1> DEFINE e == Bus(s)
           n == Len(e) + 1
           w == Window(s)
<1>1. /\ e \in Seq(BOOLEAN) /\ sent[s] \in Seq(Nat) /\ queue[s] \in Seq(Nat)
      /\ w \in Seq(Nat) /\ n \in Nat
  BY DEF StreamsOK, Window, Bus
<1>2. Window(s)' = sent'[s] \o queue'[s] BY DEF Window
<1>3. Lifecycle(s)' = Lifecycle(s) \cup IF life THEN {n} ELSE {}
  <2>1. DOMAIN Append(e, life) = DOMAIN e \cup {n} /\ n \notin DOMAIN e BY <1>1
  <2>2. Append(e, life)[n] = life /\ \A i \in DOMAIN e : Append(e, life)[i] = e[i] BY <1>1
  <2>3. n > from[s] BY <1>1 DEF StreamsOK
  <2>. QED BY <2>1, <2>2, <2>3 DEF Lifecycle
<1>4. CASE ~life
  <2>1. Window(s)' = w BY <1>2, <1>4 DEF Window
  <2>2. Lifecycle(s)' = Lifecycle(s) BY <1>3, <1>4
  <2>. QED BY <2>1, <2>2 DEF WindowOf
<1>5. CASE life
  <2>1. Window(s)' = sent[s] \o Append(queue[s], n) BY <1>2, <1>5
  <2>2. sent[s] \o Append(queue[s], n) = Append(w, n) BY <1>1, TakenInHand DEF Window
  <2>3. Window(s)' = Append(w, n) BY <2>1, <2>2
  <2>4. \A i \in DOMAIN w : w[i] < n
    <3>1. \A i \in DOMAIN w : w[i] \in Lifecycle(s) BY DEF WindowOf
    <3>2. \A i \in Lifecycle(s) : i < n BY <1>1 DEF Lifecycle
    <3>. QED BY <3>1, <3>2
  <2> HIDE DEF w, n, e
  <2>5. /\ DOMAIN Append(w, n) = DOMAIN w \cup {Len(w) + 1}
        /\ Append(w, n)[Len(w) + 1] = n
        /\ \A i \in DOMAIN w : Append(w, n)[i] = w[i] /\ i < Len(w) + 1 /\ i \in Nat
        /\ Len(w) \in Nat
    BY <1>1
  <2>6. /\ \A i, j \in DOMAIN w : i < j => w[i] < w[j]
        /\ {w[i] : i \in DOMAIN w} = Lifecycle(s)
    BY DEF WindowOf, w
  <2>7. \A i, j \in DOMAIN Append(w, n) : i < j => Append(w, n)[i] < Append(w, n)[j]
    BY <2>4, <2>5, <2>6
  <2>8. {Append(w, n)[i] : i \in DOMAIN Append(w, n)} = Lifecycle(s) \cup {n}
    BY <2>5, <2>6
  <2>9. Lifecycle(s)' = Lifecycle(s) \cup {n} BY <1>3, <1>5 DEF n
  <2>. QED BY <2>3, <2>7, <2>8, <2>9 DEF WindowOf
<1>. QED BY <1>4, <1>5


LEMMA SameWindow ==
    ASSUME NEW s \in Streams, Window(s)' = Window(s), Bus(s)' = Bus(s), from'[s] = from[s], WindowOf(s)
    PROVE  WindowOf(s)'
BY DEF WindowOf, Lifecycle

\* What a handler and the trace do to the streams: nothing, or they publish.
LEMMA HandlerPublishes ==
    ASSUME ServiceOK, NEW r \in Requests, Handler(r)
    PROVE  UNCHANGED <<emitted, streamVars>> \/ \E n \in Starts, life \in BOOLEAN : Publish(n, life)
<1> USE DEF quietVars, Quiet, Log, Tells, streamVars
<1>0. at[r] \in {"admitted", "working", "answered"} => req[r].server \in Starts BY DEF ServiceOK
<1>1. CASE LaunchBegins(r) BY <1>0, <1>1 DEF LaunchBegins
<1>2. CASE LaunchEnds(r) BY <1>0, <1>2 DEF LaunchEnds
<1>3. CASE Misses(r) \/ ActionBegins(r) \/ ActionEnds(r) \/ Reads(r)
  BY <1>3 DEF Misses, ActionBegins, ActionEnds, Reads
<1>4. CASE Asks(r) BY <1>0, <1>4 DEF Asks
<1>5. CASE CloseBegins(r) BY <1>0, <1>5 DEF CloseBegins
<1>6. CASE CloseEnds(r) BY <1>0, <1>6 DEF CloseEnds
<1>7. CASE Human(r) BY <1>0, <1>7 DEF Human
<1>8. CASE Identity(r) BY <1>0, <1>8 DEF Identity
<1>9. CASE Trace(r) BY <1>0, <1>9 DEF Trace
<1>. QED BY <1>1, <1>2, <1>3, <1>4, <1>5, <1>6, <1>7, <1>8, <1>9 DEF Handler

AllStreams == StreamsOK /\ \A s \in Streams : StreamInv(s)

LEMMA PublishStep ==
    ASSUME AllStreams, NEW n \in Starts, NEW life \in BOOLEAN, Publish(n, life)
    PROVE  AllStreams'
<1>1. StreamsOK'
  <2>1. /\ emitted' = [emitted EXCEPT ![n] = Append(@, life)]
        /\ queue' = [s \in Streams |-> IF life /\ host[s] = n /\ Live(s)
                                       THEN Append(queue[s], Len(emitted[n]) + 1) ELSE queue[s]]
        /\ gen' = [s \in Streams |-> IF life /\ host[s] = n /\ gen[s] = "parked" THEN "woken" ELSE gen[s]]
        /\ UNCHANGED <<host, sent, from, aborted>>
    BY DEF Publish
  <2>2. emitted[n] \in Seq(BOOLEAN) BY DEF AllStreams, StreamsOK
  <2>3. Append(emitted[n], life) \in Seq(BOOLEAN) /\ Len(emitted[n]) + 1 \in Nat BY <2>2
  <2>4. emitted' \in [Starts -> Seq(BOOLEAN)] BY <2>1, <2>3 DEF AllStreams, StreamsOK
  <2>5. \A s \in Streams : Append(queue[s], Len(emitted[n]) + 1) \in Seq(Nat) /\ queue[s] \in Seq(Nat)
    BY <2>3 DEF AllStreams, StreamsOK
  <2>6. queue' \in [Streams -> Seq(Nat)] BY <2>1, <2>5
  <2>7. gen' \in [Streams -> Generators] BY <2>1 DEF AllStreams, StreamsOK, Generators
  <2>. QED BY <2>1, <2>4, <2>6, <2>7 DEF AllStreams, StreamsOK
<1>2. ASSUME NEW s \in Streams PROVE StreamInv(s)'
  <2>1. /\ sent'[s] = sent[s] /\ from'[s] = from[s] /\ aborted'[s] = aborted[s] /\ host'[s] = host[s]
        /\ queue'[s] = IF life /\ host[s] = n /\ Live(s) THEN Append(queue[s], Len(emitted[n]) + 1) ELSE queue[s]
        /\ gen'[s] = IF life /\ host[s] = n /\ gen[s] = "parked" THEN "woken" ELSE gen[s]
        /\ emitted' = [emitted EXCEPT ![n] = Append(@, life)]
    BY DEF Publish
  <2>2. StreamInv(s) /\ StreamsOK BY DEF AllStreams
  <2>3. Live(s)' = Live(s) BY <2>1 DEF Live
  <2>4. CASE host[s] = n
    <3>1. Bus(s)' = Append(Bus(s), life) /\ Bus(s) \in Seq(BOOLEAN)
      BY <2>1, <2>2, <2>4 DEF Bus, StreamsOK
    <3>2. Len(Bus(s)') = Len(Bus(s)) + 1 /\ from[s] \in Nat /\ Len(Bus(s)) \in Nat
      BY <2>2, <3>1 DEF StreamsOK
    <3>3. queue'[s] = IF life /\ Live(s) THEN Append(queue[s], Len(Bus(s)) + 1) ELSE queue[s]
      BY <2>1, <2>4 DEF Bus
    <3>4. Live(s) => WindowOf(s)'
      <4> HAVE Live(s)
      <4>1. WindowOf(s) /\ from[s] <= Len(Bus(s)) BY <2>2 DEF StreamInv, Live
      <4>. QED BY <2>1, <2>2, <2>4, <3>1, <3>3, <4>1, WindowGrows
    <3>. QED BY <2>1, <2>2, <2>3, <2>4, <3>2, <3>3, <3>4 DEF StreamInv, Live
  <2>5. CASE host[s] # n
    <3>1. Bus(s)' = Bus(s)
      BY <2>1, <2>2, <2>5 DEF Bus, StreamsOK
    <3>. QED BY <2>1, <2>2, <2>3, <2>5, <3>1, SameWindow DEF StreamInv, Live, Window
  <2>. QED BY <2>4, <2>5
<1>. QED BY <1>1, <1>2 DEF AllStreams

LEMMA StreamStep ==
    ASSUME AllStreams, NEW s \in Streams, Stream(s)
    PROVE  AllStreams'
<1> USE DEF AllStreams, Bus
<1>0. emitted' = emitted BY DEF Stream
<1>1. ASSUME NEW q \in Streams, q # s, StreamInv(q),
             UNCHANGED <<host[q], gen[q], queue[q], sent[q], from[q], aborted[q]>>
      PROVE  StreamInv(q)'
  BY <1>0, <1>1, SameWindow DEF StreamInv, Live, Window
<1>2. ASSUME NEW n \in Starts, Connect(s, n) PROVE AllStreams'
  <2>1. StreamsOK' BY <1>0, <1>2 DEF Connect, StreamsOK, Generators
  <2>2. /\ gen'[s] = "new" /\ host'[s] = n /\ queue'[s] = <<>> /\ sent'[s] = <<>> /\ from'[s] = 0
    BY <1>2 DEF Connect, StreamInv, StreamsOK
  <2>4. StreamInv(s)'
    BY <1>0, <2>2 DEF StreamInv, Live, StreamsOK
  <2>3. \A q \in Streams \ {s} : UNCHANGED <<host[q], gen[q], queue[q], sent[q], from[q], aborted[q]>>
    BY <1>2 DEF Connect, StreamsOK
  <2>. QED BY <2>1, <2>4, <2>3, <1>1
<1>3. CASE Begin(s)
  <2>1. StreamsOK' BY <1>0, <1>3 DEF Begin, StreamsOK, Generators
  <2>2. /\ gen'[s] = IF aborted[s] THEN "ended" ELSE "parked"
        /\ from'[s] = Len(Bus(s)) /\ host'[s] = host[s] /\ host[s] \in Starts /\ queue'[s] = <<>> /\ sent'[s] = <<>> /\ aborted'[s] = aborted[s]
    BY <1>3 DEF Begin, StreamsOK, StreamInv
  <2>3. WindowOf(s)'
    <3>1. Window(s)' = <<>> BY <2>2 DEF Window
    <3>2. Lifecycle(s)' = {} BY <2>2, <1>0 DEF Lifecycle, StreamsOK
    <3>. QED BY <3>1, <3>2 DEF WindowOf
  <2>4. StreamInv(s)' BY <1>0, <2>2, <2>3 DEF StreamInv, Live, StreamsOK
  <2>5. \A q \in Streams \ {s} : UNCHANGED <<host[q], gen[q], queue[q], sent[q], from[q], aborted[q]>>
    BY <1>3 DEF Begin, StreamsOK
  <2>. QED BY <2>1, <2>4, <2>5, <1>1
<1>4. ASSUME Continue(s), Live(s), UNCHANGED <<host, from, aborted>> PROVE AllStreams'
  <2>0. sent[s] \in Seq(Nat) /\ queue[s] \in Seq(Nat) /\ WindowOf(s) BY <1>4 DEF StreamsOK, StreamInv
  <2>1. CASE queue[s] # <<>>
    <3>1. /\ sent' = [sent EXCEPT ![s] = Append(sent[s], Head(queue[s]))]
          /\ queue' = [queue EXCEPT ![s] = Tail(queue[s])]
          /\ gen' = [gen EXCEPT ![s] = "yielded"]
      BY <1>4, <2>1 DEF Continue
    <3>2. Append(sent[s], Head(queue[s])) \in Seq(Nat) /\ Tail(queue[s]) \in Seq(Nat) BY <2>0, <2>1
    <3>3. StreamsOK' BY <1>0, <1>4, <3>1, <3>2 DEF StreamsOK, Generators
    <3>4. Window(s)' = Window(s)
      <4>1. sent'[s] = Append(sent[s], Head(queue[s])) /\ queue'[s] = Tail(queue[s])
        BY <3>1 DEF StreamsOK
      <4>. QED BY <4>1, <2>0, <2>1, HandedOver DEF Window
    <3>5. WindowOf(s)' BY <1>0, <1>4, <2>0, <3>4, SameWindow
    <3>6. StreamInv(s)' BY <1>0, <1>4, <3>1, <3>5 DEF StreamInv, Live, StreamsOK
    <3>7. \A q \in Streams \ {s} : UNCHANGED <<host[q], gen[q], queue[q], sent[q], from[q], aborted[q]>>
      BY <1>4, <3>1 DEF StreamsOK
    <3>. QED BY <3>3, <3>6, <3>7, <1>1
  <2>2. CASE queue[s] = <<>>
    <3>1. gen' = [gen EXCEPT ![s] = IF aborted[s] THEN "ended" ELSE "parked"] /\ UNCHANGED <<queue, sent>>
      BY <1>4, <2>2 DEF Continue
    <3>2. StreamsOK' BY <1>0, <1>4, <3>1 DEF StreamsOK, Generators
    <3>3. WindowOf(s)' BY <1>0, <1>4, <2>0, <3>1, SameWindow DEF Window
    <3>4. StreamInv(s)' BY <1>0, <1>4, <2>2, <3>1, <3>3 DEF StreamInv, Live, StreamsOK
    <3>5. \A q \in Streams \ {s} : UNCHANGED <<host[q], gen[q], queue[q], sent[q], from[q], aborted[q]>>
      BY <1>4, <3>1 DEF StreamsOK
    <3>. QED BY <3>2, <3>4, <3>5, <1>1
  <2>. QED BY <2>1, <2>2
<1>5. CASE Pull(s) BY <1>4, <1>5 DEF Pull, Live
<1>6. CASE Wake(s)
  <2>1. CASE aborted[s]
    <3>1. gen' = [gen EXCEPT ![s] = "ended"] /\ UNCHANGED <<host, queue, sent, from, aborted>>
      BY <1>6, <2>1 DEF Wake
    <3>2. StreamsOK' BY <1>0, <3>1 DEF StreamsOK, Generators
    <3>3. StreamInv(s)'
      <4>1. gen[s] = "woken" /\ gen'[s] = "ended" BY <1>6, <3>1 DEF Wake, StreamsOK
      <4>2. from'[s] = from[s] /\ host'[s] = host[s] BY <3>1
      <4>. QED BY <1>0, <4>1, <4>2 DEF StreamInv, Live
    <3>4. \A q \in Streams \ {s} : UNCHANGED <<host[q], gen[q], queue[q], sent[q], from[q], aborted[q]>>
      BY <3>1 DEF StreamsOK
    <3>. QED BY <3>2, <3>3, <3>4, <1>1
  <2>2. CASE ~aborted[s] BY <1>4, <1>6, <2>2 DEF Wake, Live
  <2>. QED BY <2>1, <2>2
<1>7. CASE Abort(s)
  <2>1. StreamsOK' BY <1>0, <1>7 DEF Abort, StreamsOK, Generators
  <2>2. /\ gen'[s] = IF gen[s] = "parked" THEN "woken" ELSE gen[s]
        /\ UNCHANGED <<host, queue, sent, from>>
    BY <1>7 DEF Abort, StreamsOK
  <2>3. Live(s) => WindowOf(s)'
    BY <1>0, <2>2, SameWindow DEF StreamInv, Window
  <2>4. StreamInv(s)' BY <1>0, <2>2, <2>3 DEF StreamInv, Live
  <2>5. \A q \in Streams \ {s} : UNCHANGED <<host[q], gen[q], queue[q], sent[q], from[q], aborted[q]>>
    BY <1>7 DEF Abort, StreamsOK
  <2>. QED BY <2>1, <2>4, <2>5, <1>1
<1>. QED BY <1>2, <1>3, <1>5, <1>6, <1>7 DEF Stream

LEMMA SameStreams ==
    ASSUME AllStreams, UNCHANGED <<emitted, streamVars>>
    PROVE  AllStreams'
<1>1. StreamsOK' BY DEF AllStreams, StreamsOK, streamVars
<1>2. ASSUME NEW s \in Streams PROVE StreamInv(s)'
  BY SameWindow DEF AllStreams, StreamInv, Live, Window, Bus, streamVars
<1>. QED BY <1>1, <1>2 DEF AllStreams

LEMMA StreamsStep == ServiceOK /\ AllStreams /\ [Next]_vars => AllStreams'
<1> SUFFICES ASSUME ServiceOK, AllStreams, [Next]_vars PROVE AllStreams'
    OBVIOUS
<1>1. CASE Startup BY <1>1, SameStreams DEF Startup
<1>2. ASSUME NEW n \in Starts, Stops(n) PROVE AllStreams'
  <2>1. StreamsOK' BY <1>2 DEF Stops, AllStreams, StreamsOK, Generators
  <2>2. ASSUME NEW s \in Streams PROVE StreamInv(s)'
    <3>1. CASE host[s] = n
      <4>1. /\ gen'[s] = "ended" /\ queue'[s] = <<>> /\ sent'[s] = <<>> /\ from'[s] = 0
            /\ host'[s] = n /\ emitted'[n] = <<>>
        BY <1>2, <3>1 DEF Stops, AllStreams, StreamsOK
      <4>. QED BY <4>1 DEF StreamInv, Live, Bus
    <3>2. CASE host[s] # n
      <4>1. UNCHANGED <<host[s], gen[s], queue[s], sent[s], from[s], aborted[s]>>
        BY <1>2, <3>2 DEF Stops
      <4>2. Bus(s)' = Bus(s) BY <1>2, <3>2, <4>1 DEF Stops, Bus, AllStreams, StreamsOK
      <4>. QED BY <4>1, <4>2, SameWindow DEF AllStreams, StreamInv, Live, Window
    <3>. QED BY <3>1, <3>2
  <2>. QED BY <2>1, <2>2 DEF AllStreams
<1>3. ASSUME NEW r \in Requests, Client(r) PROVE AllStreams'
  BY <1>3, SameStreams DEF Client, ReadEndpoint, ReadToken, Send, Refused, quietVars
<1>4. ASSUME NEW r \in Requests, Handler(r) PROVE AllStreams'
  BY <1>4, HandlerPublishes, PublishStep, SameStreams
<1>5. ASSUME NEW s \in Streams, Stream(s) PROVE AllStreams'
  BY <1>5, StreamStep
<1>6. CASE UNCHANGED vars BY <1>6, SameStreams DEF vars
<1>. QED BY <1>1, <1>2, <1>3, <1>4, <1>5, <1>6 DEF Next

\* Whatever is logged, pulled and hung up in between, a stream has handed over
\* and in hand exactly the lifecycle events since it subscribed, in their order,
\* and one that waits has none in hand (sse.ts:39-66).
THEOREM StreamsAreWindows == Spec => []StreamIsWindow
<1>1. Init => AllStreams BY StreamsInit DEF AllStreams
<1>2. AllStreams => StreamIsWindow
  BY DEF AllStreams, StreamInv, StreamIsWindow, WindowOf, Lifecycle, Bus
<1>. QED BY <1>1, <1>2, StreamsStep, ServiceHolds, PTL DEF Spec
=============================================================================
