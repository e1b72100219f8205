----------------------------- MODULE HubProofs ------------------------------
(***************************************************************************)
(* What HubConnector promises, for every set of hubs and of sockets and    *)
(* every bound: an open connection is its own live socket, no frame leaves *)
(* its connection, what is received is whole, and the stack is told the    *)
(* truth.                                                                  *)
(***************************************************************************)
EXTENDS HubConnector, SequenceTheorems, TLAPS

-----------------------------------------------------------------------------
(* The inductive invariant *)

\* A connection's socket is libwebsockets' live socket for that hub, so no two
\* connections share one; what has no socket is not open.
Attached ==
  \A u \in Uri :
    IF conn[u].socket = NoSocket THEN ~conn[u].open
    ELSE LET l == link[conn[u].socket] IN
         l.uri = u /\ (IF conn[u].open THEN l.state = "open" ELSE l.state = "connecting")

\* What is put together is the start of the message the socket is sending.
Assembling ==
  \A u \in Uri :
    /\ \A k \in DOMAIN conn[u].assembly : conn[u].assembly[k] = k
    /\ conn[u].socket # NoSocket =>
         IF conn[u].overflow THEN conn[u].assembly = <<>>
         ELSE Len(conn[u].assembly) = link[conn[u].socket].sent

\* The queue is emptied before the stack runs again: it can hold no Connected by
\* then, only what the reload and failed attempts have put there.
OnlyEndsWaitForTheStack ==
  /\ phase = "stack" => \A i \in DOMAIN events : events[i].status \in Terminal
  /\ phase = "reload" => events = <<>>

\* Nothing is open when there is no context.
NoContextNoConnection == ~context => \A u \in Uri : ~conn[u].open /\ conn[u].socket = NoSocket

-----------------------------------------------------------------------------
(* Types *)

LEMMA ConstantFacts ==
  /\ UriOrder[1] \in Uri /\ NoSocket \notin Socket
  /\ MaxQueued \in Nat /\ MaxFrame \in Nat /\ MaxFragments \in Nat /\ MaxReceived \in Nat
  /\ Len(UriOrder) \in Nat
PROOF
<1>1. 1 \in DOMAIN UriOrder /\ Len(UriOrder) \in Nat
  BY HubAssumption
<1> QED
  BY <1>1, HubAssumption DEF Uri

LEMMA GoneIsALink == Gone \in Link /\ Gone.state = "gone" /\ Gone.sent = 0
PROOF BY ConstantFacts DEF Gone, Link

LEMMA FreshIsAConnection ==
  ASSUME NEW u \in Uri, NEW s \in Socket \cup {NoSocket}
  PROVE  /\ Fresh(u, s) \in Connection
         /\ Len(Fresh(u, s).queue) = 0 /\ Len(Fresh(u, s).assembly) = 0
PROOF BY DEF Fresh, Connection

LEMMA InitTyped == Init => TypeOK
PROOF
<1> SUFFICES ASSUME Init PROVE TypeOK
  OBVIOUS
<1>1. conn \in [Uri -> Connection]
  BY DEF Init, Connection
<1>2. \A u \in Uri : Len(conn[u].queue) <= MaxQueued /\ Len(conn[u].assembly) <= MaxFrame
  BY ConstantFacts DEF Init
<1>3. link \in [Socket -> Link]
  BY GoneIsALink DEF Init
<1>4. told \in [Uri -> Status \cup {"None", "Connecting"}] /\ asked \subseteq Uri
  BY DEF Init
<1>5. phase \in {"stack", "lws", "report", "reload"} /\ context \in BOOLEAN /\ reload \in BOOLEAN
  BY DEF Init
<1>6. events \in Seq(Event) /\ received \in Seq(Frame)
  BY DEF Init
<1> QED
  BY <1>1, <1>2, <1>3, <1>4, <1>5, <1>6 DEF TypeOK

\* A connection as the handlers leave it.
Closing(c)       == [c EXCEPT !.closeRequested = TRUE]
Requeued(c, q)   == [c EXCEPT !.queue = q]
Opened(c)        == [c EXCEPT !.open = TRUE]
Cut(c)           == [c EXCEPT !.open = FALSE, !.socket = NoSocket, !.queue = <<>>]
Filled(c, a, b)  == [c EXCEPT !.assembly = a, !.overflow = b]

\* c and d agree on every field but those named.
Same(c, d, fields) ==
  /\ "open" \in fields \/ d.open = c.open
  /\ "socket" \in fields \/ d.socket = c.socket
  /\ "queue" \in fields \/ d.queue = c.queue
  /\ "assembly" \in fields \/ d.assembly = c.assembly
  /\ "overflow" \in fields \/ d.overflow = c.overflow

LEMMA ClosingFacts == \A c \in Connection : Closing(c) \in Connection /\ Same(c, Closing(c), {})
PROOF BY DEF Connection, Closing, Same

LEMMA RequeuedFacts ==
  \A c \in Connection : \A q \in Seq(Socket) :
    Requeued(c, q) \in Connection /\ Requeued(c, q).queue = q /\ Same(c, Requeued(c, q), {"queue"})
PROOF BY DEF Connection, Requeued, Same

LEMMA OpenedFacts ==
  \A c \in Connection : Opened(c) \in Connection /\ Opened(c).open /\ Same(c, Opened(c), {"open"})
PROOF BY DEF Connection, Opened, Same

LEMMA CutFacts ==
  \A c \in Connection :
    /\ Cut(c) \in Connection /\ ~Cut(c).open /\ Cut(c).socket = NoSocket /\ Cut(c).queue = <<>>
    /\ Same(c, Cut(c), {"open", "socket", "queue"})
PROOF
<1> TAKE c \in Connection
<1> DEFINE c1 == [c EXCEPT !.open = FALSE]
           c2 == [c1 EXCEPT !.socket = NoSocket]
           c3 == [c2 EXCEPT !.queue = <<>>]
<1>1. c1 \in Connection /\ ~c1.open /\ Same(c, c1, {"open"})
  BY DEF Connection, Same
<1> HIDE DEF c1
<1>2. c2 \in Connection /\ c2.socket = NoSocket /\ Same(c1, c2, {"socket"})
  BY <1>1 DEF Connection, Same
<1> HIDE DEF c2
<1>3. c3 \in Connection /\ c3.queue = <<>> /\ Same(c2, c3, {"queue"})
  <2>1. <<>> \in Seq(Socket)
    OBVIOUS
  <2>2. Requeued(c2, <<>>) = c3
    BY DEF Requeued
  <2> HIDE DEF c3
  <2> QED
    BY <1>2, <2>1, <2>2, RequeuedFacts
<1>4. Cut(c) = c3
  BY DEF Cut, c1, c2
<1> HIDE DEF c3
<1> QED
  BY <1>1, <1>2, <1>3, <1>4 DEF Same

LEMMA FilledFacts ==
  \A c \in Connection : \A a \in Seq(1 .. MaxFragments) : \A b \in BOOLEAN :
    /\ Filled(c, a, b) \in Connection /\ Filled(c, a, b).assembly = a /\ Filled(c, a, b).overflow = b
    /\ Same(c, Filled(c, a, b), {"assembly", "overflow"})
PROOF
<1> TAKE c \in Connection
<1> TAKE a \in Seq(1 .. MaxFragments)
<1> TAKE b \in BOOLEAN
<1> DEFINE c1 == [c EXCEPT !.assembly = a]
           c2 == [c1 EXCEPT !.overflow = b]
<1>1. c1 \in Connection /\ c1.assembly = a /\ Same(c, c1, {"assembly"})
  BY DEF Connection, Same
<1> HIDE DEF c1
<1>2. c2 \in Connection /\ c2.overflow = b /\ Same(c1, c2, {"overflow"})
  BY <1>1 DEF Connection, Same
<1>3. Filled(c, a, b) = c2
  BY DEF Filled, c1
<1> HIDE DEF c2
<1> QED
  BY <1>1, <1>2, <1>3 DEF Same

\* A link one field at a time.
LEMMA LinkUpdates ==
  /\ \A l \in Link : \A b \in BOOLEAN : [l EXCEPT !.wants = b] \in Link
  /\ \A l \in Link : \A n \in 0 .. MaxFragments : [l EXCEPT !.sent = n] \in Link
  /\ \A l \in Link : \A b \in BOOLEAN : [l EXCEPT !.state = "open", !.wants = b] \in Link
  /\ \A u \in Uri : [Gone EXCEPT !.state = "connecting", !.uri = u] \in Link
PROOF
<1>1. \A l \in Link : \A b \in BOOLEAN : [l EXCEPT !.wants = b] \in Link
  BY DEF Link
<1>2. \A l \in Link : \A n \in 0 .. MaxFragments : [l EXCEPT !.sent = n] \in Link
  BY DEF Link
<1>3. \A l \in Link : [l EXCEPT !.state = "open"] \in Link /\ [l EXCEPT !.state = "connecting"] \in Link
  BY DEF Link
<1>4. \A l \in Link : \A u \in Uri : [l EXCEPT !.uri = u] \in Link
  BY DEF Link
<1>5. \A l \in Link : \A b \in BOOLEAN : [l EXCEPT !.state = "open", !.wants = b] \in Link
  <2> TAKE l \in Link
  <2> TAKE b \in BOOLEAN
  <2> DEFINE l1 == [l EXCEPT !.state = "open"]
  <2>1. l1 \in Link
    BY <1>3
  <2> HIDE DEF l1
  <2>2. [l1 EXCEPT !.wants = b] \in Link
    BY <1>1, <2>1
  <2> QED
    BY <2>2 DEF l1
<1>6. \A u \in Uri : [Gone EXCEPT !.state = "connecting", !.uri = u] \in Link
  <2> TAKE u \in Uri
  <2> DEFINE l1 == [Gone EXCEPT !.state = "connecting"]
  <2>1. l1 \in Link
    BY <1>3, GoneIsALink
  <2> HIDE DEF l1
  <2>2. [l1 EXCEPT !.uri = u] \in Link
    BY <1>4, <2>1
  <2> QED
    BY <2>2 DEF l1
<1> QED
  BY <1>1, <1>2, <1>5, <1>6

\* What each handler does to a connection and its link, in those terms.
LEMMA DisconnectEffect ==
  ASSUME TypeOK, NEW u \in Uri, Disconnect(u)
  PROVE  /\ conn[u].socket \in Socket
         /\ conn' = [conn EXCEPT ![u] = Closing(conn[u])]
         /\ link' = [link EXCEPT ![conn[u].socket] = [link[conn[u].socket] EXCEPT !.wants = TRUE]]
PROOF BY DEF Disconnect, TypeOK, Connection, Closing

LEMMA SendEffect ==
  ASSUME TypeOK, NEW u \in Uri, Send(u)
  PROVE  /\ conn[u].socket \in Socket /\ conn[u].open
         /\ Len(conn[u].queue) < MaxQueued
         /\ conn' = [conn EXCEPT ![u] = Requeued(conn[u], Append(conn[u].queue, conn[u].socket))]
         /\ link' = [link EXCEPT ![conn[u].socket] = [link[conn[u].socket] EXCEPT !.wants = TRUE]]
PROOF BY DEF Send, TypeOK, Connection, Requeued

LEMMA EndsEffect ==
  ASSUME TypeOK, NEW s \in Socket, NEW status, Ends(s, status)
  PROVE  /\ link[s].uri \in Uri
         /\ link' = [link EXCEPT ![s] = Gone]
         /\ \/ /\ conn[link[s].uri].socket = s
               /\ conn' = [conn EXCEPT ![link[s].uri] = Cut(conn[link[s].uri])]
               /\ QueueStatus(link[s].uri, status)
            \/ conn[link[s].uri].socket # s /\ conn' = conn /\ events' = events
PROOF
<1>1. link[s].uri \in Uri
  BY DEF TypeOK, Link
<1>2. CASE Current(s)
  BY <1>1, <1>2 DEF Ends, Current, Bury, Cut, TypeOK
<1>3. CASE ~Current(s)
  BY <1>1, <1>3 DEF Ends, Current, Bury
<1> QED
  BY <1>2, <1>3

LEMMA EstablishEffect ==
  ASSUME TypeOK, NEW s \in Socket, Establish(s)
  PROVE  /\ link[s].uri \in Uri /\ link[s].state = "connecting"
         /\ \/ /\ conn[link[s].uri].socket = s
               /\ conn' = [conn EXCEPT ![link[s].uri] = Opened(conn[link[s].uri])]
               /\ \E owed \in BOOLEAN :
                    link' = [link EXCEPT ![s] = [link[s] EXCEPT !.state = "open", !.wants = owed]]
               /\ QueueStatus(link[s].uri, "Connected")
            \/ /\ conn[link[s].uri].socket # s /\ conn' = conn /\ events' = events
               /\ link' = [link EXCEPT ![s] = Gone]
PROOF
<1>1. link[s].uri \in Uri /\ link[s].wants \in BOOLEAN
  BY DEF TypeOK, Link
<1>2. CASE Current(s)
  <2>1. PICK owed \in {FALSE, link[s].wants} : link' = [link EXCEPT ![s].state = "open", ![s].wants = owed]
    BY <1>2 DEF Establish
  <2>2. owed \in BOOLEAN /\ link' = [link EXCEPT ![s] = [link[s] EXCEPT !.state = "open", !.wants = owed]]
    BY <1>1, <2>1 DEF TypeOK
  <2>3. conn' = [conn EXCEPT ![link[s].uri] = Opened(conn[link[s].uri])]
    BY <1>1, <1>2 DEF Establish, Opened, TypeOK
  <2> QED
    BY <1>1, <1>2, <2>2, <2>3 DEF Establish, Current
<1>3. CASE ~Current(s)
  BY <1>1, <1>3 DEF Establish, Current, Bury
<1> QED
  BY <1>2, <1>3

\* What Receive has put together with this fragment.
Data(s) == LET c == conn[link[s].uri] IN IF TooLong(c) THEN <<>> ELSE Append(c.assembly, link[s].sent + 1)

LEMMA ReceiveEffect ==
  ASSUME TypeOK, NEW s \in Socket, NEW final \in BOOLEAN, Receive(s, final)
  PROVE  /\ link[s].uri \in Uri /\ conn[link[s].uri].socket = s /\ link[s].state = "open"
         /\ link[s].sent + 1 \in 1 .. MaxFragments
         /\ Data(s) \in Seq(1 .. MaxFragments) /\ Len(Data(s)) <= MaxFrame
         /\ link' = [link EXCEPT ![s] = [link[s] EXCEPT !.sent = IF final THEN 0 ELSE link[s].sent + 1]]
         /\ conn' = [conn EXCEPT ![link[s].uri] = Filled(conn[link[s].uri], IF final THEN <<>> ELSE Data(s),
                                                         ~final /\ TooLong(conn[link[s].uri]))]
         /\ received' = received
            \/ received' = Append(received, [uri |-> link[s].uri, data |-> Data(s)])
PROOF
<1> DEFINE u    == link[s].uri
           part == link[s].sent + 1
<1>1. u \in Uri /\ part \in 1 .. MaxFragments
  BY ConstantFacts DEF Receive, TypeOK, Link
<1>2. Data(s) \in Seq(1 .. MaxFragments) /\ Len(Data(s)) <= MaxFrame
  <2>1. CASE TooLong(conn[u])
    BY <2>1, ConstantFacts DEF Data
  <2>2. CASE ~TooLong(conn[u])
    <3>1. conn[u].assembly \in Seq(1 .. MaxFragments) /\ Len(conn[u].assembly) + 1 <= MaxFrame
      BY <2>2, <1>1, ConstantFacts DEF TooLong, TypeOK, Connection
    <3>2. Data(s) = Append(conn[u].assembly, part)
      BY <2>2 DEF Data
    <3> HIDE DEF u, part
    <3> QED
      BY <3>1, <3>2, <1>1, AppendProperties
  <2> QED
    BY <2>1, <2>2
<1>3. conn' = [conn EXCEPT ![u] = Filled(conn[u], IF final THEN <<>> ELSE Data(s), ~final /\ TooLong(conn[u]))]
  BY <1>1 DEF Receive, Filled, TypeOK, Data
<1>4. received' = received \/ received' = Append(received, [uri |-> u, data |-> Data(s)])
  BY DEF Receive, Data
<1> QED
  BY <1>1, <1>2, <1>3, <1>4 DEF Receive, Current, TypeOK

LEMMA WriteEffect ==
  ASSUME TypeOK, NEW s \in Socket, WriteFrame(s)
  PROVE  /\ link[s].uri \in Uri /\ conn[link[s].uri].socket = s
         /\ \E wants \in BOOLEAN : link' = [link EXCEPT ![s] = [link[s] EXCEPT !.wants = wants]]
         /\ \/ conn' = conn
            \/ /\ conn[link[s].uri].queue # <<>>
               /\ conn' = [conn EXCEPT ![link[s].uri] =
                              Requeued(conn[link[s].uri], Tail(conn[link[s].uri].queue))]
PROOF
<1> DEFINE u == link[s].uri
<1>1. u \in Uri
  BY DEF TypeOK, Link
<1>2. CASE conn[u].queue = <<>>
  BY <1>1, <1>2 DEF WriteFrame, Current, TypeOK
<1>3. CASE conn[u].queue # <<>>
  <2>1. conn' = [conn EXCEPT ![u] = Requeued(conn[u], Tail(conn[u].queue))]
    BY <1>1, <1>3 DEF WriteFrame, Requeued, TypeOK
  <2>2. link' = [link EXCEPT ![s].wants = conn'[u].queue # <<>>]
    BY <1>3 DEF WriteFrame
  <2>3. (conn'[u].queue # <<>>) \in BOOLEAN
    OBVIOUS
  <2> QED
    BY <1>1, <1>3, <2>1, <2>2, <2>3 DEF WriteFrame, Current, TypeOK
<1> QED
  BY <1>2, <1>3

\* One connection, or one link, changed within its type.
LEMMA OneConnection ==
  ASSUME TypeOK, NEW u \in Uri, NEW d \in Connection, conn' = [conn EXCEPT ![u] = d],
         Len(d.queue) <= MaxQueued, Len(d.assembly) <= MaxFrame
  PROVE  /\ conn' \in [Uri -> Connection]
         /\ (\A v \in Uri : Len(conn[v].queue) <= MaxQueued /\ Len(conn[v].assembly) <= MaxFrame)'
PROOF BY DEF TypeOK

\* A status about a hub can be queued.
LEMMA QueuedTyped ==
  ASSUME TypeOK, NEW u \in Uri, NEW status \in Status, QueueStatus(u, status)
  PROVE  events' \in Seq(Event)
PROOF
<1>1. [uri |-> u, status |-> status] \in Event
  BY DEF Event
<1> QED
  BY <1>1 DEF QueueStatus, TypeOK

\* What the stack asks for keeps the types.
LEMMA StackStepsTyped ==
  ASSUME TypeOK, NEW u \in Uri,
         ConnectWithoutContext(u) \/ Connect(u) \/ ConnectFails(u) \/ Disconnect(u) \/ Send(u)
  PROVE  TypeOK'
PROOF
<1>1. CASE ConnectWithoutContext(u)
  BY <1>1 DEF ConnectWithoutContext, TypeOK, main, Status, Terminal
<1>2. CASE Connect(u)
  <2>1. PICK s \in Socket : /\ conn' = [conn EXCEPT ![u] = Fresh(u, s)]
                            /\ link' = [link EXCEPT ![s] = [Gone EXCEPT !.state = "connecting", !.uri = u]]
    BY <1>2 DEF Connect
  <2>2. [Gone EXCEPT !.state = "connecting", !.uri = u] \in Link
    BY LinkUpdates
  <2>3. link' \in [Socket -> Link]
    BY <2>1, <2>2 DEF TypeOK
  <2>4. /\ conn' \in [Uri -> Connection]
        /\ (\A v \in Uri : Len(conn[v].queue) <= MaxQueued /\ Len(conn[v].assembly) <= MaxFrame)'
    <3>1. Fresh(u, s) \in Connection /\ Len(Fresh(u, s).queue) <= MaxQueued /\ Len(Fresh(u, s).assembly) <= MaxFrame
      BY FreshIsAConnection, ConstantFacts
    <3> QED
      BY <2>1, <3>1, OneConnection
  <2> QED
    BY <1>2, <2>3, <2>4 DEF Connect, TypeOK, main
<1>3. CASE ConnectFails(u)
  <2>1. /\ conn' \in [Uri -> Connection]
        /\ (\A v \in Uri : Len(conn[v].queue) <= MaxQueued /\ Len(conn[v].assembly) <= MaxFrame)'
    <3> DEFINE d == Fresh(u, NoSocket)
    <3>1. d \in Connection /\ Len(d.queue) <= MaxQueued /\ Len(d.assembly) <= MaxFrame
      BY FreshIsAConnection, ConstantFacts
    <3>2. conn' = [conn EXCEPT ![u] = d]
      BY <1>3 DEF ConnectFails
    <3> HIDE DEF d
    <3> QED
      BY <3>1, <3>2, OneConnection
  <2>2. events' \in Seq(Event)
    <3>1. [uri |-> u, status |-> "Error"] \in Event
      BY DEF Event, Status, Terminal
    <3> QED
      BY <1>3, <3>1 DEF ConnectFails, TypeOK
  <2> QED
    BY <1>3, <2>1, <2>2 DEF ConnectFails, TypeOK, main
<1>4. CASE Disconnect(u)
  <2>1. /\ conn' \in [Uri -> Connection]
        /\ (\A v \in Uri : Len(conn[v].queue) <= MaxQueued /\ Len(conn[v].assembly) <= MaxFrame)'
    <3> DEFINE d == Closing(conn[u])
    <3>1. d \in Connection /\ d.queue = conn[u].queue /\ d.assembly = conn[u].assembly
      BY ClosingFacts DEF Same, TypeOK
    <3>2. conn' = [conn EXCEPT ![u] = d]
      BY <1>4, DisconnectEffect
    <3> HIDE DEF d
    <3> QED
      BY <3>1, <3>2, OneConnection DEF TypeOK
  <2>2. link' \in [Socket -> Link]
    <3>1. conn[u].socket \in Socket /\ link' = [link EXCEPT ![conn[u].socket] = [link[conn[u].socket] EXCEPT !.wants = TRUE]]
      BY <1>4, DisconnectEffect
    <3>2. [link[conn[u].socket] EXCEPT !.wants = TRUE] \in Link
      BY <3>1, LinkUpdates DEF TypeOK
    <3> QED
      BY <3>1, <3>2 DEF TypeOK
  <2> QED
    BY <1>4, <2>1, <2>2 DEF Disconnect, TypeOK, main, stack
<1>5. CASE Send(u)
  <2> DEFINE q == Append(conn[u].queue, conn[u].socket)
  <2>1. q \in Seq(Socket) /\ Len(q) <= MaxQueued
    <3>1. conn[u].queue \in Seq(Socket)
      BY DEF TypeOK, Connection
    <3> QED
      <4>1. conn[u].socket \in Socket /\ Len(conn[u].queue) < MaxQueued
        BY <1>5, SendEffect
      <4> QED
        BY <3>1, <4>1, ConstantFacts
  <2>2. conn' = [conn EXCEPT ![u] = Requeued(conn[u], q)]
    BY <1>5, SendEffect
  <2> HIDE DEF q
  <2>3. /\ conn' \in [Uri -> Connection]
        /\ (\A v \in Uri : Len(conn[v].queue) <= MaxQueued /\ Len(conn[v].assembly) <= MaxFrame)'
    <3> DEFINE d == Requeued(conn[u], q)
    <3>1. d \in Connection /\ d.queue = q /\ d.assembly = conn[u].assembly
      BY <2>1, RequeuedFacts DEF Same, TypeOK
    <3> HIDE DEF d
    <3>2. conn' = [conn EXCEPT ![u] = d]
      BY <2>2 DEF d
    <3> QED
      BY <2>1, <3>1, <3>2, OneConnection DEF TypeOK
  <2>4. link' \in [Socket -> Link]
    <3>1. conn[u].socket \in Socket /\ link' = [link EXCEPT ![conn[u].socket] = [link[conn[u].socket] EXCEPT !.wants = TRUE]]
      BY <1>5, SendEffect
    <3>2. [link[conn[u].socket] EXCEPT !.wants = TRUE] \in Link
      BY <3>1, LinkUpdates DEF TypeOK
    <3> QED
      BY <3>1, <3>2 DEF TypeOK
  <2> QED
    BY <1>5, <2>3, <2>4 DEF Send, TypeOK, main, stack
<1> QED
  BY <1>1, <1>2, <1>3, <1>4, <1>5

\* libwebsockets' callbacks keep the types.
LEMMA EndsTyped ==
  ASSUME TypeOK, NEW s \in Socket, NEW status \in Terminal, Ends(s, status)
  PROVE  TypeOK'
PROOF
<1> DEFINE u == link[s].uri
           d == Cut(conn[u])
<1>1. u \in Uri
  BY EndsEffect
<1>2. link' \in [Socket -> Link]
  BY GoneIsALink, EndsEffect DEF TypeOK
<1>3. d \in Connection /\ d.queue = <<>> /\ d.assembly = conn[u].assembly
  BY <1>1, CutFacts DEF Same, TypeOK
<1>4. conn' = conn \/ conn' = [conn EXCEPT ![u] = d]
  BY EndsEffect
<1> HIDE DEF d
<1>5. /\ conn' \in [Uri -> Connection]
      /\ (\A v \in Uri : Len(conn[v].queue) <= MaxQueued /\ Len(conn[v].assembly) <= MaxFrame)'
  <2>1. /\ conn \in [Uri -> Connection]
        /\ \A v \in Uri : Len(conn[v].queue) <= MaxQueued /\ Len(conn[v].assembly) <= MaxFrame
    BY DEF TypeOK
  <2>2. Len(d.queue) <= MaxQueued /\ Len(d.assembly) <= MaxFrame
    <3>1. Len(d.queue) = 0
      BY <1>3
    <3>2. Len(d.assembly) <= MaxFrame
      BY <1>1, <1>3, <2>1
    <3> QED
      BY <3>1, <3>2, ConstantFacts
  <2>3. CASE conn' = conn
    BY <2>1, <2>3
  <2>4. CASE conn' = [conn EXCEPT ![u] = d]
    BY <1>1, <1>3, <2>1, <2>2, <2>4, OneConnection
  <2> QED
    BY <1>4, <2>3, <2>4
<1>6. events' \in Seq(Event)
  BY <1>1, EndsEffect, QueuedTyped DEF TypeOK, Status
<1> QED
  BY <1>2, <1>5, <1>6 DEF Ends, TypeOK, main, stack

LEMMA EstablishTyped ==
  ASSUME TypeOK, NEW s \in Socket, Establish(s)
  PROVE  TypeOK'
PROOF
<1> DEFINE u == link[s].uri
           d == Opened(conn[u])
<1>1. u \in Uri
  BY EstablishEffect
<1>2. link' \in [Socket -> Link]
  <2>1. CASE \E owed \in BOOLEAN : link' = [link EXCEPT ![s] = [link[s] EXCEPT !.state = "open", !.wants = owed]]
    <3>1. PICK owed \in BOOLEAN : link' = [link EXCEPT ![s] = [link[s] EXCEPT !.state = "open", !.wants = owed]]
      BY <2>1
    <3>2. [link[s] EXCEPT !.state = "open", !.wants = owed] \in Link
      BY LinkUpdates DEF TypeOK
    <3> QED
      BY <3>1, <3>2 DEF TypeOK
  <2>2. CASE link' = [link EXCEPT ![s] = Gone]
    BY <2>2, GoneIsALink DEF TypeOK
  <2> QED
    BY <2>1, <2>2, EstablishEffect
<1>3. d \in Connection /\ d.queue = conn[u].queue /\ d.assembly = conn[u].assembly
  BY <1>1, OpenedFacts DEF Same, TypeOK
<1>4. conn' = conn \/ conn' = [conn EXCEPT ![u] = d]
  BY EstablishEffect
<1> HIDE DEF d
<1>5. /\ conn' \in [Uri -> Connection]
      /\ (\A v \in Uri : Len(conn[v].queue) <= MaxQueued /\ Len(conn[v].assembly) <= MaxFrame)'
  BY <1>1, <1>3, <1>4, OneConnection DEF TypeOK
<1>6. events' \in Seq(Event)
  BY <1>1, EstablishEffect, QueuedTyped DEF TypeOK, Status
<1> QED
  BY <1>2, <1>5, <1>6 DEF Establish, TypeOK, main, stack

LEMMA ReceiveTyped ==
  ASSUME TypeOK, NEW s \in Socket, NEW final \in BOOLEAN, Receive(s, final)
  PROVE  TypeOK'
PROOF
<1> DEFINE u    == link[s].uri
           a    == IF final THEN <<>> ELSE Data(s)
           over == ~final /\ TooLong(conn[u])
           d    == Filled(conn[u], a, over)
<1>a. u \in Uri /\ link[s].sent + 1 \in 1 .. MaxFragments
  BY ReceiveEffect, Zenon
<1>b. Data(s) \in Seq(1 .. MaxFragments) /\ Len(Data(s)) <= MaxFrame
  BY ReceiveEffect, Zenon
<1>c. link' = [link EXCEPT ![s] = [link[s] EXCEPT !.sent = IF final THEN 0 ELSE link[s].sent + 1]]
  BY ReceiveEffect, Zenon
<1>d. conn' = [conn EXCEPT ![u] = d]
  BY ReceiveEffect, Zenon
<1>e. received' = received \/ received' = Append(received, [uri |-> u, data |-> Data(s)])
  BY ReceiveEffect, Zenon
<1>1. u \in Uri
  BY <1>a
<1>2. a \in Seq(1 .. MaxFragments) /\ Len(a) <= MaxFrame 
  <2>1. CASE final
    BY <2>1, ConstantFacts
  <2>2. CASE ~final
    BY <2>2, <1>b
  <2> QED
    BY <2>1, <2>2
<1>o. over \in BOOLEAN
  OBVIOUS
<1>3. conn' = [conn EXCEPT ![u] = d]
  BY <1>d
<1>4. received' \in Seq(Frame)
  <2>1. [uri |-> u, data |-> Data(s)] \in Frame
    BY <1>a, <1>b DEF Frame
  <2> QED
    BY <2>1, <1>e DEF TypeOK
<1>5. link' \in [Socket -> Link]
  <2> DEFINE n == IF final THEN 0 ELSE link[s].sent + 1
  <2>1. n \in 0 .. MaxFragments /\ link' = [link EXCEPT ![s] = [link[s] EXCEPT !.sent = n]]
    BY <1>a, <1>c, ConstantFacts
  <2> HIDE DEF n
  <2> QED
    BY <2>1, LinkUpdates DEF TypeOK
<1> HIDE DEF a, over
<1>6. d \in Connection /\ d.queue = conn[u].queue /\ d.assembly = a
  BY <1>1, <1>2, <1>o, FilledFacts DEF Same, TypeOK
<1> HIDE DEF d
<1>7. /\ conn' \in [Uri -> Connection]
      /\ (\A v \in Uri : Len(conn[v].queue) <= MaxQueued /\ Len(conn[v].assembly) <= MaxFrame)'
  BY <1>1, <1>2, <1>3, <1>6, OneConnection DEF TypeOK
<1> QED
  BY <1>4, <1>5, <1>7 DEF Receive, TypeOK, main, stack

LEMMA WriteTyped ==
  ASSUME TypeOK, NEW s \in Socket, WriteFrame(s)
  PROVE  TypeOK'
PROOF
<1> DEFINE u == link[s].uri
           q == Tail(conn[u].queue)
           d == Requeued(conn[u], q)
<1>1. u \in Uri
  BY WriteEffect
<1>2. link' \in [Socket -> Link]
  <2>1. PICK wants \in BOOLEAN : link' = [link EXCEPT ![s] = [link[s] EXCEPT !.wants = wants]]
    BY WriteEffect
  <2> QED
    BY <2>1, LinkUpdates DEF TypeOK
<1>3. ASSUME conn[u].queue # <<>>
      PROVE  q \in Seq(Socket) /\ Len(q) <= MaxQueued
  BY <1>1, <1>3, ConstantFacts DEF TypeOK, Connection
<1>4. conn' = conn \/ (conn[u].queue # <<>> /\ conn' = [conn EXCEPT ![u] = d])
  BY WriteEffect, Zenon
<1> HIDE DEF q
<1>5. conn[u].queue # <<>> => d \in Connection /\ d.queue = q /\ d.assembly = conn[u].assembly
  BY <1>1, <1>3, RequeuedFacts DEF Same, TypeOK
<1> HIDE DEF d
<1>6. /\ conn' \in [Uri -> Connection]
      /\ (\A v \in Uri : Len(conn[v].queue) <= MaxQueued /\ Len(conn[v].assembly) <= MaxFrame)'
  <2>1. CASE conn' = conn
    BY <2>1 DEF TypeOK
  <2>2. CASE conn[u].queue # <<>> /\ conn' = [conn EXCEPT ![u] = d]
    BY <2>2, <1>1, <1>3, <1>5, OneConnection DEF TypeOK
  <2> QED
    BY <2>1, <2>2, <1>4
<1> QED
  BY <1>2, <1>6 DEF WriteFrame, TypeOK, main, stack

\* The Disconnected statuses a reload queues.
Cuts(q) == [i \in DOMAIN q |-> [uri |-> q[i], status |-> "Disconnected"]]

LEMMA ReloadEffect ==
  ASSUME TypeOK, NEW created \in BOOLEAN, ReloadCredentials(created)
  PROVE  /\ conn' = [u \in Uri |-> IF Live(u) THEN Cut(conn[u]) ELSE conn[u]]
         /\ \E q \in Seq(Uri) : /\ events' = events \o Cuts(q)
                                /\ \A u \in Uri : Live(u) <=> \E i \in DOMAIN q : q[i] = u
PROOF
<1> DEFINE live == {u \in Uri : Live(u)}
<1>1. PICK q \in BoundedSeq(live, Len(UriOrder)) :
        InMapOrder(q, live) /\ events' = events \o [i \in DOMAIN q |-> [uri |-> q[i], status |-> "Disconnected"]]
  BY DEF ReloadCredentials
<1>2. q \in Seq(Uri)
  <2>1. PICK n \in 0 .. Len(UriOrder) : q \in [1 .. n -> live]
    BY <1>1 DEF BoundedSeq, SeqOf
  <2>2. n \in Nat /\ q \in [1 .. n -> Uri]
    BY <2>1, ConstantFacts
  <2> QED
    BY <2>2, SeqDef
<1>3. \A u \in Uri : Live(u) <=> \E i \in DOMAIN q : q[i] = u
  BY <1>1 DEF InMapOrder, Range
<1>4. events' = events \o Cuts(q)
  BY <1>1 DEF Cuts
<1>5. conn' = [u \in Uri |-> IF Live(u) THEN Cut(conn[u]) ELSE conn[u]]
  BY DEF ReloadCredentials, Cut
<1> QED
  BY <1>2, <1>3, <1>4, <1>5

LEMMA CutsTyped ==
  \A q \in Seq(Uri) :
    /\ Cuts(q) \in Seq(Event) /\ Len(Cuts(q)) = Len(q)
    /\ \A i \in 1 .. Len(q) : Cuts(q)[i].uri = q[i] /\ Cuts(q)[i].status = "Disconnected"
PROOF
<1> TAKE q \in Seq(Uri)
<1>1. Len(q) \in Nat /\ DOMAIN q = 1 .. Len(q) /\ \A i \in 1 .. Len(q) : q[i] \in Uri
  OBVIOUS
<1>2. Cuts(q) \in [1 .. Len(q) -> Event]
  BY <1>1 DEF Cuts, Event, Status, Terminal
<1>3. Cuts(q) \in Seq(Event) /\ DOMAIN Cuts(q) = 1 .. Len(q)
  BY <1>1, <1>2, SeqDef
<1>4. Len(Cuts(q)) = Len(q)
  BY <1>1, <1>3
<1> QED
  BY <1>1, <1>3, <1>4 DEF Cuts

LEMMA ReloadTyped ==
  ASSUME TypeOK, NEW created \in BOOLEAN, ReloadCredentials(created)
  PROVE  TypeOK'
PROOF
<1>1. link' \in [Socket -> Link]
  BY GoneIsALink DEF ReloadCredentials
<1>2. conn' = [u \in Uri |-> IF Live(u) THEN Cut(conn[u]) ELSE conn[u]]
  BY ReloadEffect
<1>3. \A u \in Uri : /\ conn'[u] \in Connection
                     /\ Len(conn'[u].queue) <= MaxQueued /\ Len(conn'[u].assembly) <= MaxFrame
  <2> TAKE u \in Uri
  <2>1. CASE Live(u)
    <3> DEFINE d == Cut(conn[u])
    <3>1. d \in Connection /\ d.queue = <<>> /\ d.assembly = conn[u].assembly
      BY CutFacts DEF Same, TypeOK
    <3>2. conn'[u] = d
      BY <1>2, <2>1
    <3> HIDE DEF d
    <3> QED
      BY <3>1, <3>2, ConstantFacts DEF TypeOK
  <2>2. CASE ~Live(u)
    BY <1>2, <2>2 DEF TypeOK
  <2> QED
    BY <2>1, <2>2
<1>4. conn' \in [Uri -> Connection]
  BY <1>2, <1>3
<1>5. events' \in Seq(Event)
  <2>1. PICK q \in Seq(Uri) : events' = events \o Cuts(q)
    BY ReloadEffect
  <2>2. Cuts(q) \in Seq(Event)
    BY CutsTyped
  <2> QED
    BY <2>1, <2>2 DEF TypeOK
<1> QED
  BY <1>1, <1>3, <1>4, <1>5 DEF ReloadCredentials, TypeOK, stack

\* The main loop's own steps.
LEMMA LoopStepsTyped ==
  ASSUME TypeOK, PopReceived \/ RequestReload \/ EndTick \/ EndService \/ ReportStatus \/ EndReport
  PROVE  TypeOK'
PROOF
<1>1. CASE PopReceived
  BY <1>1 DEF PopReceived, TypeOK, main, stack
<1>2. CASE RequestReload
  BY <1>2 DEF RequestReload, TypeOK, stack
<1>3. CASE EndTick
  BY <1>3 DEF EndTick, TypeOK
<1>4. CASE EndService
  BY <1>4 DEF EndService, TypeOK, stack
<1>5. CASE ReportStatus
  <2>1. Head(events) \in Event /\ Tail(events) \in Seq(Event)
    BY <1>5 DEF ReportStatus, TypeOK
  <2>2. Head(events).uri \in Uri /\ Head(events).status \in Status
    BY <2>1 DEF Event
  <2> QED
    BY <1>5, <2>1, <2>2 DEF ReportStatus, TypeOK, main
<1>6. CASE EndReport
  BY <1>6 DEF EndReport, TypeOK, stack
<1> QED
  BY <1>1, <1>2, <1>3, <1>4, <1>5, <1>6

LEMMA NextTyped == TypeOK /\ [Next]_vars => TypeOK'
PROOF
<1> SUFFICES ASSUME TypeOK, [Next]_vars PROVE TypeOK'
  OBVIOUS
<1>1. ASSUME NEW u \in Uri,
             ConnectWithoutContext(u) \/ Connect(u) \/ ConnectFails(u) \/ Disconnect(u) \/ Send(u)
      PROVE  TypeOK'
  BY <1>1, StackStepsTyped
<1>2. ASSUME NEW s \in Socket, Establish(s)
      PROVE  TypeOK'
  BY <1>2, EstablishTyped
<1>3. ASSUME NEW s \in Socket, ConnectionError(s) \/ Closed(s) \/ Close(s)
      PROVE  TypeOK'
  BY <1>3, EndsTyped DEF ConnectionError, Closed, Close, Terminal
<1>4. ASSUME NEW s \in Socket, NEW final \in BOOLEAN, Receive(s, final)
      PROVE  TypeOK'
  BY <1>4, ReceiveTyped
<1>5. ASSUME NEW s \in Socket, ReceiveStale(s)
      PROVE  TypeOK'
  BY <1>5, GoneIsALink DEF ReceiveStale, Bury, TypeOK, main, stack
<1>6. ASSUME NEW s \in Socket, WriteFrame(s)
      PROVE  TypeOK'
  BY <1>6, WriteTyped
<1>7. ASSUME NEW created \in BOOLEAN, ReloadCredentials(created)
      PROVE  TypeOK'
  BY <1>7, ReloadTyped
<1>8. CASE PopReceived \/ RequestReload \/ EndTick \/ EndService \/ ReportStatus \/ EndReport
  BY <1>8, LoopStepsTyped
<1>9. CASE UNCHANGED vars
  BY <1>9 DEF vars, main, stack, TypeOK
<1> QED
  BY <1>1, <1>2, <1>3, <1>4, <1>5, <1>6, <1>7, <1>8, <1>9 DEF Next

\* The connections, the status queue and libwebsockets' sockets keep their types,
\* and neither the frames to send nor a message put together passes its limit
\* (MAX_QUEUED_FRAMES, MAX_RECEIVED_FRAME_OCTETS), whatever the hubs do.
THEOREM TypeCorrect == Spec => []TypeOK
PROOF
<1>1. Init => TypeOK
  BY InitTyped
<1>2. TypeOK /\ [Next]_vars => TypeOK'
  BY NextTyped
<1> QED
  BY <1>1, <1>2, PTL DEF Spec

-----------------------------------------------------------------------------
(* Connections and sockets *)

\* A reload leaves no connection a socket, and none open.
LEMMA ReloadDetaches ==
  ASSUME TypeOK, NEW created \in BOOLEAN, ReloadCredentials(created)
  PROVE  \A u \in Uri : /\ conn'[u].socket = NoSocket /\ ~conn'[u].open
                        /\ conn'[u].assembly = conn[u].assembly
PROOF
<1> TAKE u \in Uri
<1>1. conn'[u] = IF Live(u) THEN Cut(conn[u]) ELSE conn[u]
  BY ReloadEffect
<1>2. CASE Live(u)
  BY <1>1, <1>2, CutFacts DEF Same, TypeOK
<1>3. CASE ~Live(u)
  BY <1>1, <1>3 DEF Live
<1> QED
  BY <1>2, <1>3

\* Asking, sending, receiving and writing leave who is connected alone.
LEMMA WantsKeepsLinks ==
  ASSUME TypeOK, NEW s \in Socket, NEW b \in BOOLEAN,
         link' = [link EXCEPT ![s] = [link[s] EXCEPT !.wants = b]]
  PROVE  \A r \in Socket : /\ link'[r].state = link[r].state /\ link'[r].uri = link[r].uri
                           /\ link'[r].sent = link[r].sent
PROOF
<1>1. link[s] \in Link
  BY DEF TypeOK
<1>2. /\ [link[s] EXCEPT !.wants = b].state = link[s].state
      /\ [link[s] EXCEPT !.wants = b].uri = link[s].uri
      /\ [link[s] EXCEPT !.wants = b].sent = link[s].sent
  BY <1>1 DEF Link
<1> QED
  BY <1>2 DEF TypeOK

LEMMA QuietSteps ==
  ASSUME TypeOK,
         \/ \E u \in Uri : Disconnect(u) \/ Send(u)
         \/ \E s \in Socket : WriteFrame(s)
  PROVE  /\ \A v \in Uri : /\ conn'[v].socket = conn[v].socket /\ conn'[v].open = conn[v].open
                           /\ conn'[v].assembly = conn[v].assembly /\ conn'[v].overflow = conn[v].overflow
         /\ \A r \in Socket : /\ link'[r].state = link[r].state /\ link'[r].uri = link[r].uri
                              /\ link'[r].sent = link[r].sent
         /\ events' = events /\ UNCHANGED <<phase, context, told, received>>
PROOF
<1> DEFINE Kept(v) == /\ conn'[v].socket = conn[v].socket /\ conn'[v].open = conn[v].open
                      /\ conn'[v].assembly = conn[v].assembly /\ conn'[v].overflow = conn[v].overflow
<1>0. \A v \in Uri : conn[v] \in Connection
  BY DEF TypeOK
<1>1. ASSUME NEW u \in Uri, NEW d, conn' = [conn EXCEPT ![u] = d], Same(conn[u], d, {"queue"})
      PROVE  \A v \in Uri : Kept(v)
  BY <1>1 DEF TypeOK, Same
<1> HIDE DEF Kept
<1>2. ASSUME NEW u \in Uri, Disconnect(u)
      PROVE  /\ \A v \in Uri : Kept(v)
             /\ \A r \in Socket : link'[r].state = link[r].state /\ link'[r].uri = link[r].uri /\ link'[r].sent = link[r].sent
  <2>1. Same(conn[u], Closing(conn[u]), {"queue"})
    BY <1>0, ClosingFacts DEF Same
  <2> QED
    BY <2>1, <1>1, <1>2, DisconnectEffect, WantsKeepsLinks
<1>3. ASSUME NEW u \in Uri, Send(u)
      PROVE  /\ \A v \in Uri : Kept(v)
             /\ \A r \in Socket : link'[r].state = link[r].state /\ link'[r].uri = link[r].uri /\ link'[r].sent = link[r].sent
  <2> DEFINE q == Append(conn[u].queue, conn[u].socket)
  <2>1. q \in Seq(Socket)
    <3>1. conn[u].socket \in Socket /\ conn[u].queue \in Seq(Socket)
      BY <1>0, <1>3, SendEffect DEF Connection
    <3> QED
      BY <3>1
  <2>2. conn' = [conn EXCEPT ![u] = Requeued(conn[u], q)]
    BY <1>3, SendEffect
  <2> HIDE DEF q
  <2>3. Same(conn[u], Requeued(conn[u], q), {"queue"})
    BY <1>0, <2>1, RequeuedFacts
  <2> QED
    BY <2>2, <2>3, <1>1, <1>3, SendEffect, WantsKeepsLinks
<1>4. ASSUME NEW s \in Socket, WriteFrame(s)
      PROVE  /\ \A v \in Uri : Kept(v)
             /\ \A r \in Socket : link'[r].state = link[r].state /\ link'[r].uri = link[r].uri /\ link'[r].sent = link[r].sent
  <2> DEFINE u == link[s].uri
             q == Tail(conn[u].queue)
  <2>1. u \in Uri /\ \E wants \in BOOLEAN : link' = [link EXCEPT ![s] = [link[s] EXCEPT !.wants = wants]]
    BY <1>4, WriteEffect
  <2>2. conn' = conn \/ (conn[u].queue # <<>> /\ conn' = [conn EXCEPT ![u] = Requeued(conn[u], q)])
    BY <1>4, WriteEffect, Zenon
  <2>3. conn[u].queue # <<>> => q \in Seq(Socket)
    BY <2>1, <1>0 DEF Connection
  <2> HIDE DEF q
  <2>4. \A v \in Uri : Kept(v)
    <3>1. CASE conn' = conn
      BY <3>1 DEF Kept
    <3>2. CASE conn[u].queue # <<>> /\ conn' = [conn EXCEPT ![u] = Requeued(conn[u], q)]
      <4>1. Same(conn[u], Requeued(conn[u], q), {"queue"})
        BY <1>0, <2>1, <2>3, <3>2, RequeuedFacts
      <4> QED
        BY <4>1, <3>2, <2>1, <1>1
    <3> QED
      BY <2>2, <3>1, <3>2
  <2> QED
    BY <2>1, <2>4, WantsKeepsLinks
<1>5. events' = events /\ UNCHANGED <<phase, context, told, received>>
  BY DEF Disconnect, Send, WriteFrame, main, stack
<1> QED
  BY <1>2, <1>3, <1>4, <1>5 DEF Kept

LEMMA AttachedStep == TypeOK /\ Attached /\ [Next]_vars => Attached'
PROOF
<1> SUFFICES ASSUME TypeOK, Attached, [Next]_vars PROVE Attached'
  OBVIOUS
<1> DEFINE Good(c, l, u) == IF c.socket = NoSocket THEN ~c.open
                            ELSE /\ l[c.socket].uri = u
                                 /\ IF c.open THEN l[c.socket].state = "open" ELSE l[c.socket].state = "connecting"
<1>a. Attached <=> \A u \in Uri : Good(conn[u], link, u)
  BY DEF Attached
<1>b. Attached' <=> \A u \in Uri : Good(conn'[u], link', u)
  BY DEF Attached
<1>c. \A u \in Uri : conn[u] \in Connection /\ conn[u].socket \in Socket \cup {NoSocket}
  BY DEF TypeOK, Connection
<1>1. ASSUME NEW u \in Uri, ConnectWithoutContext(u)
      PROVE  Attached'
  BY <1>1 DEF ConnectWithoutContext, Attached
<1>2. ASSUME NEW u \in Uri, Connect(u)
      PROVE  Attached'
  <2>1. PICK s \in Socket : /\ link[s].state = "gone"
                            /\ conn' = [conn EXCEPT ![u] = Fresh(u, s)]
                            /\ link' = [link EXCEPT ![s] = [Gone EXCEPT !.state = "connecting", !.uri = u]]
    BY <1>2 DEF Connect
  <2>2. link'[s].state = "connecting" /\ link'[s].uri = u
    BY <2>1 DEF TypeOK, Gone
  <2>3. conn'[u].socket = s /\ ~conn'[u].open
    BY <2>1 DEF TypeOK, Fresh
  <2>4. ASSUME NEW v \in Uri, v # u
        PROVE  Good(conn'[v], link', v)
    <3>1. conn'[v] = conn[v] /\ conn[v].socket # s
      BY <2>1, <2>4, ConstantFacts DEF TypeOK, Attached
    <3>2. conn[v].socket = NoSocket \/ link'[conn[v].socket] = link[conn[v].socket]
      BY <2>1, <3>1, <1>c DEF TypeOK
    <3> QED
      BY <3>1, <3>2 DEF Attached
  <2> QED
    BY <2>2, <2>3, <2>4, <1>b, ConstantFacts
<1>3. ASSUME NEW u \in Uri, ConnectFails(u)
      PROVE  Attached'
  <2>1. conn'[u].socket = NoSocket /\ ~conn'[u].open
    BY <1>3 DEF ConnectFails, TypeOK, Fresh
  <2>2. \A v \in Uri : v # u => conn'[v] = conn[v]
    BY <1>3 DEF ConnectFails, TypeOK
  <2> QED
    BY <1>3, <2>1, <2>2 DEF Attached, ConnectFails
<1>4. ASSUME NEW u \in Uri, Disconnect(u) \/ Send(u)
      PROVE  Attached'
  BY <1>4, <1>c, QuietSteps DEF Attached
<1>5. ASSUME NEW s \in Socket, Establish(s)
      PROVE  Attached'
  <2>1. CASE conn[link[s].uri].socket = s
    <3>1. /\ link[s].uri \in Uri
          /\ conn'[link[s].uri].open /\ conn'[link[s].uri].socket = s
      <4> DEFINE u == link[s].uri
                 d == Opened(conn[u])
      <4>1. u \in Uri /\ conn' = [conn EXCEPT ![u] = d]
        BY <2>1, <1>5, EstablishEffect
      <4>2. d.open /\ d.socket = conn[u].socket
        BY <4>1, <1>c, OpenedFacts DEF Same
      <4> HIDE DEF d
      <4> QED
        BY <4>1, <4>2, <2>1 DEF TypeOK
    <3>2. \A v \in Uri : v # link[s].uri => conn'[v] = conn[v] /\ conn[v].socket # s
      <4>1. \A v \in Uri : v # link[s].uri => conn'[v] = conn[v]
        <5> DEFINE d == Opened(conn[link[s].uri])
        <5>1. conn' = [conn EXCEPT ![link[s].uri] = d]
          BY <2>1, <1>5, EstablishEffect
        <5> HIDE DEF d
        <5> QED
          BY <5>1 DEF TypeOK
      <4> QED
        BY <4>1, ConstantFacts DEF Attached
    <3>3. link'[s].state = "open" /\ link'[s].uri = link[s].uri
      BY <2>1, <1>5 DEF Establish, Current, TypeOK, Link
    <3>4. \A r \in Socket : r # s => link'[r] = link[r]
      BY <2>1, <1>5 DEF Establish, Current, TypeOK
    <3> QED
      BY <3>1, <3>2, <3>3, <3>4, <1>c, ConstantFacts DEF Attached
  <2>2. CASE conn[link[s].uri].socket # s
    <3>1. conn' = conn /\ link' = [link EXCEPT ![s] = Gone]
      BY <2>2, <1>5, EstablishEffect
    <3>2. \A v \in Uri : conn[v].socket # s
      BY <2>2, ConstantFacts DEF Attached
    <3> QED
      BY <3>1, <3>2, <1>c DEF Attached, TypeOK
  <2> QED
    BY <2>1, <2>2
<1>6. ASSUME NEW s \in Socket, NEW status \in Terminal, Ends(s, status)
      PROVE  Attached'
  <2>1. link[s].uri \in Uri /\ link' = [link EXCEPT ![s] = Gone]
    BY <1>6, EndsEffect
  <2>2. \A v \in Uri : \/ conn'[v] = conn[v] /\ conn[v].socket # s
                       \/ conn'[v].socket = NoSocket /\ ~conn'[v].open
    <3>1. CASE conn[link[s].uri].socket = s
      BY <3>1, <1>6, <1>c, <2>1, EndsEffect, CutFacts, ConstantFacts DEF TypeOK, Attached
    <3>2. CASE conn[link[s].uri].socket # s
      BY <3>2, <1>6, EndsEffect, ConstantFacts DEF Attached
    <3> QED
      BY <3>1, <3>2
  <2> QED
    BY <2>1, <2>2, <1>c DEF Attached, TypeOK
<1>7. ASSUME NEW s \in Socket, ReceiveStale(s)
      PROVE  Attached'
  <2>1. conn' = conn /\ link' = [link EXCEPT ![s] = Gone] /\ conn[link[s].uri].socket # s
    BY <1>7 DEF ReceiveStale, Bury, Current
  <2>2. \A v \in Uri : conn[v].socket # s
    BY <2>1, ConstantFacts DEF Attached
  <2> QED
    BY <2>1, <2>2, <1>c DEF Attached, TypeOK
<1>8. ASSUME NEW s \in Socket, NEW final \in BOOLEAN, Receive(s, final)
      PROVE  Attached'
  <2>1. \A v \in Uri : conn'[v].socket = conn[v].socket /\ conn'[v].open = conn[v].open
    BY <1>8 DEF Receive, TypeOK, Connection
  <2>2. \A r \in Socket : link'[r].state = link[r].state /\ link'[r].uri = link[r].uri
    BY <1>8 DEF Receive, TypeOK, Link
  <2> QED
    BY <2>1, <2>2, <1>c DEF Attached
<1>9. ASSUME NEW s \in Socket, WriteFrame(s)
      PROVE  Attached'
  BY <1>9, <1>c, QuietSteps DEF Attached
<1>10. ASSUME NEW created \in BOOLEAN, ReloadCredentials(created)
       PROVE  Attached'
  BY <1>10, ReloadDetaches DEF Attached
<1>11. ASSUME conn' = conn, link' = link
       PROVE  Attached'
  BY <1>11 DEF Attached
<1> HIDE DEF Good
<1>12. CASE PopReceived \/ RequestReload \/ EndTick \/ EndService \/ ReportStatus \/ EndReport \/ UNCHANGED vars
  BY <1>11, <1>12 DEF PopReceived, RequestReload, EndTick, EndService, ReportStatus, EndReport, vars
<1>13. \A s \in Socket : ConnectionError(s) \/ Closed(s) \/ Close(s) =>
         \E status \in Terminal : Ends(s, status)
  BY DEF ConnectionError, Closed, Close, Terminal
<1> QED
  BY <1>1, <1>2, <1>3, <1>4, <1>5, <1>6, <1>7, <1>8, <1>9, <1>10, <1>12, <1>13 DEF Next

\* An open connection is attached to its own live socket: no callback of an older
\* attempt's socket, no reload and no failed attempt leaves one that is not.
THEOREM OpenMeansLive == Spec => []OpenIsLive
PROOF
<1>1. Init => Attached
  BY DEF Init, Attached
<1>2. TypeOK /\ Attached /\ [Next]_vars => Attached'
  BY AttachedStep
<1>3. Attached => OpenIsLive
  BY DEF Attached, OpenIsLive
<1> QED
  BY <1>1, <1>2, <1>3, TypeCorrect, PTL DEF Spec

-----------------------------------------------------------------------------
(* Frames to send *)

LEMMA FramesStayStep ==
  TypeOK /\ FramesStayOnTheirConnection /\ [Next]_vars => FramesStayOnTheirConnection'
PROOF
<1> SUFFICES ASSUME TypeOK, FramesStayOnTheirConnection, [Next]_vars
             PROVE  FramesStayOnTheirConnection'
  OBVIOUS
<1> DEFINE Own(c) == \A i \in DOMAIN c.queue : c.queue[i] = c.socket
<1>a. \A u \in Uri : conn[u] \in Connection /\ Own(conn[u])
  BY DEF TypeOK, FramesStayOnTheirConnection
<1>b. (\A u \in Uri : Own(conn'[u])) => FramesStayOnTheirConnection'
  BY DEF FramesStayOnTheirConnection
\* It is enough to look at the one connection that changes.
<1>c. ASSUME NEW u \in Uri, NEW d, Own(d), conn' = [conn EXCEPT ![u] = d]
      PROVE  FramesStayOnTheirConnection'
  <2>1. \A v \in Uri : conn'[v] = d \/ conn'[v] = conn[v]
    BY <1>c DEF TypeOK
  <2> HIDE DEF Own
  <2> QED
    BY <2>1, <1>a, <1>b, <1>c
<1>d. \A c \in Connection : c.queue = <<>> => Own(c)
  OBVIOUS
<1>e. ASSUME conn' = conn
      PROVE  FramesStayOnTheirConnection'
  BY <1>e DEF FramesStayOnTheirConnection
<1> HIDE DEF Own
<1>1. ASSUME NEW u \in Uri, NEW s \in Socket \cup {NoSocket}, conn' = [conn EXCEPT ![u] = Fresh(u, s)]
      PROVE  FramesStayOnTheirConnection'
  <2>1. Own(Fresh(u, s))
    BY FreshIsAConnection, <1>d DEF Fresh
  <2> QED
    BY <1>1, <1>c, <2>1
<1>2. ASSUME NEW u \in Uri, Connect(u) \/ ConnectFails(u)
      PROVE  FramesStayOnTheirConnection'
  BY <1>1, <1>2 DEF Connect, ConnectFails
<1>3. ASSUME NEW u \in Uri, Disconnect(u)
      PROVE  FramesStayOnTheirConnection'
  <2>1. Own(Closing(conn[u]))
    BY <1>a, ClosingFacts DEF Same, Own
  <2> QED
    BY <1>3, <1>c, <2>1, DisconnectEffect
<1>4. ASSUME NEW u \in Uri, Send(u)
      PROVE  FramesStayOnTheirConnection'
  <2> DEFINE q == Append(conn[u].queue, conn[u].socket)
             d == Requeued(conn[u], q)
  <2>1. conn[u].socket \in Socket /\ conn[u].queue \in Seq(Socket)
    BY <1>a, <1>4, SendEffect DEF Connection
  <2>2. q \in Seq(Socket) /\ \A i \in DOMAIN q : q[i] = conn[u].socket
    BY <2>1, <1>a DEF Own
  <2>3. conn' = [conn EXCEPT ![u] = d]
    BY <1>4, SendEffect
  <2> HIDE DEF q
  <2>4. d.queue = q /\ d.socket = conn[u].socket
    BY <1>a, <2>2, RequeuedFacts DEF Same
  <2> HIDE DEF d
  <2>5. Own(d)
    BY <2>2, <2>4 DEF Own
  <2> QED
    BY <1>c, <2>3, <2>5
<1>5. ASSUME NEW s \in Socket, WriteFrame(s)
      PROVE  FramesStayOnTheirConnection'
  <2> DEFINE u == link[s].uri
             q == Tail(conn[u].queue)
             d == Requeued(conn[u], q)
  <2>1. u \in Uri
    BY <1>5, WriteEffect
  <2>2. conn' = conn \/ (conn[u].queue # <<>> /\ conn' = [conn EXCEPT ![u] = d])
    BY <1>5, WriteEffect, Zenon
  <2>3. ASSUME conn[u].queue # <<>>
        PROVE  q \in Seq(Socket) /\ \A i \in DOMAIN q : q[i] = conn[u].socket
    <3>1. conn[u].queue \in Seq(Socket)
      BY <2>1, <1>a DEF Connection
    <3> QED
      BY <3>1, <2>1, <2>3, <1>a DEF Own
  <2> HIDE DEF q
  <2>4. conn[u].queue # <<>> => d.queue = q /\ d.socket = conn[u].socket
    BY <1>a, <2>1, <2>3, RequeuedFacts DEF Same
  <2> HIDE DEF d
  <2>5. conn[u].queue # <<>> => Own(d)
    BY <2>3, <2>4 DEF Own
  <2> QED
    BY <1>c, <1>e, <2>1, <2>2, <2>5
<1>6. ASSUME NEW s \in Socket, Establish(s)
      PROVE  FramesStayOnTheirConnection'
  <2> DEFINE u == link[s].uri
  <2>1. u \in Uri /\ (conn' = conn \/ conn' = [conn EXCEPT ![u] = Opened(conn[u])])
    BY <1>6, EstablishEffect
  <2>2. Own(Opened(conn[u]))
    BY <2>1, <1>a, OpenedFacts DEF Same, Own
  <2> QED
    BY <1>c, <1>e, <2>1, <2>2
<1>7. ASSUME NEW s \in Socket, NEW status \in Terminal, Ends(s, status)
      PROVE  FramesStayOnTheirConnection'
  <2> DEFINE u == link[s].uri
  <2>1. u \in Uri /\ (conn' = conn \/ conn' = [conn EXCEPT ![u] = Cut(conn[u])])
    BY <1>7, EndsEffect
  <2>2. Own(Cut(conn[u]))
    BY <2>1, <1>a, <1>d, CutFacts
  <2> QED
    BY <1>c, <1>e, <2>1, <2>2
<1>8. ASSUME NEW s \in Socket, NEW final \in BOOLEAN, Receive(s, final)
      PROVE  FramesStayOnTheirConnection'
  <2> DEFINE u == link[s].uri
             a == IF final THEN <<>> ELSE Data(s)
             b == ~final /\ TooLong(conn[u])
  <2>1. u \in Uri /\ conn' = [conn EXCEPT ![u] = Filled(conn[u], a, b)]
    BY <1>8, ReceiveEffect, Zenon
  <2>2. b \in BOOLEAN
    OBVIOUS
  <2>3. a \in Seq(1 .. MaxFragments)
    <3>1. Data(s) \in Seq(1 .. MaxFragments)
      BY <1>8, ReceiveEffect, Zenon
    <3>2. CASE final
      BY <3>2
    <3>3. CASE ~final
      BY <3>1, <3>3
    <3> QED
      BY <3>2, <3>3
  <2> HIDE DEF a, b
  <2>4. Own(Filled(conn[u], a, b))
    BY <2>1, <2>2, <2>3, <1>a, FilledFacts DEF Same, Own
  <2> QED
    BY <1>c, <2>1, <2>4
<1>9. ASSUME NEW created \in BOOLEAN, ReloadCredentials(created)
      PROVE  FramesStayOnTheirConnection'
  <2>1. \A u \in Uri : conn'[u] = Cut(conn[u]) \/ conn'[u] = conn[u]
    BY <1>9, ReloadEffect
  <2>2. \A u \in Uri : Own(Cut(conn[u]))
    BY <1>a, <1>d, CutFacts
  <2> QED
    BY <1>a, <1>b, <2>1, <2>2
<1>10. CASE PopReceived \/ RequestReload \/ EndTick \/ EndService \/ ReportStatus \/ EndReport \/ UNCHANGED vars
  BY <1>e, <1>10 DEF PopReceived, RequestReload, EndTick, EndService, ReportStatus, EndReport, vars
<1>11. \A s \in Socket : ConnectionError(s) \/ Closed(s) \/ Close(s) =>
         \E status \in Terminal : Ends(s, status)
  BY DEF ConnectionError, Closed, Close, Terminal
<1>12. /\ \A u \in Uri : ConnectWithoutContext(u) => conn' = conn
       /\ \A s \in Socket : ReceiveStale(s) => conn' = conn
  BY DEF ConnectWithoutContext, ReceiveStale
<1> QED
  BY <1>e, <1>2, <1>3, <1>4, <1>5, <1>6, <1>7, <1>8, <1>9, <1>10, <1>11, <1>12 DEF Next

\* A frame the stack sends is written on the connection it was accepted for or not
\* at all: a new attempt begins, and an ended one is left, with nothing to write.
THEOREM FramesStay == Spec => []FramesStayOnTheirConnection
PROOF
<1>1. Init => FramesStayOnTheirConnection
  BY DEF Init, FramesStayOnTheirConnection
<1>2. TypeOK /\ FramesStayOnTheirConnection /\ [Next]_vars => FramesStayOnTheirConnection'
  BY FramesStayStep
<1> QED
  BY <1>1, <1>2, TypeCorrect, PTL DEF Spec

-----------------------------------------------------------------------------
(* Messages received *)

\* What is put together counts up from the first fragment, and is as far as the
\* message is unless that is too long.
Prefix(q)     == \A k \in DOMAIN q : q[k] = k
UpTo(c, sent) == IF c.overflow THEN c.assembly = <<>> ELSE Len(c.assembly) = sent

LEMMA DataIsAPrefix ==
  ASSUME TypeOK, Assembling, NEW s \in Socket, NEW final \in BOOLEAN, Receive(s, final)
  PROVE  /\ Prefix(Data(s))
         /\ IF TooLong(conn[link[s].uri]) THEN Data(s) = <<>> ELSE Len(Data(s)) = link[s].sent + 1
PROOF
<1> DEFINE u == link[s].uri
           c == conn[u]
<1>1. u \in Uri /\ c.socket = s /\ s # NoSocket
  BY ReceiveEffect, ConstantFacts, Zenon
<1>2. CASE TooLong(c)
  BY <1>2 DEF Data, Prefix
<1>3. CASE ~TooLong(c)
  <2>1. c.assembly \in Seq(1 .. MaxFragments) /\ link[s].sent \in Nat
    BY <1>1, ConstantFacts DEF TypeOK, Connection, Link
  <2>2. Prefix(c.assembly) /\ Len(c.assembly) = link[s].sent
    <3>1. ~c.overflow
      BY <1>3 DEF TooLong
    <3> QED
      BY <1>1, <3>1 DEF Assembling, Prefix
  <2>3. Data(s) = Append(c.assembly, link[s].sent + 1)
    BY <1>3 DEF Data
  <2> HIDE DEF c
  <2> QED
    BY <1>3, <2>1, <2>2, <2>3 DEF Prefix, c
<1> QED
  BY <1>2, <1>3

LEMMA AssemblingStep == TypeOK /\ Attached /\ Assembling /\ [Next]_vars => Assembling'
PROOF
<1> SUFFICES ASSUME TypeOK, Attached, Assembling, [Next]_vars
             PROVE  Assembling'
  OBVIOUS
<1>a. \A u \in Uri : /\ conn[u] \in Connection /\ conn[u].socket \in Socket \cup {NoSocket}
                     /\ Prefix(conn[u].assembly)
                     /\ conn[u].socket # NoSocket => UpTo(conn[u], link[conn[u].socket].sent)
  BY DEF TypeOK, Assembling, Connection, Prefix, UpTo
<1>b. ASSUME \A u \in Uri : /\ Prefix(conn'[u].assembly)
                            /\ conn'[u].socket # NoSocket => UpTo(conn'[u], link'[conn'[u].socket].sent)
      PROVE  Assembling'
  BY <1>b DEF Assembling, Prefix, UpTo
\* Nobody but the connection of s depends on the link of s.
<1>c. ASSUME NEW s \in Socket, NEW u \in Uri, link[s].uri = u,
             \A r \in Socket : r # s => link'[r] = link[r],
             \A v \in Uri : v # u => conn'[v] = conn[v]
      PROVE  \A v \in Uri : v # u =>
               /\ Prefix(conn'[v].assembly)
               /\ conn'[v].socket # NoSocket => UpTo(conn'[v], link'[conn'[v].socket].sent)
  <2>1. \A v \in Uri : v # u => conn[v].socket # s
    BY <1>c, ConstantFacts DEF Attached
  <2> QED
    BY <1>a, <1>c, <2>1
<1>1. ASSUME NEW u \in Uri, Connect(u)
      PROVE  Assembling'
  <2>1. PICK s \in Socket : /\ link[s].state = "gone"
                            /\ conn' = [conn EXCEPT ![u] = Fresh(u, s)]
                            /\ link' = [link EXCEPT ![s] = [Gone EXCEPT !.state = "connecting", !.uri = u]]
    BY <1>1 DEF Connect
  <2>2. /\ conn'[u].socket = s /\ conn'[u].assembly = <<>> /\ ~conn'[u].overflow
        /\ link'[s].sent = 0
    BY <2>1 DEF TypeOK, Fresh, Gone
  <2>3. \A v \in Uri : v # u => conn'[v] = conn[v] /\ conn[v].socket # s
    BY <2>1, ConstantFacts DEF TypeOK, Attached
  <2>4. \A r \in Socket : r # s => link'[r] = link[r]
    BY <2>1 DEF TypeOK
  <2>5. Prefix(conn'[u].assembly) /\ UpTo(conn'[u], link'[s].sent)
    BY <2>2 DEF Prefix, UpTo
  <2> QED
    BY <2>2, <2>3, <2>4, <2>5, <1>a, <1>b
<1>2. ASSUME NEW u \in Uri, ConnectFails(u)
      PROVE  Assembling'
  <2>1. conn'[u].socket = NoSocket /\ Prefix(conn'[u].assembly)
    BY <1>2 DEF ConnectFails, TypeOK, Fresh, Prefix
  <2>2. \A v \in Uri : v # u => conn'[v] = conn[v]
    BY <1>2 DEF ConnectFails, TypeOK
  <2>3. link' = link
    BY <1>2 DEF ConnectFails
  <2> QED
    BY <2>1, <2>2, <2>3, <1>a, <1>b
<1>3. ASSUME (\E u \in Uri : Disconnect(u) \/ Send(u)) \/ (\E s \in Socket : WriteFrame(s))
      PROVE  Assembling'
  BY <1>3, <1>a, <1>b, QuietSteps DEF UpTo
<1>4. ASSUME NEW s \in Socket, Establish(s)
      PROVE  Assembling'
  <2> DEFINE u == link[s].uri
             d == Opened(conn[u])
  <2>1. CASE conn[u].socket = s
    <3>1. u \in Uri /\ conn' = [conn EXCEPT ![u] = d]
      BY <2>1, <1>4, EstablishEffect
    <3>2. d.assembly = conn[u].assembly /\ d.overflow = conn[u].overflow /\ d.socket = conn[u].socket
      BY <3>1, <1>a, OpenedFacts DEF Same
    <3> HIDE DEF d
    <3>3. \A v \in Uri : /\ conn'[v].assembly = conn[v].assembly /\ conn'[v].overflow = conn[v].overflow
                         /\ conn'[v].socket = conn[v].socket
      BY <3>1, <3>2 DEF TypeOK
    <3>4. \A r \in Socket : link'[r].sent = link[r].sent
      <4>1. PICK owed \in BOOLEAN : link' = [link EXCEPT ![s] = [link[s] EXCEPT !.state = "open", !.wants = owed]]
        BY <2>1, <1>4, EstablishEffect
      <4>2. [link[s] EXCEPT !.state = "open", !.wants = owed].sent = link[s].sent
        <5> DEFINE l == [link[s] EXCEPT !.state = "open"]
        <5>1. l \in Link /\ l.sent = link[s].sent
          BY DEF TypeOK, Link
        <5> HIDE DEF l
        <5>2. [l EXCEPT !.wants = owed].sent = l.sent
          BY <5>1 DEF Link
        <5> QED
          BY <5>1, <5>2 DEF l
      <4> QED
        BY <4>1, <4>2 DEF TypeOK
    <3> QED
      BY <3>3, <3>4, <1>a, <1>b DEF UpTo
  <2>2. CASE conn[u].socket # s
    <3>1. u \in Uri /\ conn' = conn /\ link' = [link EXCEPT ![s] = Gone]
      BY <2>2, <1>4, EstablishEffect
    <3>2. \A v \in Uri : conn[v].socket # s
      BY <2>2, ConstantFacts DEF Attached
    <3> QED
      BY <3>1, <3>2, <1>a, <1>b DEF TypeOK
  <2> QED
    BY <2>1, <2>2
<1>5. ASSUME NEW s \in Socket, NEW status \in Terminal, Ends(s, status)
      PROVE  Assembling'
  <2> DEFINE u == link[s].uri
             d == Cut(conn[u])
  <2>0. u \in Uri /\ link' = [link EXCEPT ![s] = Gone]
    BY <1>5, EndsEffect
  <2>1. CASE conn[u].socket = s
    <3>1. conn' = [conn EXCEPT ![u] = d]
      BY <2>1, <1>5, EndsEffect
    <3>2. d.assembly = conn[u].assembly /\ d.socket = NoSocket
      BY <2>0, <1>a, CutFacts DEF Same
    <3> HIDE DEF d
    <3>3. conn'[u] = d /\ (\A v \in Uri : v # u => conn'[v] = conn[v])
      BY <2>0, <3>1 DEF TypeOK
    <3>4. \A r \in Socket : r # s => link'[r] = link[r]
      BY <2>0 DEF TypeOK
    <3>5. \A v \in Uri : v # u =>
               /\ Prefix(conn'[v].assembly)
               /\ conn'[v].socket # NoSocket => UpTo(conn'[v], link'[conn'[v].socket].sent)
      BY <2>0, <3>3, <3>4, <1>c
    <3> QED
      BY <2>0, <3>2, <3>3, <3>5, <1>a, <1>b
  <2>2. CASE conn[u].socket # s
    <3>1. conn' = conn
      BY <2>2, <1>5, EndsEffect
    <3>2. \A v \in Uri : conn[v].socket # s
      BY <2>2, ConstantFacts DEF Attached
    <3> QED
      BY <2>0, <3>1, <3>2, <1>a, <1>b DEF TypeOK
  <2> QED
    BY <2>1, <2>2
<1>6. ASSUME NEW s \in Socket, ReceiveStale(s)
      PROVE  Assembling'
  <2>1. conn' = conn /\ link' = [link EXCEPT ![s] = Gone] /\ conn[link[s].uri].socket # s
    BY <1>6 DEF ReceiveStale, Bury, Current
  <2>2. \A v \in Uri : conn[v].socket # s
    BY <2>1, ConstantFacts DEF Attached
  <2> QED
    BY <2>1, <2>2, <1>a, <1>b DEF TypeOK
<1>7. ASSUME NEW s \in Socket, NEW final \in BOOLEAN, Receive(s, final)
      PROVE  Assembling'
  <2> DEFINE u == link[s].uri
             a == IF final THEN <<>> ELSE Data(s)
             b == ~final /\ TooLong(conn[u])
             d == Filled(conn[u], a, b)
             n == IF final THEN 0 ELSE link[s].sent + 1
  <2>1. u \in Uri /\ conn[u].socket = s
    BY <1>7, ReceiveEffect, Zenon
  <2>2. conn' = [conn EXCEPT ![u] = d]
    BY <1>7, ReceiveEffect, Zenon
  <2>3. b \in BOOLEAN
    OBVIOUS
  <2>4. a \in Seq(1 .. MaxFragments)
    <3>1. Data(s) \in Seq(1 .. MaxFragments)
      BY <1>7, ReceiveEffect, Zenon
    <3>2. CASE final
      BY <3>2
    <3>3. CASE ~final
      BY <3>1, <3>3
    <3> QED
      BY <3>2, <3>3
  <2>5. Prefix(a) /\ IF b THEN a = <<>> ELSE Len(a) = n
    <3>1. Prefix(Data(s)) /\ IF TooLong(conn[u]) THEN Data(s) = <<>> ELSE Len(Data(s)) = link[s].sent + 1
      BY <1>7, DataIsAPrefix
    <3>2. CASE final
      BY <3>2 DEF Prefix
    <3>3. CASE ~final
      BY <3>1, <3>3
    <3> QED
      BY <3>2, <3>3
  <2>6. link' = [link EXCEPT ![s] = [link[s] EXCEPT !.sent = n]]
    BY <1>7, ReceiveEffect, Zenon
  <2> HIDE DEF a, b, n
  <2>7. d.assembly = a /\ d.overflow = b /\ d.socket = s
    BY <2>1, <2>3, <2>4, <1>a, FilledFacts DEF Same
  <2> HIDE DEF d
  <2>8. conn'[u] = d /\ (\A v \in Uri : v # u => conn'[v] = conn[v])
    BY <2>1, <2>2 DEF TypeOK
  <2>9. link'[s].sent = n /\ \A r \in Socket : r # s => link'[r] = link[r]
    BY <2>6 DEF TypeOK, Link
  <2>10. Prefix(conn'[u].assembly) /\ UpTo(conn'[u], link'[conn'[u].socket].sent)
    BY <2>5, <2>7, <2>8, <2>9 DEF UpTo
  <2>11. \A v \in Uri : v # u =>
               /\ Prefix(conn'[v].assembly)
               /\ conn'[v].socket # NoSocket => UpTo(conn'[v], link'[conn'[v].socket].sent)
    BY <2>1, <2>8, <2>9, <1>c
  <2> QED
    BY <2>10, <2>11, <1>b
<1>8. ASSUME NEW created \in BOOLEAN, ReloadCredentials(created)
      PROVE  Assembling'
  BY <1>8, <1>a, <1>b, ReloadDetaches
<1>9. ASSUME conn' = conn, link' = link
      PROVE  Assembling'
  BY <1>9 DEF Assembling
<1>10. CASE PopReceived \/ RequestReload \/ EndTick \/ EndService \/ ReportStatus \/ EndReport \/ UNCHANGED vars
  BY <1>9, <1>10 DEF PopReceived, RequestReload, EndTick, EndService, ReportStatus, EndReport, vars
<1>11. \A s \in Socket : ConnectionError(s) \/ Closed(s) \/ Close(s) =>
         \E status \in Terminal : Ends(s, status)
  BY DEF ConnectionError, Closed, Close, Terminal
<1>12. \A u \in Uri : ConnectWithoutContext(u) => conn' = conn /\ link' = link
  BY DEF ConnectWithoutContext
<1> QED
  BY <1>1, <1>2, <1>3, <1>4, <1>5, <1>6, <1>7, <1>8, <1>9, <1>10, <1>11, <1>12 DEF Next

LEMMA FramesWholeStep ==
  TypeOK /\ Assembling /\ FramesAreWhole /\ [Next]_vars => FramesAreWhole'
PROOF
<1> SUFFICES ASSUME TypeOK, Assembling, FramesAreWhole, [Next]_vars
             PROVE  FramesAreWhole'
  OBVIOUS
<1>1. ASSUME received' = received
      PROVE  FramesAreWhole'
  BY <1>1 DEF FramesAreWhole
<1>2. ASSUME NEW s \in Socket, NEW final \in BOOLEAN, Receive(s, final)
      PROVE  FramesAreWhole'
  <2> DEFINE f == [uri |-> link[s].uri, data |-> Data(s)]
  <2>1. Prefix(f.data) /\ Len(f.data) <= MaxFrame
    <3>1. Len(Data(s)) <= MaxFrame
      BY <1>2, ReceiveEffect, Zenon
    <3> QED
      BY <3>1, <1>2, DataIsAPrefix
  <2>2. received' = received \/ received' = Append(received, f)
    BY <1>2, ReceiveEffect, Zenon
  <2> HIDE DEF f
  <2>3. CASE received' = Append(received, f)
    <3>1. received \in Seq(Frame)
      BY DEF TypeOK
    <3>2. \A i \in DOMAIN received' : (i \in DOMAIN received /\ received'[i] = received[i]) \/ received'[i] = f
      BY <2>3, <3>1
    <3> QED
      BY <2>1, <3>2 DEF FramesAreWhole, Prefix
  <2> QED
    BY <1>1, <2>2, <2>3
<1>3. CASE PopReceived
  <2>1. received \in Seq(Frame) /\ received # <<>> /\ received' = Tail(received)
    BY <1>3 DEF PopReceived, TypeOK
  <2>2. \A i \in DOMAIN received' : i + 1 \in DOMAIN received /\ received'[i] = received[i + 1]
    BY <2>1
  <2> QED
    BY <2>2 DEF FramesAreWhole
<1>4. CASE RequestReload \/ EndTick \/ EndService \/ ReportStatus \/ EndReport \/ UNCHANGED vars
  BY <1>1, <1>4 DEF RequestReload, EndTick, EndService, ReportStatus, EndReport, vars
<1>5. \A u \in Uri : ConnectWithoutContext(u) \/ Connect(u) \/ ConnectFails(u) \/ Disconnect(u) \/ Send(u)
                       => received' = received
  BY DEF ConnectWithoutContext, Connect, ConnectFails, Disconnect, Send
<1>6. \A s \in Socket : Establish(s) \/ ConnectionError(s) \/ Closed(s) \/ ReceiveStale(s) \/ Close(s) \/ WriteFrame(s)
                          => received' = received
  BY DEF Establish, ConnectionError, Closed, ReceiveStale, Close, WriteFrame, Ends
<1>7. \A created \in BOOLEAN : ReloadCredentials(created) => received' = received
  BY DEF ReloadCredentials
<1> QED
  BY <1>1, <1>2, <1>3, <1>4, <1>5, <1>6, <1>7 DEF Next

\* The stack never gets fragments of two messages, or of two connections, in one
\* frame, nor one longer than the ceiling.
THEOREM FramesWhole == Spec => []FramesAreWhole
PROOF
<1> DEFINE Inv == Attached /\ Assembling /\ FramesAreWhole
<1>1. Init => Inv
  BY DEF Init, Attached, Assembling, FramesAreWhole
<1>2. TypeOK /\ Inv /\ [Next]_vars => Inv'
  BY AttachedStep, AssemblingStep, FramesWholeStep
<1>3. Inv => FramesAreWhole
  OBVIOUS
<1> HIDE DEF Inv
<1> QED
  BY <1>1, <1>2, <1>3, TypeCorrect, PTL DEF Spec

-----------------------------------------------------------------------------
(* What the stack is told *)

\* What must hold of a hub for the queue q, the connection's state o and the
\* stack's belief t: the last status waiting, or what the stack knows, is right.
LastWord(q, u, o) ==
  \A i \in DOMAIN q :
    q[i].uri = u /\ (\A j \in DOMAIN q : j > i => q[j].uri # u) => (q[i].status = "Connected" <=> o)
Silent(q, u) == \A i \in DOMAIN q : q[i].uri # u
Told(q, u, o, t) == LastWord(q, u, o) /\ (Silent(q, u) => (t = "Connected" <=> o))

\* A status appended is the last word about its hub and says nothing of another.
LEMMA AppendTold ==
  ASSUME NEW q \in Seq(Event), NEW e \in Event, NEW u, NEW o \in BOOLEAN, NEW t
  PROVE  /\ e.uri = u /\ (e.status = "Connected" <=> o) => Told(Append(q, e), u, o, t)
         /\ e.uri # u /\ Told(q, u, o, t) => Told(Append(q, e), u, o, t)
PROOF
<1> DEFINE r == Append(q, e)
<1>1. /\ r \in Seq(Event) /\ Len(r) = Len(q) + 1 /\ r[Len(q) + 1] = e /\ Len(q) \in Nat
      /\ \A i \in 1 .. Len(q) : r[i] = q[i]
      /\ DOMAIN r = 1 .. Len(q) + 1 /\ DOMAIN q = 1 .. Len(q)
  OBVIOUS
<1> HIDE DEF r
<1>2. ASSUME e.uri = u, e.status = "Connected" <=> o
      PROVE  Told(r, u, o, t)
  <2>1. ~Silent(r, u)
    BY <1>1, <1>2 DEF Silent
  <2>2. \A i \in DOMAIN r : (\A j \in DOMAIN r : j > i => r[j].uri # u) => i = Len(q) + 1
    BY <1>1, <1>2
  <2> QED
    BY <1>1, <1>2, <2>1, <2>2 DEF Told, LastWord
<1>3. ASSUME e.uri # u, Told(q, u, o, t)
      PROVE  Told(r, u, o, t)
  <2>1. Silent(r, u) => Silent(q, u)
    BY <1>1 DEF Silent
  <2>2. ASSUME NEW i \in DOMAIN r, r[i].uri = u, \A j \in DOMAIN r : j > i => r[j].uri # u
        PROVE  r[i].status = "Connected" <=> o
    <3>1. i \in DOMAIN q /\ r[i] = q[i] /\ q[i].uri = u
      BY <1>1, <1>3, <2>2
    <3>2. \A j \in DOMAIN q : j > i => q[j].uri # u
      BY <1>1, <2>2
    <3> QED
      BY <1>3, <3>1, <3>2 DEF Told, LastWord
  <2> QED
    BY <1>3, <2>1, <2>2 DEF Told, LastWord
<1> QED
  BY <1>2, <1>3 DEF r

\* The status at the head, once reported, is what the stack knows.
LEMMA TailTold ==
  ASSUME NEW q \in Seq(Event), q # <<>>, NEW u, NEW o \in BOOLEAN, NEW t, Told(q, u, o, t)
  PROVE  Told(Tail(q), u, o, IF Head(q).uri = u THEN Head(q).status ELSE t)
PROOF
<1> DEFINE r == Tail(q)
<1>1. /\ Len(q) \in Nat /\ Len(q) > 0 /\ Head(q) = q[1]
      /\ DOMAIN r = 1 .. Len(q) - 1 /\ DOMAIN q = 1 .. Len(q)
      /\ \A i \in 1 .. Len(q) - 1 : r[i] = q[i + 1]
  OBVIOUS
<1> HIDE DEF r
<1>2. LastWord(r, u, o)
  <2> SUFFICES ASSUME NEW i \in DOMAIN r, r[i].uri = u, \A j \in DOMAIN r : j > i => r[j].uri # u
               PROVE  r[i].status = "Connected" <=> o
    BY DEF LastWord
  <2>1. i + 1 \in DOMAIN q /\ r[i] = q[i + 1]
    BY <1>1
  <2>2. ASSUME NEW k \in DOMAIN q, k > i + 1
        PROVE  q[k].uri # u
    <3>1. k - 1 \in DOMAIN r /\ k - 1 > i /\ r[k - 1] = q[k]
      BY <1>1, <2>2
    <3> QED
      BY <3>1
  <2> QED
    BY <2>1, <2>2 DEF Told, LastWord
<1>3. ASSUME Silent(r, u)
      PROVE  (IF Head(q).uri = u THEN Head(q).status ELSE t) = "Connected" <=> o
  <2>1. \A k \in DOMAIN q : k > 1 => q[k].uri # u
    <3> TAKE k \in DOMAIN q
    <3>1. k > 1 => k - 1 \in DOMAIN r /\ r[k - 1] = q[k]
      BY <1>1
    <3> QED
      BY <1>3, <3>1 DEF Silent
  <2>2. CASE q[1].uri = u
    BY <2>1, <2>2, <1>1 DEF Told, LastWord
  <2>3. CASE q[1].uri # u
    <3>1. Silent(q, u)
      BY <1>1, <2>1, <2>3 DEF Silent
    <3> QED
      BY <2>3, <3>1, <1>1 DEF Told
  <2> QED
    BY <2>2, <2>3
<1> QED
  BY <1>2, <1>3 DEF Told, r

\* After a reload: what was live is reported as disconnected, the rest was not open.
LEMMA CutsTold ==
  ASSUME NEW q \in Seq(Uri), NEW u \in Uri, NEW t
  PROVE  IF \E i \in DOMAIN q : q[i] = u THEN Told(Cuts(q), u, FALSE, t) ELSE Silent(Cuts(q), u)
PROOF
<1>1. Len(q) \in Nat /\ DOMAIN q = 1 .. Len(q) /\ Cuts(q) \in Seq(Event) /\ DOMAIN Cuts(q) = 1 .. Len(q)
  BY CutsTyped
<1>2. \A i \in 1 .. Len(q) : Cuts(q)[i].uri = q[i] /\ Cuts(q)[i].status # "Connected"
  BY CutsTyped
<1> QED
  BY <1>1, <1>2 DEF Told, LastWord, Silent

\* Inductive with the types: what is waiting, or known, about each hub is right.
TruthInv ==
  /\ \A u \in Uri : Told(events, u, conn[u].open, told[u])
  /\ OnlyEndsWaitForTheStack /\ NoContextNoConnection

LEMMA TruthImplies == TruthInv /\ TypeOK => ToldTheTruth
PROOF
<1> SUFFICES ASSUME TruthInv, NEW u \in Uri, ~Waiting(u)
             PROVE  told[u] = "Connected" <=> conn[u].open
  BY DEF ToldTheTruth
<1>1. Silent(events, u)
  BY DEF Waiting, Silent
<1> QED
  BY <1>1 DEF TruthInv, Told

\* In the stack's turn only ends are waiting, so a new attempt, not open, is what
\* the last word says.
LEMMA EndsTold ==
  ASSUME NEW q \in Seq(Event), \A i \in DOMAIN q : q[i].status \in Terminal,
         NEW u, NEW t, t # "Connected"
  PROVE  Told(q, u, FALSE, t)
PROOF BY DEF Told, LastWord, Terminal

LEMMA StackStepsTold ==
  ASSUME TypeOK, TruthInv, NEW u \in Uri,
         ConnectWithoutContext(u) \/ Connect(u) \/ ConnectFails(u) \/ Disconnect(u) \/ Send(u)
  PROVE  TruthInv'
PROOF
<1> USE DEF TruthInv
<1>a. /\ \A v \in Uri : conn[v].open \in BOOLEAN
      /\ events \in Seq(Event)
  BY DEF TypeOK, Connection
\* An attempt begins: u is not open and the stack is waiting for it.
<1>b. ASSUME phase = "stack", phase' = phase, context, context' = context,
             told' = [told EXCEPT ![u] = "Connecting"],
             \A v \in Uri : v # u => conn'[v] = conn[v],
             ~conn'[u].open,
             \/ events' = events
             \/ events' = Append(events, [uri |-> u, status |-> "Error"])
      PROVE  TruthInv'
  <2> DEFINE e == [uri |-> u, status |-> "Error"]
  <2>1. e \in Event /\ e.uri = u /\ e.status \in Terminal /\ e.status # "Connected"
    BY DEF Event, Status, Terminal
  <2> HIDE DEF e
  <2>2. \A i \in DOMAIN events : events[i].status \in Terminal
    BY <1>b DEF OnlyEndsWaitForTheStack
  <2>3. told'[u] = "Connecting" /\ \A v \in Uri : v # u => told'[v] = told[v]
    BY <1>b DEF TypeOK
  <2>4. events' = events \/ events' = Append(events, e)
    BY <1>b DEF e
  <2>5. OnlyEndsWaitForTheStack'
    <3>1. \A i \in DOMAIN events' : events'[i].status \in Terminal
      BY <1>a, <2>1, <2>2, <2>4
    <3> QED
      BY <1>b, <3>1 DEF OnlyEndsWaitForTheStack
  <2>6. Told(events', u, conn'[u].open, told'[u])
    <3>1. events' \in Seq(Event)
      BY <1>a, <2>1, <2>4
    <3>2. \A i \in DOMAIN events' : events'[i].status \in Terminal
      BY <1>a, <2>1, <2>2, <2>4
    <3>3. Told(events', u, FALSE, told'[u])
      BY <2>3, <3>1, <3>2, EndsTold
    <3> QED
      BY <3>3, <1>b DEF Told, LastWord
  <2>7. ASSUME NEW v \in Uri, v # u
        PROVE  Told(events', v, conn'[v].open, told'[v])
    <3>1. Told(events, v, conn[v].open, told[v]) /\ conn'[v] = conn[v] /\ told'[v] = told[v]
      BY <1>b, <2>3, <2>7
    <3>2. Told(Append(events, e), v, conn[v].open, told[v])
      BY <1>a, <2>1, <2>7, <3>1, AppendTold
    <3> QED
      BY <2>4, <3>1, <3>2
  <2> QED
    BY <1>b, <2>5, <2>6, <2>7 DEF NoContextNoConnection
<1>1. CASE ConnectWithoutContext(u)
  <2>1. ~conn[u].open /\ told'[u] = "Error" /\ \A v \in Uri : v # u => told'[v] = told[v]
    BY <1>1 DEF ConnectWithoutContext, NoContextNoConnection, TypeOK
  <2>2. conn' = conn /\ events' = events /\ phase' = phase /\ context' = context
    BY <1>1 DEF ConnectWithoutContext, main
  <2>3. Told(events, u, conn[u].open, "Error")
    BY <2>1 DEF Told
  <2> QED
    BY <2>1, <2>2, <2>3 DEF OnlyEndsWaitForTheStack, NoContextNoConnection
<1>2. CASE Connect(u)
  <2>1. PICK s \in Socket : conn' = [conn EXCEPT ![u] = Fresh(u, s)]
    BY <1>2 DEF Connect
  <2>2. ~conn'[u].open /\ \A v \in Uri : v # u => conn'[v] = conn[v]
    BY <2>1 DEF TypeOK, Fresh
  <2>3. /\ phase = "stack" /\ phase' = phase /\ context /\ context' = context
        /\ told' = [told EXCEPT ![u] = "Connecting"] /\ events' = events
    BY <1>2 DEF Connect, MayConnect, main
  <2> QED
    BY <1>b, <2>2, <2>3
<1>3. CASE ConnectFails(u)
  BY <1>3, <1>b DEF ConnectFails, MayConnect, main, TypeOK, Fresh
<1>4. CASE Disconnect(u) \/ Send(u)
  BY <1>4, QuietSteps DEF OnlyEndsWaitForTheStack, NoContextNoConnection
<1> QED
  BY <1>1, <1>2, <1>3, <1>4

\* A callback changes the connection of u and says so.
LEMMA CallbackTold ==
  ASSUME TypeOK, TruthInv, phase = "lws", phase' = phase, context' = context, told' = told,
         NEW u \in Uri, NEW d \in Connection, NEW status \in Status,
         conn' = [conn EXCEPT ![u] = d], QueueStatus(u, status),
         status = "Connected" <=> d.open, conn[u].socket # NoSocket
  PROVE  TruthInv'
PROOF
<1> DEFINE e == [uri |-> u, status |-> status]
<1>1. e \in Event /\ e.uri = u /\ e.status = status /\ events' = Append(events, e)
  BY DEF Event, QueueStatus
<1>2. events \in Seq(Event) /\ conn'[u] = d /\ (\A v \in Uri : v # u => conn'[v] = conn[v])
  BY DEF TypeOK
<1>3. \A v \in Uri : conn[v].open \in BOOLEAN /\ conn'[v].open \in BOOLEAN
  BY <1>2 DEF TypeOK, Connection
<1> HIDE DEF e
<1>4. Told(events', u, conn'[u].open, told'[u])
  BY <1>1, <1>2, <1>3, AppendTold
<1>5. ASSUME NEW v \in Uri, v # u
      PROVE  Told(events', v, conn'[v].open, told'[v])
  BY <1>1, <1>2, <1>3, <1>5, AppendTold DEF TruthInv
<1>6. context
  BY DEF TruthInv, NoContextNoConnection
<1> QED
  BY <1>4, <1>5, <1>6 DEF TruthInv, OnlyEndsWaitForTheStack, NoContextNoConnection

LEMMA CallbacksTold ==
  ASSUME TypeOK, TruthInv, NEW s \in Socket,
         \/ Establish(s) \/ ConnectionError(s) \/ Closed(s) \/ Close(s) \/ ReceiveStale(s) \/ WriteFrame(s)
         \/ \E final \in BOOLEAN : Receive(s, final)
  PROVE  TruthInv'
PROOF
<1> DEFINE u == link[s].uri
<1>a. u \in Uri /\ conn[u] \in Connection /\ s # NoSocket
  BY ConstantFacts DEF TypeOK, Link
\* What changes neither the connections' state nor the queue.
<1>b. ASSUME \A v \in Uri : conn'[v].open = conn[v].open /\ conn'[v].socket = conn[v].socket,
             events' = events, phase' = phase, context' = context, told' = told
      PROVE  TruthInv'
  BY <1>b DEF TruthInv, OnlyEndsWaitForTheStack, NoContextNoConnection
<1>1. CASE Establish(s)
  <2> DEFINE d == Opened(conn[u])
  <2>0. phase = "lws" /\ phase' = phase /\ context' = context /\ told' = told
    BY <1>1 DEF Establish, main, stack
  <2>1. CASE conn[u].socket = s
    <3>1. conn' = [conn EXCEPT ![u] = d] /\ QueueStatus(u, "Connected")
      BY <1>1, <2>1, EstablishEffect
    <3>2. d \in Connection /\ d.open /\ "Connected" \in Status
      BY <1>a, OpenedFacts DEF Status
    <3> HIDE DEF d
    <3> QED
      BY <1>a, <2>0, <2>1, <3>1, <3>2, CallbackTold
  <2>2. CASE conn[u].socket # s
    BY <1>1, <1>b, <2>0, <2>2, EstablishEffect
  <2> QED
    BY <2>1, <2>2
<1>2. ASSUME NEW status \in Terminal, phase = "lws", Ends(s, status)
      PROVE  TruthInv'
  <2> DEFINE d == Cut(conn[u])
  <2>0. phase' = phase /\ context' = context /\ told' = told
    BY <1>2 DEF Ends, main, stack
  <2>1. CASE conn[u].socket = s
    <3>1. conn' = [conn EXCEPT ![u] = d] /\ QueueStatus(u, status)
      BY <1>2, <2>1, EndsEffect
    <3>2. d \in Connection /\ ~d.open /\ status \in Status /\ status # "Connected"
      BY <1>a, CutFacts DEF Status, Terminal
    <3> HIDE DEF d
    <3> QED
      BY <1>a, <1>2, <2>0, <2>1, <3>1, <3>2, CallbackTold
  <2>2. CASE conn[u].socket # s
    BY <1>2, <1>b, <2>0, <2>2, EndsEffect
  <2> QED
    BY <2>1, <2>2
<1>3. CASE ConnectionError(s) \/ Closed(s) \/ Close(s)
  BY <1>2, <1>3 DEF ConnectionError, Closed, Close, Terminal
<1>4. CASE ReceiveStale(s)
  BY <1>4, <1>b DEF ReceiveStale, main, stack
<1>5. CASE WriteFrame(s)
  BY <1>5, <1>b, QuietSteps
<1>6. ASSUME NEW final \in BOOLEAN, Receive(s, final)
      PROVE  TruthInv'
  <2>1. \A v \in Uri : conn'[v].open = conn[v].open /\ conn'[v].socket = conn[v].socket
    <3>1. conn \in [Uri -> Connection]
      BY DEF TypeOK
    <3>2. \A v \in Uri : conn[v] \in Connection
      BY <3>1
    <3>3. PICK data, overflow : conn' = [conn EXCEPT ![u].assembly = data, ![u].overflow = overflow]
      BY <1>6, Zenon DEF Receive
    <3> QED
      BY <3>1, <3>2, <3>3 DEF Connection
  <2> QED
    BY <1>6, <1>b, <2>1 DEF Receive, main, stack
<1> QED
  BY <1>1, <1>3, <1>4, <1>5, <1>6

LEMMA ReloadTold ==
  ASSUME TypeOK, TruthInv, NEW created \in BOOLEAN, ReloadCredentials(created)
  PROVE  TruthInv'
PROOF
<1>1. PICK q \in Seq(Uri) : /\ events' = events \o Cuts(q)
                            /\ \A u \in Uri : Live(u) <=> \E i \in DOMAIN q : q[i] = u
  BY ReloadEffect
<1>2. events' = Cuts(q)
  <2>1. events = <<>> /\ Cuts(q) \in Seq(Event)
    BY CutsTyped DEF ReloadCredentials, TruthInv, OnlyEndsWaitForTheStack
  <2> QED
    BY <1>1, <2>1
<1>3. ASSUME NEW u \in Uri
      PROVE  Told(events', u, conn'[u].open, told'[u])
  <2>0. ~conn'[u].open /\ told' = told
    BY ReloadDetaches DEF ReloadCredentials, stack
  <2>1. CASE Live(u)
    <3>1. Told(Cuts(q), u, FALSE, told[u])
      BY <1>1, <2>1, CutsTold
    <3> QED
      BY <1>2, <2>0, <3>1 DEF Told, LastWord
  <2>2. CASE ~Live(u)
    <3>1. Silent(Cuts(q), u)
      BY <1>1, <2>2, CutsTold
    <3>2. Silent(events, u) /\ ~conn[u].open
      <4>1. events = <<>>
        BY DEF ReloadCredentials, TruthInv, OnlyEndsWaitForTheStack
      <4> QED
        BY <2>2, <4>1 DEF Live, Silent
    <3> QED
      BY <1>2, <2>0, <3>1, <3>2 DEF TruthInv, Told, LastWord, Silent
  <2> QED
    BY <2>1, <2>2
<1>4. OnlyEndsWaitForTheStack'
  <2>1. \A i \in DOMAIN Cuts(q) : Cuts(q)[i].status \in Terminal
    BY CutsTyped DEF Terminal
  <2> QED
    BY <1>2, <2>1 DEF OnlyEndsWaitForTheStack, ReloadCredentials
<1>5. NoContextNoConnection'
  BY ReloadDetaches DEF NoContextNoConnection
<1> QED
  BY <1>3, <1>4, <1>5 DEF TruthInv

LEMMA LoopStepsTold ==
  ASSUME TypeOK, TruthInv,
         \/ PopReceived \/ RequestReload \/ EndTick \/ EndService \/ ReportStatus \/ EndReport
         \/ UNCHANGED vars
  PROVE  TruthInv'
PROOF
<1> USE DEF TruthInv
<1>1. CASE PopReceived \/ RequestReload \/ EndTick \/ EndService \/ UNCHANGED vars
  BY <1>1 DEF PopReceived, RequestReload, EndTick, EndService, vars, main, stack,
              OnlyEndsWaitForTheStack, NoContextNoConnection
<1>2. CASE ReportStatus
  <2>1. /\ events \in Seq(Event) /\ events # <<>> /\ events' = Tail(events)
        /\ told' = [told EXCEPT ![Head(events).uri] = Head(events).status]
        /\ phase = "report" /\ phase' = phase /\ context' = context /\ conn' = conn
    BY <1>2 DEF ReportStatus, main, TypeOK
  <2>2. \A u \in Uri : told'[u] = IF Head(events).uri = u THEN Head(events).status ELSE told[u]
    BY <2>1 DEF TypeOK
  <2>3. \A u \in Uri : conn[u].open \in BOOLEAN
    BY DEF TypeOK, Connection
  <2>4. \A u \in Uri : Told(events', u, conn'[u].open, told'[u])
    BY <2>1, <2>2, <2>3, TailTold
  <2> QED
    BY <2>1, <2>4 DEF OnlyEndsWaitForTheStack, NoContextNoConnection
<1>3. CASE EndReport
  <2>1. events = <<>> /\ UNCHANGED <<context, conn, events, told>>
    BY <1>3 DEF EndReport, stack
  <2> QED
    BY <2>1 DEF OnlyEndsWaitForTheStack, NoContextNoConnection
<1> QED
  BY <1>1, <1>2, <1>3

LEMMA TruthStep == TypeOK /\ TruthInv /\ [Next]_vars => TruthInv'
PROOF BY StackStepsTold, CallbacksTold, ReloadTold, LoopStepsTold DEF Next

\* Once no status about a hub is waiting, the stack believes it connected exactly
\* when it is: no end is lost, not even in a reload or in an attempt that fails at
\* once, and no success is reported that an end has overtaken.
THEOREM StackIsTold == Spec => []ToldTheTruth
PROOF
<1>1. Init => TruthInv
  BY DEF Init, TruthInv, Told, LastWord, Silent, OnlyEndsWaitForTheStack, NoContextNoConnection
<1>2. TypeOK /\ TruthInv /\ [Next]_vars => TruthInv'
  BY TruthStep
<1>3. TypeOK /\ TruthInv => ToldTheTruth
  BY TruthImplies
<1> QED
  BY <1>1, <1>2, <1>3, TypeCorrect, PTL DEF Spec
=============================================================================
