---------------------------- MODULE HubConnector ----------------------------
(***************************************************************************)
(* The WebSocket connections to the BACnet/SC hubs (sc/ScHubConnector.cpp) *)
(* and the main loop's work on them (ScNode::Service).  One pass of the    *)
(* loop is                                                                 *)
(*                                                                         *)
(*   stack (Tick) -> lws (lws_service) -> report (status queue) -> reload  *)
(*                                                                         *)
(* The stack asks for connections and is told about them only through the  *)
(* queue; libwebsockets calls back for every socket, those of superseded   *)
(* attempts too.  Both are the environment, and so is the hub.             *)
(***************************************************************************)
EXTENDS Naturals, Sequences, SequencesExt

CONSTANTS
  UriOrder,      \* the hub URIs in the order of g_connections (a std::map)
  Socket,        \* libwebsockets' sockets; one that is gone may be used again
  NoSocket,
  MaxQueued,     \* MAX_QUEUED_FRAMES
  MaxFrame,      \* MAX_RECEIVED_FRAME_OCTETS, in fragments
  MaxFragments,  \* bound: fragments of one message from the hub
  MaxReceived    \* bound: frames waiting for the stack (the code has none)

ASSUME HubAssumption ==
  /\ UriOrder \in Seq(STRING) /\ UriOrder # <<>> /\ IsInjective(UriOrder)
  /\ NoSocket \notin Socket
  /\ {MaxQueued, MaxFrame, MaxFragments, MaxReceived} \subseteq Nat

Uri == {UriOrder[i] : i \in DOMAIN UriOrder}

VARIABLES
  phase,      \* where the main loop is
  context,    \* g_context # NULL
  conn,       \* g_connections
  events,     \* g_statusEvents
  received,   \* g_receivedFrames
  told,       \* what the stack knows of each URI
  asked,      \* the URIs the stack asked for in this tick
  reload,     \* g_reloadCredentialsRequested
  link        \* libwebsockets: each socket's state, URI, place in the current
              \* message, and whether it owes a WRITEABLE callback

main == <<phase, context, reload>>
stack == <<told, asked>>
vars == <<main, conn, events, received, stack, link>>

Terminal == {"Disconnected", "Error"}
Status   == {"Connected"} \cup Terminal
Event    == [uri : Uri, status : Status]
Frame    == [uri : Uri, data : Seq(1 .. MaxFragments)]

\* queue holds, for each waiting frame, the socket it was accepted for; assembly
\* the fragments put together so far.
Connection == [socket : Socket \cup {NoSocket}, open : BOOLEAN, closeRequested : BOOLEAN,
               queue : Seq(Socket), assembly : Seq(1 .. MaxFragments), overflow : BOOLEAN]
Link == [state : {"gone", "connecting", "open"}, uri : Uri, sent : 0 .. MaxFragments, wants : BOOLEAN]

TypeOK ==
  /\ phase \in {"stack", "lws", "report", "reload"}
  /\ context \in BOOLEAN /\ reload \in BOOLEAN
  /\ conn \in [Uri -> Connection]
  /\ \A u \in Uri : Len(conn[u].queue) <= MaxQueued /\ Len(conn[u].assembly) <= MaxFrame
  /\ events \in Seq(Event) /\ received \in Seq(Frame)
  /\ told \in [Uri -> Status \cup {"None", "Connecting"}]
  /\ asked \subseteq Uri
  /\ link \in [Socket -> Link]

Gone == [state |-> "gone", uri |-> UriOrder[1], sent |-> 0, wants |-> FALSE]

Init ==
  /\ phase = "stack" /\ context = TRUE /\ reload = FALSE
  /\ conn = [u \in Uri |-> [socket |-> NoSocket, open |-> FALSE, closeRequested |-> FALSE,
                            queue |-> <<>>, assembly |-> <<>>, overflow |-> FALSE]]
  /\ events = <<>> /\ received = <<>>
  /\ told = [u \in Uri |-> "None"] /\ asked = {}
  /\ link = [s \in Socket |-> Gone]

-----------------------------------------------------------------------------
(* What the stack calls, all of it in BACnetStack_Tick *)

\* The stack asks for a hub it does not think connected, or whose connection it has
\* given up (a heartbeat unanswered); for one it is waiting for when its connect
\* timer has run out, which takes seconds and so a later tick.
MayConnect(u) == /\ phase = "stack" /\ u \notin asked
                 /\ told[u] # "Connected" \/ conn[u].closeRequested

\* Mutant: the assembly of the last connection survives.
FreshKeepsAssembly(u, s) == [socket |-> s, open |-> FALSE, closeRequested |-> FALSE,
                             queue |-> <<>>, assembly |-> conn[u].assembly, overflow |-> FALSE]

\* Mutant: the frames not yet written survive.
FreshKeepsQueue(u, s) == [socket |-> s, open |-> FALSE, closeRequested |-> FALSE,
                          queue |-> conn[u].queue, assembly |-> <<>>, overflow |-> FALSE]

Fresh(u, s) == [socket |-> s, open |-> FALSE, closeRequested |-> FALSE,
                queue |-> <<>>, assembly |-> <<>>, overflow |-> FALSE]

\* After a failed reload there is no context: the attempt is refused.
ConnectWithoutContext(u) ==
  /\ MayConnect(u) /\ ~context
  /\ told' = [told EXCEPT ![u] = "Error"] /\ asked' = asked \cup {u}
  /\ UNCHANGED <<main, conn, events, received, link>>

\* An earlier attempt's socket lives on until libwebsockets closes it.
Connect(u) ==
  /\ MayConnect(u) /\ context
  /\ \E s \in Socket :
       /\ link[s].state = "gone"
       /\ conn' = [conn EXCEPT ![u] = Fresh(u, s)]
       /\ link' = [link EXCEPT ![s] = [Gone EXCEPT !.state = "connecting", !.uri = u]]
  /\ told' = [told EXCEPT ![u] = "Connecting"] /\ asked' = asked \cup {u}
  /\ UNCHANGED <<main, events, received>>

\* Mutant: a failure at once is reported to nobody.
ConnectFailsQuietly(u) ==
  /\ MayConnect(u) /\ context
  /\ conn' = [conn EXCEPT ![u] = Fresh(u, NoSocket)]
  /\ told' = [told EXCEPT ![u] = "Connecting"] /\ asked' = asked \cup {u}
  /\ UNCHANGED <<main, events, received, link>>

\* The attempt fails before lws_client_connect_via_info returns: an Error is
\* queued, unless the last status waiting is already about this URI.
ConnectFails(u) ==
  /\ MayConnect(u) /\ context
  /\ conn' = [conn EXCEPT ![u] = Fresh(u, NoSocket)]
  /\ told' = [told EXCEPT ![u] = "Connecting"] /\ asked' = asked \cup {u}
  /\ events' = IF events = <<>> \/ Last(events).uri # u
               THEN Append(events, [uri |-> u, status |-> "Error"]) ELSE events
  /\ UNCHANGED <<main, received, link>>

Disconnect(u) ==
  /\ phase = "stack" /\ conn[u].socket # NoSocket
  /\ conn' = [conn EXCEPT ![u].closeRequested = TRUE]
  /\ link' = [link EXCEPT ![conn[u].socket].wants = TRUE]
  /\ UNCHANGED <<main, events, received, stack>>

\* Mutant: no limit.
SendUnbounded(u) ==
  /\ phase = "stack" /\ conn[u].open /\ conn[u].socket # NoSocket
  /\ conn' = [conn EXCEPT ![u].queue = Append(@, conn[u].socket)]
  /\ link' = [link EXCEPT ![conn[u].socket].wants = TRUE]
  /\ UNCHANGED <<main, events, received, stack>>

\* A full queue, or no open connection: the frame is not accepted (nothing changes).
Send(u) ==
  /\ phase = "stack"
  /\ conn[u].open /\ conn[u].socket # NoSocket /\ Len(conn[u].queue) < MaxQueued
  /\ conn' = [conn EXCEPT ![u].queue = Append(@, conn[u].socket)]
  /\ link' = [link EXCEPT ![conn[u].socket].wants = TRUE]
  /\ UNCHANGED <<main, events, received, stack>>

PopReceived ==
  /\ phase = "stack" /\ received # <<>>
  /\ received' = Tail(received)
  /\ UNCHANGED <<main, conn, events, stack, link>>

\* ReinitializeDevice put new certificates in place.
RequestReload ==
  /\ phase = "stack" /\ reload' = TRUE
  /\ UNCHANGED <<phase, context, conn, events, received, stack, link>>

-----------------------------------------------------------------------------
(* lws_service: HubProtocolCallback, once for each thing that happened *)

\* Mutant: every event is taken for the current attempt's.
CurrentOrNot(s) == link[s].uri \in Uri

\* The socket of the current attempt; any other is a superseded one's.
Current(s) == conn[link[s].uri].socket = s

QueueStatus(u, status) == events' = Append(events, [uri |-> u, status |-> status])

Bury(s) == link' = [link EXCEPT ![s] = Gone]

\* Mutant: a close the stack asked for is not reported to it.
EndsUnasked(s, status) ==
  LET u == link[s].uri IN
  /\ Bury(s)
  /\ conn' = IF Current(s) THEN [conn EXCEPT ![u].open = FALSE, ![u].socket = NoSocket, ![u].queue = <<>>]
             ELSE conn
  /\ IF Current(s) /\ ~conn[u].closeRequested THEN QueueStatus(u, status) ELSE UNCHANGED events
  /\ UNCHANGED <<main, received, stack>>

\* CONNECTION_ERROR or CLOSED: the current attempt ends and is reported; a
\* superseded one ends without a word.
Ends(s, status) ==
  LET u == link[s].uri IN
  /\ Bury(s)
  /\ IF Current(s)
     THEN /\ conn' = [conn EXCEPT ![u].open = FALSE, ![u].socket = NoSocket, ![u].queue = <<>>]
          /\ QueueStatus(u, status)
     ELSE UNCHANGED <<conn, events>>
  /\ UNCHANGED <<main, received, stack>>

\* A superseded attempt that comes up is closed by the callback's -1.  Whether a
\* WRITEABLE asked for before is still owed is for libwebsockets to know.
Establish(s) ==
  LET u == link[s].uri IN
  /\ phase = "lws" /\ link[s].state = "connecting"
  /\ IF Current(s)
     THEN /\ conn' = [conn EXCEPT ![u].open = TRUE]
          /\ \E owed \in {FALSE, link[s].wants} :
               link' = [link EXCEPT ![s].state = "open", ![s].wants = owed]
          /\ QueueStatus(u, "Connected")
     ELSE Bury(s) /\ UNCHANGED <<conn, events>>
  /\ UNCHANGED <<main, received, stack>>

ConnectionError(s) == phase = "lws" /\ link[s].state = "connecting" /\ Ends(s, "Error")
Closed(s)          == phase = "lws" /\ link[s].state = "open" /\ Ends(s, "Disconnected")

\* A message over the ceiling is dropped whole.
TooLong(c) == c.overflow \/ Len(c.assembly) + 1 > MaxFrame

\* One fragment of a binary message.
Receive(s, final) ==
  LET u == link[s].uri
      c == conn[u]
      part == link[s].sent + 1
      data == IF TooLong(c) THEN <<>> ELSE Append(c.assembly, part)
  IN
  /\ phase = "lws" /\ link[s].state = "open" /\ Current(s)
  /\ part <= MaxFragments /\ Len(received) < MaxReceived
  /\ link' = [link EXCEPT ![s].sent = IF final THEN 0 ELSE part]
  /\ conn' = [conn EXCEPT ![u].assembly = IF final THEN <<>> ELSE data,
                          ![u].overflow = ~final /\ TooLong(c)]
  /\ received' = IF final /\ data # <<>> THEN Append(received, [uri |-> u, data |-> data])
                 ELSE received
  /\ UNCHANGED <<main, events, stack>>

\* A superseded connection that still talks is closed.
ReceiveStale(s) ==
  /\ phase = "lws" /\ link[s].state = "open" /\ ~Current(s)
  /\ Bury(s)
  /\ UNCHANGED <<main, conn, events, received, stack>>

\* The close Disconnect asked for: -1, and CLOSED follows at once.  (So it does
\* after a write that failed, which is one of the ways of Closed.)
Close(s) ==
  /\ phase = "lws" /\ link[s].state = "open" /\ link[s].wants
  /\ Current(s) /\ conn[link[s].uri].closeRequested
  /\ Ends(s, "Disconnected")

WriteFrame(s) ==
  LET u == link[s].uri IN
  /\ phase = "lws" /\ link[s].state = "open" /\ link[s].wants
  /\ Current(s) /\ ~conn[u].closeRequested
  /\ IF conn[u].queue = <<>>
     THEN UNCHANGED conn /\ link' = [link EXCEPT ![s].wants = FALSE]
     ELSE /\ conn' = [conn EXCEPT ![u].queue = Tail(@)]
          /\ link' = [link EXCEPT ![s].wants = conn'[u].queue # <<>>]
  /\ UNCHANGED <<main, events, received, stack>>

-----------------------------------------------------------------------------
(* The main loop *)

EndTick == /\ phase = "stack" /\ phase' = "lws" /\ asked' = {}
           /\ UNCHANGED <<context, reload, conn, events, received, told, link>>

EndService == /\ phase = "lws" /\ phase' = "report"
              /\ UNCHANGED <<context, reload, conn, events, received, stack, link>>

\* BACnetStack_SetBACnetSCWebSocketStatus.
ReportStatus ==
  /\ phase = "report" /\ events # <<>>
  /\ told' = [told EXCEPT ![Head(events).uri] = Head(events).status]
  /\ events' = Tail(events)
  /\ UNCHANGED <<main, conn, received, asked, link>>

EndReport == /\ phase = "report" /\ events = <<>>
             /\ phase' = IF reload THEN "reload" ELSE "stack"
             /\ UNCHANGED <<context, reload, conn, events, received, stack, link>>

Live(u) == conn[u].socket # NoSocket \/ conn[u].open

\* q lists the members of S, in the order of the map.
InMapOrder(q, S) ==
  /\ Range(q) = S
  /\ \A i, j \in DOMAIN q : i < j =>
       \E a, b \in DOMAIN UriOrder : a < b /\ UriOrder[a] = q[i] /\ UriOrder[b] = q[j]

\* Each live connection is reported once, here; what destroying the context calls
\* back is ignored.  Then the new context either comes up or does not.
ReloadCredentials(created) ==
  LET live == {u \in Uri : Live(u)} IN
  /\ phase = "reload" /\ phase' = "stack"
  /\ reload' = FALSE /\ context' = created
  /\ conn' = [u \in Uri |-> IF Live(u)
                            THEN [conn[u] EXCEPT !.open = FALSE, !.socket = NoSocket, !.queue = <<>>]
                            ELSE conn[u]]
  /\ \E dropped \in BoundedSeq(live, Len(UriOrder)) :
       /\ InMapOrder(dropped, live)
       /\ events' = events \o [i \in DOMAIN dropped |-> [uri |-> dropped[i], status |-> "Disconnected"]]
  /\ link' = [s \in Socket |-> Gone]
  /\ UNCHANGED <<received, stack>>

Next ==
  \/ \E u \in Uri : \/ ConnectWithoutContext(u) \/ Connect(u) \/ ConnectFails(u)
                    \/ Disconnect(u) \/ Send(u)
  \/ PopReceived \/ RequestReload
  \/ \E s \in Socket : \/ Establish(s) \/ ConnectionError(s) \/ Closed(s)
                       \/ \E final \in BOOLEAN : Receive(s, final)
                       \/ ReceiveStale(s) \/ Close(s) \/ WriteFrame(s)
  \/ EndTick \/ EndService \/ ReportStatus \/ EndReport
  \/ \E created \in BOOLEAN : ReloadCredentials(created)

Spec == Init /\ [][Next]_vars

\* The loop goes round; what libwebsockets can finish again and again it finishes:
\* each attempt comes up or fails.
Resolve(u) ==
  \E s \in Socket : link[s].uri = u /\ Current(s) /\ (Establish(s) \/ ConnectionError(s))

FairSpec ==
  /\ Spec
  /\ WF_vars(EndTick) /\ WF_vars(EndService) /\ WF_vars(ReportStatus) /\ WF_vars(EndReport)
  /\ WF_vars(\E created \in BOOLEAN : ReloadCredentials(created))
  /\ \A u \in Uri : SF_vars(Resolve(u))

-----------------------------------------------------------------------------
(* Properties *)

Waiting(u) == \E i \in DOMAIN events : events[i].uri = u

\* The stack does not go on believing in a connection that is gone, nor miss one
\* that is there: once no status about a URI is waiting, it knows what is open.
ToldTheTruth == \A u \in Uri : ~Waiting(u) => (told[u] = "Connected" <=> conn[u].open)

\* An open connection has the socket of its own, current attempt.
OpenIsLive ==
  \A u \in Uri : conn[u].open =>
    /\ conn[u].socket # NoSocket
    /\ link[conn[u].socket].state = "open" /\ link[conn[u].socket].uri = u

\* A frame waits only for the connection it was accepted for: none is written on
\* a later one, which a hub could not make sense of.
FramesStayOnTheirConnection ==
  \A u \in Uri : \A i \in DOMAIN conn[u].queue : conn[u].queue[i] = conn[u].socket

\* What the stack gets is what the hub sent, whole and in order, and no longer
\* than the ceiling: never fragments of two messages or of two connections.
FramesAreWhole ==
  \A i \in DOMAIN received :
    LET d == received[i].data IN Len(d) <= MaxFrame /\ \A k \in DOMAIN d : d[k] = k

\* Every attempt the stack asked for is answered with a status, also one that was
\* cut off by a reload or failed before it began.
AttemptIsAnswered == \A u \in Uri : told[u] = "Connecting" ~> told[u] # "Connecting"
=============================================================================
