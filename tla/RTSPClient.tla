------------------------------ MODULE RTSPClient ------------------------------
(***************************************************************************)
(* RTSPClient of format/rtsp/client.rs over RTSPConnection: the session    *)
(* and the streams its calls change when their answer is read, the UDP     *)
(* ports the streams bind, the receive tasks that play spawns, and the     *)
(* channels through which those hand packets to the application.  A        *)
(* channel is a number; the one made by new, whose receiver is dropped at  *)
(* once, is 0.  A task is known by the slot of the port it reads.  Tasks   *)
(* that share a full channel are served in the order they began to wait,   *)
(* which is what the send they await does.                                 *)
(***************************************************************************)
EXTENDS RTSPConnection, Functions

CONSTANTS
  ChannelSize,   \* packets a channel holds, 100 in the code
  SocketFaults,  \* whether sockets fail
  MaxChannels    \* bound of the model: receivers handed out

ASSUME ChannelAssumption ==
  /\ ChannelSize \in Nat \ {0}
  /\ SocketFaults \in BOOLEAN
  /\ MaxChannels \in Nat

VARIABLES
  session,     \* 0 is none
  streams,     \* media types to [slot, bound, sender]; bound: has its RTP socket
  tasks,       \* slots to the channel the task sends to
  waiting,     \* slots of the tasks with a packet to send, in the order they got it
  packet_tx,   \* channel of the client's sender
  receivers,   \* channels whose receiver the application holds
  queue,       \* packets in each channel
  heard,       \* channels that gave the application a packet
  mishap,      \* a call was dropped, a connection lost, or a session not stored
  crowded,     \* a type was set up twice, or streams left while a task ran
  collided     \* a setup failed on a port that the client itself had bound

clientvars == <<session, streams, tasks, waiting, packet_tx, receivers, queue, heard,
                mishap, crowded, collided>>
channelvars == <<waiting, packet_tx, receivers, queue, heard>>
vars == <<connvars, clientvars>>

Channels == 0 .. MaxChannels
Stream == [slot : Slots, bound : BOOLEAN, sender : Channels]

ClientTypeOK ==
  /\ ConnTypeOK
  /\ session \in Sessions
  /\ DOMAIN streams \subseteq Media /\ streams \in [DOMAIN streams -> Stream]
  /\ DOMAIN tasks \subseteq Slots \ {0} /\ tasks \in [DOMAIN tasks -> Channels]
  /\ waiting \in Seq(Slots)
  /\ packet_tx \in Channels /\ receivers \subseteq Channels
  /\ queue \in [Channels -> 0 .. ChannelSize] /\ heard \subseteq Channels
  /\ mishap \in BOOLEAN /\ crowded \in BOOLEAN /\ collided \in BOOLEAN

ClientInit ==
  /\ ConnInit
  /\ session = 0
  /\ streams = [m \in {} |-> 0] /\ tasks = [p \in {} |-> 0] /\ waiting = <<>>
  /\ packet_tx = 0 /\ receivers = {}
  /\ queue = [c \in Channels |-> 0] /\ heard = {}
  /\ mishap = FALSE /\ crowded = FALSE /\ collided = FALSE

------------------------------------------------------------------------------
(* Ports. *)

\* Every stream is offered the same ports.
next_client_ports_fixed == 1

next_client_ports == Cardinality(DOMAIN streams) + 1

\* The RTP port is held by a stream or, after play, by its task; the RTCP
\* port by the stream for as long as it is in the map.
BoundPorts ==
  {streams[m].slot : m \in DOMAIN streams} \cup DOMAIN tasks

\* Without ports (TCP transport) there is nothing to bind.
setup_transport(slot) == slot = 0 \/ slot \notin BoundPorts

\* The streams are forgotten; their tasks run on.
Forget ==
  /\ streams' = [m \in {} |-> 0]
  /\ crowded' = (crowded \/ DOMAIN tasks # {})

------------------------------------------------------------------------------
(* The calls: first the request, then what its answer changes.              *)

BeginDescribe ==
  send_request("DESCRIBE", {}, session, 0) /\ UNCHANGED clientvars

BeginSetup(m) ==
  /\ send_request("SETUP", {m}, session, next_client_ports)
  /\ UNCHANGED clientvars

BeginSetupWithStream ==
  send_request("SETUP_WITH_STREAM", {}, session, 0) /\ UNCHANGED clientvars

BeginPlay ==
  session # 0 /\ send_request("PLAY", {}, session, 0) /\ UNCHANGED clientvars

BeginTeardown ==
  session # 0 /\ send_request("TEARDOWN", {}, session, 0) /\ UNCHANGED clientvars

\* The answer that ends a call: status 200 and whole headers, or this call
\* fails.
Answered(method, k) ==
  /\ call.method = method
  /\ Reads(k) /\ Succeeded(AnswerOf(k))
  /\ InPart(k) => HasBody(AnswerOf(k))
  /\ Returns

\* An answer without media, or cut before them, is an error and changes
\* nothing.
Described(k) ==
  /\ Answered("DESCRIBE", k)
  /\ \/ AnswerOf(k).fields = <<"M">> /\ Forget
     \/ (AnswerOf(k).fields # <<"M">> \/ InPart(k)) /\ UNCHANGED <<streams, crowded>>
  /\ UNCHANGED <<session, tasks, channelvars, mishap, collided>>

\* The session is stored when the whole setup succeeds.
StoresWithTransport(fields) == fields = <<"S", "T">>

\* A Transport header ends the reading of the headers, so a Session header
\* counts only before it.
StoresSession(fields) == fields \in {<<"S">>, <<"S", "T">>}

Sender == packet_tx

\* setup stores the session, binds the ports named in the answer, and lists
\* the stream; without Transport, or with ports in use, it fails with the
\* session stored.
SetUp(k) ==
  LET r == AnswerOf(k)
      m == CHOOSE x \in call.media : TRUE
      transport == r.fields \in {<<"S", "T">>, <<"T", "S">>}
  IN  /\ Answered("SETUP", k)
      /\ session' = IF StoresSession(r.fields) THEN r.session ELSE session
      /\ mishap' = (mishap \/ (r.fields = <<"T", "S">> /\ r.session # session))
      /\ \/ /\ transport /\ setup_transport(r.slot)
            /\ streams' = [x \in DOMAIN streams \cup {m} |->
                 IF x = m THEN [slot |-> r.slot, bound |-> r.slot # 0, sender |-> Sender]
                          ELSE streams[x]]
            /\ crowded' = (crowded \/ m \in DOMAIN streams)
            /\ UNCHANGED collided
         \/ /\ transport /\ ~setup_transport(r.slot)
            /\ collided' = TRUE
            /\ UNCHANGED <<streams, crowded>>
         \/ ~transport /\ UNCHANGED <<streams, crowded, collided>>
      /\ UNCHANGED <<tasks, channelvars>>

\* The stream given is not listed.
SetUpWithStream(k) ==
  /\ Answered("SETUP_WITH_STREAM", k)
  /\ session' = IF AnswerOf(k).session # 0 THEN AnswerOf(k).session ELSE session
  /\ UNCHANGED <<streams, tasks, channelvars, mishap, crowded, collided>>

Started == {m \in DOMAIN streams : streams[m].bound}

\* play hands every bound socket to a task of its own.
Played(k) ==
  /\ Answered("PLAY", k)
  /\ tasks' = [p \in DOMAIN tasks \cup {streams[m].slot : m \in Started} |->
       IF p \in DOMAIN tasks THEN tasks[p]
       ELSE streams[CHOOSE m \in Started : streams[m].slot = p].sender]
  /\ streams' = [m \in DOMAIN streams |-> [streams[m] EXCEPT !.bound = FALSE]]
  /\ UNCHANGED <<session, channelvars, mishap, crowded, collided>>

TornDown(k) ==
  /\ Answered("TEARDOWN", k)
  /\ session' = 0
  /\ Forget
  /\ UNCHANGED <<tasks, channelvars, mishap, collided>>

TeardownWithoutSession ==
  /\ call = Idle /\ session = 0
  /\ Forget
  /\ UNCHANGED <<connvars, session, tasks, channelvars, mishap, collided>>

\* The client gives a fresh channel to the application and keeps its sender;
\* streams set up before keep the sender they have.
get_packet_receiver ==
  /\ call = Idle /\ packet_tx < MaxChannels
  /\ packet_tx' = packet_tx + 1
  /\ receivers' = receivers \cup {packet_tx + 1}
  /\ UNCHANGED <<connvars, session, streams, tasks, waiting, queue, heard,
                 mishap, crowded, collided>>

------------------------------------------------------------------------------
(* Packets: from the network to a task, into a channel, to the application. *)

Waits(p) == \E i \in DOMAIN waiting : waiting[i] = p

\* A packet arrives for a task that has none, while the server plays.
PacketArrives(p) ==
  /\ playing # {}
  /\ p \in DOMAIN tasks /\ ~Waits(p)
  /\ waiting' = Append(waiting, p)
  /\ UNCHANGED <<connvars, session, streams, tasks, packet_tx, receivers, queue, heard,
                 mishap, crowded, collided>>

HasRoom(c) == queue[c] < ChannelSize

\* Any task takes a free place, as it comes round to try.
AnyInLine(i) == TRUE

FirstInLine(i) == \A j \in 1 .. i - 1 : tasks[waiting[j]] # tasks[waiting[i]]

Left(i) == SubSeq(waiting, 1, i - 1) \o SubSeq(waiting, i + 1, Len(waiting))

\* A task that cannot send gives up; one whose channel is full waits.
TaskSends(p) ==
  /\ p \in DOMAIN tasks
  /\ \E i \in DOMAIN waiting :
       /\ waiting[i] = p /\ waiting' = Left(i)
       /\ \/ /\ tasks[p] \notin receivers
             /\ tasks' = Restrict(tasks, DOMAIN tasks \ {p})
             /\ UNCHANGED queue
          \/ /\ tasks[p] \in receivers /\ FirstInLine(i) /\ HasRoom(tasks[p])
             /\ queue' = [queue EXCEPT ![tasks[p]] = @ + 1]
             /\ UNCHANGED tasks
  /\ UNCHANGED <<connvars, session, streams, packet_tx, receivers, heard,
                 mishap, crowded, collided>>

AppReceives(c) ==
  /\ c \in receivers /\ queue[c] > 0
  /\ queue' = [queue EXCEPT ![c] = @ - 1]
  /\ heard' = heard \cup {c}
  /\ UNCHANGED <<connvars, session, streams, tasks, waiting, packet_tx, receivers,
                 mishap, crowded, collided>>

AppDropsReceiver(c) ==
  /\ c \in receivers
  /\ receivers' = receivers \ {c}
  /\ queue' = [queue EXCEPT ![c] = 0]
  /\ UNCHANGED <<connvars, session, streams, tasks, waiting, packet_tx, heard,
                 mishap, crowded, collided>>

\* A socket error other than a timeout or an interruption ends the task.
SocketFails(p) ==
  /\ SocketFaults
  /\ p \in DOMAIN tasks /\ ~Waits(p)
  /\ tasks' = Restrict(tasks, DOMAIN tasks \ {p})
  /\ UNCHANGED <<connvars, session, streams, channelvars, mishap, crowded, collided>>

------------------------------------------------------------------------------
Connects == (connect \/ reconnect) /\ UNCHANGED clientvars

Begins ==
  \/ BeginDescribe
  \/ \E m \in Media : BeginSetup(m)
  \/ BeginSetupWithStream
  \/ BeginPlay
  \/ BeginTeardown
  \/ TeardownWithoutSession
  \/ get_packet_receiver

Ends ==
  \E k \in 1 .. Len(wire) :
    \/ Described(k) \/ SetUp(k) \/ SetUpWithStream(k) \/ Played(k) \/ TornDown(k)
    \/ handle_auth(k) /\ UNCHANGED clientvars

Fails == RequestFails /\ UNCHANGED clientvars

\* What breaks the order of calls: the client may lose track of the session.
Breaks ==
  /\ DropCall \/ ServerCloses
  /\ mishap' = TRUE
  /\ UNCHANGED <<session, streams, tasks, channelvars, crowded, collided>>

Server == (\E fields \in SetupFields : Serve(fields)) /\ UNCHANGED clientvars

Packets ==
  \/ \E p \in DOMAIN tasks : PacketArrives(p) \/ TaskSends(p) \/ SocketFails(p)
  \/ \E c \in receivers : AppReceives(c) \/ AppDropsReceiver(c)

Next == Connects \/ Begins \/ Ends \/ Fails \/ Breaks \/ Server \/ Packets

Spec == ClientInit /\ [][Next]_vars

\* Packets keep coming for every port while the server plays, the executor
\* runs every task again and again, and the application drains its receivers.
Fairness ==
  /\ \A p \in Slots : WF_vars(PacketArrives(p)) /\ WF_vars(TaskSends(p))
  /\ \A c \in Channels : WF_vars(AppReceives(c))

FairSpec == Spec /\ Fairness

------------------------------------------------------------------------------
(* Properties. *)

\* Nothing was left unread, by a dropped call or by a read in part.
Smooth == ~mishap /\ cuts = 0

\* Between calls the server's sessions are exactly the one the client knows:
\* none is orphaned or used after its end, whatever was refused or failed,
\* unless a call was dropped, an answer read in part, a connection lost, or
\* the server put Transport before the Session header of a new session.
SessionsAgree ==
  Smooth /\ call = Idle => alive = {session} \ {0}

\* A setup fails on a port of the client's own only after a media type was
\* set up twice or the streams were forgotten while a task ran, or after one
\* of the same mishaps.
NoOwnCollision == collided => crowded \/ ~Smooth

\* Receive tasks start only for a session that the server plays, without such
\* a mishap.
TasksStartPlaying ==
  [][DOMAIN tasks' \ DOMAIN tasks # {} /\ Smooth => session \in playing]_vars

\* Each task that waits to send a packet gets it through while the application
\* drains the receiver of its channel, however often the other tasks of the
\* same channel send and whatever else the client does.
EveryTaskGetsThrough ==
  \A p \in Slots \ {0}, c \in Channels \ {0} :
    (p \in DOMAIN tasks /\ Waits(p) /\ tasks[p] = c /\ c \in receivers)
      ~> (~Waits(p) \/ c \notin receivers)

\* What the comment of teardown promises: it stops streaming.
TeardownStops ==
  [][(\E k \in 1 .. Len(wire) : TornDown(k)) => DOMAIN tasks' = {}]_vars

\* What the comment of get_packet_receiver promises, for an application that
\* keeps its receiver while the server plays and the ports work.
ReceiverHears ==
  \A c \in Channels \ {0} :
    (c \in receivers /\ DOMAIN tasks # {})
      ~> (c \in heard \/ c \notin receivers \/ playing = {})
==============================================================================
