--------------------------- MODULE RTSPClientProofs ---------------------------
(***************************************************************************)
(* Theorems of RTSPClient for every set of media types and every bound:    *)
(* its types, the answers that a call can read, the attempts of reconnect; *)
(* then the session, the tasks and the ports.                              *)
(***************************************************************************)
EXTENDS RTSPClient, SequenceTheorems, FiniteSetTheorems, TLAPS

------------------------------------------------------------------------------
(* Types of the connection. *)

\* A sequence without its first.
LEMMA TailType ==
  ASSUME NEW S, NEW s \in Seq(S), s # <<>>
  PROVE  Tail(s) \in Seq(S) /\ Head(s) \in S
  OBVIOUS

\* What is written, and to whom.
LEMMA WrittenType ==
  ASSUME ConnTypeOK, cseq < MaxRequests, NEW method \in Methods, NEW retry \in BOOLEAN,
         NEW s \in Sessions, NEW slot \in Slots, Written(method, retry, s, slot)
  PROVE  /\ cseq + 1 \in 1 .. MaxRequests
         /\ cseq' \in 0 .. MaxRequests /\ asked' \in Seq(Request)
<1>1. cseq + 1 \in 1 .. MaxRequests
  BY ConnectionAssumption DEF ConnTypeOK
<1>2. [cseq |-> cseq + 1, method |-> method, retry |-> retry, session |-> s, slot |-> slot]
        \in Request
  BY <1>1 DEF Request
<1>3. asked \in Seq(Request)
  BY DEF ConnTypeOK
<1>. QED
  BY <1>1, <1>2, <1>3, ConnectionAssumption DEF Written

\* The answer that a call reads, and what stays unread.
LEMMA ReadType ==
  ASSUME ConnTypeOK, NEW k \in 1 .. Len(wire), Reads(k)
  PROVE  /\ AnswerOf(k) \in Answer /\ wire' \in Seq(Answer) /\ call \in Waiting
         /\ cuts' \in 0 .. MaxSlips /\ slips' \in Nat
<1>1. wire \in Seq(Answer) /\ Len(wire) \in Nat
  BY DEF ConnTypeOK
<1>2. 1 \in 1 .. Len(wire) /\ (k > 1 => 2 \in 1 .. Len(wire))
  BY <1>1
<1>3. AnswerOf(k) \in Answer
  BY <1>1, <1>2 DEF AnswerOf, AnswerAt
<1>4. SubSeq(wire, k + 1, Len(wire)) \in Seq(Answer)
  BY <1>1, SubSeqProperties
<1>5. [wire[k] EXCEPT !.status = "tail"] \in Answer
  <2>1. wire[k] \in Answer
    BY <1>1
  <2>. QED
    BY <2>1 DEF Answer
<1>6. wire' \in Seq(Answer)
  <2>1. <<[wire[k] EXCEPT !.status = "tail"]>> \in Seq(Answer)
    BY <1>5
  <2>2. CASE ReadsWhole(k)
    BY <1>4, <2>2 DEF ReadsWhole
  <2>3. CASE ReadsInPart(k)
    BY <1>4, <2>1, <2>3, ConcatProperties DEF ReadsInPart
  <2>. QED
    BY <2>2, <2>3 DEF Reads
<1>7. cuts \in 0 .. MaxSlips /\ drops \in 0 .. MaxSlips /\ slips \in Nat /\ MaxSlips \in Nat
  BY ConnectionAssumption DEF ConnTypeOK
<1>8. cuts' \in 0 .. MaxSlips /\ slips' \in Nat
  BY <1>7 DEF Reads, ReadsWhole, ReadsInPart
<1>. QED
  BY <1>3, <1>6, <1>8 DEF Reads, ConnTypeOK

\* An answer of the server.
LEMMA ReplyType ==
  ASSUME ConnTypeOK, asked # <<>>, NEW status \in {"200", "401", "error"},
         NEW fields \in Fields, NEW s \in Sessions, Reply(status, fields, s)
  PROVE  wire' \in Seq(Answer)
<1>1. Head(asked) \in Request /\ wire \in Seq(Answer)
  BY TailType DEF ConnTypeOK
<1>2. [cseq |-> Head(asked).cseq, status |-> status, fields |-> fields,
       session |-> s, slot |-> Head(asked).slot] \in Answer
  BY <1>1 DEF Request, Answer
<1>. QED
  BY <1>1, <1>2 DEF Reply

LEMMA ConnectType ==
  ASSUME ConnTypeOK, connect \/ reconnect
  PROVE  ConnTypeOK'
<1>1. connects' \in 0 .. MaxConnects
  BY ConnectionAssumption DEF connect, reconnect, TryConnect, ConnTypeOK
<1>2. /\ reconnect_attempts' \in 0 .. max_reconnect_attempts
      /\ reconnect_delay' \in Nat \ {0}
  BY ConnectionAssumption DEF connect, reconnect, AttemptsLeft, AttemptsAfterConnect, ConnTypeOK
<1>3. Opened \/ NotOpened
  BY DEF connect, reconnect
<1>4. asked \in Seq(Request) /\ wire \in Seq(Answer) /\ slips \in Nat
  BY DEF ConnTypeOK
<1>5. asked' \in Seq(Request) /\ wire' \in Seq(Answer)
  <2>1. CASE Opened
    BY <2>1 DEF Opened
  <2>2. CASE NotOpened
    <3>1. asked' = asked /\ wire' = wire
      BY <2>2 DEF NotOpened
    <3>. QED
      BY <1>4, <3>1
  <2>. QED
    BY <1>3, <2>1, <2>2
<1>6. conn' \in {"none", "open", "closed"}
  BY <1>3 DEF Opened, NotOpened, ConnTypeOK
<1>7. slips' \in Nat
  BY <1>3, <1>4 DEF Opened, NotOpened
<1>. QED
  BY <1>1, <1>2, <1>5, <1>6, <1>7 DEF connect, reconnect, TryConnect, ConnTypeOK, server

LEMMA ServeType ==
  ASSUME ConnTypeOK, NEW fields \in SetupFields, Serve(fields)
  PROVE  ConnTypeOK'
<1>0. 0 \in Sessions /\ alive \subseteq Sessions \ {0} /\ playing \subseteq alive
  BY ConnectionAssumption DEF Sessions, ConnTypeOK
<1>1. asked # <<>> /\ Head(asked) \in Request /\ asked' \in Seq(Request)
  BY TailType DEF Serve, ConnTypeOK
<1>2. ASSUME Refuse \/ Challenge \/ Describe
      PROVE  wire' \in Seq(Answer) /\ UNCHANGED server
  BY <1>0, <1>1, <1>2, ReplyType DEF Refuse, Challenge, Describe, Fields
<1>3. ASSUME Setup(fields)
      PROVE  wire' \in Seq(Answer) /\ alive' \subseteq Sessions \ {0} /\ playing' \subseteq alive'
  <2>1. NewSession(Head(asked)) \in Sessions \ {0}
    BY <1>1, ConnectionAssumption DEF NewSession, Request, Sessions
  <2>2. wire' \in Seq(Answer)
    BY <1>1, <1>3, <2>1, ReplyType DEF Setup, Fields
  <2>. QED
    BY <1>0, <1>3, <2>1, <2>2 DEF Setup
<1>4. ASSUME Play \/ Teardown
      PROVE  wire' \in Seq(Answer) /\ alive' \subseteq Sessions \ {0} /\ playing' \subseteq alive'
  <2>1. wire' \in Seq(Answer)
    BY <1>0, <1>1, <1>4, ReplyType DEF Play, Teardown, Fields
  <2>. QED
    BY <1>0, <1>4, <2>1 DEF Play, Teardown
<1>5. wire' \in Seq(Answer) /\ alive' \subseteq Sessions \ {0} /\ playing' \subseteq alive'
  BY <1>0, <1>2, <1>3, <1>4 DEF Serve, server
<1>. QED
  BY <1>1, <1>5 DEF Serve, ConnTypeOK, counts

LEMMA SendType ==
  ASSUME ConnTypeOK, NEW method \in Methods, NEW media \in SUBSET Media,
         NEW s \in Sessions, NEW slot \in Slots, send_request(method, media, s, slot)
  PROVE  ConnTypeOK'
<1>1. cseq + 1 \in 1 .. MaxRequests /\ cseq' \in 0 .. MaxRequests /\ asked' \in Seq(Request)
  BY WrittenType DEF send_request
<1>2. call' \in Waiting \cup {Idle}
  BY <1>1 DEF send_request, Waiting
<1>. QED
  BY <1>1, <1>2 DEF send_request, ConnTypeOK, counts, server

LEMMA AuthType ==
  ASSUME ConnTypeOK, NEW k \in 1 .. Len(wire), handle_auth(k)
  PROVE  ConnTypeOK'
<1>1. wire' \in Seq(Answer) /\ call \in Waiting /\ cuts' \in 0 .. MaxSlips /\ slips' \in Nat
  BY ReadType DEF handle_auth
<1>2. 0 \in Sessions /\ 0 \in Slots
  BY ConnectionAssumption, FS_CardinalityType DEF Sessions, Slots
<1>3. call.method \in Methods
  BY <1>1 DEF Waiting
<1>4. cseq + 1 \in 1 .. MaxRequests /\ cseq' \in 0 .. MaxRequests /\ asked' \in Seq(Request)
  BY <1>2, <1>3, WrittenType DEF handle_auth
<1>5. call' \in Waiting
  BY <1>1, <1>4 DEF handle_auth, Repeated, Waiting
<1>. QED
  BY <1>1, <1>4, <1>5 DEF handle_auth, ConnTypeOK, counts, server

\* A call that ends after it has read k answers, or none.
LEMMA ReturnType ==
  ASSUME ConnTypeOK, Returns, wire' \in Seq(Answer), cuts' \in 0 .. MaxSlips, slips' \in Nat
  PROVE  ConnTypeOK'
  BY DEF ConnTypeOK, Returns, counts, server

LEMMA BreakType ==
  ASSUME ConnTypeOK, DropCall \/ ServerCloses
  PROVE  ConnTypeOK'
<1>1. CASE ServerCloses
  BY <1>1 DEF ServerCloses, ConnTypeOK, counts, server
<1>2. CASE DropCall
  <2>1. drops' \in 0 .. MaxSlips /\ slips' \in Nat
    BY <1>2, ConnectionAssumption DEF DropCall, ConnTypeOK
  <2>2. wire' \in Seq(Answer)
    <3>1. wire \in Seq(Answer)
      BY DEF ConnTypeOK
    <3>2. ASSUME wire # <<>>
          PROVE  [wire EXCEPT ![1].status = "tail"] \in Seq(Answer)
      <4>1. 1 \in 1 .. Len(wire) /\ wire[1] \in Answer
        BY <3>1, <3>2
      <4>2. [wire[1] EXCEPT !.status = "tail"] \in Answer
        BY <4>1 DEF Answer
      <4>. QED
        BY <3>1, <4>1, <4>2
    <3>. QED
      BY <1>2, <3>1, <3>2 DEF DropCall
  <2>. QED
    BY <1>2, <2>1, <2>2 DEF DropCall, ConnTypeOK, counts, server
<1>. QED
  BY <1>1, <1>2

------------------------------------------------------------------------------
(* Types of the client. *)

\* A setup is of one media type, and a stream has a socket when it has ports.
Shapes ==
  /\ call.method = "SETUP" => \E m \in Media : call.media = {m}
  /\ \A m \in DOMAIN streams : streams[m].bound => streams[m].slot # 0

TypeInv == ClientTypeOK /\ Shapes

\* The next ports are those of a slot.
LEMMA PortsType ==
  ASSUME ClientTypeOK
  PROVE  /\ next_client_ports \in Slots
         /\ Cardinality(DOMAIN streams) \in Nat
         /\ IsFiniteSet(DOMAIN streams)
<1>1. DOMAIN streams \in SUBSET Media /\ IsFiniteSet(Media)
  BY ConnectionAssumption DEF ClientTypeOK
<1>2. IsFiniteSet(DOMAIN streams) /\ Cardinality(DOMAIN streams) <= Cardinality(Media)
  BY <1>1, FS_Subset
<1>3. Cardinality(DOMAIN streams) \in Nat /\ Cardinality(Media) \in Nat
  BY <1>1, <1>2, FS_CardinalityType
<1>. QED
  BY <1>2, <1>3 DEF next_client_ports, Slots

LEMMA InitTypeInv == ClientInit => TypeInv
<1> SUFFICES ASSUME ClientInit PROVE TypeInv
  OBVIOUS
<1>1. ConnTypeOK
  <2>1. asked \in Seq(Request) /\ wire \in Seq(Answer)
    BY DEF ClientInit, ConnInit
  <2>2. /\ cseq \in 0 .. MaxRequests /\ reconnect_attempts \in 0 .. max_reconnect_attempts
        /\ connects \in 0 .. MaxConnects /\ drops \in 0 .. MaxSlips
        /\ cuts \in 0 .. MaxSlips /\ slips \in Nat /\ reconnect_delay \in Nat \ {0}
    BY ConnectionAssumption DEF ClientInit, ConnInit
  <2>3. /\ conn \in {"none", "open", "closed"} /\ call \in Waiting \cup {Idle}
        /\ alive \subseteq Sessions \ {0} /\ playing \subseteq alive
    BY DEF ClientInit, ConnInit
  <2>. QED
    BY <2>1, <2>2, <2>3 DEF ConnTypeOK
<1>2. 0 \in Sessions /\ 0 \in Channels /\ 0 \in 0 .. ChannelSize
  BY ConnectionAssumption, ChannelAssumption DEF Sessions, Channels
<1>3. queue \in [Channels -> 0 .. ChannelSize]
  BY <1>2 DEF ClientInit
<1>4. DOMAIN streams = {} /\ streams \in [{} -> Stream] /\ DOMAIN tasks = {} /\ tasks \in [{} -> Channels]
      /\ waiting \in Seq(Slots)
  BY DEF ClientInit
<1>5. ClientTypeOK
  BY <1>1, <1>2, <1>3, <1>4 DEF ClientInit, ClientTypeOK
<1>. QED
  BY <1>4, <1>5 DEF TypeInv, Shapes, ClientInit, ConnInit, Idle

\* The calls that begin.
LEMMA BeginsType ==
  ASSUME TypeInv, Begins
  PROVE  TypeInv'
<1>0. ClientTypeOK /\ ConnTypeOK /\ Shapes
  BY DEF TypeInv, ClientTypeOK
<1>1. 0 \in Slots /\ next_client_ports \in Slots /\ session \in Sessions
  BY <1>0, PortsType, ConnectionAssumption, FS_CardinalityType DEF Slots, ClientTypeOK
<1>2. ASSUME NEW method \in Methods, NEW media \in SUBSET Media, NEW slot \in Slots,
             send_request(method, media, session, slot), UNCHANGED clientvars,
             method = "SETUP" => \E m \in Media : media = {m}
      PROVE  TypeInv'
  <2>1. ConnTypeOK'
    BY <1>0, <1>1, <1>2, SendType
  <2>2. ClientTypeOK'
    BY <1>0, <1>2, <2>1 DEF ClientTypeOK, clientvars
  <2>3. call' = Idle \/ (call'.method = method /\ call'.media = media)
    BY <1>2 DEF send_request
  <2>4. Shapes'
    BY <1>0, <1>2, <2>3 DEF Shapes, clientvars, Idle
  <2>. QED
    BY <2>2, <2>4 DEF TypeInv
<1>3. CASE BeginDescribe \/ BeginSetupWithStream \/ BeginPlay \/ BeginTeardown
  BY <1>1, <1>2, <1>3 DEF BeginDescribe, BeginSetupWithStream, BeginPlay, BeginTeardown, Methods
<1>4. CASE \E m \in Media : BeginSetup(m)
  BY <1>1, <1>2, <1>4 DEF BeginSetup, Methods
<1>5. CASE TeardownWithoutSession
  <2>1. UNCHANGED <<connvars, session, tasks, channelvars, mishap, collided>>
    BY <1>5 DEF TeardownWithoutSession
  <2>2. DOMAIN streams' = {} /\ streams' \in [{} -> Stream]
    BY <1>5 DEF TeardownWithoutSession, Forget
  <2>3. crowded' \in BOOLEAN
    BY Zenon, <1>0, <1>5 DEF TeardownWithoutSession, Forget, ClientTypeOK
  <2>4. ConnTypeOK'
    BY <1>0, <2>1 DEF ConnTypeOK, connvars, counts, server
  <2>5. ClientTypeOK'
    BY <1>0, <2>1, <2>2, <2>3, <2>4 DEF ClientTypeOK, channelvars
  <2>. QED
    BY <1>0, <1>5, <2>1, <2>2, <2>5 DEF TypeInv, Shapes, connvars
<1>6. CASE get_packet_receiver
  <2>1. packet_tx' \in Channels /\ receivers' \subseteq Channels
    BY <1>0, <1>6, ChannelAssumption DEF get_packet_receiver, ClientTypeOK, Channels
  <2>2. UNCHANGED <<connvars, session, streams, tasks, waiting, queue, heard,
                  mishap, crowded, collided>>
    BY <1>6 DEF get_packet_receiver
  <2>3. ConnTypeOK'
    BY <1>0, <2>2 DEF ConnTypeOK, connvars, counts, server
  <2>4. ClientTypeOK'
    BY <1>0, <2>1, <2>2, <2>3 DEF ClientTypeOK
  <2>. QED
    BY <1>0, <2>2, <2>4 DEF TypeInv, Shapes, connvars
<1>. QED
  BY <1>3, <1>4, <1>5, <1>6 DEF Begins

\* A call that was answered leaves the connection typed, and no call.
LEMMA AnsweredType ==
  ASSUME ConnTypeOK, NEW method, NEW k \in 1 .. Len(wire), Answered(method, k)
  PROVE  /\ AnswerOf(k) \in Answer /\ call \in Waiting /\ call.method = method
         /\ ConnTypeOK' /\ call' = Idle
<1>1. /\ AnswerOf(k) \in Answer /\ wire' \in Seq(Answer) /\ call \in Waiting
      /\ cuts' \in 0 .. MaxSlips /\ slips' \in Nat
  BY ReadType DEF Answered
<1>2. ConnTypeOK'
  BY <1>1, ReturnType DEF Answered
<1>. QED
  BY <1>1, <1>2 DEF Answered, Returns

LEMMA SetUpType ==
  ASSUME TypeInv, NEW k \in 1 .. Len(wire), SetUp(k)
  PROVE  TypeInv'
<1> DEFINE r == AnswerOf(k)
           m == CHOOSE x \in call.media : TRUE
<1>0. ClientTypeOK /\ ConnTypeOK /\ Shapes
  BY DEF TypeInv, ClientTypeOK
<1>1. /\ r \in Answer /\ ConnTypeOK' /\ call' = Idle /\ call.method = "SETUP"
  BY <1>0, AnsweredType DEF SetUp
<1>2. m \in Media
  BY <1>0, <1>1 DEF Shapes
<1>3. r.session \in Sessions /\ r.slot \in Slots
  BY <1>1 DEF Answer
<1> HIDE DEF r, m
<1>4. session' \in Sessions
  BY <1>0, <1>3 DEF SetUp, ClientTypeOK, r
<1>5. [slot |-> r.slot, bound |-> r.slot # 0, sender |-> Sender] \in Stream
  BY <1>0, <1>3 DEF Stream, Sender, ClientTypeOK
<1>6. ASSUME streams' = [x \in DOMAIN streams \cup {m} |->
                 IF x = m THEN [slot |-> r.slot, bound |-> r.slot # 0, sender |-> Sender]
                          ELSE streams[x]]
      PROVE  /\ DOMAIN streams' \subseteq Media /\ streams' \in [DOMAIN streams' -> Stream]
             /\ \A x \in DOMAIN streams' : streams'[x].bound => streams'[x].slot # 0
  <2>1. DOMAIN streams' = DOMAIN streams \cup {m}
    BY <1>6
  <2>2. DOMAIN streams' \subseteq Media
    BY <1>0, <1>2, <2>1 DEF ClientTypeOK
  <2>3. ASSUME NEW x \in DOMAIN streams'
        PROVE  streams'[x] \in Stream /\ (streams'[x].bound => streams'[x].slot # 0)
    <3>1. CASE x = m
      BY <1>5, <1>6, <2>1, <3>1
    <3>2. CASE x # m
      <4>1. x \in DOMAIN streams /\ streams'[x] = streams[x]
        BY <1>6, <2>1, <2>3, <3>2
      <4>. QED
        BY <1>0, <4>1 DEF ClientTypeOK, Shapes
    <3>. QED
      BY <3>1, <3>2
  <2>. QED
    BY <1>6, <2>2, <2>3
<1>7. UNCHANGED streams \/ streams' = [x \in DOMAIN streams \cup {m} |->
                 IF x = m THEN [slot |-> r.slot, bound |-> r.slot # 0, sender |-> Sender]
                          ELSE streams[x]]
  BY DEF SetUp, r, m
<1>8. /\ DOMAIN streams' \subseteq Media /\ streams' \in [DOMAIN streams' -> Stream]
      /\ \A x \in DOMAIN streams' : streams'[x].bound => streams'[x].slot # 0
  BY <1>0, <1>6, <1>7 DEF ClientTypeOK, Shapes
<1>9. mishap' \in BOOLEAN /\ crowded' \in BOOLEAN /\ collided' \in BOOLEAN
  <2>1. mishap \in BOOLEAN /\ crowded \in BOOLEAN /\ collided \in BOOLEAN
    BY <1>0 DEF ClientTypeOK
  <2>. QED
    BY Zenon, <2>1 DEF SetUp
<1>10. UNCHANGED <<tasks, channelvars>>
  BY DEF SetUp
<1>11. ClientTypeOK'
  BY <1>0, <1>1, <1>4, <1>8, <1>9, <1>10 DEF ClientTypeOK, channelvars
<1>. QED
  BY <1>1, <1>8, <1>11 DEF TypeInv, Shapes, Idle

LEMMA PlayedType ==
  ASSUME TypeInv, NEW k \in 1 .. Len(wire), Played(k)
  PROVE  TypeInv'
<1>0. ClientTypeOK /\ ConnTypeOK /\ Shapes
  BY DEF TypeInv, ClientTypeOK
<1>1. ConnTypeOK' /\ call' = Idle
  BY <1>0, AnsweredType DEF Played
<1>2. ASSUME NEW m \in DOMAIN streams
      PROVE  /\ streams[m] \in Stream /\ streams[m].slot \in Slots /\ streams[m].sender \in Channels
             /\ [streams[m] EXCEPT !.bound = FALSE] \in Stream
             /\ [streams[m] EXCEPT !.bound = FALSE].bound = FALSE
  <2>1. streams[m] \in Stream
    BY <1>0 DEF ClientTypeOK
  <2>. QED
    BY <2>1 DEF Stream
<1>3. /\ DOMAIN streams' = DOMAIN streams /\ streams' \in [DOMAIN streams -> Stream]
      /\ \A m \in DOMAIN streams' : streams'[m].bound = FALSE
  BY <1>2 DEF Played
<1>4. DOMAIN tasks' = DOMAIN tasks \cup {streams[m].slot : m \in Started}
  BY DEF Played
<1>5. DOMAIN tasks' \subseteq Slots \ {0}
  BY <1>0, <1>2, <1>4 DEF Started, Shapes, ClientTypeOK
<1>6. ASSUME NEW p \in DOMAIN tasks'
      PROVE  tasks'[p] \in Channels
  <2>1. CASE p \in DOMAIN tasks
    <3>1. tasks'[p] = tasks[p]
      BY <1>4, <2>1 DEF Played
    <3>. QED
      BY <1>0, <2>1, <3>1 DEF ClientTypeOK
  <2>2. CASE p \notin DOMAIN tasks
    <3>1. \E m \in Started : streams[m].slot = p
      BY <1>4, <1>6, <2>2
    <3>2. (CHOOSE m \in Started : streams[m].slot = p) \in DOMAIN streams
      BY <3>1 DEF Started
    <3>3. tasks'[p] = streams[CHOOSE m \in Started : streams[m].slot = p].sender
      BY <1>4, <1>6, <2>2 DEF Played
    <3>4. streams[CHOOSE m \in Started : streams[m].slot = p].sender \in Channels
      BY <1>2, <3>2
    <3>. QED
      BY <3>3, <3>4
  <2>. QED
    BY <2>1, <2>2
<1>7. tasks' \in [DOMAIN tasks' -> Channels]
  BY <1>6 DEF Played
<1>8. UNCHANGED <<session, channelvars, mishap, crowded, collided>>
  BY DEF Played
<1>9. ClientTypeOK'
  BY <1>0, <1>1, <1>3, <1>5, <1>7, <1>8 DEF ClientTypeOK, channelvars
<1>. QED
  BY <1>1, <1>3, <1>9 DEF TypeInv, Shapes, Idle

\* The streams are forgotten, whoever asks for it.
LEMMA ForgetType ==
  ASSUME ClientTypeOK, Forget
  PROVE  /\ DOMAIN streams' = {} /\ DOMAIN streams' \subseteq Media
         /\ streams' \in [DOMAIN streams' -> Stream] /\ crowded' \in BOOLEAN
<1>1. DOMAIN streams' = {} /\ streams' \in [{} -> Stream]
  BY DEF Forget
<1>2. crowded' \in BOOLEAN
  BY Zenon DEF Forget, ClientTypeOK
<1>. QED
  BY <1>1, <1>2

LEMMA EndsType ==
  ASSUME TypeInv, Ends
  PROVE  TypeInv'
<1>0. ClientTypeOK /\ ConnTypeOK /\ Shapes
  BY DEF TypeInv, ClientTypeOK
<1>1. ASSUME NEW k \in 1 .. Len(wire), Described(k)
      PROVE  TypeInv'
  <2>1. ConnTypeOK' /\ call' = Idle
    BY <1>0, <1>1, AnsweredType DEF Described
  <2>2. /\ DOMAIN streams' \subseteq Media
        /\ streams' \in [DOMAIN streams' -> Stream] /\ crowded' \in BOOLEAN
        /\ streams' = streams \/ DOMAIN streams' = {}
    <3>1. CASE Forget
      BY <1>0, <3>1, ForgetType
    <3>2. CASE UNCHANGED <<streams, crowded>>
      BY <1>0, <3>2 DEF ClientTypeOK
    <3>. QED
      BY <1>1, <3>1, <3>2 DEF Described
  <2>3. ClientTypeOK'
    BY <1>0, <1>1, <2>1, <2>2 DEF Described, ClientTypeOK, channelvars
  <2>. QED
    BY <1>0, <2>1, <2>2, <2>3 DEF TypeInv, Shapes, Idle
<1>2. ASSUME NEW k \in 1 .. Len(wire), SetUpWithStream(k)
      PROVE  TypeInv'
  <2>1. ConnTypeOK' /\ call' = Idle /\ AnswerOf(k) \in Answer
    BY <1>0, <1>2, AnsweredType DEF SetUpWithStream
  <2>2. session' \in Sessions
    BY <1>0, <1>2, <2>1 DEF SetUpWithStream, Answer, ClientTypeOK
  <2>3. UNCHANGED <<streams, tasks, channelvars, mishap, crowded, collided>>
    BY <1>2 DEF SetUpWithStream
  <2>4. ClientTypeOK'
    BY <1>0, <2>1, <2>2, <2>3 DEF ClientTypeOK, channelvars
  <2>. QED
    BY <1>0, <2>1, <2>3, <2>4 DEF TypeInv, Shapes, Idle
<1>3. ASSUME NEW k \in 1 .. Len(wire), TornDown(k)
      PROVE  TypeInv'
  <2>1. ConnTypeOK' /\ call' = Idle
    BY <1>0, <1>3, AnsweredType DEF TornDown
  <2>2. /\ DOMAIN streams' = {} /\ DOMAIN streams' \subseteq Media
        /\ streams' \in [DOMAIN streams' -> Stream] /\ crowded' \in BOOLEAN
    BY <1>0, <1>3, ForgetType DEF TornDown
  <2>3. session' \in Sessions
    BY <1>3, ConnectionAssumption DEF TornDown, Sessions
  <2>4. UNCHANGED <<tasks, channelvars, mishap, collided>>
    BY <1>3 DEF TornDown
  <2>5. ClientTypeOK'
    BY <1>0, <2>1, <2>2, <2>3, <2>4 DEF ClientTypeOK, channelvars
  <2>. QED
    BY <1>0, <2>1, <2>2, <2>5 DEF TypeInv, Shapes, Idle
<1>4. ASSUME NEW k \in 1 .. Len(wire), handle_auth(k), UNCHANGED clientvars
      PROVE  TypeInv'
  <2>1. ConnTypeOK'
    BY <1>0, <1>4, AuthType
  <2>2. ClientTypeOK'
    BY <1>0, <1>4, <2>1 DEF ClientTypeOK, clientvars
  <2>3. call'.method = call.method /\ call'.media = call.media
    <3>1. call \in Waiting
      BY <1>0, <1>4, ReadType DEF handle_auth
    <3>. QED
      BY <1>4, <3>1 DEF handle_auth, Repeated, Waiting
  <2>4. Shapes'
    BY <1>0, <1>4, <2>3 DEF Shapes, clientvars
  <2>. QED
    BY <2>2, <2>4 DEF TypeInv
<1>. QED
  BY <1>1, <1>2, <1>3, <1>4, SetUpType, PlayedType DEF Ends

LEMMA PacketsType ==
  ASSUME TypeInv, Packets
  PROVE  TypeInv'
<1>0. ClientTypeOK /\ ConnTypeOK /\ Shapes /\ ChannelSize \in Nat
  BY ChannelAssumption DEF TypeInv, ClientTypeOK
<1>1. UNCHANGED <<connvars, session, streams, packet_tx, mishap, crowded, collided>>
  BY DEF Packets, PacketArrives, TaskSends, SocketFails, AppReceives, AppDropsReceiver, channelvars
<1>2. ConnTypeOK' /\ Shapes'
  BY <1>0, <1>1 DEF ConnTypeOK, connvars, counts, server, Shapes
<1>3. ASSUME DOMAIN tasks' \subseteq Slots \ {0}, tasks' \in [DOMAIN tasks' -> Channels],
             waiting' \in Seq(Slots), queue' \in [Channels -> 0 .. ChannelSize],
             receivers' \subseteq Channels, heard' \subseteq Channels
      PROVE  TypeInv'
  <2>1. ClientTypeOK'
    BY <1>0, <1>1, <1>2, <1>3 DEF ClientTypeOK
  <2>. QED
    BY <1>2, <2>1 DEF TypeInv
<1>4. \A p \in DOMAIN tasks : tasks[p] \in Channels /\ p \in Slots
  BY <1>0 DEF ClientTypeOK
<1>5. waiting \in Seq(Slots) /\ Len(waiting) \in Nat
  BY <1>0 DEF ClientTypeOK
<1>6. ASSUME NEW p \in DOMAIN tasks
      PROVE  LET f == Restrict(tasks, DOMAIN tasks \ {p})
             IN  DOMAIN f \subseteq Slots \ {0} /\ f \in [DOMAIN f -> Channels]
  BY <1>0 DEF ClientTypeOK, Restrict
<1>7. ASSUME NEW p \in DOMAIN tasks, PacketArrives(p)
      PROVE  TypeInv'
  <2>1. waiting' \in Seq(Slots)
    BY <1>4, <1>5, <1>7 DEF PacketArrives
  <2>. QED
    BY <1>0, <1>3, <1>7, <2>1 DEF PacketArrives, ClientTypeOK
<1>8. ASSUME NEW p \in DOMAIN tasks, TaskSends(p)
      PROVE  TypeInv'
  <2>1. receivers' \subseteq Channels /\ heard' \subseteq Channels
    BY <1>0, <1>8 DEF TaskSends, ClientTypeOK
  <2>2. waiting' \in Seq(Slots)
    <3>1. PICK i \in DOMAIN waiting : waiting' = Left(i)
      BY <1>8 DEF TaskSends
    <3>2. i \in 1 .. Len(waiting)
      BY <1>5, <3>1
    <3>3. SubSeq(waiting, 1, i - 1) \in Seq(Slots) /\ SubSeq(waiting, i + 1, Len(waiting)) \in Seq(Slots)
      BY <1>5, <3>2, SubSeqProperties
    <3>. QED
      BY <3>1, <3>3, ConcatProperties DEF Left
  <2>3. CASE tasks' = Restrict(tasks, DOMAIN tasks \ {p}) /\ UNCHANGED queue
    BY <1>0, <1>3, <1>6, <2>1, <2>2, <2>3 DEF ClientTypeOK
  <2>4. CASE /\ HasRoom(tasks[p])
             /\ queue' = [queue EXCEPT ![tasks[p]] = @ + 1]
             /\ UNCHANGED tasks
    <3>1. queue[tasks[p]] \in 0 .. ChannelSize /\ queue[tasks[p]] < ChannelSize
      BY <1>0, <1>4, <2>4 DEF ClientTypeOK, HasRoom
    <3>2. queue[tasks[p]] + 1 \in 0 .. ChannelSize
      BY <1>0, <3>1
    <3>3. queue' \in [Channels -> 0 .. ChannelSize]
      BY <1>0, <1>4, <2>4, <3>2 DEF ClientTypeOK
    <3>. QED
      BY <1>0, <1>3, <2>1, <2>2, <2>4, <3>3 DEF ClientTypeOK
  <2>. QED
    BY <1>8, <2>3, <2>4 DEF TaskSends
<1>9. ASSUME NEW p \in DOMAIN tasks, SocketFails(p)
      PROVE  TypeInv'
  BY <1>0, <1>3, <1>6, <1>9 DEF SocketFails, channelvars, ClientTypeOK
<1>10. ASSUME NEW c \in receivers, AppReceives(c) \/ AppDropsReceiver(c)
       PROVE  TypeInv'
  <2>1. c \in Channels /\ queue[c] \in 0 .. ChannelSize
    BY <1>0 DEF ClientTypeOK
  <2>2. queue' \in [Channels -> 0 .. ChannelSize]
    <3>1. CASE AppReceives(c)
      <4>1. queue[c] - 1 \in 0 .. ChannelSize
        BY <1>0, <2>1, <3>1 DEF AppReceives
      <4>. QED
        BY <1>0, <2>1, <3>1, <4>1 DEF AppReceives, ClientTypeOK
    <3>2. CASE AppDropsReceiver(c)
      BY <1>0, <2>1, <3>2 DEF AppDropsReceiver, ClientTypeOK
    <3>. QED
      BY <1>10, <3>1, <3>2
  <2>3. /\ receivers' \subseteq Channels /\ heard' \subseteq Channels
        /\ UNCHANGED <<tasks, waiting>>
    BY <1>0, <1>10, <2>1 DEF AppReceives, AppDropsReceiver, ClientTypeOK
  <2>. QED
    BY <1>0, <1>3, <2>2, <2>3 DEF ClientTypeOK
<1>. QED
  BY <1>7, <1>8, <1>9, <1>10 DEF Packets

LEMMA NextTypeInv ==
  ASSUME TypeInv, [Next]_vars
  PROVE  TypeInv'
<1>0. ClientTypeOK /\ ConnTypeOK /\ Shapes
  BY DEF TypeInv, ClientTypeOK
<1>1. ASSUME UNCHANGED <<session, streams, tasks, channelvars, crowded, collided>>,
             mishap' \in BOOLEAN, ConnTypeOK', call' = call \/ call' = Idle
      PROVE  TypeInv'
  <2>1. ClientTypeOK'
    BY <1>0, <1>1 DEF ClientTypeOK, channelvars
  <2>2. Shapes'
    BY <1>0, <1>1 DEF Shapes, Idle
  <2>. QED
    BY <2>1, <2>2 DEF TypeInv
<1>2. CASE Connects
  <2>1. ConnTypeOK'
    BY <1>0, <1>2, ConnectType DEF Connects
  <2>2. UNCHANGED <<session, streams, tasks, channelvars, mishap, crowded, collided>>
    BY <1>2 DEF Connects, clientvars, channelvars
  <2>3. call' = call
    BY <1>2 DEF Connects, connect, reconnect, TryConnect
  <2>. QED
    BY <1>0, <1>1, <2>1, <2>2, <2>3 DEF ClientTypeOK
<1>3. CASE Fails
  <2>1. Returns /\ UNCHANGED <<session, streams, tasks, channelvars, mishap, crowded, collided>>
    BY <1>3 DEF Fails, RequestFails, clientvars, channelvars
  <2>2. wire' \in Seq(Answer) /\ cuts' \in 0 .. MaxSlips /\ slips' \in Nat
    <3>1. CASE \E k \in 1 .. Len(wire) : Reads(k)
      BY <1>0, <3>1, ReadType
    <3>2. CASE UNCHANGED <<wire, cuts, slips>>
      BY <1>0, <3>2 DEF ConnTypeOK
    <3>. QED
      BY <1>3, <3>1, <3>2 DEF Fails, RequestFails
  <2>3. ConnTypeOK'
    BY <1>0, <2>1, <2>2, ReturnType
  <2>. QED
    BY <1>0, <1>1, <2>1, <2>3 DEF ClientTypeOK, Returns
<1>4. CASE Breaks
  <2>1. ConnTypeOK'
    BY <1>0, <1>4, BreakType DEF Breaks
  <2>2. /\ UNCHANGED <<session, streams, tasks, channelvars, crowded, collided>>
        /\ mishap' = TRUE /\ (call' = call \/ call' = Idle)
    BY <1>4 DEF Breaks, DropCall, ServerCloses
  <2>. QED
    BY <1>1, <2>1, <2>2
<1>5. CASE Server
  <2>1. ConnTypeOK' /\ call' = call
    BY <1>0, <1>5, ServeType DEF Server, Serve
  <2>2. UNCHANGED <<session, streams, tasks, channelvars, mishap, crowded, collided>>
    BY <1>5 DEF Server, clientvars, channelvars
  <2>. QED
    BY <1>0, <1>1, <2>1, <2>2 DEF ClientTypeOK
<1>6. CASE UNCHANGED vars
  <2>1. ConnTypeOK'
    BY <1>0, <1>6 DEF vars, connvars, counts, server, ConnTypeOK
  <2>. QED
    <3>1. UNCHANGED <<call, session, streams, tasks, channelvars, mishap, crowded, collided>>
      BY <1>6 DEF vars, connvars, clientvars, channelvars
    <3>. QED
      BY <1>0, <1>1, <2>1, <3>1 DEF ClientTypeOK
<1>. QED
  BY <1>2, <1>3, <1>4, <1>5, <1>6, BeginsType, EndsType, PacketsType DEF Next

\* Type correctness of the client, its connection and the server.
THEOREM ClientTypeCorrect == Spec => []ClientTypeOK
<1>1. ClientInit => TypeInv
  BY InitTypeInv
<1>2. TypeInv /\ [Next]_vars => TypeInv'
  BY NextTypeInv
<1>3. TypeInv => ClientTypeOK
  BY DEF TypeInv
<1>. QED
  BY <1>1, <1>2, <1>3, PTL DEF Spec

------------------------------------------------------------------------------
(* Requests and answers in step. *)

\* The CSeq numbers of what is to be read and answered.
Pending == Len(wire) + Len(asked)
Numbers == [i \in 1 .. Pending |->
              IF i <= Len(wire) THEN wire[i].cseq ELSE asked[i - Len(wire)].cseq]

Own == IF call = Idle THEN 0 ELSE 1

\* Numbers o, up to n, that wait while sl answers were left behind: none is
\* missing for the call c of an open connection.
Orderly(o, n, c, sl) ==
  /\ \A i \in 1 .. n : o[i] <= c
  /\ \A i, j \in 1 .. n : i < j => o[i] < o[j]
  /\ n <= sl

StepInv ==
  /\ conn = "none" => call = Idle
  /\ conn # "open" => asked = <<>>
  /\ Orderly(Numbers, Pending, cseq, slips + Own)
  /\ conn = "open" /\ call # Idle => Pending # 0 /\ Numbers[Pending] = call.cseq
  /\ slips = 0 => \A i \in 1 .. Pending : Numbers[i] = call.cseq

\* The numbers are those of the requests.
LEMMA NumbersType ==
  ASSUME ConnTypeOK
  PROVE  /\ Pending \in Nat /\ Len(wire) \in Nat /\ Len(asked) \in Nat
         /\ \A i \in 1 .. Pending : Numbers[i] \in 1 .. MaxRequests
         /\ \A i \in 1 .. Len(wire) : Numbers[i] = wire[i].cseq
         /\ \A i \in 1 .. Len(asked) : Numbers[Len(wire) + i] = asked[i].cseq
<1>1. asked \in Seq(Request) /\ wire \in Seq(Answer) /\ Len(wire) \in Nat /\ Len(asked) \in Nat
  BY DEF ConnTypeOK
<1>2. /\ \A i \in 1 .. Len(wire) : wire[i] \in Answer
      /\ \A i \in 1 .. Len(asked) : asked[i] \in Request
  BY <1>1
<1>3. /\ \A i \in 1 .. Len(wire) : wire[i].cseq \in 1 .. MaxRequests
      /\ \A i \in 1 .. Len(asked) : asked[i].cseq \in 1 .. MaxRequests
  BY <1>2 DEF Answer, Request
<1>4. Pending \in Nat
  BY <1>1 DEF Pending
<1>5. ASSUME NEW i \in 1 .. Pending
      PROVE  Numbers[i] \in 1 .. MaxRequests
  BY <1>1, <1>3, <1>5 DEF Numbers, Pending
<1>6. /\ \A i \in 1 .. Len(wire) : Numbers[i] = wire[i].cseq
      /\ \A i \in 1 .. Len(asked) : Numbers[Len(wire) + i] = asked[i].cseq
  BY <1>1 DEF Numbers, Pending
<1>. QED
  BY <1>1, <1>4, <1>5, <1>6

\* A read takes the first d answers away; what it leaves of an answer counts
\* as a slip.
LEMMA ReadWire ==
  ASSUME ConnTypeOK, NEW k \in 1 .. Len(wire), Reads(k)
  PROVE  \E d \in 0 .. k :
           /\ Len(wire') = Len(wire) - d /\ slips' = slips + (k - d)
           /\ d = k \/ d = k - 1
           /\ \A i \in 1 .. Len(wire) - d : wire'[i].cseq = wire[i + d].cseq
<1>1. wire \in Seq(Answer) /\ Len(wire) \in Nat /\ slips \in Nat
  BY DEF ConnTypeOK
<1> DEFINE rest == SubSeq(wire, k + 1, Len(wire))
<1>2. /\ rest \in Seq(Answer) /\ Len(rest) = Len(wire) - k
      /\ \A i \in 1 .. Len(wire) - k : rest[i] = wire[i + k]
  BY <1>1, SubSeqProperties
<1> HIDE DEF rest
<1>3. CASE ReadsWhole(k)
  <2>1. wire' = rest /\ slips' = slips + (k - k)
    BY <1>1, <1>3 DEF ReadsWhole, rest
  <2>2. k \in 0 .. k
    OBVIOUS
  <2>. QED
    BY <1>2, <2>1, <2>2
<1>4. CASE ReadsInPart(k)
  <2> DEFINE tail == [wire[k] EXCEPT !.status = "tail"]
  <2>1. tail \in Answer /\ tail.cseq = wire[k].cseq
    <3>1. wire[k] \in Answer
      BY <1>1
    <3>. QED
      BY <3>1 DEF Answer
  <2> HIDE DEF tail
  <2>2. wire' = <<tail>> \o rest /\ slips' = slips + (k - (k - 1))
    BY <1>1, <1>4 DEF ReadsInPart, rest, tail
  <2>3. /\ Len(wire') = 1 + Len(rest) /\ wire'[1] = tail
        /\ \A i \in 1 .. Len(rest) : wire'[i + 1] = rest[i]
    <3>1. <<tail>> \in Seq(Answer) /\ Len(<<tail>>) = 1 /\ <<tail>>[1] = tail
      BY <2>1
    <3> DEFINE one == <<tail>>
    <3>2. one \in Seq(Answer) /\ Len(one) = 1 /\ one[1] = tail /\ wire' = one \o rest
      BY <2>2, <3>1
    <3> HIDE DEF one
    <3>3. /\ Len(wire') = Len(one) + Len(rest)
          /\ \A i \in 1 .. Len(one) + Len(rest) :
               wire'[i] = IF i <= Len(one) THEN one[i] ELSE rest[i - Len(one)]
      <4>1. /\ Len(one \o rest) = Len(one) + Len(rest)
            /\ \A i \in 1 .. Len(one) + Len(rest) :
                 (one \o rest)[i] = IF i <= Len(one) THEN one[i] ELSE rest[i - Len(one)]
        BY <1>2, <3>2, ConcatProperties
      <4>. QED
        BY <3>2, <4>1
    <3>4. Len(rest) \in Nat
      BY <1>2
    <3>. QED
      BY <3>2, <3>3, <3>4
  <2>4. ASSUME NEW i \in 1 .. Len(wire) - (k - 1)
        PROVE  wire'[i].cseq = wire[i + (k - 1)].cseq
    <3>1. CASE i = 1
      BY <2>1, <2>3, <3>1
    <3>2. CASE i # 1
      <4>1. i - 1 \in 1 .. Len(rest) /\ (i - 1) + 1 = i /\ (i - 1) + k = i + (k - 1)
        BY <1>1, <1>2, <2>4, <3>2
      <4>2. wire'[i] = rest[i - 1]
        BY <2>3, <4>1
      <4>3. rest[i - 1] = wire[i + (k - 1)]
        BY <1>2, <4>1
      <4>. QED
        BY <4>2, <4>3
    <3>. QED
      BY <3>1, <3>2
  <2>5. k - 1 \in 0 .. k /\ Len(wire') = Len(wire) - (k - 1)
    BY <1>1, <1>2, <2>3
  <2>. QED
    BY <2>2, <2>4, <2>5
<1>. QED
  BY <1>3, <1>4 DEF Reads

\* The numbers after the first d answers were read.
LEMMA NumbersRead ==
  ASSUME ConnTypeOK, ConnTypeOK', NEW d \in 0 .. Len(wire), Len(wire') = Len(wire) - d,
         \A i \in 1 .. Len(wire) - d : wire'[i].cseq = wire[i + d].cseq,
         Len(asked) <= Len(asked'),
         \A i \in 1 .. Len(asked) : asked'[i].cseq = asked[i].cseq
  PROVE  \A i \in 1 .. Pending - d : Numbers'[i] = Numbers[i + d]
<1> SUFFICES ASSUME NEW i \in 1 .. Pending - d PROVE Numbers'[i] = Numbers[i + d]
  OBVIOUS
<1>1. /\ Pending \in Nat /\ Len(wire) \in Nat /\ Len(asked) \in Nat
      /\ \A x \in 1 .. Len(wire) : Numbers[x] = wire[x].cseq
      /\ \A x \in 1 .. Len(asked) : Numbers[Len(wire) + x] = asked[x].cseq
  BY NumbersType
<1>2. /\ Len(wire') \in Nat /\ Len(asked') \in Nat
      /\ \A x \in 1 .. Len(wire') : Numbers'[x] = wire'[x].cseq
      /\ \A x \in 1 .. Len(asked') : Numbers'[Len(wire') + x] = asked'[x].cseq
  <2>1. Len(wire') \in Nat /\ Len(asked') \in Nat
    BY DEF ConnTypeOK
  <2>. QED
    BY <2>1 DEF Numbers, Pending
<1>3. Pending = Len(wire) + Len(asked)
  BY DEF Pending
<1>4. CASE i <= Len(wire) - d
  <2>1. i \in 1 .. Len(wire') /\ i + d \in 1 .. Len(wire) /\ i \in 1 .. Len(wire) - d
    BY <1>1, <1>4
  <2>. QED
    BY <1>1, <1>2, <2>1
<1>5. CASE i > Len(wire) - d
  <2> DEFINE x == i - (Len(wire) - d)
  <2>1. /\ x \in 1 .. Len(asked) /\ x \in 1 .. Len(asked')
        /\ Len(wire') + x = i /\ Len(wire) + x = i + d
    BY <1>1, <1>2, <1>3, <1>5
  <2> HIDE DEF x
  <2>2. asked'[x].cseq = asked[x].cseq
    BY <2>1
  <2>3. Numbers'[i] = asked'[x].cseq /\ Numbers[i + d] = asked[x].cseq
    BY <1>1, <1>2, <2>1
  <2>. QED
    BY <2>2, <2>3
<1>. QED
  BY <1>1, <1>4, <1>5

\* What was orderly stays so after d numbers are gone, and after one more.
LEMMA OrderlyRead ==
  ASSUME NEW o, NEW n \in Nat, NEW c \in Nat, NEW sl \in Nat, Orderly(o, n, c, sl),
         \A i \in 1 .. n : o[i] \in Nat,
         NEW p, NEW m \in Nat, NEW d \in Nat, m = n - d, NEW tl \in Nat, m <= tl,
         \A i \in 1 .. m : p[i] = o[i + d]
  PROVE  Orderly(p, m, c, tl)
<1>1. \A i \in 1 .. m : i + d \in 1 .. n
  OBVIOUS
<1>2. \A i \in 1 .. m : p[i] <= c
  BY <1>1 DEF Orderly
<1>3. ASSUME NEW i \in 1 .. m, NEW j \in 1 .. m, i < j
      PROVE  p[i] < p[j]
  <2>1. i + d \in 1 .. n /\ j + d \in 1 .. n /\ i + d < j + d
    BY <1>3
  <2>. QED
    BY <2>1 DEF Orderly
<1>. QED
  BY <1>2, <1>3 DEF Orderly

LEMMA OrderlyMore ==
  ASSUME NEW o, NEW n \in Nat, NEW c \in Nat, NEW sl \in Nat, Orderly(o, n, c, sl),
         NEW p, p[n + 1] = c + 1, \A i \in 1 .. n : p[i] = o[i], \A i \in 1 .. n : o[i] \in Nat,
         NEW tl \in Nat, n + 1 <= tl
  PROVE  Orderly(p, n + 1, c + 1, tl)
<1>1. \A i \in 1 .. n + 1 : i = n + 1 \/ (i \in 1 .. n /\ p[i] = o[i] /\ p[i] <= c)
  BY DEF Orderly
<1>2. \A i \in 1 .. n + 1 : p[i] <= c + 1
  BY <1>1
<1>3. ASSUME NEW i \in 1 .. n + 1, NEW j \in 1 .. n + 1, i < j
      PROVE  p[i] < p[j]
  <2>1. i \in 1 .. n /\ p[i] = o[i] /\ o[i] <= c /\ o[i] \in Nat
    BY <1>1, <1>3
  <2>2. CASE j = n + 1
    BY <2>1, <2>2
  <2>3. CASE j # n + 1
    <3>1. j \in 1 .. n /\ p[j] = o[j]
      BY <1>1, <2>3
    <3>. QED
      BY <1>3, <2>1, <3>1 DEF Orderly
  <2>. QED
    BY <2>2, <2>3
<1>. QED
  BY <1>2, <1>3 DEF Orderly

Quiet == asked = <<>> /\ wire = <<>>
OneAsked == Len(asked) = 1 /\ wire = <<>>
OneAnswer == asked = <<>> /\ Len(wire) = 1

\* Without slips there is one exchange at most, that of the call.
LEMMA Single ==
  ASSUME ConnTypeOK, StepInv, slips = 0
  PROVE  \/ Quiet
         \/ call # Idle /\ OneAsked /\ asked[1].cseq = call.cseq
         \/ call # Idle /\ OneAnswer /\ wire[1].cseq = call.cseq
<1>1. /\ Pending \in Nat /\ Len(wire) \in Nat /\ Len(asked) \in Nat
      /\ \A i \in 1 .. Len(wire) : Numbers[i] = wire[i].cseq
      /\ \A i \in 1 .. Len(asked) : Numbers[Len(wire) + i] = asked[i].cseq
  BY NumbersType
<1>2. asked \in Seq(Request) /\ wire \in Seq(Answer)
  BY DEF ConnTypeOK
<1>3. Pending <= Own /\ \A i \in 1 .. Pending : Numbers[i] = call.cseq
  BY DEF StepInv, Orderly, Own
<1>4. Pending = Len(wire) + Len(asked)
  BY DEF Pending
<1>5. CASE Pending = 0
  BY <1>1, <1>2, <1>4, <1>5 DEF Quiet
<1>6. CASE Pending = 1
  <2>1. call # Idle /\ Numbers[1] = call.cseq
    BY <1>3, <1>6 DEF Own
  <2>2. CASE Len(wire) = 0
    <3>1. wire = <<>> /\ Len(asked) = 1
      BY <1>1, <1>2, <1>4, <1>6, <2>2
    <3>2. Numbers[Len(wire) + 1] = asked[1].cseq /\ Len(wire) + 1 = 1
      BY <1>1, <2>2, <3>1
    <3>. QED
      BY <2>1, <3>1, <3>2 DEF OneAsked
  <2>3. CASE Len(wire) = 1
    <3>1. asked = <<>> /\ Numbers[1] = wire[1].cseq
      BY <1>1, <1>2, <1>4, <1>6, <2>3
    <3>. QED
      BY <2>1, <2>3, <3>1 DEF OneAnswer
  <2>4. Len(wire) = 0 \/ Len(wire) = 1
    <3>1. Len(wire) \in Nat /\ Len(asked) \in Nat /\ Len(wire) + Len(asked) = 1
      BY <1>1, <1>4, <1>6
    <3>. QED
      BY ONLY <3>1
  <2>. QED
    BY <2>2, <2>3, <2>4
<1>. QED
  BY <1>1, <1>3, <1>5, <1>6 DEF Own

\* A call that reads a whole answer has read all there was.
LEMMA ReadsAll ==
  ASSUME ConnTypeOK, StepInv, slips = 0, NEW k \in 1 .. Len(wire), Reads(k)
  PROVE  /\ OneAnswer /\ wire[1].cseq = call.cseq /\ call # Idle
         /\ AnswerOf(k) = wire[1] /\ k = 1 /\ asked = <<>>
         /\ cuts' = cuts => wire' = <<>>
<1>1. wire \in Seq(Answer) /\ Len(wire) \in Nat /\ Len(wire) # 0 /\ cuts \in Nat
  BY ConnectionAssumption DEF ConnTypeOK
<1>2. OneAnswer /\ wire[1].cseq = call.cseq /\ call # Idle
  BY <1>1, Single DEF Quiet, OneAsked
<1>3. k = 1
  BY <1>2 DEF OneAnswer
<1>4. ASSUME cuts' = cuts PROVE wire' = <<>>
  <2>1. ReadsWhole(k)
    BY <1>1, <1>4 DEF Reads, ReadsInPart
  <2>2. wire' = SubSeq(wire, 2, 1)
    BY <1>2, <1>3, <2>1 DEF ReadsWhole, OneAnswer
  <2>. QED
    BY <1>1, <2>2, SubSeqProperties
<1>. QED
  BY <1>2, <1>3, <1>4 DEF AnswerOf, AnswerAt, OneAnswer

\* The answer to the only request is the only answer.
LEMMA ServedAlone ==
  ASSUME ConnTypeOK, OneAsked, NEW fields \in SetupFields, Serve(fields)
  PROVE  /\ OneAnswer' /\ wire'[1].cseq = asked[1].cseq
         /\ Head(asked) = asked[1] /\ asked[1] \in Request
<1>1. asked \in Seq(Request) /\ asked # <<>> /\ Len(asked) = 1 /\ wire = <<>>
  BY DEF ConnTypeOK, Serve, OneAsked
<1>2. Head(asked) = asked[1] /\ asked[1] \in Request /\ asked' = <<>>
  BY <1>1 DEF Serve
<1>3. \E status, f, s : Reply(status, f, s)
  BY DEF Serve, Refuse, Challenge, Describe, Setup, Play, Teardown
<1>4. PICK status, f, s : Reply(status, f, s)
  BY <1>3
<1>5. wire' = <<[cseq |-> asked[1].cseq, status |-> status, fields |-> f,
                 session |-> s, slot |-> asked[1].slot]>>
  BY <1>1, <1>2, <1>4 DEF Reply
<1>. QED
  BY <1>2, <1>5 DEF OneAnswer

\* A step that leaves the numbers.
LEMMA StepKept ==
  ASSUME ConnTypeOK, StepInv, UNCHANGED <<conn, cseq, call, slips>>, Pending' = Pending,
         \A i \in 1 .. Pending : Numbers'[i] = Numbers[i], conn # "open" => asked' = <<>>
  PROVE  StepInv'
<1>1. Orderly(Numbers, Pending, cseq, slips + Own)
  BY DEF StepInv
<1>2. Orderly(Numbers', Pending', cseq', slips' + Own')
  <2>1. Own' = Own
    BY DEF Own
  <2>. QED
    BY <1>1, <2>1 DEF Orderly
<1>3. conn = "open" /\ call # Idle => Pending' # 0 /\ Numbers'[Pending'] = call'.cseq
  <2> SUFFICES ASSUME conn = "open", call # Idle
               PROVE  Pending' # 0 /\ Numbers'[Pending'] = call'.cseq
    OBVIOUS
  <2>1. Pending # 0 /\ Numbers[Pending] = call.cseq
    BY DEF StepInv
  <2>2. Pending \in Nat
    BY NumbersType
  <2>3. Pending \in 1 .. Pending
    BY <2>1, <2>2
  <2>4. Numbers'[Pending] = Numbers[Pending]
    BY <2>3
  <2>. QED
    BY <2>1, <2>4
<1>. QED
  BY <1>2, <1>3 DEF StepInv

\* A step after which nothing is pending and no call waits.
LEMMA StepEmpty ==
  ASSUME ConnTypeOK', asked' = <<>>, wire' = <<>>, call' = Idle
  PROVE  StepInv'
<1>1. Pending' = 0
  BY DEF Pending
<1>2. Own' = 0 /\ slips' \in Nat
  BY DEF Own, ConnTypeOK
<1>3. \A i : i \notin 1 .. Pending'
  BY <1>1
<1>4. Pending' <= slips' + Own'
  <2>1. PICK x \in Nat : slips' = x
    BY <1>2
  <2>. QED
    BY <1>1, <1>2, <2>1
<1>5. Orderly(Numbers', Pending', cseq', slips' + Own')
  BY Zenon, <1>3, <1>4 DEF Orderly
<1>. QED
  BY <1>3, <1>5 DEF StepInv

\* A request that is written, or lost, after d answers were read.
LEMMA StepAsked ==
  ASSUME ConnTypeOK, ConnTypeOK', StepInv, NEW method, NEW retry, NEW s, NEW slot,
         Written(method, retry, s, slot), UNCHANGED conn,
         \/ call' = Idle /\ conn = "none"
         \/ call' # Idle /\ call'.cseq = cseq + 1 /\ conn # "none",
         NEW d \in 0 .. Len(wire), Len(wire') = Len(wire) - d,
         \A i \in 1 .. Len(wire) - d : wire'[i].cseq = wire[i + d].cseq,
         Pending - d <= slips', slips' = 0 => Pending = d
  PROVE  StepInv'
<1>1. /\ Pending \in Nat /\ Len(wire) \in Nat /\ Len(asked) \in Nat
      /\ \A i \in 1 .. Pending : Numbers[i] \in 1 .. MaxRequests
  BY NumbersType
<1>2. Pending = Len(wire) + Len(asked)
  BY DEF Pending
<1>3. /\ cseq \in Nat /\ slips \in Nat /\ slips' \in Nat /\ d \in Nat /\ Own \in Nat
      /\ cseq' = cseq + 1
  BY ConnectionAssumption, <1>1 DEF ConnTypeOK, Own, Written
<1>4. Orderly(Numbers, Pending, cseq, slips + Own)
  BY DEF StepInv
<1>5. asked \in Seq(Request) /\ asked' \in Seq(Request) /\ Len(wire') \in Nat
  BY DEF ConnTypeOK
<1>6. Len(asked) <= Len(asked') /\ \A i \in 1 .. Len(asked) : asked'[i].cseq = asked[i].cseq
  BY <1>5 DEF Written
<1>7. \A i \in 1 .. Pending - d : Numbers'[i] = Numbers[i + d]
  BY <1>6, NumbersRead
<1>8. Pending - d \in Nat
  BY <1>1, <1>2
<1>9. Orderly(Numbers', Pending - d, cseq, slips')
  <2>1. \A i \in 1 .. Pending : Numbers[i] \in Nat
    BY <1>1
  <2> DEFINE n == Pending
             m == Pending - d
             sl == slips + Own
             o == Numbers
             p == Numbers'
             tl == slips'
             c == cseq
  <2>2. /\ n \in Nat /\ m \in Nat /\ sl \in Nat /\ tl \in Nat /\ c \in Nat /\ m = n - d /\ m <= tl
        /\ Orderly(o, n, c, sl) /\ \A i \in 1 .. n : o[i] \in Nat
        /\ \A i \in 1 .. m : p[i] = o[i + d]
    BY <1>1, <1>3, <1>4, <1>7, <1>8, <2>1
  <2> HIDE DEF n, m, sl, o, p, tl, c
  <2>3. d \in Nat
    BY <1>3
  <2>4. Orderly(p, m, c, tl)
    BY ONLY <2>2, <2>3, OrderlyRead
  <2>. QED
    BY <2>4 DEF m, p, tl, c
<1>12. ASSUME NEW i \in 1 .. Pending - d
        PROVE  Numbers'[i] \in Nat
  <2>1. i + d \in 1 .. Pending
    BY <1>1, <1>3, <1>8
  <2>2. Numbers[i + d] \in 1 .. MaxRequests
    BY <1>1, <2>1
  <2>3. Numbers'[i] = Numbers[i + d]
    BY <1>7, <1>12
  <2>. QED
    BY <2>2, <2>3, ConnectionAssumption
<1>10. CASE conn = "open"
  <2>1. /\ Len(asked') = Len(asked) + 1 /\ asked'[Len(asked) + 1].cseq = cseq + 1
    BY <1>5, <1>10 DEF Written
  <2>2. Pending' = (Pending - d) + 1
    BY <1>1, <1>2, <2>1 DEF Pending
  <2>3. Numbers'[(Pending - d) + 1] = cseq + 1
    <3>1. (Pending - d) + 1 = Len(wire') + (Len(asked) + 1)
      BY <1>1, <1>2
    <3>2. /\ (Pending - d) + 1 \in 1 .. Len(wire') + Len(asked')
          /\ ~((Pending - d) + 1 <= Len(wire'))
          /\ ((Pending - d) + 1) - Len(wire') = Len(asked) + 1
      BY <1>1, <1>5, <2>1, <3>1
    <3>3. Numbers' = [i \in 1 .. Len(wire') + Len(asked') |->
                       IF i <= Len(wire') THEN wire'[i].cseq ELSE asked'[i - Len(wire')].cseq]
      BY DEF Numbers, Pending
    <3>. QED
      BY <2>1, <3>2, <3>3
  <2>4. \A i \in 1 .. Pending - d : Numbers'[i] \in Nat
    BY <1>12
  <2>5. Orderly(Numbers', Pending', cseq', slips' + Own')
    <3> DEFINE m == Pending - d
               p == Numbers'
               tl == slips'
               tm == slips' + 1
               c == cseq
    <3>1. /\ m \in Nat /\ tl \in Nat /\ tm \in Nat /\ c \in Nat /\ m + 1 <= tm
          /\ Orderly(p, m, c, tl) /\ p[m + 1] = c + 1 /\ \A i \in 1 .. m : p[i] = p[i]
          /\ \A i \in 1 .. m : p[i] \in Nat
      <4>1. m \in Nat /\ tl \in Nat /\ tm \in Nat /\ c \in Nat
        <5>1. m \in Nat /\ tl \in Nat /\ c \in Nat
          BY <1>3, <1>8
        <5>2. PICK x \in Nat : slips' = x
          BY <1>3
        <5>3. tm = x + 1
          BY <5>2
        <5>. QED
          BY ONLY <5>1, <5>2, <5>3
      <4>2. m + 1 <= tm
        <5>1. m <= tl
          OBVIOUS
        <5>2. tm = tl + 1
          OBVIOUS
        <5>. QED
          BY ONLY <4>1, <5>1, <5>2
      <4>. QED
        BY <1>9, <2>3, <2>4, <4>1, <4>2
    <3> HIDE DEF m, p, tl, tm, c
    <3>2. Orderly(p, m + 1, c + 1, tm)
      BY <3>1, OrderlyMore
    <3>3. Own' = 1
      BY <1>10 DEF Own
    <3>4. Orderly(Numbers', (Pending - d) + 1, cseq + 1, slips' + 1)
      BY <3>2 DEF m, p, tm, c
    <3>. QED
      BY <1>3, <2>2, <3>3, <3>4
  <2>6. Numbers'[Pending'] = call'.cseq /\ Pending' # 0
    BY <1>8, <1>10, <2>2, <2>3
  <2>7. slips' = 0 => \A i \in 1 .. Pending' : Numbers'[i] = call'.cseq
    <3> SUFFICES ASSUME slips' = 0, NEW i \in 1 .. Pending' PROVE Numbers'[i] = call'.cseq
      OBVIOUS
    <3>1. Pending' = 1
      BY <1>1, <1>3, <2>2
    <3>. QED
      BY <2>6, <3>1
  <2>. QED
    BY <1>10, <2>5, <2>6, <2>7 DEF StepInv
<1>11. CASE conn # "open"
  <2>1. asked' = asked /\ asked = <<>>
    BY <1>11 DEF Written, StepInv
  <2>2. Pending' = Pending - d
    BY <1>1, <1>2, <2>1 DEF Pending
  <2>3. Orderly(Numbers', Pending', cseq', slips' + Own')
    <3>1. Own' \in {0, 1}
      BY DEF Own
    <3>2. \A i \in 1 .. Pending - d : Numbers'[i] \in Nat
      BY <1>12
    <3>3. \A i \in 1 .. Pending - d : Numbers'[i] <= cseq + 1
      BY <1>3, <1>9, <3>2 DEF Orderly
    <3>. QED
      BY <1>3, <1>8, <1>9, <2>2, <3>1, <3>3 DEF Orderly
  <2>4. slips' = 0 => Pending' = 0
    BY <1>1, <1>3, <2>2
  <2>. QED
    BY <1>11, <2>1, <2>3, <2>4 DEF StepInv
<1>. QED
  BY <1>10, <1>11

\* A call that reads an answer and ends.
LEMMA StepReturned ==
  ASSUME ConnTypeOK, ConnTypeOK', StepInv, NEW k \in 1 .. Len(wire), Reads(k), Returns
  PROVE  StepInv'
<1>1. /\ Pending \in Nat /\ Len(wire) \in Nat /\ Len(asked) \in Nat
      /\ \A i \in 1 .. Pending : Numbers[i] \in 1 .. MaxRequests
  BY NumbersType
<1>2. /\ call' = Idle /\ call # Idle /\ UNCHANGED <<conn, asked, cseq>>
      /\ Pending = Len(wire) + Len(asked)
  BY DEF Returns, Reads, Pending
<1>3. /\ cseq \in Nat /\ slips \in Nat /\ slips' \in Nat /\ Own = 1 /\ Own' = 0
  BY ConnectionAssumption, <1>2 DEF ConnTypeOK, Own
<1>4. PICK d \in 0 .. k :
        /\ Len(wire') = Len(wire) - d /\ slips' = slips + (k - d)
        /\ d = k \/ d = k - 1
        /\ \A i \in 1 .. Len(wire) - d : wire'[i].cseq = wire[i + d].cseq
  BY ReadWire
<1>5. d \in 0 .. Len(wire) /\ d \in Nat /\ k \in Nat /\ k >= 1
  BY <1>1, <1>4
<1>6. \A i \in 1 .. Pending - d : Numbers'[i] = Numbers[i + d]
  <2>1. Len(asked) <= Len(asked') /\ \A i \in 1 .. Len(asked) : asked'[i].cseq = asked[i].cseq
    BY <1>1, <1>2
  <2>2. /\ d \in 0 .. Len(wire) /\ Len(wire') = Len(wire) - d
        /\ \A i \in 1 .. Len(wire) - d : wire'[i].cseq = wire[i + d].cseq
    BY <1>4, <1>5
  <2>. QED
    BY <2>1, <2>2, NumbersRead
<1>7. Orderly(Numbers, Pending, cseq, slips + 1)
  BY <1>3 DEF StepInv
<1>8. Pending' = Pending - d /\ Pending - d \in Nat /\ Pending - d <= slips'
  <2>1. Pending <= slips + 1
    BY <1>7 DEF Orderly
  <2>2. Pending' = Len(wire') + Len(asked')
    BY DEF Pending
  <2>3. Pending' = Pending - d
    BY <1>1, <1>2, <1>4, <1>5, <2>2
  <2>4. Pending - d \in Nat
    BY <1>1, <1>2, <1>5
  <2>5. slips' = slips + (k - d)
    BY <1>4
  <2>6. Pending - d <= slips + (k - d)
    BY <1>1, <1>3, <1>5, <2>1
  <2>. QED
    BY <2>3, <2>4, <2>5, <2>6
<1>9. Orderly(Numbers', Pending - d, cseq, slips')
  <2>1. \A i \in 1 .. Pending : Numbers[i] \in Nat
    BY <1>1
  <2> DEFINE n == Pending
             m == Pending - d
             sl == slips + 1
             o == Numbers
             p == Numbers'
             tl == slips'
             c == cseq
  <2>2. /\ n \in Nat /\ m \in Nat /\ sl \in Nat /\ tl \in Nat /\ c \in Nat /\ m = n - d /\ m <= tl
        /\ Orderly(o, n, c, sl) /\ \A i \in 1 .. n : o[i] \in Nat
        /\ \A i \in 1 .. m : p[i] = o[i + d]
    BY <1>1, <1>3, <1>6, <1>7, <1>8, <2>1
  <2> HIDE DEF n, m, sl, o, p, tl, c
  <2>3. Orderly(p, m, c, tl)
    BY <1>5, <2>2, OrderlyRead
  <2>. QED
    BY <2>3 DEF m, p, tl, c
<1>10. Orderly(Numbers', Pending', cseq', slips' + Own')
  BY <1>2, <1>3, <1>8, <1>9
<1>11. slips' = 0 => Pending' = 0
  BY <1>8
<1>. QED
  BY <1>2, <1>10, <1>11 DEF StepInv

\* The answer of the server takes the place of the request.
LEMMA StepServed ==
  ASSUME ConnTypeOK, StepInv, NEW fields \in SetupFields, Serve(fields)
  PROVE  StepInv'
<1>1. /\ asked \in Seq(Request) /\ wire \in Seq(Answer) /\ asked # <<>>
      /\ Len(wire) \in Nat /\ Len(asked) \in Nat /\ asked' = Tail(asked) /\ conn = "open"
      /\ UNCHANGED <<conn, cseq, call, slips>>
  BY DEF ConnTypeOK, Serve
<1>2. PICK status, f, s : Reply(status, f, s)
  BY DEF Serve, Refuse, Challenge, Describe, Setup, Play, Teardown
<1> DEFINE r == [cseq |-> Head(asked).cseq, status |-> status, fields |-> f,
                 session |-> s, slot |-> Head(asked).slot]
<1>3. wire' = Append(wire, r) /\ r.cseq = asked[1].cseq
  BY <1>1, <1>2 DEF Reply
<1> HIDE DEF r
<1>4. /\ Len(wire') = Len(wire) + 1 /\ wire'[Len(wire) + 1] = r
      /\ \A i \in 1 .. Len(wire) : wire'[i] = wire[i]
  BY <1>1, <1>3
<1>5. /\ Len(asked') = Len(asked) - 1 /\ Len(asked) # 0
      /\ \A i \in 1 .. Len(asked) - 1 : asked'[i] = asked[i + 1]
  BY <1>1
<1>6. Pending' = Pending
  BY <1>1, <1>4, <1>5 DEF Pending
<1>7. ASSUME NEW i \in 1 .. Pending
      PROVE  Numbers'[i] = Numbers[i]
  <2>1. /\ i \in 1 .. Len(wire) + Len(asked)
        /\ Numbers[i] = IF i <= Len(wire) THEN wire[i].cseq ELSE asked[i - Len(wire)].cseq
    BY <1>7 DEF Numbers, Pending
  <2>2. Numbers'[i] = IF i <= Len(wire') THEN wire'[i].cseq ELSE asked'[i - Len(wire')].cseq
    <3>1. i \in 1 .. Len(wire') + Len(asked')
      BY <1>1, <1>4, <1>5, <2>1
    <3>. QED
      BY <3>1 DEF Numbers, Pending
  <2>3. CASE i <= Len(wire)
    BY <1>1, <1>4, <2>1, <2>2, <2>3
  <2>4. CASE i = Len(wire) + 1
    <3>1. i <= Len(wire') /\ ~(i <= Len(wire)) /\ i - Len(wire) = 1
      BY <1>1, <1>4, <2>4
    <3>. QED
      BY <1>3, <1>4, <2>1, <2>2, <2>4, <3>1
  <2>5. CASE i > Len(wire) + 1
    <3>1. /\ ~(i <= Len(wire')) /\ ~(i <= Len(wire))
          /\ i - Len(wire') \in 1 .. Len(asked) - 1 /\ (i - Len(wire')) + 1 = i - Len(wire)
      BY <1>1, <1>4, <2>1, <2>5
    <3>2. asked'[i - Len(wire')] = asked[i - Len(wire)]
      BY <1>5, <3>1
    <3>. QED
      BY <2>1, <2>2, <3>1, <3>2
  <2>. QED
    BY <1>1, <2>1, <2>3, <2>4, <2>5
<1>. QED
  BY <1>1, <1>6, <1>7, StepKept

LEMMA StepDropped ==
  ASSUME ConnTypeOK, ConnTypeOK', StepInv, DropCall
  PROVE  StepInv'
<1>1. /\ Pending \in Nat /\ wire \in Seq(Answer) /\ Len(wire) \in Nat /\ slips \in Nat
      /\ cseq \in Nat
  <2>1. Pending \in Nat /\ Len(wire) \in Nat
    BY NumbersType
  <2>2. wire \in Seq(Answer) /\ slips \in Nat /\ cseq \in 0 .. MaxRequests /\ MaxRequests \in Nat
    BY ConnectionAssumption DEF ConnTypeOK
  <2>. QED
    BY <2>1, <2>2
<1>2. /\ call # Idle /\ call' = Idle /\ slips' = slips + 1 /\ UNCHANGED <<conn, asked, cseq>>
      /\ Own = 1 /\ Own' = 0
  BY DEF DropCall, Own
<1>3. Len(wire') = Len(wire) /\ \A i \in 1 .. Len(wire) : wire'[i].cseq = wire[i].cseq
  <2>1. CASE wire # <<>> /\ wire' = [wire EXCEPT ![1].status = "tail"]
    <3>1. 1 \in 1 .. Len(wire) /\ wire[1] \in Answer
      BY <1>1, <2>1
    <3>2. [wire[1] EXCEPT !.status = "tail"].cseq = wire[1].cseq
      BY <3>1 DEF Answer
    <3>3. \A i \in 1 .. Len(wire) :
            wire'[i] = IF i = 1 THEN [wire[1] EXCEPT !.status = "tail"] ELSE wire[i]
      BY <1>1, <2>1, <3>1
    <3>4. Len(wire') = Len(wire)
      BY <1>1, <2>1
    <3>. QED
      BY <3>2, <3>3, <3>4
  <2>. QED
    BY <2>1 DEF DropCall
<1>4. Pending' = Pending
  BY <1>2, <1>3 DEF Pending
<1>5. \A i \in 1 .. Pending : Numbers'[i] = Numbers[i]
  BY <1>1, <1>2, <1>3, <1>4 DEF Numbers, Pending
<1>6. Orderly(Numbers', Pending', cseq', slips' + Own')
  <2>1. Orderly(Numbers, Pending, cseq, slips + 1)
    BY <1>2 DEF StepInv
  <2>2. slips' + Own' = slips + 1
    BY <1>1, <1>2
  <2>. QED
    BY <1>2, <1>4, <1>5, <2>1, <2>2 DEF Orderly
<1>7. slips' # 0
  BY <1>1, <1>2
<1>. QED
  BY <1>2, <1>6, <1>7 DEF StepInv

LEMMA StepClosed ==
  ASSUME ConnTypeOK, ConnTypeOK', StepInv, ServerCloses
  PROVE  StepInv'
<1>1. /\ Pending \in Nat /\ Len(wire) \in Nat /\ Len(asked) \in Nat /\ slips \in Nat /\ Own \in Nat
  BY NumbersType DEF ConnTypeOK, Own
<1>2. /\ conn' = "closed" /\ asked' = <<>> /\ conn = "open" /\ UNCHANGED <<wire, cseq, call, slips>>
  BY DEF ServerCloses
<1>3. Pending' = Len(wire) /\ Len(wire) <= Pending
  BY <1>1, <1>2 DEF Pending
<1>4. \A i \in 1 .. Len(wire) : i \in 1 .. Pending /\ Numbers'[i] = Numbers[i]
  BY <1>1, <1>2, <1>3 DEF Numbers, Pending
<1>5. Orderly(Numbers', Pending', cseq', slips' + Own')
  <2>1. Orderly(Numbers, Pending, cseq, slips + Own)
    BY DEF StepInv
  <2>2. Len(wire) <= slips + Own
    BY <1>1, <1>3, <2>1 DEF Orderly
  <2>3. Own' = Own
    BY <1>2 DEF Own
  <2>. QED
    BY <1>2, <1>3, <1>4, <2>1, <2>2, <2>3 DEF Orderly
<1>6. slips' = 0 => \A i \in 1 .. Pending' : Numbers'[i] = call'.cseq
  BY <1>2, <1>3, <1>4 DEF StepInv
<1>. QED
  BY <1>2, <1>5, <1>6 DEF StepInv

LEMMA NextStep ==
  ASSUME TypeInv, StepInv, [Next]_vars
  PROVE  StepInv'
<1>0. ConnTypeOK /\ ConnTypeOK' /\ (call \in Waiting \/ call = Idle)
  BY NextTypeInv DEF TypeInv, ClientTypeOK, ConnTypeOK
<1>1. UNCHANGED <<conn, cseq, call, slips, wire, asked>> => StepInv'
  <2> SUFFICES ASSUME UNCHANGED <<conn, cseq, call, slips, wire, asked>> PROVE StepInv'
    OBVIOUS
  <2>1. Pending' = Pending /\ Numbers' = Numbers
    BY DEF Pending, Numbers
  <2>2. conn # "open" => asked' = <<>>
    BY DEF StepInv
  <2>. QED
    BY <1>0, <2>1, <2>2, StepKept
<1>2. CASE Connects
  <2>1. call' = Idle /\ UNCHANGED <<call, cseq>> /\ (Opened \/ NotOpened)
    BY <1>2 DEF Connects, connect, reconnect, TryConnect
  <2>2. CASE Opened
    BY <1>0, <2>1, <2>2, StepEmpty DEF Opened
  <2>3. CASE NotOpened
    BY <1>1, <2>1, <2>3 DEF NotOpened
  <2>. QED
    BY <2>1, <2>2, <2>3
<1>3. ASSUME NEW method, NEW media, NEW s, NEW slot, send_request(method, media, s, slot)
      PROVE  StepInv'
  <2>1. /\ call = Idle /\ UNCHANGED <<conn, wire, slips>> /\ Written(method, FALSE, s, slot)
        /\ call' = IF conn = "none" THEN Idle ELSE
             [method |-> method, media |-> media, slot |-> slot, retry |-> FALSE,
              cseq |-> cseq + 1]
    BY <1>3 DEF send_request
  <2>2. cseq + 1 # 0
    BY <1>0, ConnectionAssumption DEF ConnTypeOK
  <2>3. \/ call' = Idle /\ conn = "none"
        \/ call' # Idle /\ call'.cseq = cseq + 1 /\ conn # "none"
    BY <2>1, <2>2 DEF Idle
  <2>4. Pending \in Nat /\ Len(wire) \in Nat /\ slips \in Nat
    BY <1>0, NumbersType DEF ConnTypeOK
  <2>5. Pending <= slips
    BY <2>1, <2>4 DEF StepInv, Orderly, Own
  <2>6. /\ 0 \in 0 .. Len(wire) /\ Len(wire') = Len(wire) - 0
        /\ \A i \in 1 .. Len(wire) - 0 : wire'[i].cseq = wire[i + 0].cseq
        /\ Pending - 0 <= slips' /\ (slips' = 0 => Pending = 0)
    BY <2>1, <2>4, <2>5
  <2>7. Written(method, FALSE, s, slot) /\ UNCHANGED conn
    BY <2>1
  <2>. QED
    BY <1>0, <2>3, <2>6, <2>7, StepAsked
<1>4. CASE Begins
  <2>1. UNCHANGED connvars => StepInv'
    BY <1>1 DEF connvars
  <2>. QED
    BY <1>3, <1>4, <2>1 DEF Begins, BeginDescribe, BeginSetup, BeginSetupWithStream, BeginPlay,
      BeginTeardown, TeardownWithoutSession, get_packet_receiver
<1>5. ASSUME NEW k \in 1 .. Len(wire), handle_auth(k)
      PROVE  StepInv'
  <2>1. /\ Reads(k) /\ UNCHANGED conn /\ Written(call.method, TRUE, 0, 0)
        /\ call' = Repeated /\ call # Idle
    BY <1>5 DEF handle_auth, Reads
  <2>2. cseq + 1 # 0
    BY <1>0, ConnectionAssumption DEF ConnTypeOK
  <2>3. call'.cseq = cseq + 1 /\ call' # Idle /\ conn # "none"
    BY <1>0, <2>1, <2>2 DEF Repeated, Waiting, Idle, StepInv
  <2>4. PICK d \in 0 .. k :
          /\ Len(wire') = Len(wire) - d /\ slips' = slips + (k - d)
          /\ d = k \/ d = k - 1
          /\ \A i \in 1 .. Len(wire) - d : wire'[i].cseq = wire[i + d].cseq
    BY <1>0, <2>1, ReadWire
  <2>5. /\ Pending \in Nat /\ Len(wire) \in Nat /\ Len(asked) \in Nat /\ slips \in Nat
        /\ Pending = Len(wire) + Len(asked)
    BY <1>0, NumbersType DEF ConnTypeOK, Pending
  <2>6. d \in 0 .. Len(wire) /\ d \in Nat /\ k \in Nat /\ k >= 1 /\ k <= Len(wire)
    BY <2>4, <2>5
  <2>7. Pending <= slips + 1
    BY <2>1 DEF StepInv, Orderly, Own
  <2>8. Pending - d <= slips + (k - d) /\ (slips + (k - d) = 0 => Pending = d)
    BY <2>4, <2>5, <2>6, <2>7
  <2>9. Pending - d <= slips' /\ (slips' = 0 => Pending = d)
    BY <2>4, <2>8
  <2>. QED
    BY <1>0, <2>1, <2>3, <2>4, <2>6, <2>9, StepAsked
<1>6. ASSUME NEW k \in 1 .. Len(wire), Reads(k), Returns
      PROVE  StepInv'
  BY <1>0, <1>6, StepReturned
<1>7. CASE Ends
  BY <1>5, <1>6, <1>7 DEF Ends, Described, SetUp, SetUpWithStream, Played, TornDown, Answered
<1>8. CASE Fails
  <2>1. Returns
    BY <1>8 DEF Fails, RequestFails
  <2>2. CASE conn = "closed" /\ wire = <<>> /\ UNCHANGED <<wire, cuts, slips>>
    <3>1. asked' = <<>> /\ wire' = <<>> /\ call' = Idle
      BY <2>1, <2>2 DEF StepInv, Returns
    <3>. QED
      BY <1>0, <3>1, StepEmpty
  <2>. QED
    BY <1>6, <1>8, <2>1, <2>2 DEF Fails, RequestFails
<1>9. CASE Breaks
  BY <1>0, <1>9, StepDropped, StepClosed DEF Breaks
<1>10. CASE Server
  BY <1>0, <1>10, StepServed DEF Server
<1>11. CASE Packets \/ UNCHANGED vars
  <2>1. UNCHANGED connvars
    BY <1>11 DEF Packets, PacketArrives, TaskSends, SocketFails, AppReceives, AppDropsReceiver, vars
  <2>. QED
    BY <1>1, <2>1 DEF connvars
<1>. QED
  BY <1>2, <1>4, <1>7, <1>8, <1>9, <1>10, <1>11 DEF Next

LEMMA InStepFollows ==
  ASSUME TypeInv, StepInv
  PROVE  InStep
<1> DEFINE outstanding == wire \o asked
<1>0. ConnTypeOK
  BY DEF TypeInv, ClientTypeOK
<1>1. asked \in Seq(Request) /\ wire \in Seq(Answer) /\ Len(wire) \in Nat /\ Len(asked) \in Nat
  BY <1>0 DEF ConnTypeOK
<1>2. /\ Len(outstanding) = Pending /\ outstanding \in Seq(Request \cup Answer)
      /\ \A i \in 1 .. Pending :
           outstanding[i] = IF i <= Len(wire) THEN wire[i] ELSE asked[i - Len(wire)]
  <2>1. asked \in Seq(Request \cup Answer) /\ wire \in Seq(Request \cup Answer)
    BY <1>1
  <2>2. /\ wire \o asked \in Seq(Request \cup Answer)
        /\ Len(wire \o asked) = Len(wire) + Len(asked)
        /\ \A i \in 1 .. Len(wire) + Len(asked) :
             (wire \o asked)[i] = IF i <= Len(wire) THEN wire[i] ELSE asked[i - Len(wire)]
    BY <2>1, ConcatProperties
  <2>. QED
    BY <2>2 DEF Pending
<1>3. DOMAIN outstanding = 1 .. Pending
  BY <1>2
<1>4. \A i \in 1 .. Pending : outstanding[i].cseq = Numbers[i]
  BY <1>1, <1>2 DEF Numbers
<1> HIDE DEF outstanding
<1>5. Len(outstanding) <= slips + Own
  BY <1>2 DEF StepInv, Orderly
<1>6. \A i, j \in DOMAIN outstanding : i < j => outstanding[i].cseq < outstanding[j].cseq
  BY <1>3, <1>4 DEF StepInv, Orderly
<1>7. conn = "open" /\ call # Idle =>
        outstanding # <<>> /\ outstanding[Len(outstanding)].cseq = call.cseq
  <2> SUFFICES ASSUME conn = "open", call # Idle
               PROVE  outstanding # <<>> /\ outstanding[Len(outstanding)].cseq = call.cseq
    OBVIOUS
  <2>1. Pending # 0 /\ Numbers[Pending] = call.cseq
    BY DEF StepInv
  <2>2. Pending \in 1 .. Pending
    BY <1>0, <2>1, NumbersType
  <2>. QED
    BY <1>2, <1>4, <2>1, <2>2
<1>8. slips = 0 => \A i \in DOMAIN outstanding : outstanding[i].cseq = call.cseq
  BY <1>3, <1>4 DEF StepInv
<1>. QED
  BY <1>5, <1>6, <1>7, <1>8 DEF InStep, Own, outstanding

LEMMA InitStep == ClientInit => StepInv
<1> SUFFICES ASSUME ClientInit PROVE StepInv
  OBVIOUS
<1>1. asked = <<>> /\ wire = <<>> /\ call = Idle /\ slips = 0
  BY DEF ClientInit, ConnInit
<1>2. Pending = 0 /\ Own = 0
  BY <1>1 DEF Pending, Own
<1>3. \A i : i \notin 1 .. Pending
  BY <1>2
<1>4. Pending <= slips + Own
  BY <1>1, <1>2
<1>5. Orderly(Numbers, Pending, cseq, slips + Own)
  BY Zenon, <1>3, <1>4 DEF Orderly
<1>. QED
  BY <1>1, <1>3, <1>5 DEF StepInv

\* What is still to be answered or read is in order and bounded by the calls
\* dropped and the answers read in part; a call that waits on an open
\* connection has its own answer last; and without a slip a call reads the
\* answer to the request it sent last and no other.
THEOREM AlwaysInStep == Spec => []InStep
<1>1. ClientInit => StepInv
  BY InitStep
<1>2. TypeInv /\ StepInv /\ [Next]_vars => StepInv'
  BY NextStep
<1>3. TypeInv /\ StepInv => InStep
  BY InStepFollows
<1>4. ClientInit => TypeInv
  BY InitTypeInv
<1>5. TypeInv /\ [Next]_vars => TypeInv'
  BY NextTypeInv
<1>. QED
  BY <1>1, <1>2, <1>3, <1>4, <1>5, PTL DEF Spec

\* Once reconnect has used up its attempts nothing gives them back.
THEOREM AttemptsStayUsed == Spec => GivesUpForGood
<1>1. TypeInv /\ [Next]_vars =>
        [reconnect_attempts = max_reconnect_attempts /\ max_reconnect_attempts > 0
           => UNCHANGED reconnect_attempts]_connvars
  <2> SUFFICES ASSUME TypeInv, [Next]_vars, reconnect_attempts = max_reconnect_attempts
               PROVE  UNCHANGED reconnect_attempts
    OBVIOUS
  <2>1. ~reconnect
    BY ConnectionAssumption DEF reconnect, AttemptsLeft
  <2>2. connect => UNCHANGED reconnect_attempts
    BY DEF connect, AttemptsAfterConnect
  <2>3. Ends => UNCHANGED reconnect_attempts
    BY DEF Ends, Described, SetUp, SetUpWithStream, Played, TornDown, Answered, Returns,
      handle_auth, counts
  <2>4. Begins => UNCHANGED reconnect_attempts
    BY DEF Begins, BeginDescribe, BeginSetup, BeginSetupWithStream, BeginPlay, BeginTeardown,
      TeardownWithoutSession, get_packet_receiver, send_request, counts, connvars
  <2>5. Fails \/ Breaks \/ Server => UNCHANGED reconnect_attempts
    BY DEF Fails, RequestFails, Returns, Breaks, DropCall, ServerCloses, Server, Serve, counts
  <2>6. Packets \/ UNCHANGED vars => UNCHANGED reconnect_attempts
    BY DEF Packets, PacketArrives, TaskSends, SocketFails, AppReceives, AppDropsReceiver,
      connvars, vars, counts
  <2>. QED
    BY <2>1, <2>2, <2>3, <2>4, <2>5, <2>6 DEF Next, Connects
<1>2. ClientInit => TypeInv
  BY InitTypeInv
<1>3. TypeInv /\ [Next]_vars => TypeInv'
  BY NextTypeInv
<1>. QED
  BY <1>1, <1>2, <1>3, PTL DEF Spec, GivesUpForGood

------------------------------------------------------------------------------
(* The session and the ports: the client and the server agree on the        *)
(* session, tasks start only for a session that plays, and a setup never    *)
(* fails on a port of the client's own.  All rest on the exchange being the *)
(* only one (Single).                                                       *)

Agreed == alive = {session} \ {0}

\* A request on its way: the client still knows what the server knows.
Asking(req) ==
  /\ Agreed
  /\ req.method = call.method /\ req.slot \in {0, call.slot}
  /\ req.session = IF req.retry THEN 0 ELSE session

Creates == call.method \in {"SETUP", "SETUP_WITH_STREAM"}

\* An answer on its way says what the client has yet to learn.
Answering(a) ==
  /\ a.status # "tail" /\ a.slot \in {0, call.slot}
  /\ a.status = "200" /\ Creates =>
       /\ a.session # 0 /\ alive = {a.session} /\ session \in {0, a.session}
       /\ a.fields \in SetupFields
  /\ a.status = "200" /\ call.method = "TEARDOWN" => alive = {}
  /\ ~(a.status = "200" /\ (Creates \/ call.method = "TEARDOWN")) => Agreed
  /\ a.status = "200" /\ call.method = "PLAY" => session \in playing

AgreeInv ==
  Smooth =>
    /\ slips = 0 /\ conn # "closed"
    /\ call = Idle => Agreed
    /\ OneAsked => Asking(asked[1])
    /\ OneAnswer => Answering(wire[1])

------------------------------------------------------------------------------
(* The session. *)

\* Mishaps and cuts are not forgotten.
LEMMA SmoothBefore ==
  ASSUME TypeInv, [Next]_vars
  PROVE  Smooth' => Smooth
<1>0. ConnTypeOK
  BY DEF TypeInv, ClientTypeOK
<1>1. mishap => mishap'
  BY DEF Next, Connects, Begins, BeginDescribe, BeginSetup, BeginSetupWithStream, BeginPlay,
    BeginTeardown, TeardownWithoutSession, get_packet_receiver, Ends, Described, SetUp,
    SetUpWithStream, Played, TornDown, Fails, Breaks, Server, Packets, PacketArrives, TaskSends,
    AppReceives, AppDropsReceiver, SocketFails, vars, clientvars
<1>2. cuts \in Nat
  BY <1>0, ConnectionAssumption DEF ConnTypeOK
<1>3. ASSUME NEW k \in 1 .. Len(wire), Reads(k)
      PROVE  cuts' = 0 => cuts = 0
  BY <1>2, <1>3 DEF Reads, ReadsWhole, ReadsInPart
<1>4. cuts' = 0 => cuts = 0
  <2>1. Connects \/ Begins \/ Breaks \/ Server \/ Packets \/ UNCHANGED vars => UNCHANGED cuts
    BY DEF Connects, connect, reconnect, TryConnect, Begins, BeginDescribe, BeginSetup,
      BeginSetupWithStream, BeginPlay, BeginTeardown, TeardownWithoutSession,
      get_packet_receiver, send_request, Breaks, DropCall, ServerCloses, Server, Serve, Packets,
      PacketArrives, TaskSends, AppReceives, AppDropsReceiver, SocketFails, connvars, vars
  <2>2. Ends => \E k \in 1 .. Len(wire) : Reads(k)
    BY DEF Ends, Described, SetUp, SetUpWithStream, Played, TornDown, Answered, handle_auth
  <2>3. Fails => UNCHANGED cuts \/ \E k \in 1 .. Len(wire) : Reads(k)
    BY DEF Fails, RequestFails
  <2>. QED
    BY <1>3, <2>1, <2>2, <2>3 DEF Next
<1>. QED
  BY <1>1, <1>4 DEF Smooth

\* What a call reads is the answer to it, with nothing behind.
LEMMA ReadsAnswer ==
  ASSUME TypeInv, StepInv, AgreeInv, Smooth, NEW k \in 1 .. Len(wire), Reads(k)
  PROVE  /\ AnswerOf(k) = wire[1] /\ Answering(wire[1]) /\ call # Idle
         /\ asked = <<>> /\ slips = 0 /\ conn # "closed" /\ k = 1
         /\ Smooth' => wire' = <<>> /\ slips' = 0
<1>1. slips = 0 /\ conn # "closed" /\ (OneAnswer => Answering(wire[1]))
  BY DEF AgreeInv
<1>2. ConnTypeOK
  BY DEF TypeInv, ClientTypeOK
<1>3. /\ OneAnswer /\ AnswerOf(k) = wire[1] /\ call # Idle /\ asked = <<>> /\ k = 1
      /\ cuts' = cuts => wire' = <<>>
  BY <1>1, <1>2, ReadsAll
<1>4. ASSUME Smooth' PROVE wire' = <<>> /\ slips' = 0
  <2>1. cuts = 0 /\ cuts' = 0
    BY <1>4 DEF Smooth
  <2>2. ~ReadsInPart(k)
    BY <2>1 DEF ReadsInPart
  <2>3. slips' = slips
    BY <2>2 DEF Reads, ReadsWhole
  <2>. QED
    BY <1>1, <1>3, <2>1, <2>3
<1>. QED
  BY <1>1, <1>3, <1>4

\* After a call that ends.
LEMMA EndsAgreed ==
  ASSUME TypeInv, StepInv, AgreeInv, Smooth, Smooth', NEW k \in 1 .. Len(wire), Reads(k), Returns,
         alive = {session'} \ {0}
  PROVE  AgreeInv'
<1>1. asked = <<>> /\ wire' = <<>> /\ slips' = 0 /\ conn # "closed"
  BY ReadsAnswer
<1>2. UNCHANGED <<conn, asked, alive>>
  BY DEF Returns, server
<1>. QED
  BY <1>1, <1>2 DEF AgreeInv, OneAsked, OneAnswer, Agreed

\* A request written while nothing is on its way.
LEMMA AsksAgreed ==
  ASSUME asked = <<>>, wire' = <<>>, conn = "open", UNCHANGED <<conn, alive, session>>,
         Agreed, slips' = 0, call' # Idle,
         asked' = <<[cseq |-> call'.cseq, method |-> call'.method, retry |-> call'.retry,
                     session |-> IF call'.retry THEN 0 ELSE session,
                     slot |-> IF call'.retry THEN 0 ELSE call'.slot]>>
  PROVE  AgreeInv'
<1>1. Asking(asked[1])'
  BY DEF Asking, Agreed
<1>2. ~OneAnswer'
  BY DEF OneAnswer
<1>. QED
  BY <1>1, <1>2 DEF AgreeInv

LEMMA BeginsAgreed ==
  ASSUME TypeInv, StepInv, AgreeInv, Begins
  PROVE  AgreeInv'
<1>0. Smooth' => Smooth
  BY SmoothBefore DEF Next
<1>1. ASSUME NEW method, NEW media, NEW slot, send_request(method, media, session, slot),
             UNCHANGED session
      PROVE  AgreeInv'
  <2> SUFFICES ASSUME Smooth PROVE AgreeInv'
    BY <1>0 DEF AgreeInv
  <2>1. /\ call = Idle /\ Written(method, FALSE, session, slot)
        /\ UNCHANGED <<conn, wire, slips, alive, playing>>
        /\ call' = IF conn = "none" THEN Idle ELSE
             [method |-> method, media |-> media, slot |-> slot, retry |-> FALSE,
              cseq |-> cseq + 1]
    BY <1>1 DEF send_request, server
  <2>2. Agreed /\ slips = 0 /\ conn # "closed"
    BY <2>1 DEF AgreeInv
  <2>3. asked = <<>> /\ wire = <<>>
    BY <2>1, <2>2, Single DEF Quiet, TypeInv, ClientTypeOK
  <2>4. CASE conn = "open"
    <3>1. asked' = <<[cseq |-> cseq + 1, method |-> method, retry |-> FALSE,
                      session |-> session, slot |-> slot]>>
      BY <2>1, <2>3, <2>4 DEF Written
    <3>2. call' = [method |-> method, media |-> media, slot |-> slot, retry |-> FALSE,
                   cseq |-> cseq + 1]
      BY <2>1, <2>4
    <3>3. cseq + 1 # 0
      BY ConnectionAssumption DEF TypeInv, ClientTypeOK, ConnTypeOK
    <3>4. call' # Idle
      BY <3>2, <3>3 DEF Idle
    <3>. QED
      BY <1>1, <2>1, <2>2, <2>3, <2>4, <3>1, <3>2, <3>4, AsksAgreed
  <2>5. CASE conn = "none"
    <3>1. asked' = asked /\ call' = Idle
      BY <2>1, <2>5 DEF Written
    <3>. QED
      BY <1>1, <2>1, <2>2, <2>3, <2>5, <3>1 DEF AgreeInv, Agreed, OneAsked, OneAnswer
  <2>. QED
    BY <2>2, <2>4, <2>5 DEF TypeInv, ClientTypeOK, ConnTypeOK
<1>2. UNCHANGED <<connvars, session, mishap>> => AgreeInv'
  BY DEF connvars, server, AgreeInv, Smooth, OneAsked, OneAnswer, Asking, Answering, Agreed,
    Creates
<1>3. UNCHANGED clientvars => UNCHANGED <<session, mishap>>
  BY DEF clientvars
<1>4. CASE BeginDescribe \/ (\E m \in Media : BeginSetup(m)) \/ BeginSetupWithStream
           \/ BeginPlay \/ BeginTeardown
  BY <1>1, <1>3, <1>4 DEF BeginDescribe, BeginSetup, BeginSetupWithStream, BeginPlay,
    BeginTeardown
<1>5. CASE TeardownWithoutSession \/ get_packet_receiver
  BY <1>2, <1>5 DEF TeardownWithoutSession, get_packet_receiver
<1>. QED
  BY <1>4, <1>5 DEF Begins

LEMMA EndsAgree ==
  ASSUME TypeInv, StepInv, AgreeInv, Ends
  PROVE  AgreeInv'
<1> SUFFICES ASSUME Smooth' PROVE AgreeInv'
  BY DEF AgreeInv
<1>1. PICK k \in 1 .. Len(wire) :
        \/ Described(k) \/ SetUp(k) \/ SetUpWithStream(k) \/ Played(k) \/ TornDown(k)
        \/ handle_auth(k) /\ UNCHANGED clientvars
  BY DEF Ends
<1>2. Reads(k) /\ Smooth
  <2>1. Reads(k)
    BY <1>1 DEF Described, SetUp, SetUpWithStream, Played, TornDown, Answered, handle_auth
  <2>. QED
    BY <2>1, SmoothBefore DEF Next
<1>3. /\ AnswerOf(k) = wire[1] /\ Answering(wire[1]) /\ call # Idle
      /\ asked = <<>> /\ wire' = <<>> /\ slips' = 0 /\ conn # "closed"
  BY <1>2, ReadsAnswer
<1>4. ASSUME NEW method, Answered(method, k), alive = {session'} \ {0}
      PROVE  AgreeInv'
  BY <1>2, <1>4, EndsAgreed DEF Answered
<1>5. CASE Described(k)
  <2>1. /\ Answered("DESCRIBE", k) /\ call.method = "DESCRIBE" /\ session' = session
    BY <1>5 DEF Described, Answered
  <2>2. Agreed
    BY <1>3, <2>1 DEF Answering, Creates
  <2>. QED
    BY <1>4, <2>1, <2>2 DEF Agreed
<1>6. CASE SetUp(k)
  <2>1. /\ Answered("SETUP", k) /\ call.method = "SETUP" /\ wire[1].status = "200"
        /\ session' = IF StoresSession(wire[1].fields) THEN wire[1].session ELSE session
        /\ ~(wire[1].fields = <<"T", "S">> /\ wire[1].session # session)
    BY <1>3, <1>6 DEF SetUp, Answered, Succeeded, Smooth
  <2>2. /\ wire[1].session # 0 /\ alive = {wire[1].session} /\ wire[1].fields \in SetupFields
    BY <1>3, <2>1 DEF Answering, Creates
  <2>3. session' = wire[1].session
    BY <2>1, <2>2 DEF StoresSession, SetupFields
  <2>. QED
    BY <1>4, <2>1, <2>2, <2>3
<1>7. CASE SetUpWithStream(k)
  <2>1. /\ Answered("SETUP_WITH_STREAM", k) /\ call.method = "SETUP_WITH_STREAM"
        /\ wire[1].status = "200"
        /\ session' = IF wire[1].session # 0 THEN wire[1].session ELSE session
    BY <1>3, <1>7 DEF SetUpWithStream, Answered, Succeeded
  <2>2. wire[1].session # 0 /\ alive = {wire[1].session}
    BY <1>3, <2>1 DEF Answering, Creates
  <2>. QED
    BY <1>4, <2>1, <2>2
<1>8. CASE Played(k)
  <2>1. /\ Answered("PLAY", k) /\ call.method = "PLAY" /\ session' = session
    BY <1>8 DEF Played, Answered
  <2>2. Agreed
    BY <1>3, <2>1 DEF Answering, Creates
  <2>. QED
    BY <1>4, <2>1, <2>2 DEF Agreed
<1>9. CASE TornDown(k)
  <2>1. /\ Answered("TEARDOWN", k) /\ call.method = "TEARDOWN" /\ wire[1].status = "200"
        /\ session' = 0
    BY <1>3, <1>9 DEF TornDown, Answered, Succeeded
  <2>2. alive = {}
    BY <1>3, <2>1 DEF Answering
  <2>. QED
    BY <1>4, <2>1, <2>2
<1>10. CASE handle_auth(k) /\ UNCHANGED clientvars
  <2>1. /\ wire[1].status = "401" /\ Written(call.method, TRUE, 0, 0) /\ call' = Repeated
        /\ UNCHANGED <<conn, alive>>
    BY <1>3, <1>10 DEF handle_auth, Challenged, server
  <2>2. Agreed /\ session' = session
    BY <1>3, <1>10, <2>1 DEF Answering, clientvars
  <2>3. ConnTypeOK /\ call \in Waiting
    BY <1>3 DEF TypeInv, ClientTypeOK, ConnTypeOK
  <2>4. /\ call'.retry = TRUE /\ call'.cseq = cseq + 1 /\ call'.method = call.method
    BY <2>1, <2>3 DEF Repeated, Waiting
  <2>5. call' # Idle
    BY <2>3, <2>4, ConnectionAssumption DEF Idle, ConnTypeOK
  <2>6. conn = "open"
    BY <1>3, <2>3 DEF StepInv, ConnTypeOK
  <2>7. asked' = <<[cseq |-> cseq + 1, method |-> call.method, retry |-> TRUE,
                    session |-> 0, slot |-> 0]>>
    BY <1>3, <2>1, <2>6 DEF Written
  <2>8. Asking(asked[1])'
    BY <2>1, <2>2, <2>4, <2>7 DEF Asking, Agreed
  <2>. QED
    BY <1>3, <2>1, <2>5, <2>8 DEF AgreeInv, OneAnswer
<1>. QED
  BY <1>1, <1>5, <1>6, <1>7, <1>8, <1>9, <1>10

LEMMA ServerAgrees ==
  ASSUME TypeInv, StepInv, AgreeInv, Server
  PROVE  AgreeInv'
<1>1. PICK f \in SetupFields : Serve(f)
  BY DEF Server
<1>2. UNCHANGED <<session, mishap, cuts, conn, call, slips>> /\ asked # <<>> /\ conn = "open"
  BY <1>1 DEF Server, clientvars, Serve
<1> SUFFICES ASSUME Smooth PROVE AgreeInv'
  BY <1>2 DEF AgreeInv, Smooth
<1> DEFINE req == asked[1]
<1>4. ConnTypeOK
  BY DEF TypeInv, ClientTypeOK
<1>3. call # Idle /\ OneAsked /\ slips = 0
  BY <1>2, <1>4, Single DEF AgreeInv, Quiet, OneAnswer
<1>5. Head(asked) = req /\ req \in Request /\ OneAnswer'
  BY <1>1, <1>3, <1>4, ServedAlone
<1>6. Agreed /\ req.method = call.method /\ req.slot \in {0, call.slot}
      /\ req.session = IF req.retry THEN 0 ELSE session
  BY <1>3 DEF AgreeInv, Asking
<1>7. wire = <<>>
  BY <1>3 DEF OneAsked
<1>8. Answering(wire[1])' => AgreeInv'
  <2>1. asked' = <<>>
    BY <1>5 DEF OneAnswer
  <2>. QED
    BY <1>2, <1>3, <2>1 DEF AgreeInv, OneAsked
<1>9. CASE Refuse \/ Challenge
  <2>1. \E status \in {"error", "401"} : Reply(status, <<>>, 0)
    BY <1>9 DEF Refuse, Challenge
  <2>2. /\ wire'[1].status \in {"error", "401"} /\ wire'[1].slot = req.slot
    BY <1>5, <1>7, <2>1 DEF Reply
  <2>3. Agreed'
    BY <1>2, <1>6, <1>9 DEF Refuse, Challenge, server, Agreed
  <2>4. Answering(wire[1])'
    BY <1>2, <1>6, <2>2, <2>3 DEF Answering
  <2>. QED
    BY <1>8, <2>4
<1>10. CASE Describe
  <2>1. req.method = "DESCRIBE" /\ UNCHANGED alive /\ \E fields : Reply("200", fields, 0)
    BY <1>5, <1>10 DEF Describe, server
  <2>2. wire'[1].status = "200" /\ wire'[1].slot = req.slot
    BY <1>5, <1>7, <2>1 DEF Reply
  <2>3. Answering(wire[1])'
    BY <1>2, <1>6, <2>1, <2>2 DEF Answering, Creates, Agreed
  <2>. QED
    BY <1>8, <2>3
<1>11. CASE Setup(f)
  <2>1. /\ req.method \in {"SETUP", "SETUP_WITH_STREAM"} /\ ~req.retry
        /\ alive' = alive \cup {NewSession(req)} /\ Reply("200", f, NewSession(req))
    BY <1>5, <1>11 DEF Setup
  <2>2. /\ wire'[1].status = "200" /\ wire'[1].slot = req.slot /\ wire'[1].fields = f
        /\ wire'[1].session = NewSession(req)
    BY <1>5, <1>7, <2>1 DEF Reply
  <2>3. req.session = session /\ req.cseq # 0
    BY <1>5, <1>6, <2>1 DEF Request
  <2>4. NewSession(req) = (IF session = 0 THEN req.cseq ELSE session)
    BY <2>3 DEF NewSession
  <2>5. NewSession(req) # 0 /\ session \in {0, NewSession(req)}
    BY <2>3, <2>4
  <2>6. alive' = {NewSession(req)}
    BY <1>6, <2>1, <2>4 DEF Agreed
  <2>7. Answering(wire[1])'
    BY <1>2, <1>6, <2>1, <2>2, <2>5, <2>6 DEF Answering, Creates
  <2>. QED
    BY <1>8, <2>7
<1>12. CASE Play
  <2>1. /\ req.method = "PLAY" /\ req.session \in alive /\ UNCHANGED alive
        /\ playing' = playing \cup {req.session} /\ Reply("200", <<>>, 0)
    BY <1>5, <1>12 DEF Play
  <2>2. wire'[1].status = "200" /\ wire'[1].slot = req.slot
    BY <1>5, <1>7, <2>1 DEF Reply
  <2>3. req.session = session
    BY <1>6, <2>1 DEF Agreed
  <2>4. Answering(wire[1])'
    BY <1>2, <1>6, <2>1, <2>2, <2>3 DEF Answering, Creates, Agreed
  <2>. QED
    BY <1>8, <2>4
<1>13. CASE Teardown
  <2>1. /\ req.method = "TEARDOWN" /\ req.session \in alive
        /\ alive' = alive \ {req.session} /\ Reply("200", <<>>, 0)
    BY <1>5, <1>13 DEF Teardown
  <2>2. wire'[1].status = "200" /\ wire'[1].slot = req.slot
    BY <1>5, <1>7, <2>1 DEF Reply
  <2>3. alive' = {}
    BY <1>6, <2>1 DEF Agreed
  <2>4. Answering(wire[1])'
    BY <1>2, <1>6, <2>1, <2>2, <2>3 DEF Answering, Creates
  <2>. QED
    BY <1>8, <2>4
<1>. QED
  BY <1>1, <1>9, <1>10, <1>11, <1>12, <1>13 DEF Serve

LEMMA NextAgreed ==
  ASSUME TypeInv, StepInv, AgreeInv, [Next]_vars
  PROVE  AgreeInv'
<1>1. CASE Connects
  <2>1. /\ call = Idle /\ UNCHANGED <<call, alive, session, mishap, cuts>>
    BY <1>1 DEF Connects, connect, reconnect, TryConnect, server, clientvars
  <2>2. Opened \/ NotOpened
    BY <1>1 DEF Connects, connect, reconnect
  <2>3. CASE Opened
    BY <2>1, <2>3 DEF Opened, AgreeInv, Smooth, Agreed, OneAsked, OneAnswer
  <2>4. CASE NotOpened
    <3>1. slips = 0 => Quiet
      BY <2>1, Single DEF TypeInv, ClientTypeOK
    <3>. QED
      BY <2>1, <2>4, <3>1 DEF NotOpened, AgreeInv, Smooth, Agreed, OneAsked, OneAnswer, Quiet
  <2>. QED
    BY <2>2, <2>3, <2>4
<1>2. CASE Begins
  BY <1>2, BeginsAgreed
<1>3. CASE Ends
  BY <1>3, EndsAgree
<1>4. CASE Fails
  <2> SUFFICES ASSUME Smooth, Smooth' PROVE AgreeInv'
    BY SmoothBefore DEF AgreeInv
  <2>1. Returns /\ UNCHANGED session
    BY <1>4 DEF Fails, RequestFails, clientvars
  <2>2. conn # "closed"
    BY DEF AgreeInv
  <2>3. PICK k \in 1 .. Len(wire) : Reads(k) /\ (~Succeeded(AnswerOf(k)) \/ Headless(k))
    BY <1>4, <2>2 DEF Fails, RequestFails
  <2>4. AnswerOf(k) = wire[1] /\ Answering(wire[1]) /\ ~Headless(k)
    BY <2>3, ReadsAnswer DEF Headless
  <2>5. Agreed
    BY <2>3, <2>4 DEF Succeeded, Answering
  <2>. QED
    BY <2>1, <2>3, <2>5, EndsAgreed DEF Agreed
<1>5. CASE Breaks
  BY <1>5 DEF Breaks, AgreeInv, Smooth
<1>6. CASE Server
  BY <1>6, ServerAgrees
<1>7. CASE Packets \/ UNCHANGED vars
  <2>1. UNCHANGED connvars /\ UNCHANGED <<session, mishap>>
    BY <1>7 DEF Packets, PacketArrives, TaskSends, SocketFails, AppReceives, AppDropsReceiver,
      vars, clientvars
  <2>. QED
    BY <2>1 DEF connvars, server, AgreeInv, Smooth, OneAsked, OneAnswer, Asking, Answering,
      Agreed, Creates
<1>. QED
  BY <1>1, <1>2, <1>3, <1>4, <1>5, <1>6, <1>7 DEF Next

LEMMA InitAgreed == ClientInit => StepInv /\ AgreeInv
<1> SUFFICES ASSUME ClientInit PROVE StepInv /\ AgreeInv
  OBVIOUS
<1>. QED
  BY InitStep DEF ClientInit, ConnInit, AgreeInv, Agreed, OneAsked, OneAnswer

\* Between calls the server has the session the client knows and no other,
\* whatever was refused or challenged, unless a call was dropped, an answer
\* read in part, the connection lost, or the session left unstored.
THEOREM AlwaysAgree == Spec => []SessionsAgree
<1>1. ClientInit => TypeInv /\ StepInv /\ AgreeInv
  BY InitTypeInv, InitAgreed
<1>2. TypeInv /\ StepInv /\ AgreeInv /\ [Next]_vars => (TypeInv /\ StepInv /\ AgreeInv)'
  BY NextTypeInv, NextStep, NextAgreed
<1>3. AgreeInv => SessionsAgree
  BY DEF AgreeInv, SessionsAgree, Agreed
<1>. QED
  BY <1>1, <1>2, <1>3, PTL DEF Spec

\* The step of a task that starts.
LEMMA OnlyPlayStarts ==
  ASSUME TypeInv, [Next]_vars, DOMAIN tasks' \ DOMAIN tasks # {}
  PROVE  \E k \in 1 .. Len(wire) : Played(k)
<1>1. UNCHANGED clientvars => FALSE
  BY DEF clientvars
<1>2. UNCHANGED tasks => FALSE
  OBVIOUS
<1>3. ~Connects /\ ~Fails /\ ~Server /\ ~UNCHANGED vars
  BY <1>1 DEF Connects, Fails, Server, vars
<1>4. ~Breaks
  BY <1>2 DEF Breaks
<1>5. ~Begins
  BY <1>1, <1>2 DEF Begins, BeginDescribe, BeginSetup, BeginSetupWithStream, BeginPlay,
    BeginTeardown, TeardownWithoutSession, get_packet_receiver
<1>6. ~Packets
  <2>1. ASSUME NEW p \in DOMAIN tasks, PacketArrives(p) \/ TaskSends(p) \/ SocketFails(p)
        PROVE  DOMAIN tasks' \subseteq DOMAIN tasks
    BY <2>1 DEF PacketArrives, TaskSends, SocketFails, Restrict
  <2>2. ASSUME NEW c \in receivers, AppReceives(c) \/ AppDropsReceiver(c)
        PROVE  FALSE
    BY <1>2, <2>2 DEF AppReceives, AppDropsReceiver
  <2>. QED
    BY <2>1, <2>2 DEF Packets
<1>7. Ends
  BY <1>3, <1>4, <1>5, <1>6 DEF Next
<1>. QED
  BY <1>1, <1>2, <1>7 DEF Ends, Described, SetUp, SetUpWithStream, TornDown

\* Receive tasks start only while the server plays the session they belong to.
THEOREM TasksStartWhilePlaying == Spec => TasksStartPlaying
<1>1. ClientInit => TypeInv /\ StepInv /\ AgreeInv
  BY InitTypeInv, InitAgreed
<1>2. TypeInv /\ StepInv /\ AgreeInv /\ [Next]_vars => (TypeInv /\ StepInv /\ AgreeInv)'
  BY NextTypeInv, NextStep, NextAgreed
<1>3. TypeInv /\ StepInv /\ AgreeInv /\ [Next]_vars =>
        [DOMAIN tasks' \ DOMAIN tasks # {} /\ Smooth => session \in playing]_vars
  <2> SUFFICES ASSUME TypeInv, StepInv, AgreeInv, [Next]_vars,
                      DOMAIN tasks' \ DOMAIN tasks # {}, Smooth
               PROVE  session \in playing
    OBVIOUS
  <2>1. PICK k \in 1 .. Len(wire) : Played(k)
    BY OnlyPlayStarts
  <2>2. Reads(k) /\ Succeeded(AnswerOf(k)) /\ call.method = "PLAY"
    BY <2>1 DEF Played, Answered
  <2>3. AnswerOf(k) = wire[1] /\ Answering(wire[1])
    BY <2>2, ReadsAnswer
  <2>. QED
    BY <2>2, <2>3 DEF Answering, Succeeded
<1>. QED
  BY <1>1, <1>2, <1>3, PTL DEF Spec, TasksStartPlaying

------------------------------------------------------------------------------
(* The ports. *)

Streams == Cardinality(DOMAIN streams)

\* The next ports are above all that are in use, and those of a setup in
\* progress are the next, while no stream was replaced or left its task behind.
PortsInv ==
  /\ NoOwnCollision
  /\ Smooth /\ ~crowded =>
       /\ \A m \in DOMAIN streams : streams[m].slot <= Streams
       /\ \A p \in DOMAIN tasks : p <= Streams
       /\ call.method = "SETUP" => call.slot = next_client_ports

\* A step that keeps the streams and starts no task.
LEMMA PortsKept ==
  ASSUME PortsInv, UNCHANGED <<streams, crowded, collided>>, DOMAIN tasks' \subseteq DOMAIN tasks,
         Smooth' => Smooth, call'.method = "SETUP" => call'.slot = next_client_ports \/ ~Smooth
  PROVE  PortsInv'
  BY DEF PortsInv, NoOwnCollision, Streams, next_client_ports

\* A step that forgets the streams, and after which no setup waits.
LEMMA PortsForgotten ==
  ASSUME TypeInv, PortsInv, Forget, UNCHANGED <<tasks, collided>>, Smooth' => Smooth,
         call'.method # "SETUP"
  PROVE  PortsInv'
<1>1. DOMAIN streams' = {} /\ crowded' = (crowded \/ DOMAIN tasks # {})
  BY DEF Forget
<1>2. NoOwnCollision'
  BY <1>1 DEF PortsInv, NoOwnCollision
<1>3. ~crowded' => DOMAIN tasks' = {}
  BY <1>1
<1>. QED
  BY <1>1, <1>2, <1>3 DEF PortsInv

\* The streams after a setup of one more.
LEMMA OneMore ==
  ASSUME ClientTypeOK, NEW m \in Media, m \notin DOMAIN streams,
         DOMAIN streams' = DOMAIN streams \cup {m}
  PROVE  Streams \in Nat /\ Streams' = Streams + 1
<1>1. Streams \in Nat /\ IsFiniteSet(DOMAIN streams)
  BY PortsType DEF Streams
<1>. QED
  BY <1>1, FS_AddElement DEF Streams

LEMMA SetUpPorts ==
  ASSUME TypeInv, StepInv, AgreeInv, PortsInv, NEW k \in 1 .. Len(wire), SetUp(k),
         Smooth' => Smooth
  PROVE  PortsInv'
<1> DEFINE r == AnswerOf(k)
           m == CHOOSE x \in call.media : TRUE
<1>1. /\ Reads(k) /\ call.method = "SETUP" /\ call'.method # "SETUP" /\ UNCHANGED tasks
  BY DEF SetUp, Answered, Returns, Idle
<1>2. CASE UNCHANGED <<streams, crowded, collided>>
  BY <1>1, <1>2, PortsKept
<1>3. Smooth /\ ~crowded => r.slot = 0 \/ r.slot = Streams + 1
  <2> SUFFICES ASSUME Smooth, ~crowded PROVE r.slot = 0 \/ r.slot = Streams + 1
    OBVIOUS
  <2>1. r.slot \in {0, call.slot}
    BY <1>1, ReadsAnswer DEF Answering
  <2>. QED
    BY <1>1, <2>1 DEF PortsInv, next_client_ports, Streams
<1>4. Streams \in Nat /\ ClientTypeOK
  BY PortsType DEF Streams, TypeInv
<1>5. m \in Media
  BY <1>1 DEF TypeInv, Shapes
<1>6. CASE UNCHANGED collided /\ ~UNCHANGED <<streams, crowded, collided>>
  <2>1. /\ streams' = [x \in DOMAIN streams \cup {m} |->
             IF x = m THEN [slot |-> r.slot, bound |-> r.slot # 0, sender |-> Sender]
                      ELSE streams[x]]
        /\ crowded' = (crowded \/ m \in DOMAIN streams)
    <3>1. \/ /\ streams' = [x \in DOMAIN streams \cup {m} |->
                  IF x = m THEN [slot |-> r.slot, bound |-> r.slot # 0, sender |-> Sender]
                           ELSE streams[x]]
             /\ crowded' = (crowded \/ m \in DOMAIN streams)
          \/ UNCHANGED <<streams, crowded>>
      BY DEF SetUp
    <3>. QED
      BY <1>6, <3>1
  <2>2. NoOwnCollision'
    BY <1>1, <1>6, <2>1 DEF PortsInv, NoOwnCollision
  <2> SUFFICES ASSUME Smooth', ~crowded' PROVE PortsInv'
    BY <2>2 DEF PortsInv
  <2>3. Smooth /\ ~crowded /\ m \notin DOMAIN streams
    BY <1>1, <2>1
  <2>4. Streams' = Streams + 1
    BY <1>4, <1>5, <2>1, <2>3, OneMore
  <2>5. \A x \in DOMAIN streams : streams[x].slot <= Streams /\ streams[x].slot \in Nat
    BY <1>4, <2>3 DEF PortsInv, ClientTypeOK, Stream, Slots
  <2>6. \A x \in DOMAIN streams' : streams'[x].slot <= Streams'
    BY <1>3, <1>4, <2>1, <2>3, <2>4, <2>5
  <2>7. \A p \in DOMAIN tasks : p <= Streams /\ p \in Nat
    BY <1>4, <2>3 DEF PortsInv, ClientTypeOK, Slots
  <2>8. \A p \in DOMAIN tasks' : p <= Streams'
    BY <1>1, <1>4, <2>4, <2>7
  <2>. QED
    BY <1>1, <2>2, <2>6, <2>8 DEF PortsInv
<1>7. CASE collided' = TRUE /\ ~setup_transport(r.slot) /\ UNCHANGED <<streams, crowded>>
  <2>1. CASE ~Smooth \/ crowded
    BY <1>1, <1>7, <2>1 DEF PortsInv, NoOwnCollision
  <2>2. CASE Smooth /\ ~crowded
    <3>1. r.slot = Streams + 1 /\ r.slot \in BoundPorts
      BY <1>3, <1>7, <2>2 DEF setup_transport
    <3>2. \A p \in BoundPorts : p <= Streams
      BY <2>2 DEF BoundPorts, PortsInv
    <3>. QED
      BY <1>4, <3>1, <3>2
  <2>. QED
    BY <2>1, <2>2
<1>8. \/ UNCHANGED collided
      \/ collided' = TRUE /\ ~setup_transport(r.slot) /\ UNCHANGED <<streams, crowded>>
  BY DEF SetUp
<1>. QED
  BY <1>2, <1>6, <1>7, <1>8

LEMMA PlayedPorts ==
  ASSUME TypeInv, PortsInv, NEW k \in 1 .. Len(wire), Played(k), Smooth' => Smooth
  PROVE  PortsInv'
<1>1. /\ DOMAIN tasks' = DOMAIN tasks \cup {streams[m].slot : m \in Started}
      /\ DOMAIN streams' = DOMAIN streams
      /\ \A m \in DOMAIN streams : streams'[m] = [streams[m] EXCEPT !.bound = FALSE]
      /\ UNCHANGED <<crowded, collided>> /\ call' = Idle
  BY DEF Played, Answered, Returns
<1>2. \A m \in DOMAIN streams : streams[m] \in Stream
  BY DEF TypeInv, ClientTypeOK
<1>3. \A m \in DOMAIN streams : streams'[m].slot = streams[m].slot
  BY <1>1, <1>2 DEF Stream
<1>4. Streams' = Streams
  BY <1>1 DEF Streams
<1>. QED
  BY <1>1, <1>3, <1>4 DEF PortsInv, NoOwnCollision, Started, Idle

LEMMA NextPorts ==
  ASSUME TypeInv, StepInv, AgreeInv, PortsInv, [Next]_vars
  PROVE  PortsInv'
<1>0. Smooth' => Smooth
  BY SmoothBefore
<1>1. ASSUME UNCHANGED clientvars,
             call'.method = "SETUP" => call'.slot = next_client_ports \/ ~Smooth
      PROVE  PortsInv'
  <2>1. UNCHANGED <<streams, tasks, crowded, collided>>
    BY <1>1 DEF clientvars
  <2>. QED
    BY <1>0, <1>1, <2>1, PortsKept
<1>2. Smooth /\ ~crowded /\ call.method = "SETUP" => call.slot = next_client_ports
  BY DEF PortsInv
<1>3. ASSUME UNCHANGED <<streams, crowded, collided>>, DOMAIN tasks' \subseteq DOMAIN tasks,
             call' = call \/ call' = Idle
      PROVE  PortsInv'
  BY <1>0, <1>3 DEF PortsInv, NoOwnCollision, Streams, next_client_ports, Idle
<1>4. CASE Connects \/ Server \/ UNCHANGED vars
  <2>1. call' = call /\ UNCHANGED clientvars
    BY <1>4 DEF Connects, connect, reconnect, TryConnect, Server, Serve, vars, connvars
  <2>. QED
    BY <1>3, <2>1 DEF clientvars
<1>5. CASE Fails
  <2>1. call' = Idle /\ UNCHANGED clientvars
    BY <1>5 DEF Fails, RequestFails, Returns
  <2>. QED
    BY <1>3, <2>1 DEF clientvars
<1>6. CASE Breaks
  <2>1. call' = call \/ call' = Idle
    BY <1>6 DEF Breaks, DropCall, ServerCloses
  <2>. QED
    BY <1>3, <1>6, <2>1 DEF Breaks
<1>7. CASE Packets
  <2>1. UNCHANGED <<streams, crowded, collided, mishap, connvars>>
    BY <1>7 DEF Packets, PacketArrives, TaskSends, SocketFails, AppReceives, AppDropsReceiver
  <2>2. DOMAIN tasks' \subseteq DOMAIN tasks
    BY <1>7 DEF Packets, PacketArrives, TaskSends, SocketFails, AppReceives, AppDropsReceiver,
      Restrict
  <2>. QED
    BY <1>3, <2>1, <2>2 DEF connvars
<1>8. CASE Begins
  <2>1. ASSUME NEW method, NEW media, NEW slot, send_request(method, media, session, slot),
               UNCHANGED clientvars, method = "SETUP" => slot = next_client_ports
        PROVE  PortsInv'
    BY <1>1, <2>1 DEF send_request, Idle
  <2>2. CASE \E m \in Media : BeginSetup(m)
    BY <2>1, <2>2 DEF BeginSetup
  <2>3. CASE BeginDescribe \/ BeginSetupWithStream \/ BeginPlay \/ BeginTeardown
    BY <2>1, <2>3 DEF BeginDescribe, BeginSetupWithStream, BeginPlay, BeginTeardown
  <2>4. CASE TeardownWithoutSession
    <3>1. call'.method # "SETUP"
      BY <2>4 DEF TeardownWithoutSession, connvars, Idle
    <3>. QED
      BY <1>0, <2>4, <3>1, PortsForgotten DEF TeardownWithoutSession
  <2>5. CASE get_packet_receiver
    BY <1>3, <2>5 DEF get_packet_receiver, connvars
  <2>. QED
    BY <1>8, <2>2, <2>3, <2>4, <2>5 DEF Begins
<1>9. CASE Ends
  <2>1. PICK k \in 1 .. Len(wire) :
          \/ Described(k) \/ SetUp(k) \/ SetUpWithStream(k) \/ Played(k) \/ TornDown(k)
          \/ handle_auth(k) /\ UNCHANGED clientvars
    BY <1>9 DEF Ends
  <2>2. CASE Described(k)
    <3>1. call' = Idle /\ UNCHANGED <<tasks, mishap, collided>>
      BY <2>2 DEF Described, Answered, Returns
    <3>2. Forget \/ UNCHANGED <<streams, crowded>>
      BY <2>2 DEF Described
    <3>. QED
      BY <1>0, <1>3, <3>1, <3>2, PortsForgotten DEF Idle
  <2>3. CASE SetUpWithStream(k)
    BY <1>3, <2>3 DEF SetUpWithStream, Answered, Returns
  <2>4. CASE TornDown(k)
    BY <1>0, <2>4, PortsForgotten DEF TornDown, Answered, Returns, Idle
  <2>5. CASE handle_auth(k) /\ UNCHANGED clientvars
    <3>1. call \in Waiting /\ call' = Repeated
      BY <2>5 DEF handle_auth, Reads, TypeInv, ClientTypeOK, ConnTypeOK
    <3>2. call'.method = call.method /\ call'.slot = call.slot
      BY <3>1 DEF Repeated, Waiting
    <3>3. UNCHANGED <<streams, tasks, mishap, crowded, collided>>
      BY <2>5 DEF clientvars
    <3>. QED
      BY <1>0, <3>2, <3>3 DEF PortsInv, NoOwnCollision, Streams, next_client_ports
  <2>. QED
    BY <1>0, <2>1, <2>2, <2>3, <2>4, <2>5, SetUpPorts, PlayedPorts
<1>. QED
  BY <1>4, <1>5, <1>6, <1>7, <1>8, <1>9 DEF Next

\* A setup fails on a port of the client's own only after a stream was
\* replaced or forgotten beside its task, a call or the connection was lost, or
\* an answer read in part.
THEOREM NeverOwnCollision == Spec => []NoOwnCollision
<1>1. ClientInit => TypeInv /\ StepInv /\ AgreeInv
  BY InitTypeInv, InitAgreed
<1>2. ClientInit => PortsInv
  BY DEF ClientInit, ConnInit, PortsInv, NoOwnCollision, Idle
<1>3. TypeInv /\ StepInv /\ AgreeInv /\ PortsInv /\ [Next]_vars =>
        (TypeInv /\ StepInv /\ AgreeInv /\ PortsInv)'
  BY NextTypeInv, NextStep, NextAgreed, NextPorts
<1>4. PortsInv => NoOwnCollision
  BY DEF PortsInv
<1>. QED
  BY <1>1, <1>2, <1>3, <1>4, PTL DEF Spec
=============================================================================
