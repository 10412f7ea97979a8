---------------------------- MODULE RTSPConnection ----------------------------
(***************************************************************************)
(* One RTSP request after another over a TCP connection: send_request and  *)
(* handle_auth of format/rtsp/client.rs, read_response of connection.rs,   *)
(* connect and reconnect, and the server that answers.  A call waits for   *)
(* its answer at an await, where its future can be dropped (a timeout of   *)
(* the application); the answer then stays unread, or half read, in the    *)
(* connection.  An answer whose bytes so far are not UTF-8, a body cut     *)
(* inside a character for one, has no Content-Length for the client and is *)
(* taken as it is: its tail stays unread too.  The client never compares   *)
(* the CSeq of an answer with that of its request.                         *)
(***************************************************************************)
EXTENDS Integers, Sequences, FiniteSets

CONSTANTS
  Media,                  \* media types
  max_reconnect_attempts, \* 3 in the code
  MaxRequests,            \* bound of the model: requests sent
  MaxConnects,            \* bound of the model: connects tried
  MaxSlips                \* bound of the model: calls dropped and answers read in part

ASSUME ConnectionAssumption ==
  /\ IsFiniteSet(Media)
  /\ max_reconnect_attempts \in Nat
  /\ MaxRequests \in Nat /\ MaxConnects \in Nat
  /\ MaxSlips \in Nat

VARIABLES
  conn,                \* "none", "open", or "closed" by the server
  asked,               \* requests the server has not answered
  wire,                \* answers the client has not read
  cseq,                \* number of the last request
  call,                \* the call that waits for its answer
  reconnect_attempts,
  reconnect_delay,     \* in units of the first delay
  connects,            \* connects tried so far
  drops,               \* calls dropped so far
  cuts,                \* answers read in part so far
  slips,               \* calls dropped and answers read in part on this connection
  alive,               \* the server's sessions
  playing              \* those of them that play

connvars == <<conn, asked, wire, cseq, call, reconnect_attempts, reconnect_delay,
              connects, drops, cuts, slips, alive, playing>>
counts == <<reconnect_attempts, reconnect_delay, connects>>
server == <<alive, playing>>

Methods == {"DESCRIBE", "SETUP", "SETUP_WITH_STREAM", "PLAY", "TEARDOWN"}

\* A session is known by the number of the request that created it, 0 is none.
Sessions == 0 .. MaxRequests

\* A pair of client ports, 5000 + 2 * (slot - 1) and the next; 0 is none.
Slots == 0 .. Cardinality(Media) + 1

\* The headers of an answer that a call looks at, in their order: Session,
\* Transport, or a body that describes media.
SetupFields == {<<"S", "T">>, <<"T", "S">>, <<"S">>}
Fields == SetupFields \cup {<<"M">>, <<>>}

Request == [cseq : 1 .. MaxRequests, method : Methods, retry : BOOLEAN,
            session : Sessions, slot : Slots]
Answer == [cseq : 1 .. MaxRequests, status : {"200", "401", "error", "tail"},
           fields : Fields, session : Sessions, slot : Slots]
Idle == [method |-> "none", media |-> {}, slot |-> 0, retry |-> FALSE, cseq |-> 0]
Waiting == [method : Methods, media : SUBSET Media, slot : Slots, retry : BOOLEAN,
            cseq : 1 .. MaxRequests]

ConnTypeOK ==
  /\ conn \in {"none", "open", "closed"}
  /\ asked \in Seq(Request) /\ wire \in Seq(Answer)
  /\ cseq \in 0 .. MaxRequests
  /\ call \in Waiting \cup {Idle}
  /\ reconnect_attempts \in 0 .. max_reconnect_attempts
  /\ reconnect_delay \in Nat \ {0}
  /\ connects \in 0 .. MaxConnects /\ drops \in 0 .. MaxSlips
  /\ cuts \in 0 .. MaxSlips /\ slips \in Nat
  /\ alive \subseteq Sessions \ {0} /\ playing \subseteq alive

ConnInit ==
  /\ conn = "none" /\ asked = <<>> /\ wire = <<>>
  /\ cseq = 0 /\ call = Idle
  /\ reconnect_attempts = 0 /\ reconnect_delay = 1
  /\ connects = 0 /\ drops = 0 /\ cuts = 0 /\ slips = 0
  /\ alive = {} /\ playing = {}

------------------------------------------------------------------------------
(* Connecting.  A failed connect leaves the old connection in place.        *)

Opened ==
  /\ conn' = "open" /\ asked' = <<>> /\ wire' = <<>>
  /\ slips' = 0

NotOpened == UNCHANGED <<conn, asked, wire, slips>>

TryConnect ==
  /\ call = Idle /\ connects < MaxConnects
  /\ connects' = connects + 1
  /\ UNCHANGED <<cseq, call, drops, cuts, server>>

\* connect restores the attempts.
AttemptsRestored == 0

AttemptsAfterConnect == reconnect_attempts

connect ==
  /\ TryConnect
  /\ \/ Opened /\ reconnect_attempts' = AttemptsAfterConnect
     \/ NotOpened /\ UNCHANGED reconnect_attempts
  /\ UNCHANGED reconnect_delay

\* One attempt too many.
AttemptsLeftLate == reconnect_attempts <= max_reconnect_attempts

AttemptsLeft == reconnect_attempts < max_reconnect_attempts

\* reconnect answers true and restores the attempts, or answers false.
reconnect ==
  /\ AttemptsLeft
  /\ TryConnect
  /\ \/ /\ Opened
        /\ reconnect_attempts' = 0
        /\ UNCHANGED reconnect_delay
     \/ /\ NotOpened
        /\ reconnect_attempts' = reconnect_attempts + 1
        /\ reconnect_delay' = 2 * reconnect_delay

------------------------------------------------------------------------------
(* The server: it answers in order, with the headers in any order, may ask  *)
(* for credentials, and refuses what lacks a header it needs.               *)

Reply(status, fields, s) ==
  LET req == Head(asked)
  IN  wire' = Append(wire, [cseq |-> req.cseq, status |-> status, fields |-> fields,
                            session |-> s, slot |-> req.slot])

Refuse == Reply("error", <<>>, 0) /\ UNCHANGED server

Challenge == ~Head(asked).retry /\ Reply("401", <<>>, 0) /\ UNCHANGED server

Describe ==
  /\ Head(asked).method = "DESCRIBE"
  /\ \E fields \in {<<"M">>, <<>>} : Reply("200", fields, 0)
  /\ UNCHANGED server

NewSession(req) == IF req.session = 0 THEN req.cseq ELSE req.session

Setup(fields) ==
  LET req == Head(asked)
  IN  /\ req.method \in {"SETUP", "SETUP_WITH_STREAM"} /\ ~req.retry
      /\ req.session \in alive \cup {0}
      /\ alive' = alive \cup {NewSession(req)}
      /\ Reply("200", fields, NewSession(req))
      /\ UNCHANGED playing

Play ==
  LET req == Head(asked)
  IN  /\ req.method = "PLAY" /\ req.session \in alive
      /\ playing' = playing \cup {req.session}
      /\ Reply("200", <<>>, 0)
      /\ UNCHANGED alive

Teardown ==
  LET req == Head(asked)
  IN  /\ req.method = "TEARDOWN" /\ req.session \in alive
      /\ alive' = alive \ {req.session}
      /\ playing' = playing \ {req.session}
      /\ Reply("200", <<>>, 0)

Serve(fields) ==
  /\ asked # <<>> /\ conn = "open"
  /\ Refuse \/ Challenge \/ Describe \/ Setup(fields) \/ Play \/ Teardown
  /\ asked' = Tail(asked)
  /\ UNCHANGED <<conn, cseq, call, counts, drops, cuts, slips>>

ServerCloses ==
  /\ conn = "open"
  /\ conn' = "closed" /\ asked' = <<>>
  /\ UNCHANGED <<wire, cseq, call, counts, drops, cuts, slips, server>>

------------------------------------------------------------------------------
(* A request and its answer.  Without a connection a call fails at once;   *)
(* what is written to a closed one is lost.                                *)

Written(method, retry, s, slot) ==
  /\ cseq' = cseq + 1
  /\ asked' = IF conn # "open" THEN asked ELSE
       Append(asked, [cseq |-> cseq + 1, method |-> method, retry |-> retry,
                      session |-> s, slot |-> slot])

send_request(method, media, s, slot) ==
  /\ call = Idle /\ cseq < MaxRequests
  /\ Written(method, FALSE, s, slot)
  /\ call' = IF conn = "none" THEN Idle ELSE
       [method |-> method, media |-> media, slot |-> slot, retry |-> FALSE, cseq |-> cseq + 1]
  /\ UNCHANGED <<conn, wire, counts, drops, cuts, slips, server>>

\* The answer that counts is the first, or what follows the tail of one.
AnswerAt(k) == IF k > 1 /\ wire[1].status = "tail" THEN 2 ELSE 1

AnswerOf(k) == wire[AnswerAt(k)]

HasBody(r) == r.fields \in {<<"M">>, <<>>}

\* One read takes as many answers as have arrived, k of them; what follows
\* the first whole one is thrown away with it.
ReadsWhole(k) ==
  /\ wire' = SubSeq(wire, k + 1, Len(wire))
  /\ UNCHANGED <<cuts, slips>>

\* The last of them arrived in part, and what the client has is complete to
\* it: an answer came before, or a body is cut where it is not UTF-8.
ReadsInPart(k) ==
  /\ k > 1 \/ HasBody(wire[1])
  /\ drops + cuts < MaxSlips /\ cuts' = cuts + 1
  /\ slips' = slips + 1
  /\ wire' = <<[wire[k] EXCEPT !.status = "tail"]>> \o SubSeq(wire, k + 1, Len(wire))

Reads(k) ==
  /\ call # Idle
  /\ k \in 1 .. Len(wire)
  /\ ReadsWhole(k) \/ ReadsInPart(k)

\* The answer that counts is the one read in part.
InPart(k) == cuts' # cuts /\ k = AnswerAt(k)

\* Its headers are cut, which only the tail of another answer hides.
Headless(k) == InPart(k) /\ k = 2

\* The call ends with the answer to a request, in this step or by an error.
Returns == call' = Idle /\ UNCHANGED <<conn, asked, cseq, counts, drops, server>>

\* Any status will do.
SucceededAlways(r) == TRUE

Succeeded(r) == r.status = "200"

Challenged(k) == AnswerOf(k).status = "401" /\ ~call.retry

\* The answer to the repeated request is not waited for.
RepeatedUnread == Idle

Repeated == [call EXCEPT !.retry = TRUE, !.cseq = cseq + 1]

\* The request is sent again with credentials; Transport and Session are not.
handle_auth(k) ==
  /\ Reads(k) /\ Challenged(k)
  /\ cseq < MaxRequests
  /\ Written(call.method, TRUE, 0, 0)
  /\ call' = Repeated
  /\ UNCHANGED <<conn, counts, drops, server>>

\* No credentials, no challenge, another status, no whole headers, or no
\* answer at all.
RequestFails ==
  /\ call # Idle
  /\ \/ \E k \in 1 .. Len(wire) : Reads(k) /\ (~Succeeded(AnswerOf(k)) \/ Headless(k))
     \/ conn = "closed" /\ wire = <<>> /\ UNCHANGED <<wire, cuts, slips>>
  /\ Returns

\* The application drops the call; an answer half read leaves its tail.
DropCall ==
  /\ call # Idle /\ drops + cuts < MaxSlips
  /\ drops' = drops + 1
  /\ call' = Idle /\ slips' = slips + 1
  /\ \/ UNCHANGED wire
     \/ wire # <<>> /\ wire' = [wire EXCEPT ![1].status = "tail"]
  /\ UNCHANGED <<conn, asked, cseq, counts, cuts, server>>

------------------------------------------------------------------------------
\* What is still to be answered or read comes in the order it was asked.  A
\* call that waits on an open connection has its own answer last, so it never
\* waits for one that was thrown away; before that come the answers, or tails
\* of answers, that dropped calls and reads in part have left, one for each at
\* most.  Without any of these a call reads the answer to the request it sent
\* last, the repeated one after a challenge, and leaves nothing behind.
InStep ==
  LET outstanding == wire \o asked
      own == IF call = Idle THEN 0 ELSE 1
  IN  /\ Len(outstanding) <= slips + own
      /\ \A i, j \in DOMAIN outstanding :
           i < j => outstanding[i].cseq < outstanding[j].cseq
      /\ conn = "open" /\ call # Idle =>
           /\ outstanding # <<>>
           /\ outstanding[Len(outstanding)].cseq = call.cseq
      /\ slips = 0 => \A i \in DOMAIN outstanding : outstanding[i].cseq = call.cseq

\* Nothing gives back the attempts of reconnect once they are used up, a
\* successful connect neither.
GivesUpForGood ==
  [][reconnect_attempts = max_reconnect_attempts /\ max_reconnect_attempts > 0
       => UNCHANGED reconnect_attempts]_connvars
==============================================================================
