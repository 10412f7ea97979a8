----------------------------- MODULE TextFormats -----------------------------
(***************************************************************************)
(* The texts of the library, as sequences of parts or lines: the Transport *)
(* header of rtsp/transport.rs, the session description that describe()    *)
(* of rtsp/client.rs reads, and the playlists of ts/hls.rs with what       *)
(* write_trailer of ts/muxer.rs puts into playlist.m3u8.                   *)
(***************************************************************************)
EXTENDS Integers, Sequences, SequencesExt

CONSTANTS
  MaxParts,      \* bound of the model: parameters of a Transport header
  MaxLines,      \* bound of the model: lines of a session description
  MaxSegmentsListed,  \* bound of the model: segments of a playlist
  Durations,     \* durations of segments
  MilliUnits,    \* units of a duration in a millisecond
  SecondUnits    \* and in a second

ASSUME TextAssumption ==
  /\ MaxParts \in Nat /\ MaxLines \in Nat /\ MaxSegmentsListed \in Nat
  /\ Durations \subseteq Nat /\ MilliUnits \in Nat \ {0} /\ SecondUnits \in Nat \ {0}
  /\ SecondUnits % MilliUnits = 0

VARIABLES
  source,  \* what was given: a header, a description or a playlist
  result   \* what the code made of it

textvars == <<source, result>>

TextInit == source = [kind |-> "none"] /\ result = <<>>

Absent == <<>>
NoValue == "none"

\* The greatest of a set of places, and what is there.
LastOf(s, places) == s[CHOOSE i \in places : \A k \in places : k <= i]

------------------------------------------------------------------------------
\* A parameter is a key and what stands behind its "=", in pieces parted by "-";
\* "x" is no number.
Part(key, value) == [key |-> key, value |-> value]

PortPairs == {<<"p", "q">>, <<"x", "q">>}

SentParts ==
  {Part("unicast", Absent), Part("multicast", Absent), Part("append", Absent), Part("ttl", <<"v">>),
   Part("mode", <<"play">>), Part("ssrc", <<"s">>), Part("ssrc", <<"x">>),
   Part("client_port", <<"p">>)}
  \cup {Part(key, pair) : key \in {"client_port", "server_port"}, pair \in PortPairs}

KnownKeys == {"client_port", "server_port", "ssrc", "mode"}

Flag(parts) == {i \in DOMAIN parts : parts[i].key \in {"unicast", "multicast"}}

Number(x) == IF x = "x" THEN Absent ELSE <<x>>

\* Two ports, each of them a number or none; one port without a "-" is no pair.
Pairs(parts, key) == {i \in DOMAIN parts : parts[i].key = key /\ parts[i].value \in PortPairs}

Ports(parts, key) ==
  IF Pairs(parts, key) = {} THEN <<Absent, Absent>>
  ELSE LET pair == LastOf(parts, Pairs(parts, key)).value IN <<Number(pair[1]), Number(pair[2])>>

ValueOf(parts, places, none) == IF places = {} THEN none ELSE LastOf(parts, places).value

\* A later parameter of a name replaces an earlier one, if it has a value to give.
parse_transport(parts) ==
  LET extras == {i \in DOMAIN parts : parts[i].key \notin KnownKeys \cup {"unicast", "multicast"}}
  IN  [cast_type |-> IF Flag(parts) = {} THEN "unicast" ELSE LastOf(parts, Flag(parts)).key,
       client_port |-> Ports(parts, "client_port"),
       server_port |-> Ports(parts, "server_port"),
       ssrc |-> ValueOf(parts, {i \in DOMAIN parts : parts[i].key = "ssrc" /\ parts[i].value # <<"x">>},
                        Absent),
       mode |-> ValueOf(parts, {i \in DOMAIN parts : parts[i].key = "mode"}, Absent),
       extra_params |-> {LastOf(parts, {k \in extras : parts[k].key = parts[i].key}) : i \in extras}]

new_rtp_avp(ports) ==
  [cast_type |-> "unicast", client_port |-> ports, server_port |-> <<Absent, Absent>>,
   ssrc |-> Absent, mode |-> Absent, extra_params |-> {}]

\* One port alone is not written.
PortPart(key, ports) == IF Absent \in {ports[1], ports[2]} THEN <<>> ELSE <<Part(key, ports[1] \o ports[2])>>

Optional(key, value) == IF value = Absent THEN <<>> ELSE <<Part(key, value)>>

\* The parameters in order; those not known come last, in any order.
transport_to_string(info, order) ==
  <<Part(info.cast_type, Absent)>>
  \o PortPart("client_port", info.client_port) \o PortPart("server_port", info.server_port)
  \o Optional("ssrc", info.ssrc) \o Optional("mode", info.mode) \o order

Orders(set) == {s \in UNION {[1 .. n -> set] : n \in 0 .. 2} :
                  ToSet(s) = set /\ \A i, k \in DOMAIN s : s[i] = s[k] => i = k}

\* A header is parsed, formatted and parsed again.
ReadTransport ==
  \E n \in 0 .. MaxParts : \E parts \in [1 .. n -> SentParts] :
    LET info == parse_transport(parts)
    IN  \E order \in Orders(info.extra_params) :
          /\ source' = [kind |-> "transport", parts |-> parts, info |-> info]
          /\ result' = parse_transport(transport_to_string(info, order))

RequestTransport ==
  LET info == new_rtp_avp(<<<<"p">>, <<"q">>>>)
  IN  /\ source' = [kind |-> "transport", parts |-> <<>>, info |-> info]
      /\ result' = parse_transport(transport_to_string(info, <<>>))

------------------------------------------------------------------------------
\* A description: "m" lines that can be parsed or not, "a" lines with a name
\* and a value, and others.  A control is relative, begins with "/" or is a URL.
Control(id) == [kind |-> "control", value |-> id]

DescriptionLines ==
  {[kind |-> "m", value |-> "video"], [kind |-> "m", value |-> "bad"],
   [kind |-> "rtpmap", value |-> "codec"], [kind |-> "other", value |-> ""]}
  \cup {Control(id) : id \in {"*", "track", "/track", "url"}}

\* parse_sdp_media takes four words, the second of them a port.
parse_sdp_media(line) == line.value # "bad"

MediaLines(lines) == {i \in DOMAIN lines : lines[i].kind = "m"}

\* The line of the media that line i belongs to, 0 for the session; lines below
\* a media line that cannot be parsed count as the session's.
SectionOf(lines, i) ==
  LET above == {k \in MediaLines(lines) : k < i}
      m == CHOOSE k \in above : \A j \in above : j <= k
  IN  IF above = {} THEN 0 ELSE IF parse_sdp_media(lines[m]) THEN m ELSE 0

\* The attribute of that name in a section: its last.
Attribute(lines, section, name) ==
  LET places == {i \in DOMAIN lines : lines[i].kind = name /\ SectionOf(lines, i) = section}
  IN  ValueOf(lines, places, NoValue)

BaseControlStarred(lines) ==
  IF Attribute(lines, 0, "control") = NoValue THEN "request" ELSE Attribute(lines, 0, "control")

BaseControl(lines) ==
  IF Attribute(lines, 0, "control") \in {NoValue, "*"} THEN "request" ELSE Attribute(lines, 0, "control")

\* The URL of a track: its own, or the base with it behind.
full_control(base, control) ==
  CASE control = NoValue -> <<>>
    [] control = "url" -> <<"url">>
    [] control = "/track" -> <<base, "track">>
    [] OTHER -> <<base, control>>

\* setup puts the URL of the request before anything that is no URL.
setup_url(control) ==
  IF control = <<>> THEN <<>>
  ELSE IF control[1] \in {"request", "url"} THEN control ELSE <<"request">> \o control

\* The lines of the media that can be parsed, as the loop over the lines meets them.
MediaFound(lines) ==
  LET found[n \in 0 .. Len(lines)] ==
        IF n = 0 THEN <<>>
        ELSE IF n \in MediaLines(lines) /\ parse_sdp_media(lines[n]) THEN Append(found[n - 1], n)
        ELSE found[n - 1]
  IN  found[Len(lines)]

describe(lines) ==
  LET places == MediaFound(lines)
  IN  [i \in DOMAIN places |->
         [line |-> places[i], codec |-> Attribute(lines, places[i], "rtpmap"),
          url |-> setup_url(full_control(BaseControl(lines),
                                         Attribute(lines, places[i], "control")))]]

ReadDescription ==
  \E n \in 0 .. MaxLines : \E lines \in [1 .. n -> DescriptionLines] :
    /\ source' = [kind |-> "description", lines |-> lines]
    /\ result' = describe(lines)

------------------------------------------------------------------------------
\* A playlist, and the lines that write_to makes of it.
Variants == {"high", "low"}

Line(tag, value) == [tag |-> tag, value |-> value]

Ceiling(d) == (d + SecondUnits - 1) \div SecondUnits

\* A duration with three digits behind the point.
Rounded(d) == (d + MilliUnits \div 2) \div MilliUnits

Longest(playlist) ==
  LET segments == playlist.segments
  IN  IF segments = <<>> THEN playlist.target_duration
      ELSE CHOOSE d \in ToSet(segments) : \A e \in ToSet(segments) : e <= d

StreamInf(variant) == IF variant = NoValue THEN <<>> ELSE <<Line("STREAM-INF", variant)>>

SegmentLines(playlist, i) ==
  <<Line("EXTINF", Rounded(playlist.segments[i])), Line("URI", i)>>

playlist_write_to(playlist) ==
  <<Line("EXTM3U", 0)>> \o StreamInf(playlist.variant)
  \o <<Line("TARGETDURATION", Ceiling(Longest(playlist))),
       Line("MEDIA-SEQUENCE", playlist.media_sequence)>>
  \o FlattenSeq([i \in DOMAIN playlist.segments |-> SegmentLines(playlist, i)])
  \o (IF playlist.is_endlist THEN <<Line("ENDLIST", 0)>> ELSE <<>>)

master_write_to(variants) ==
  <<Line("EXTM3U", 0)>>
  \o FlattenSeq([i \in DOMAIN variants |->
       <<Line("STREAM-INF", variants[i]), Line("URI", variants[i])>>])

\* with_variant adds to the master playlist and takes the place of an earlier
\* one in the media playlist.
PlaylistOf(variants, segments, target, endlist) ==
  [target_duration |-> target, media_sequence |-> 0, segments |-> segments, is_endlist |-> endlist,
   variant |-> IF variants = <<>> THEN NoValue ELSE variants[Len(variants)]]

WritePlaylists ==
  \E n \in 0 .. MaxSegmentsListed, v \in 0 .. 2, endlist \in BOOLEAN, trailer \in BOOLEAN :
    \E segments \in [1 .. n -> Durations], variants \in [1 .. v -> Variants], target \in Durations :
      LET playlist == PlaylistOf(variants, segments, target, endlist /\ ~trailer)
      IN  /\ source' = [kind |-> "playlist", playlist |-> playlist, variants |-> variants,
                          trailer |-> trailer]
          /\ result' = IF trailer
                       THEN playlist_write_to(playlist) \o master_write_to(variants)
                       ELSE playlist_write_to(playlist)

TextNext ==
  /\ source.kind = "none"
  /\ ReadTransport \/ RequestTransport \/ ReadDescription \/ WritePlaylists

------------------------------------------------------------------------------
OnePort(ports) == Absent \in {ports[1], ports[2]}

\* What a client of the playlist reads: the segments are the URIs right behind
\* the length of one.
ReadSegments(lines) ==
  {i \in DOMAIN lines : lines[i].tag = "URI" /\ i > 1 /\ lines[i - 1].tag = "EXTINF"}

ValuesOf(lines, tag) == {lines[i].value : i \in {k \in DOMAIN lines : lines[k].tag = tag}}

\* The control of a section of its own lines, as the description means it.
MeantBase(lines) ==
  LET own == {i \in DOMAIN lines : lines[i].kind = "control" /\ \A k \in MediaLines(lines) : i < k}
  IN  IF ValueOf(lines, own, NoValue) \in {NoValue, "*"} THEN "request" ELSE ValueOf(lines, own, NoValue)

Readable(lines) == \A i \in MediaLines(lines) : parse_sdp_media(lines[i])

\* A Transport header formatted from what was parsed parses to the same, unless
\* one of two ports is missing; then both are lost, and nothing else.
TransportReadBack ==
  source.kind = "transport" =>
    LET info == source.info
        Whole(ports) == IF OnePort(ports) THEN <<Absent, Absent>> ELSE ports
    IN  result = [info EXCEPT !.client_port = Whole(@), !.server_port = Whole(@)]

\* Every readable media of a description is found once, in order, and every
\* track is set up at the URL that the session's control and its own make, also
\* when other sections have none.  With a section that cannot be read, the
\* attributes below it count as the session's: a track changes only in its base.
DescriptionReadBack ==
  source.kind = "description" =>
    LET lines == source.lines
        Own(m) == ValueOf(lines, {i \in DOMAIN lines :
                    lines[i].kind = "control" /\ i > m /\ \A k \in MediaLines(lines) : ~(m < k /\ k < i)}, NoValue)
    IN  /\ {result[i].line : i \in DOMAIN result} = {i \in MediaLines(lines) : lines[i].value = "video"}
        /\ \A i \in DOMAIN result :
          LET track == result[i] IN
          /\ i > 1 => result[i - 1].line < track.line
          /\ track.url = <<>> <=> Own(track.line) = NoValue
          /\ Readable(lines) => track.url = setup_url(full_control(MeantBase(lines), Own(track.line)))
          /\ Own(track.line) = "url" => track.url = <<"url">>

\* Lines i and i + 1 are an entry of a master playlist.
Lists(lines, i, variant) ==
  /\ i < Len(lines) /\ lines[i].tag = "STREAM-INF" /\ lines[i + 1].tag = "URI"
  /\ lines[i].value = variant /\ lines[i + 1].value = variant

\* The segments of a playlist, alone or with the master playlist behind it as
\* write_trailer leaves them, are read in their order, none longer than the
\* target duration says, and every variant of the master playlist is listed.
PlaylistReadBack ==
  source.kind = "playlist" =>
    LET read == ReadSegments(result)
        variants == source.variants
    IN  /\ {result[i].value : i \in read} = DOMAIN source.playlist.segments
        /\ \A i, k \in read : i < k => result[i].value < result[k].value
        /\ \E target \in ValuesOf(result, "TARGETDURATION") :
             /\ ValuesOf(result, "TARGETDURATION") = {target}
             /\ \A d \in ValuesOf(result, "EXTINF") : d * MilliUnits <= target * SecondUnits
        /\ source.trailer => \A v \in DOMAIN variants : \E i \in DOMAIN result : Lists(result, i, variants[v])

TextReadBack == TransportReadBack /\ DescriptionReadBack /\ PlaylistReadBack
=============================================================================
