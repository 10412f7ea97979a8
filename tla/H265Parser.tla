----------------------------- MODULE H265Parser ------------------------------
(***************************************************************************)
(* H265Parser of codec/h265/parser.rs: NAL units come one after another,   *)
(* as an encoder wrote them or cut short, and those of parameter sets      *)
(* replace the set of their kind.  The two bytes of the unit's header are  *)
(* its type; the rest is bytes of bits.  A set is a function from the      *)
(* names of its fields.                                                    *)
(***************************************************************************)
EXTENDS Bits

CONSTANTS
  MaxSubLayers,  \* 8 in the standard
  Cuts           \* bytes cut from the end of a unit

\* A word holds the values of a code.
ASSUME ParserAssumption ==
  WordBits >= 3 /\ MaxSubLayers \in Nat \ {0} /\ Cuts \subseteq Nat

VARIABLES
  active,    \* the fields vps, sps and pps, by type
  panicked,  \* an index went out of bounds
  accepted   \* history: what the unit last accepted was written from, by type

h265vars == <<active, panicked, accepted>>

SetTypes == {"Vps", "Sps", "Pps"}

OtherTypes == {"Trail", "Idr"}

None == <<>>

H265Init ==
  /\ active = [t \in SetTypes |-> None]
  /\ panicked = FALSE
  /\ accepted = [t \in SetTypes |-> None]

------------------------------------------------------------------------------
(* A syntax is a sequence of fields.  A field may depend on one before it.  *)

Field(kind, name, n) == [kind |-> kind, name |-> name, n |-> n, on |-> "always", is |-> 0]
U(name, n) == Field("u", name, n)
UE(name) == Field("ue", name, 0)
SE(name) == Field("se", name, 0)
Reserved(n) == Field("skip", "reserved", n)
When(name, v, f) == [kind |-> f.kind, name |-> f.name, n |-> f.n, on |-> name, is |-> v]

ReadField(r, f) ==
  CASE f.kind = "u"    -> read_bits(r, f.n)
    [] f.kind = "ue"   -> read_golomb(r)
    [] f.kind = "se"   -> read_signed_golomb(r)
    [] f.kind = "skip" -> skip_bits(r, f.n)

Present(set, f) == f.on = "always" \/ set[f.on] = f.is

With(set, name, v) ==
  [x \in DOMAIN set \cup {name} |-> IF x \in DOMAIN set THEN set[x] ELSE v]

\* A code that cannot be read is zero.
StepForgiving(acc, f) ==
  IF ~acc.ok \/ ~Present(acc.set, f) THEN acc
  ELSE LET read == ReadField(acc.reader, f)
       IN  [ok |-> read.ok \/ f.kind = "ue", reader |-> read.reader,
            set |-> IF f.kind = "skip" THEN acc.set ELSE With(acc.set, f.name, read.value)]

\* The reads of a syntax, each with a ? behind it.
Step(acc, f) ==
  IF ~acc.ok \/ ~Present(acc.set, f) THEN acc
  ELSE LET read == ReadField(acc.reader, f)
       IN  [ok |-> read.ok, reader |-> read.reader,
            set |-> IF f.kind = "skip" THEN acc.set ELSE With(acc.set, f.name, read.value)]

Parse(syntax, bits) ==
  LET read[i \in 0 .. Len(syntax)] ==
        IF i = 0 THEN [ok |-> TRUE, reader |-> Reader(bits), set |-> None]
        ELSE Step(read[i - 1], syntax[i])
  IN  read[Len(syntax)]

ProfileTierLevel ==
  <<U("profile_space", 2), U("tier_flag", 1), U("profile_idc", 5),
    U("profile_compatibility_flags", WordBits),
    U("progressive_source_flag", 1), U("interlaced_source_flag", 1),
    U("non_packed_constraint_flag", 1), U("frame_only_constraint_flag", 1),
    Reserved(44), U("level_idc", 8)>>

VPSSyntax ==
  <<U("vps_id", 4), U("base_layer_internal_flag", 1), U("base_layer_available_flag", 1),
    U("max_layers_minus1", 6), U("max_sub_layers_minus1", 3),
    U("temporal_id_nesting_flag", 1), Reserved(16)>> \o ProfileTierLevel

SPSHead ==
  <<U("vps_id", 4), U("max_sub_layers_minus1", 3), U("temporal_id_nesting_flag", 1)>>
    \o ProfileTierLevel

Window(f) == When("conformance_window_flag", 1, f)

SPSTail ==
  <<UE("sps_id"), UE("chroma_format_idc"), When("chroma_format_idc", 3, Reserved(1)),
    UE("pic_width_in_luma_samples"), UE("pic_height_in_luma_samples"),
    U("conformance_window_flag", 1),
    Window(UE("conf_win_left_offset")), Window(UE("conf_win_right_offset")),
    Window(UE("conf_win_top_offset")), Window(UE("conf_win_bottom_offset"))>>

PPSSyntax ==
  <<UE("pps_id"), UE("sps_id"),
    U("dependent_slice_segments_enabled_flag", 1), U("output_flag_present_flag", 1),
    U("num_extra_slice_header_bits", 3),
    U("sign_data_hiding_enabled_flag", 1), U("cabac_init_present_flag", 1),
    UE("num_ref_idx_l0_default_active_minus1"), UE("num_ref_idx_l1_default_active_minus1"),
    SE("init_qp_minus26"), U("constrained_intra_pred_flag", 1),
    U("transform_skip_enabled_flag", 1)>>

Syntax(type) ==
  CASE type = "Vps" -> VPSSyntax
    [] type = "Sps" -> SPSHead \o SPSTail
    [] type = "Pps" -> PPSSyntax

------------------------------------------------------------------------------
(* Bytes, and the byte 3 that keeps two zeros from looking like a start.    *)

Zeros(n) == [i \in 1 .. n |-> 0]

Byte(v) == FixedCode(v, ByteBits)

Bytes(bits) ==
  [i \in 1 .. Len(bits) \div ByteBits |->
     SubSeq(bits, (i - 1) * ByteBits + 1, i * ByteBits)]

Escaped(data, i) ==
  i + 2 <= Len(data) /\ SubSeq(data, i, i + 2) = <<Byte(0), Byte(0), Byte(3)>>

\* One turn of the loop, for a byte that no turn before it has passed.
Unescape(acc, data, i) ==
  IF i < acc.next THEN acc
  ELSE IF Escaped(data, i) THEN [next |-> i + 3, out |-> acc.out \o <<Byte(0), Byte(0)>>]
  ELSE [next |-> i + 1, out |-> Append(acc.out, data[i])]

remove_emulation_prevention(data) ==
  LET buffer[i \in 0 .. Len(data)] ==
        IF i = 0 THEN [next |-> 1, out |-> <<>>] ELSE Unescape(buffer[i - 1], data, i)
  IN  buffer[Len(data)].out

------------------------------------------------------------------------------
(* The encoder, by the standard.                                            *)

Encoded(f, set) ==
  CASE f.kind = "u"    -> FixedCode(set[f.name], f.n)
    [] f.kind = "ue"   -> GolombCode(set[f.name])
    [] f.kind = "se"   -> SignedCode(set[f.name])
    [] f.kind = "skip" -> Zeros(f.n)

Write(syntax, set) ==
  FlattenSeq([i \in DOMAIN syntax |-> IF Present(set, syntax[i]) THEN Encoded(syntax[i], set) ELSE <<>>])

\* One sub-layer with a level of its own, and the rest of the table.
SubLayers(set) ==
  IF set.max_sub_layers_minus1 = 0 THEN <<>>
  ELSE <<0, 1>> \o Zeros(2 * (MaxSubLayers - 1)) \o FixedCode(90, 8)

Padded(bits) ==
  LET n == Len(bits) + 1
  IN  bits \o <<1>> \o Zeros((ByteBits - (n % ByteBits)) % ByteBits)

WriteSet(type, set) ==
  Padded(IF type = "Sps" THEN Write(SPSHead, set) \o SubLayers(set) \o Write(SPSTail, set)
         ELSE Write(Syntax(type), set))

Risky(out, b) ==
  LET n == Len(out)
  IN  n >= 2 /\ out[n - 1] = Byte(0) /\ out[n] = Byte(0) /\ b \in {Byte(v) : v \in 0 .. 3}

Put(out, b) == out \o IF Risky(out, b) THEN <<Byte(3), b>> ELSE <<b>>

Escape(data) ==
  LET put[n \in 0 .. Len(data)] == IF n = 0 THEN <<>> ELSE Put(put[n - 1], data[n])
  IN  put[Len(data)]

\* The sets written: every field at its least or its greatest, but for those
\* that others depend on.
Filled(f, high) ==
  CASE f.kind = "u"  -> IF high THEN Power2[f.n] - 1 ELSE 0
    [] f.kind = "ue" -> IF high THEN 6 ELSE 0
    [] f.kind = "se" -> IF high THEN 3 ELSE -2

SetOf(type, high, layers, chroma, window) ==
  LET fields == {f \in {Syntax(type)[i] : i \in DOMAIN Syntax(type)} : f.kind # "skip"}
  IN  [name \in {f.name : f \in fields} |->
        CASE name = "max_sub_layers_minus1"   -> layers
          [] name = "chroma_format_idc"       -> chroma
          [] name = "conformance_window_flag" -> window
          [] OTHER -> Filled(CHOOSE f \in fields : f.name = name, high)]

Sets(type) ==
  {SetOf(type, high, layers, chroma, window) :
     high \in BOOLEAN, layers \in {0, 1}, chroma \in {1, 3}, window \in {0, 1}}

Units == UNION {[type : {t}, set : Sets(t), cut : Cuts] : t \in SetTypes}

------------------------------------------------------------------------------
Received(u) ==
  LET body == Escape(Bytes(WriteSet(u.type, u.set)))
  IN  remove_emulation_prevention(SubSeq(body, 1, Len(body) - u.cut))

\* The units with what the reads make of them, computed once.
Parses ==
  {[type |-> u.type, set |-> u.set, parsed |-> Parse(Syntax(u.type), FlattenSeq(Received(u)))] :
     u \in Units}

\* parse_nalu: the set is replaced when every read of it has succeeded.
ParseParameterSet(p) ==
  /\ ~panicked
  /\ IF p.parsed.ok
     THEN /\ active' = [active EXCEPT ![p.type] = p.parsed.set]
          /\ accepted' = [accepted EXCEPT ![p.type] = p.set]
     ELSE UNCHANGED <<active, accepted>>
  /\ UNCHANGED panicked

\* data[0] of an empty unit, and data[2..] of a parameter set of one byte.
ParseStub ==
  /\ ~panicked
  /\ \E size \in {0, 1}, type \in SetTypes \cup OtherTypes :
       panicked' = (size = 0 \/ type \in SetTypes)
  /\ UNCHANGED <<active, accepted>>

H265Next == (\E p \in Parses : ParseParameterSet(p)) \/ ParseStub

------------------------------------------------------------------------------
\* The fields before the first sub-layer.
HeadNames(type) ==
  LET head == IF type = "Sps" THEN SPSHead ELSE Syntax(type)
  IN  {head[i].name : i \in {j \in DOMAIN head : head[j].kind # "skip"}}

\* An active set is one that an encoder wrote, whole: all the fields of the
\* unit last accepted, no mixture with one that failed or was cut.  Behind
\* sub-layers, which parse_sps does not step over, only the head of an SPS is.
ParameterSetsWhole ==
  \A t \in SetTypes : active[t] # None =>
    /\ \A name \in HeadNames(t) : active[t][name] = accepted[t][name]
    /\ \/ t = "Sps" /\ accepted[t].max_sub_layers_minus1 > 0
       \/ \A name \in DOMAIN active[t] : active[t][name] = accepted[t][name]
==============================================================================
