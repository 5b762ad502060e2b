----------------------------- MODULE LoraDevice -----------------------------
(***************************************************************************)
(* What a LoRa node's device makes of an uplink (devices/lora.py).  A node *)
(* multiplexes payload layouts by port, so an uplink replaces the fields   *)
(* of its own port and the others are carried.                             *)
(*                                                                         *)
(* An uplink is a record of what the envelope holds: "" stands for an      *)
(* address, and 0 for a port, that is not there.  The same two values      *)
(* stand for what a device does not declare.                               *)
(***************************************************************************)
EXTENDS Integers, Sequences, FiniteSets, SequencesExt

CONSTANT Spellings   \* the other ways an EUI may be written, and its lower-case hex form

NormaliseEui(address) == IF address \in DOMAIN Spellings THEN Spellings[address] ELSE address

---------------------------------------------------------------------------
(* _build_specs(): the field map, resolved once. *)

NoOffset == -1
NoBit == -1

Declarable(entry) ==
  /\ entry.name # ""
  /\ entry.source # "" \/ (entry.offset # NoOffset /\ entry.length > 0)

(* A source wins over an offset, and a flag has no scale. *)
Resolved(entry) ==
  [entry EXCEPT !.offset = IF entry.source # "" THEN NoOffset ELSE @,
                !.scale = IF entry.bit # NoBit THEN 1 ELSE @,
                !.bias = IF entry.bit # NoBit THEN 0 ELSE @]

(* The first entry that can be declared under a name has it. *)
BuildSpecs(entries) ==
  {Resolved(entries[i]) : i \in
     {i \in 1..Len(entries) :
        /\ Declarable(entries[i])
        /\ \A j \in 1..(i - 1) : ~(Declarable(entries[j]) /\ entries[j].name = entries[i].name)}}

---------------------------------------------------------------------------
(* Decoding one field. *)

NoValue == [kind |-> "none", n |-> 0]
Number(n) == [kind |-> "number", n |-> n]
Flag(b) == [kind |-> "flag", n |-> IF b THEN 1 ELSE 0]

(* int.from_bytes(chunk, order, signed) *)
FromBytes(chunk, little, signed) ==
  LET digits == IF little THEN Reverse(chunk) ELSE chunk
      unsigned == FoldLeft(LAMBDA n, byte : 256 * n + byte, 0, digits)
  IN  IF signed /\ 2 * unsigned >= 256 ^ Len(chunk) THEN unsigned - 256 ^ Len(chunk) ELSE unsigned

(* Past the end of a short uplink there is no value.  Text, floats and raw *)
(* bytes keep only that they are not whole numbers.                        *)
DecodeBytes(spec, bytes) ==
  LET number == FromBytes(SubSeq(bytes, spec.offset + 1, spec.offset + spec.length),
                          spec.little, spec.type = "signed")
  IN  IF spec.offset + spec.length > Len(bytes) THEN NoValue
      ELSE IF spec.type = "text" THEN [kind |-> "text", n |-> 0]
      ELSE IF spec.bit # NoBit THEN Flag((number \div 2 ^ spec.bit) % 2 = 1)
      ELSE IF spec.type = "bool" THEN Flag(number # 0)
      ELSE Number(number)

ApplyScale(spec, value) ==
  IF value.kind = "number" THEN Number(value.n * spec.scale + spec.bias) ELSE value

DecodeField(spec, uplink) ==
  IF spec.source = "" THEN ApplyScale(spec, DecodeBytes(spec, uplink.bytes))
  ELSE IF spec.source \in DOMAIN uplink.object THEN ApplyScale(spec, uplink.object[spec.source])
  ELSE NoValue

---------------------------------------------------------------------------
(* receive_lorawan(). *)

MatchesIdentity(node, uplink) ==
  node.address = "" \/ uplink.address = ""
    \/ NormaliseEui(uplink.address) = NormaliseEui(node.address)

Eligible(spec, uplink) == spec.port = 0 \/ spec.port = uplink.port

Fresh(node, uplink) ==
  {spec \in BuildSpecs(node.fields) : Eligible(spec, uplink) /\ DecodeField(spec, uplink) # NoValue}

(* An uplink that is unreadable, another node's, oversize or empty, or in   *)
(* which nothing can be decoded, leaves the last reading alone.             *)
Accepts(node, uplink) ==
  /\ uplink.readable /\ MatchesIdentity(node, uplink)
  /\ uplink.encoded /\ Len(uplink.bytes) <= node.maxBytes
  /\ Fresh(node, uplink) # {}

(* Mutant: the reading is replaced as a whole. *)
Carried_Nothing(node, fields, uplink) == {}

Carried(node, fields, uplink) ==
  {spec \in BuildSpecs(node.fields) : ~Eligible(spec, uplink) /\ spec.name \in DOMAIN fields}

(* The reading after an uplink that was accepted. *)
Receive(node, fields, uplink, count) ==
  LET fresh == Fresh(node, uplink)
      kept == fresh \cup Carried(node, fields, uplink)
      Named(name) == CHOOSE spec \in kept : spec.name = name
  IN  [name \in {spec.name : spec \in kept} |->
         IF Named(name) \in fresh
         THEN [value |-> DecodeField(Named(name), uplink), port |-> uplink.port, count |-> count]
         ELSE fields[name]]

NoReading == << >>

=============================================================================
