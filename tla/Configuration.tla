---------------------------- MODULE Configuration ----------------------------
(***************************************************************************)
(* What Config.__init__ (config/config.py) makes of a document: the        *)
(* environment is put in, each axis loses the entries whose name was seen  *)
(* before, and each device is told the protocol its connector speaks.      *)
(*                                                                         *)
(* A text is a sequence of pieces, as far apart as the program can tell    *)
(* them: a word, or a reference ${VAR} or ${VAR:-default}.  Validation     *)
(* against the schemas only ever logs, and is left out.  An entry is       *)
(* [name, plugin, emulates, connector, protocol, declared], where plugin   *)
(* is its "protocol", "kind" or "class" and the others are Null, "" or     *)
(* << >> on the axes that do not have them.                                *)
(***************************************************************************)
EXTENDS Naturals, Sequences, SequencesExt

CONSTANT Null        \* JSON null, and the answer of .get() on an absent key

Axes == <<"devices", "storage", "connectors", "algorithms", "services">>
AxisNames == {Axes[k] : k \in 1..Len(Axes)}

NoDefault == "no default"
Text(word) == <<[word |-> word, var |-> "", default |-> NoDefault]>>
Reference(var, default) == <<[word |-> "", var |-> var, default |-> default]>>
IsReference(piece) == piece.var # ""
Word(text) == text[1].word   \* of a text that is one word, as the name of a plugin is

---------------------------------------------------------------------------
(* An environment maps the variables that are set to texts; << >> is "". *)

ResolveEnv(env, piece) ==
  CASE piece.var \in DOMAIN env /\ env[piece.var] # << >> -> env[piece.var]
    [] piece.default # NoDefault                          -> piece.default
    [] OTHER                                              -> << >>

(* A value that is one reference may come out null; a longer one may not. *)
Interpolate(env, value) ==
  CASE value = Null -> Null
    [] value # Null /\ Len(value) = 1 /\ IsReference(value[1]) ->
         LET text == ResolveEnv(env, value[1]) IN IF text = << >> THEN Null ELSE text
    [] OTHER ->
         FlattenSeq([k \in 1..Len(value) |->
                       IF IsReference(value[k]) THEN ResolveEnv(env, value[k]) ELSE <<value[k]>>])

InterpolateEntry(env, entry) ==
  [entry EXCEPT !.name = Interpolate(env, @), !.emulates = Interpolate(env, @),
                !.connector = Interpolate(env, @)]

---------------------------------------------------------------------------
(* Mutant: the last of the entries that share a name is kept. *)
UniqueByName_KeepsLast(entries) ==
  SelectSeq(entries, LAMBDA e : \A k \in 1..Len(entries) :
              entries[k].name = e.name => \E j \in k..Len(entries) : entries[j] = e)

(* The first entry under a name stays, the others are dropped. *)
UniqueByName(entries) ==
  FoldLeft(LAMBDA kept, e :
             IF \E k \in 1..Len(kept) : kept[k].name = e.name THEN kept ELSE Append(kept, e),
           << >>, entries)

(* What devices are told: the transport a replay stands in for, if any. *)
Protocol(connector) ==
  IF connector.emulates \in {Null, << >>} THEN connector.plugin ELSE Word(connector.emulates)

(* A device whose connector the document does not have is dropped. *)
ResolvedDevices(devices, connectors) ==
  FoldLeft(LAMBDA resolved, d :
             LET named == SelectInSeq(connectors, LAMBDA c : c.name = d.connector) IN
             IF named = 0 THEN resolved
             ELSE Append(resolved, [d EXCEPT !.protocol = Protocol(connectors[named])]),
           << >>, devices)

Config(document, env) ==
  LET unique == [axis \in AxisNames |->
                   UniqueByName([k \in 1..Len(document[axis]) |->
                                   InterpolateEntry(env, document[axis][k])])]
  IN [unique EXCEPT !["devices"] = ResolvedDevices(unique["devices"], unique["connectors"])]
=============================================================================
