------------------------------ MODULE YamlNode ------------------------------
(***************************************************************************)
(* The nodes of a YAML document and the primitives that read and write     *)
(* them (src/src/yaml/unmarshal-primitives.c, marshal-primitives.c).       *)
(*                                                                         *)
(* A scalar is its text and, if the text is a number, the number in units  *)
(* of 1/100000.  A mapping is a sequence of pairs <<scalar, node>>, read   *)
(* into an ordered map: a sequence of entries [k, v] with distinct keys.   *)
(* What libyaml does with text is external: a document is read as it was   *)
(* written.                                                                *)
(***************************************************************************)
EXTENDS Enums, SequencesExt

Scalar(text, num) == [type |-> "scalar", text |-> text, num |-> num]
Word(text) == Scalar(text, NULL)
Number(num) == Scalar("number", num)
List(items) == [type |-> "sequence", items |-> items]
Mapping(pairs) == [type |-> "map", pairs |-> pairs]
Empty == Word("")

IsType(node, type) == node # NULL /\ node.type = type

-----------------------------------------------------------------------------
(* Ordered maps, as SPmap and SImap keep them. *)

HasKey(m, k) == \E i \in DOMAIN m : m[i].k = k

Get(m, k) ==
  IF m = NULL \/ ~HasKey(m, k) THEN NULL ELSE m[CHOOSE i \in DOMAIN m : m[i].k = k].v

Put(m, k, v) ==
  IF v = NULL THEN m
  ELSE IF HasKey(m, k) THEN [i \in DOMAIN m |-> IF m[i].k = k THEN [k |-> k, v |-> v] ELSE m[i]]
  ELSE Append(m, [k |-> k, v |-> v])

put_if_absent(m, k, v) == IF HasKey(m, k) THEN m ELSE Put(m, k, v)

(* Sset: in the order added. *)
AddTo(s, v) == IF Contains(s, v) THEN s ELSE Append(s, v)

-----------------------------------------------------------------------------
(* Reading.  NULL is a value that could not be read. *)

yaml_scalar_to_string(node) == IF IsType(node, "scalar") THEN node.text ELSE NULL

(* sscanf takes what a number starts with; "%d" stops at the point. *)
yaml_scalar_to_float(node) == IF IsType(node, "scalar") THEN node.num ELSE NULL

yaml_scalar_to_int(node) ==
  IF yaml_scalar_to_float(node) = NULL THEN NULL
  ELSE IF node.num >= 0 THEN node.num \div Unit ELSE -((-node.num) \div Unit)

OrElse(value, def) == IF value = NULL THEN def ELSE value

yaml_scalar_to_enum(table, node) == IF IsType(node, "scalar") THEN Val(table, node.text) ELSE NULL

yaml_scalar_to_enum_start(table, node) == IF IsType(node, "scalar") THEN ValStart(table, node.text) ELSE NULL

yaml_scalar_to_on_off(node) == yaml_scalar_to_enum(on_offs, node)

(* A Boolean that could not be read leaves what there was. *)
yaml_scalar_to_boolean(was, node) ==
  IF yaml_scalar_to_on_off(node) = NULL THEN was ELSE yaml_scalar_to_on_off(node) = "ON"

(* Keys that are no scalars are skipped; of equal keys the last one counts. *)
yaml_map_to_spmap(node) ==
  IF ~IsType(node, "map") THEN NULL
  ELSE FoldLeft(LAMBDA m, pair : IF yaml_scalar_to_string(pair[1]) = NULL THEN m ELSE Put(m, pair[1].text, pair[2]),
                <<>>, node.pairs)

(* The items of a sequence; anything else has none. *)
Items(node) == IF IsType(node, "sequence") THEN node.items ELSE <<>>

-----------------------------------------------------------------------------
(* Writing.  A pair is a sequence of one pair, or of none. *)

yaml_map_add_node(key, node) == IF node = NULL THEN <<>> ELSE <<<<Word(key), node>>>>

yaml_map_add_str(key, str) == IF str = NULL THEN <<>> ELSE yaml_map_add_node(key, Word(str))

yaml_map_add_int(key, val) == yaml_map_add_node(key, Number(val * Unit))

yaml_map_add_int_nz(key, val) == IF val = 0 THEN <<>> ELSE yaml_map_add_int(key, val)

(* "%g": six significant digits. *)
Printed(num) ==
  LET step == IF num < 10 * Unit THEN 1 ELSE IF num < 100 * Unit THEN 10 ELSE IF num < 1000 * Unit THEN 100
              ELSE IF num < 10000 * Unit THEN 1000 ELSE 10000
  IN  ((num + step \div 2) \div step) * step

yaml_map_add_float_nz(key, num) == IF num = 0 THEN <<>> ELSE yaml_map_add_node(key, Number(Printed(num)))

yaml_map_add_bool(key, val) == yaml_map_add_node(key, Word(IF val THEN "TRUE" ELSE "FALSE"))

yaml_map_add_enum(key, table, val) ==
  IF val = NULL THEN <<>>
  ELSE IF table = on_offs THEN yaml_map_add_bool(key, val = "ON")
  ELSE yaml_map_add_str(key, Name(table, val))

yaml_map_add_plist(key, nodes) ==
  IF nodes = <<>> THEN <<>>
  ELSE yaml_map_add_node(key, List(SelectSeq(nodes, LAMBDA n : n # NULL)))

yaml_map_add_sset(key, sset) ==
  yaml_map_add_node(key, IF sset = <<>> THEN Empty ELSE List([i \in DOMAIN sset |-> Word(sset[i])]))

(* An empty map is written as an empty scalar. *)
MapOrEmpty(pairs) == IF pairs = <<>> THEN Empty ELSE Mapping(pairs)

=============================================================================
