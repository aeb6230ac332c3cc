---------------------------- MODULE MCTableWriter ----------------------------
(***************************************************************************)
(* Row types that put every kind of member first, in the middle and last,  *)
(* and texts of all characters that the formats treat apart.               *)
(***************************************************************************)
EXTENDS TableWriter

MCNames == {"a", "b", "c"}

M(name, type) == [name |-> name, type |-> type, unique |-> FALSE]
K(name)       == [name |-> name, type |-> "number", unique |-> TRUE]

MCStructs ==
  {<<M("a", "text"), M("b", "enum")>>, <<K("a"), M("b", "text")>>,
   <<M("a", "bool"), M("b", "address"), M("c", "bool")>>,
   <<M("a", "enum"), M("b", "bool"), M("c", "number")>>}

\* "n" is the letter that a backslash would turn into a newline.
Chars   == {Quote, Backslash, Comma, "semicolon", Newline, "n"}
MCCharacters == Chars \cup MCNames \cup {"0", "1", "7", "listed"}
MCTexts == UNION {[1..n -> Chars] : n \in 0..2}

MCSeparators == {Comma, "semicolon"}
=============================================================================
