------------------------------ MODULE MCSqlText ------------------------------
(***************************************************************************)
(* Texts for SqlText: procedure files of up to seven parts, a separator, a *)
(* newline or another character each, so that separators meet each other,  *)
(* the ends of the text and newlines in every way; literals of up to six   *)
(* characters.                                                             *)
(***************************************************************************)
EXTENDS SqlText

MCCharacters == {Newline, Quote, Backslash, "#", "then", "a"}

MCFiles ==
  {FlattenSeq(parts) : parts \in BoundedSeq({Separator, <<Newline>>, <<"a">>}, 7)}

MCComments == BoundedSeq({Quote, Backslash, "a"}, 6)

MCTempDirs == BoundedSeq({Quote, Backslash, "a"}, 6)
=============================================================================
