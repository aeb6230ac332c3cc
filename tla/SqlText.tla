------------------------------- MODULE SqlText -------------------------------
(***************************************************************************)
(* The texts that the mysql engine makes SQL of, character by character    *)
(* where their meaning depends on it: the files of config/mysql, which     *)
(* ParseProcedure cuts into commands, and the quoted literals, which       *)
(* replace prepares: the comments of CREATE and the path of LOAD.          *)
(*                                                                         *)
(* Offsets count from 0, as in the code; a text is a sequence.             *)
(***************************************************************************)
EXTENDS Integers, Sequences, FiniteSets, SequencesExt

CONSTANTS
  Characters,   \* what texts are made of
  Files,        \* contents of procedure files
  Comments,     \* the texts that become comments
  TempDirs      \* temporary directories

Newline   == "newline"
Quote     == "quote"
Backslash == "backslash"

\* Stands for "#then_execute": like it, it starts with a character that it does
\* not hold a second time.
Separator == <<"#", "then">>
Skip      == Len(Separator) + 1   \* 14 in the code

Text == Seq(Characters)

ASSUME TextsAssumption ==
  /\ {Newline, Quote, Backslash, "#", "then"} \subseteq Characters
  /\ Files \subseteq Text /\ Comments \subseteq Text /\ TempDirs \subseteq Text

VARIABLES
  phase,     \* what is being done
  given,     \* the text it is done to
  subject,   \* the text as it is now
  pos,       \* ParseProcedure's prev, replace's pos
  commands   \* what ParseProcedure appended to UploadCommands

vars == <<phase, given, subject, pos, commands>>

Init ==
  /\ \/ phase = "parse" /\ given \in Files
     \/ phase = "comment" /\ given \in Comments
     \/ phase = "path" /\ given \in TempDirs
  /\ subject = given
  /\ pos = 0
  /\ commands = <<>>

NPos == -1

Occurs(s, w, i) == i + Len(w) <= Len(s) /\ SubSeq(s, i + 1, i + Len(w)) = w

\* s.find(w, from)
find(s, w, from) ==
  LET hits == {i \in from..Len(s) : Occurs(s, w, i)}
  IN IF hits = {} THEN NPos ELSE CHOOSE i \in hits : \A j \in hits : i <= j

AtMost(m, n) == IF m <= n THEN m ELSE n

\* s.substr(from, count), for a from within s
substr(s, from, count) == SubSeq(s, from + 1, AtMost(from + count, Len(s)))

-----------------------------------------------------------------------------
(* ParseProcedure. *)

next == find(subject, Separator, pos)

\* Mutated NextPiece: the separator's newline is left to the next command.
NextPieceKeepingNewline ==
  /\ phase = "parse"
  /\ next # NPos
  /\ commands' = Append(commands, substr(subject, pos, next))
  /\ pos' = next + Len(Separator)
  /\ UNCHANGED <<phase, given, subject>>

\* A turn of the loop.  substr is told where the piece ends instead of how many
\* characters it has.
NextPiece ==
  /\ phase = "parse"
  /\ next # NPos
  /\ commands' = Append(commands, substr(subject, pos, next))
  /\ pos' = next + Skip
  /\ UNCHANGED <<phase, given, subject>>

LastPiece ==
  /\ phase = "parse"
  /\ next = NPos
  /\ pos <= Len(subject)
  /\ commands' = Append(commands, SubSeq(subject, pos + 1, Len(subject)))
  /\ phase' = "parsed"
  /\ UNCHANGED <<given, subject, pos>>

\* substr beyond the end of the text throws std::out_of_range, which main does
\* not catch.
LastPieceThrows ==
  /\ phase = "parse"
  /\ next = NPos
  /\ pos > Len(subject)
  /\ phase' = "terminated"
  /\ UNCHANGED <<given, subject, pos, commands>>

-----------------------------------------------------------------------------
(* replace, as its callers use it: "'" by "''", "\" by "\\". *)

search      == IF phase = "comment" THEN <<Quote>> ELSE <<Backslash>>
replacement == search \o search

\* Mutated ReplaceOne: only what was searched for is passed over, and the next
\* search finds the end of what was put in.
ReplaceOneAgain ==
  /\ phase \in {"comment", "path"}
  /\ LET at == find(subject, search, pos)
     IN /\ at # NPos
        /\ subject' = SubSeq(subject, 1, at) \o replacement
                        \o SubSeq(subject, at + Len(search) + 1, Len(subject))
        /\ pos' = at + Len(search)
  /\ UNCHANGED <<phase, given, commands>>

\* Mutated ReplaceOne: more than the text that was put in is passed over.
ReplaceOneTooFar ==
  /\ phase \in {"comment", "path"}
  /\ LET at == find(subject, search, pos)
     IN /\ at # NPos
        /\ subject' = SubSeq(subject, 1, at) \o replacement
                        \o SubSeq(subject, at + Len(search) + 1, Len(subject))
        /\ pos' = at + Len(replacement) + 1
  /\ UNCHANGED <<phase, given, commands>>

ReplaceOne ==
  /\ phase \in {"comment", "path"}
  /\ LET at == find(subject, search, pos)
     IN /\ at # NPos
        /\ subject' = SubSeq(subject, 1, at) \o replacement
                        \o SubSeq(subject, at + Len(search) + 1, Len(subject))
        /\ pos' = at + Len(replacement)
  /\ UNCHANGED <<phase, given, commands>>

\* column_comment and CreateTable put the text between quotes.
EndComment ==
  /\ phase = "comment"
  /\ find(subject, search, pos) = NPos
  /\ phase' = "commented"
  /\ UNCHANGED <<given, subject, pos, commands>>

\* Mutated EndPath: init adds one backslash.
EndPathOneBackslash ==
  /\ phase = "path"
  /\ find(subject, search, pos) = NPos
  /\ phase' = "located"
  /\ subject' = subject \o <<Backslash>>
  /\ UNCHANGED <<given, pos, commands>>

\* init adds two backslashes for LoadTable to append the name of the file to.
EndPath ==
  /\ phase = "path"
  /\ find(subject, search, pos) = NPos
  /\ phase' = "located"
  /\ subject' = subject \o <<Backslash, Backslash>>
  /\ UNCHANGED <<given, pos, commands>>

Next ==
  \/ NextPiece \/ LastPiece \/ LastPieceThrows
  \/ ReplaceOne \/ EndComment \/ EndPath

Spec == Init /\ [][Next]_vars

-----------------------------------------------------------------------------
(* Properties. *)

\* The offsets of the separators of a procedure file, the k-th of them, and the
\* file's pieces: what lies between them, without the newline after each.
Separators(s)   == {i \in 0..Len(s) : Occurs(s, Separator, i)}
Before(s, i)    == {j \in Separators(s) : j < i}
Separated(s, k) ==
  CHOOSE i \in Separators(s) : Cardinality(Before(s, i)) = k - 1

PieceCount(s)    == Cardinality(Separators(s)) + 1
PieceStart(s, k) == IF k = 1 THEN 0 ELSE Separated(s, k - 1) + Skip
PieceEnd(s, k)   == IF k = PieceCount(s) THEN Len(s) ELSE Separated(s, k)
Pieces(s) ==
  [k \in 1..PieceCount(s) |-> SubSeq(s, PieceStart(s, k) + 1, PieceEnd(s, k))]

\* Each separator ends its line, as in every file of config/mysql.
OwnLines(s) ==
  \A i \in Separators(s) :
    i + Skip <= Len(s) /\ s[i + Skip] = Newline

\* Type correctness.  replace's position stays within the text that grows under
\* it; ParseProcedure leaves the text alone and passes the end of it by one at
\* most, which is where substr throws.
TypeOK ==
  /\ phase \in {"parse", "parsed", "terminated", "comment", "commented",
                "path", "located"}
  /\ subject \in Text /\ given \in Text
  /\ pos \in 0..(Len(subject) + 1)
  /\ phase \in {"comment", "commented", "path", "located"} => pos <= Len(subject)
  /\ commands \in Seq(Text)
  /\ phase \in {"parse", "parsed", "terminated"} => subject = given

\* A file with one separator, or with none, is sent as its pieces, to the
\* letter.  With more of them the count that substr is given is wrong from the
\* second command on, and the file is sent as something else.
OneSeparatorIsExact ==
  phase = "parsed" /\ OwnLines(given) =>
    (commands = Pieces(given) <=> Cardinality(Separators(given)) <= 1)

\* However many separators a file has, no command begins in the wrong place and
\* none is missing: what goes wrong is only where commands end.
CommandsBeginRight ==
  OwnLines(given) /\ phase \in {"parse", "parsed"} =>
    /\ \A i \in 1..Len(commands) : IsPrefix(Pieces(given)[i], commands[i])
    /\ phase = "parsed" => Len(commands) = Len(Pieces(given))

\* The program is terminated for the sake of a file only when a separator is
\* the last thing in it, without so much as a newline.
ThrowsOnlyAtTheEnd ==
  phase = "terminated" =>
    /\ Len(given) >= Len(Separator)
    /\ Occurs(given, Separator, Len(given) - Len(Separator))

\* What becomes of a procedure file: which ones are sent as they are, what is
\* wrong with the others, and when it ends the program.
ProceduresSent == OneSeparatorIsExact /\ CommandsBeginRight /\ ThrowsOnlyAtTheEnd

\* How the server reads a quoted literal: a backslash takes the next character
\* literally, "''" is a quote, and the quote that is left ends the literal.  The
\* rest of the command follows it.
Paired(s, i) ==
  /\ i < Len(s)
  /\ s[i] = Backslash \/ (s[i] = Quote /\ s[i + 1] = Quote)

Reading(s) ==
  LET Read[i \in 1..(Len(s) + 2)] ==
        IF i > Len(s) THEN <<>>
        ELSE IF Paired(s, i) THEN <<s[i + 1]>> \o Read[i + 2]
        ELSE IF s[i] = Quote THEN <<"end">>
        ELSE <<s[i]>> \o Read[i + 1]
  IN Read

\* What it makes of s, with the quote that the code adds behind it.
Meaning(s) == Reading(s \o <<Quote>>)[1]

\* A description reaches the schema as PDBReflection.inl has it, quotes
\* included, when it holds no backslash.
CommentReadsBack ==
  phase = "commented" /\ (\A i \in 1..Len(given) : given[i] # Backslash) =>
    Meaning(subject) = given \o <<"end">>

\* LOAD is told the directory with one separator behind it, whatever
\* backslashes it holds: exactly the directories without a quote survive, as
\* nothing doubles that one.
PathReadsBack ==
  phase = "located" =>
    ((\A i \in 1..Len(given) : given[i] # Quote)
       <=> Meaning(subject) = given \o <<Backslash, "end">>)

\* Each turn of either loop leaves less of the text to look at, although replace
\* makes the text longer: it never looks at what it has put in.  With TypeOK's
\* bound on pos, both loops end for every text.
LoopsAdvance ==
  [][phase' = phase => Len(subject') - pos' < Len(subject) - pos]_vars
=============================================================================
