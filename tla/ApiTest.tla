------------------------------- MODULE ApiTest -------------------------------
(***************************************************************************)
(* The DIA test suite (-doc, DIA2Doc.cpp): which getters answer for which  *)
(* kind of symbol, over all symbols of a list of files.                    *)
(*                                                                         *)
(* Document reads the list, adds the program's own path, has APITest see   *)
(* every symbol of every file, and only then opens its output, which       *)
(* empties it, and writes what was measured, one line for each tag.        *)
(* A file that does not load leaves a null session, which is dereferenced. *)
(***************************************************************************)
EXTENDS Integers, Sequences, SequencesExt

CONSTANTS
  Getters,   \* the MEASURE lines of element, in order; a getter is the rank
             \* of its name in strcmp's order
  MaxTag,    \* SymTagMax - 1
  Listed,    \* the lines of in.txt
  Self,      \* the path of the program
  Symbols,   \* the files that DIA can load |-> their symbols
  Older      \* out.txt before the run

Tags    == 0..MaxTag
Symbol  == [tag : Tags, answers : SUBSET ToSet(Getters)]

\* What is assumed of the constants.
ConstantsOK ==
  /\ Getters \in Seq(Nat) /\ IsInjective(Getters)
  /\ MaxTag \in Nat
  /\ Listed \in Seq(ToSet(Listed))
  /\ \A f \in DOMAIN Symbols : Symbols[f] \in Seq(Symbol)

VARIABLES
  config,     \* whether ../config/doc is there, seen from the directory
  at,         \* where Document is
  files,      \* the files that are left to load
  left,       \* the symbols of the current file that are left to see
  measured,   \* tag |-> getters, in the order in which they were found
  outTxt,     \* out.txt: Older, or its lines, that of tag 0 first
  handed,     \* history: what element was called for
  fault       \* history: a DIA call, the list or the output failed

vars == <<at, files, left, measured, outTxt, handed, fault>>

Init ==
  /\ at = "idle"
  /\ files = <<>>
  /\ left = <<>>
  /\ measured = [t \in Tags |-> <<>>]
  /\ outTxt = Older
  /\ handed = {}
  /\ fault = FALSE

\* Mutated ReadList: the output is opened beside the list.
ReadListAndOpen ==
  /\ at = "idle"
  /\ at' = "files"
  /\ files' = Append(IF config THEN Listed ELSE <<>>, Self)
  /\ outTxt' = IF config THEN <<>> ELSE outTxt
  /\ UNCHANGED <<left, measured, handed, fault>>

\* A list that is not there is an empty one ...
ReadList ==
  /\ at = "idle"
  /\ at' = "files"
  /\ files' = Append(IF config THEN Listed ELSE <<>>, Self)
  /\ UNCHANGED <<left, measured, outTxt, handed, fault>>

\* ... and so is one that is there and cannot be opened.
ReadListFails ==
  /\ at = "idle"
  /\ config
  /\ at' = "files"
  /\ files' = <<Self>>
  /\ fault' = TRUE
  /\ UNCHANGED <<left, measured, outTxt, handed>>

Load ==
  /\ at = "files"
  /\ files # <<>>
  /\ Head(files) \in DOMAIN Symbols
  /\ at' = "symbols"
  /\ left' = Symbols[Head(files)]
  /\ files' = Tail(files)
  /\ UNCHANGED <<measured, outTxt, handed, fault>>

\* load returns false, or true without a session: nobody looks, and
\* MeasureSymbols calls the null session.
LoadFails ==
  /\ at = "files"
  /\ files # <<>>
  /\ at' = "crashed"
  /\ fault' = TRUE
  /\ UNCHANGED <<files, left, measured, outTxt, handed>>

\* default_measure, getter by getter: one that is known is not called again.
NewFor(found, answers) ==
  LET new[i \in 0..Len(Getters)] ==
        IF i = 0 THEN <<>>
        ELSE IF Getters[i] \in answers \ ToSet(found)
             THEN Append(new[i - 1], Getters[i])
             ELSE new[i - 1]
  IN new[Len(Getters)]

\* std::sort, of names that are all different.
Sorted(names) ==
  CHOOSE s \in [1..Len(names) -> ToSet(names)] :
    /\ ToSet(s) = ToSet(names)
    /\ \A i, j \in 1..Len(names) : i < j => s[i] < s[j]

\* element: get_symTag leaves 0 where it fails.
Measure ==
  /\ at = "symbols"
  /\ left # <<>>
  /\ \E tag \in {Head(left).tag, 0} :
       /\ measured' = [measured EXCEPT
                         ![tag] = @ \o NewFor(@, Head(left).answers)]
       /\ handed' = handed \cup {[tag |-> tag, answers |-> Head(left).answers]}
       /\ fault' = (fault \/ tag # Head(left).tag)
  /\ left' = Tail(left)
  /\ UNCHANGED <<at, files, outTxt>>

EndFile ==
  /\ at = "symbols"
  /\ left = <<>>
  /\ at' = "files"
  /\ UNCHANGED <<files, left, measured, outTxt, handed, fault>>

\* The enumeration of the tables or of the symbols ends early.
EnumFails ==
  /\ at = "symbols"
  /\ left # <<>>
  /\ at' = "files"
  /\ left' = <<>>
  /\ fault' = TRUE
  /\ UNCHANGED <<files, measured, outTxt, handed>>

\* The loop over measured: the names of the tag whose turn it is, sorted.
Line == Sorted(measured[Len(outTxt)])

OpenOut ==
  /\ at = "files"
  /\ files = <<>>
  /\ config
  /\ at' = "write"
  /\ outTxt' = <<>>
  /\ UNCHANGED <<files, left, measured, handed, fault>>

\* Where there is no directory, or for a reason of its own: nobody looks, and
\* the loop writes into nothing.
OpenOutFails ==
  /\ at = "files"
  /\ files = <<>>
  /\ at' = "done"
  /\ fault' = (fault \/ config)
  /\ UNCHANGED <<files, left, measured, outTxt, handed>>

\* endl hands each line to the file.
WriteLine ==
  /\ at = "write"
  /\ Len(outTxt) <= MaxTag
  /\ outTxt' = Append(outTxt, Line)
  /\ UNCHANGED <<at, files, left, measured, handed, fault>>

\* A part of the line may have reached the file; the stream has failed for the
\* lines to come as well, and nobody looks.
WriteLineFails ==
  /\ at = "write"
  /\ Len(outTxt) <= MaxTag
  /\ outTxt' \in {outTxt} \cup {Append(outTxt, SubSeq(Line, 1, n)) : n \in 0..Len(Line)}
  /\ at' = "done"
  /\ fault' = TRUE
  /\ UNCHANGED <<files, left, measured, handed>>

CloseOut ==
  /\ at = "write"
  /\ Len(outTxt) > MaxTag
  /\ at' = "done"
  /\ UNCHANGED <<files, left, measured, outTxt, handed, fault>>

Next ==
  \/ ReadList \/ ReadListFails
  \/ Load \/ LoadFails \/ Measure \/ EndFile \/ EnumFails
  \/ OpenOut \/ OpenOutFails \/ WriteLine \/ WriteLineFails \/ CloseOut

-----------------------------------------------------------------------------
(* Properties. *)

Report == {lines \in Seq(Seq(ToSet(Getters))) : Len(lines) <= MaxTag + 1}

TypeOK ==
  /\ at \in {"idle", "files", "symbols", "write", "done", "crashed"}
  /\ files \in Seq(ToSet(Listed) \cup {Self})
  /\ left \in Seq(Symbol)
  /\ measured \in [Tags -> Seq(ToSet(Getters))]
  /\ outTxt = Older \/ outTxt \in Report
  /\ at = "write" => outTxt \in Report
  /\ handed \subseteq Symbol
  /\ fault \in BOOLEAN

\* What the symbols of S with tag t answer to.
AnswersIn(S, t) == UNION {s.answers : s \in {h \in S : h.tag = t}}

\* Whatever the order of the files, of their symbols and of the calls that are
\* left out, a tag has each getter that answered for one of its symbols, once.
MeasuredIsUnion ==
  \A t \in Tags :
    /\ ToSet(measured[t]) = AnswersIn(handed, t)
    /\ IsInjective(measured[t])

Increasing(line) == \A i, j \in 1..Len(line) : i < j => line[i] < line[j]

\* Each line lists, sorted, what the symbols of its tag answered to; one whose
\* writing failed, which is the last, a part of it.
LinesAreTrue ==
  \A i \in 1..Len(outTxt) :
    /\ Increasing(outTxt[i])
    /\ ToSet(outTxt[i]) \subseteq AnswersIn(handed, i - 1)
    /\ i < Len(outTxt) \/ ~fault => ToSet(outTxt[i]) = AnswersIn(handed, i - 1)

InFiles == UNION {ToSet(Symbols[f]) : f \in ToSet(Listed) \cup {Self}}

\* An earlier report is there until all files have been measured, whatever ends
\* the run before.  Then it is kept, or what is found in its place is true line
\* by line; and it is there for every tag and says it of all symbols of all
\* files, if nothing failed.
OutIsWhole ==
  /\ at \notin {"write", "done"} => outTxt = Older
  /\ at \in {"write", "done"} => files = <<>> /\ (outTxt = Older \/ LinesAreTrue)
  /\ at = "done" /\ config /\ ~fault =>
       /\ DOMAIN outTxt = 1..(MaxTag + 1)
       /\ \A t \in Tags : ToSet(outTxt[t + 1]) = AnswersIn(InFiles, t)
=============================================================================
