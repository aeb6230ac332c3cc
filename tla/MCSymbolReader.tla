--------------------------- MODULE MCSymbolReader ---------------------------
(***************************************************************************)
(* Small PDBs for SymbolReader.  A symbol's id is its position, which is   *)
(* enough: the code only compares ids.  BatchSize is 2, so a table of      *)
(* three elements takes a full and a short batch and one of two elements a *)
(* full one and the empty fetch after it.                                  *)
(***************************************************************************)
EXTENDS SymbolReader, FiniteSetsExt

CONSTANTS l1, l2, MaxSymbols

MCLines == {l1, l2}

\* What a symbol other than a CompilandDetails may be; "Function" stands for
\* the dedicated tags and "Annotation" for the ignored ones.
Shapes ==
  {[tag |-> t, parent |-> 0, line |-> NoLine] :
     t \in {"Compiland", "UDT", "Function", "Annotation"}}
  \cup {[tag |-> "UDT", parent |-> 0, line |-> l1]}
  \cup {[tag |-> "CompilandDetails", parent |-> c, line |-> NoLine] :
          c \in 1..MaxSymbols}

Numbered(shapes) ==
  [i \in 1..Len(shapes) |->
     [id |-> i, tag |-> shapes[i].tag, parent |-> shapes[i].parent,
      line |-> shapes[i].line]]

\* The parent of a CompilandDetails symbol is a compiland, read or yet to be.
Sound(syms) ==
  \A i \in 1..Len(syms) : syms[i].tag = "CompilandDetails" =>
    /\ syms[i].parent \in 1..Len(syms)
    /\ syms[syms[i].parent].tag = "Compiland"

SymbolLists ==
  {s \in UNION {{Numbered(f) : f \in [1..n -> Shapes]} : n \in 0..MaxSymbols} :
     Sound(s)}

Bare == [headers |-> <<>>, order |-> <<>>, symbols |-> <<>>, lines |-> <<>>,
         files |-> <<>>, plain |-> [n \in EmplaceTables |-> <<>>], partial |-> S_OK]

Orders == {<<"Symbols", "LineNumbers">>, <<"LineNumbers", "other", "Symbols">>}

\* Symbols and line numbers, in either order of their tables.
SymbolPdbs ==
  {[Bare EXCEPT !.order = o, !.symbols = s, !.lines = l] :
     o \in Orders, s \in SymbolLists, l \in {<<>>, <<l1>>, <<l2, l1, l1>>}}

\* Four symbols, compilands and details only: a compiland other than the first
\* may have details on both sides of it.
ScatteredPdbs ==
  {[Bare EXCEPT !.order = <<"Symbols">>, !.symbols = Numbered(f)] :
     f \in {g \in [1..4 -> {s \in Shapes : s.tag = "Compiland"}
                         \cup {[tag |-> "CompilandDetails", parent |-> c,
                                line |-> NoLine] : c \in 1..4}] : Sound(g)}}

\* Source files that up to four compilands include, in batches of two, the
\* last of which is a success for some versions of DIA and S_FALSE for others.
FilePdbs ==
  {[Bare EXCEPT !.order = <<"SourceFiles">>, !.partial = hr,
                !.files = <<[id |-> 7, compilands |-> a],
                            [id |-> 8, compilands |-> b]>>] :
     a \in {<<>>, <<1>>, <<1, 2>>, <<1, 2, 3>>, <<1, 2, 3, 4>>},
     b \in {<<>>, <<2, 1>>, <<3, 1, 2>>}, hr \in {S_OK, S_FALSE}}

\* Section headers, one of them short, and tables that are copied.
OtherPdbs ==
  {[Bare EXCEPT !.headers = h,
                !.order = <<"FrameData", "Sections", "other">>,
                !.plain["FrameData"] = <<11, 12, 13>>,
                !.plain["Sections"] = p] :
     h \in {<<>>, <<"full", "full">>, <<"full", "short", "full">>},
     p \in {<<>>, <<21>>, <<21, 22, 23, 24>>}}

MCPdbs == SymbolPdbs \cup ScatteredPdbs \cup FilePdbs \cup OtherPdbs
=============================================================================
