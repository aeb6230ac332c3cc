------------------------------- MODULE MCDrpdb -------------------------------
(***************************************************************************)
(* Command lines for Drpdb: every order of two arguments, of three where   *)
(* their names share a beginning or are always looked at, and the complete *)
(* lines of the mysql engine with one more argument anywhere.              *)
(* Those of -doc have one other argument at most: it is ignored.           *)
(***************************************************************************)
EXTENDS Drpdb, SequencesExt, TLC

CONSTANTS t1, t2

MCValues == {"mysql", "csv", "odbc", "x", "3307", ""}

Opt(name, v) == [key |-> name, value |-> v]

SomeArgs ==
  {Opt(out, v) : v \in {"mysql", "csv", "odbc", "x"}}
  \cup {Opt(n, "x") : n \in {in, outdir, temp, wikidoc, connect, <<>>, <<"p">>}}
  \cup {Opt(n, "") : n \in {in, outdir}}
  \cup {Opt(n, NoValue) : n \in {drivers, out, uselocaleseparator}}

\* Names that are the beginning of others, and those that main asks for.
Entangled ==
  {Opt(out, v) : v \in {"mysql", "csv", "x"}}
  \cup {Opt(n, "x") : n \in {in, outdir, temp, <<>>}}

\* -host, -user, -db, -out=mysql
Complete == {Opt(host, "x"), Opt(user, "x"), Opt(dbname, "x"), Opt(out, "mysql")}

Extra == {Opt(in, "x"), Opt(port, "x"), Opt(port, "3307"), Opt(pass, "x"),
          Opt(outdir, "x"), Opt(temp, "x"), Opt(<<"p">>, "x")}

Upto(n, S) == UNION {[1..k -> S] : k \in 0..n}

DocArgLists ==
  {<<Opt(doc, NoValue)>>}
  \cup {<<a, Opt(doc, NoValue)>> :
          a \in {Opt(out, "mysql"), Opt(in, "x"), Opt(wikidoc, "x")}}

MCArgLists ==
  Upto(2, SomeArgs) \cup [1..3 -> Entangled]
  \cup {SetToSeq(Complete \ {a}) : a \in Complete}
  \cup {InsertAt(SetToSeq(Complete), k, e) : k \in 1..5, e \in Extra}
  \cup DocArgLists

\* As drpdb.sln builds it, started from Visual Studio's working directory ...
Built == [exe |-> <<"x64", "Release">>, caller |-> <<"drpdb">>]

\* ... and copied to a directory beside config, started from elsewhere.
Copied == [exe |-> <<"bin">>, caller |-> <<>>]

MCPlaces   == {Built, Copied}
BuiltPlace == {Built}
MCExisting == {<<"config", "doc">>, <<"config", "mysql">>}

\* The MEASURE lines of three getters, by the ranks of their names.
MCGetters == <<2, 3, 1>>

Sym(tag, answers) == [tag |-> tag, answers |-> answers]

\* Two files with symbols of the same kinds, and the program itself.
MCListed  == <<"a", "b">>
MCSelf    == "self"
MCSymbols ==
  "a" :> <<Sym(1, {2, 3}), Sym(2, {1}), Sym(1, {1, 3})>>
  @@ "b" :> <<Sym(2, {1, 2}), Sym(1, {2})>>
  @@ "self" :> <<Sym(2, {3})>>

MCTables == <<t1, t2>>
=============================================================================
