-------------------------- MODULE SymbolLinksProofs --------------------------
(***************************************************************************)
(* Theorems about the links that the reader puts between its tables: from  *)
(* a user type to its line in src_lines, from the details of a compiland   *)
(* to the compiland's row, and from a symbol to the row of its own.        *)
(***************************************************************************)
EXTENDS SymbolReaderProofs, FiniteSetTheorems

-----------------------------------------------------------------------------
(* The source lines of user types. *)

\* The row of a user type belongs to one of the first n symbols of p, and if
\* this symbol has a line, then the row refers to one of ranges that holds it.
Backed(row, n, ranges, p) ==
  \E k \in 1..n :
    /\ row.symbol = p.symbols[k].id
    /\ p.symbols[k].line # NoLine =>
         \E r \in DOMAIN ranges : /\ ranges[r].id = row.src_line
                                  /\ ranges[r].line = p.symbols[k].line

UserTypesBacked ==
  \A u \in DOMAIN UserType : Backed(UserType[u], read["Symbols"], SrcRange, pdb)

\* Appending to src_lines, or reading on, takes no row's line away.
LEMMA StaysBacked ==
  ASSUME NEW row, NEW n \in Nat, NEW m \in Nat, n <= m, NEW p,
         NEW S, NEW ranges \in Seq(S), NEW more,
         \/ more = ranges
         \/ \E x \in S : more = Append(ranges, x),
         Backed(row, n, ranges, p)
  PROVE  Backed(row, m, more, p)
<1>1. \A r \in DOMAIN ranges : r \in DOMAIN more /\ more[r] = ranges[r]
  OBVIOUS
<1>2. PICK k \in 1..n :
        /\ row.symbol = p.symbols[k].id
        /\ p.symbols[k].line # NoLine =>
             \E r \in DOMAIN ranges : /\ ranges[r].id = row.src_line
                                      /\ ranges[r].line = p.symbols[k].line
  BY DEF Backed
<1>3. k \in 1..m
  OBVIOUS
<1>4. ASSUME p.symbols[k].line # NoLine
      PROVE  \E r \in DOMAIN more : /\ more[r].id = row.src_line
                                    /\ more[r].line = p.symbols[k].line
  BY <1>1, <1>2, <1>4
<1> QED
  BY <1>2, <1>3, <1>4 DEF Backed

\* Rows that were backed remain so after a step that keeps them.
LEMMA OldRowsBacked ==
  ASSUME TypeOK, UserTypesBacked, pdb' = pdb,
         read'["Symbols"] \in Nat, read["Symbols"] <= read'["Symbols"],
         \/ SrcRange' = SrcRange
         \/ \E x \in SrcRangeRow : SrcRange' = Append(SrcRange, x)
  PROVE  \A u \in DOMAIN UserType :
           Backed(UserType[u], read'["Symbols"], SrcRange', pdb')
<1>1. read["Symbols"] \in Nat /\ SrcRange \in Seq(SrcRangeRow)
  BY DEF TypeOK, ControlOK, RowsOK, TableNames
<1>2. SUFFICES ASSUME NEW u \in DOMAIN UserType
               PROVE  Backed(UserType[u], read'["Symbols"], SrcRange', pdb)
  OBVIOUS
<1>3. Backed(UserType[u], read["Symbols"], SrcRange, pdb)
  BY DEF UserTypesBacked
<1> QED
  BY <1>1, <1>3, StaysBacked

\* A step that handles no user type.
LEMMA NoNewUserType ==
  ASSUME TypeOK, UserTypesBacked, pdb' = pdb, UserType' = UserType,
         read'["Symbols"] \in Nat, read["Symbols"] <= read'["Symbols"],
         \/ SrcRange' = SrcRange
         \/ \E x \in SrcRangeRow : SrcRange' = Append(SrcRange, x)
  PROVE  UserTypesBacked'
  BY OldRowsBacked DEF UserTypesBacked

\* The row that ReadUDTSymbol appends is backed by the range it appends.
LEMMA NewUserType ==
  ASSUME TypeOK, Cursor, UserTypesBacked, ReadUDTSymbol
  PROVE  UserTypesBacked'
<1>1. /\ Element("Symbols") /\ "Symbols" \in TableNames
      /\ ControlOK /\ UserType \in Seq(UserTypeRow) /\ SrcRange \in Seq(SrcRangeRow)
  BY DEF ReadUDTSymbol, Symbolic, TypeOK, RowsOK, TableNames
<1>2. PICK n \in Nat : n = read["Symbols"]
  BY <1>1 DEF ControlOK
<1>3. read'["Symbols"] = n + 1 /\ pdb' = pdb
  BY <1>1, <1>2, NextElement DEF ControlOK
<1>4. nextSymbol \in SymbolItem /\ nextSymbol = pdb.symbols[n + 1]
  BY <1>1, <1>2, NextSymbol DEF nextSymbol
<1>5. CASE nextSymbol.line # NoLine
  <2>1. PICK l \in Nat : l = Len(SrcRange)
    BY <1>1
  <2> DEFINE range == [id |-> l, line |-> nextSymbol.line]
             row   == [symbol |-> nextSymbol.id, src_line |-> l]
  <2>2. UserType' = Append(UserType, row) /\ SrcRange' = Append(SrcRange, range)
    BY <1>5, <2>1 DEF ReadUDTSymbol
  <2>3. range \in SrcRangeRow /\ row \in UserTypeRow
    BY <1>4, <1>5 DEF SrcRangeRow, UserTypeRow, SymbolItem
  <2>4. \A u \in DOMAIN UserType : Backed(UserType[u], n + 1, SrcRange', pdb')
    BY <1>2, <1>3, <2>2, <2>3, OldRowsBacked
  <2>5. Backed(row, n + 1, SrcRange', pdb')
    <3>1. l + 1 \in DOMAIN SrcRange' /\ SrcRange'[l + 1] = range
      <4> HIDE DEF range
      <4> QED
        BY <1>1, <2>1, <2>2, <2>3
    <3>2. n + 1 \in 1..(n + 1)
      OBVIOUS
    <3>3. \E r \in DOMAIN SrcRange' : /\ SrcRange'[r].id = row.src_line
                                      /\ SrcRange'[r].line = pdb.symbols[n + 1].line
      BY <1>4, <3>1
    <3> QED
      BY <1>3, <1>4, <3>2, <3>3 DEF Backed
  <2> HIDE DEF row, range
  <2>6. \A u \in DOMAIN UserType' : Backed(UserType'[u], n + 1, SrcRange', pdb')
    <3> SUFFICES ASSUME NEW u \in DOMAIN UserType'
                 PROVE  Backed(UserType'[u], n + 1, SrcRange', pdb')
      OBVIOUS
    <3>1. CASE u \in DOMAIN UserType
      <4>1. UserType'[u] = UserType[u]
        BY <1>1, <2>2, <2>3, <3>1
      <4> QED
        BY <2>4, <3>1, <4>1
    <3>2. CASE u \notin DOMAIN UserType
      <4>1. UserType'[u] = row
        BY <1>1, <2>2, <2>3, <3>2
      <4> QED
        BY <2>5, <4>1
    <3> QED
      BY <3>1, <3>2
  <2> QED
    BY <1>3, <2>6 DEF UserTypesBacked
<1>6. CASE nextSymbol.line = NoLine
  <2> DEFINE row == [symbol |-> nextSymbol.id, src_line |-> 0]
  <2>2. UserType' = Append(UserType, row) /\ SrcRange' = SrcRange
    BY <1>6 DEF ReadUDTSymbol
  <2>3. row \in UserTypeRow
    BY <1>4 DEF UserTypeRow, SymbolItem
  <2>4. \A u \in DOMAIN UserType : Backed(UserType[u], n + 1, SrcRange', pdb')
    BY <1>2, <1>3, <2>2, OldRowsBacked
  <2>5. Backed(row, n + 1, SrcRange', pdb')
    <3>1. n + 1 \in 1..(n + 1)
      OBVIOUS
    <3> QED
      BY <1>3, <1>4, <1>6, <3>1 DEF Backed
  <2> HIDE DEF row
  <2>6. \A u \in DOMAIN UserType' : Backed(UserType'[u], n + 1, SrcRange', pdb')
    <3> SUFFICES ASSUME NEW u \in DOMAIN UserType'
                 PROVE  Backed(UserType'[u], n + 1, SrcRange', pdb')
      OBVIOUS
    <3>1. CASE u \in DOMAIN UserType
      <4>1. UserType'[u] = UserType[u]
        BY <1>1, <2>2, <2>3, <3>1
      <4> QED
        BY <2>4, <3>1, <4>1
    <3>2. CASE u \notin DOMAIN UserType
      <4>1. UserType'[u] = row
        BY <1>1, <2>2, <2>3, <3>2
      <4> QED
        BY <2>5, <4>1
    <3> QED
      BY <3>1, <3>2
  <2> QED
    BY <1>3, <2>6 DEF UserTypesBacked
<1> QED
  BY <1>5, <1>6

\* Every step keeps the user types backed.
LEMMA BackedStep ==
  ASSUME TypeOK, Cursor, UserTypesBacked, [Next]_vars
  PROVE  UserTypesBacked'
<1>1. pdb \in Pdbs /\ ControlOK /\ read["Symbols"] \in Nat
  BY DEF TypeOK, ControlOK, TableNames
<1>2. CASE ReadUDTSymbol
  BY <1>2, NewUserType
<1>3. CASE ReadSymbol /\ ~ReadUDTSymbol
  <2>1. Element("Symbols") /\ UserType' = UserType /\ SrcRange' = SrcRange
    BY <1>3 DEF ReadSymbol, ReadCompilandSymbol, ReadCompilandDetailsSymbol,
                ReadDedicatedSymbol, ReadIgnoredSymbol, Symbolic, byTag
  <2>2. read'["Symbols"] = read["Symbols"] + 1 /\ pdb' = pdb
    BY <1>1, <2>1, NextElement DEF ControlOK, TableNames
  <2> QED
    BY <1>1, <2>1, <2>2, NoNewUserType
<1>4. CASE ReadLines
  <2>1. Element("LineNumbers") /\ UserType' = UserType
    BY <1>4 DEF ReadLines, byTag
  <2>2. /\ read'["Symbols"] = read["Symbols"] /\ pdb' = pdb
        /\ read["LineNumbers"] + 1 \in 1..Len(pdb.lines)
    BY <1>1, <2>1, NextElement, ItemsOfParts DEF ControlOK, TableNames
  <2>3. [id |-> Len(SrcRange), line |-> pdb.lines[read["LineNumbers"] + 1]] \in SrcRangeRow
    BY <1>1, <2>2, PdbParts DEF TypeOK, RowsOK, SrcRangeRow
  <2>4. \E x \in SrcRangeRow : SrcRange' = Append(SrcRange, x)
    BY <1>4, <2>3 DEF ReadLines
  <2> QED
    BY <1>1, <2>1, <2>2, <2>4, NoNewUserType
<1>5. CASE ReadSourceFile \/ ReadSourceFails \/ EmplaceItem
  <2>1. /\ \E n \in TableNames \ {"Symbols"} : Element(n)
        /\ UserType' = UserType /\ SrcRange' = SrcRange
    BY <1>5 DEF ReadSourceFile, ReadSourceFails, ReadSource, EmplaceItem,
                TableNames, EmplaceTables, byTag
  <2>2. read'["Symbols"] = read["Symbols"] /\ pdb' = pdb
    BY <1>1, <2>1, NextElement DEF ControlOK, TableNames
  <2> QED
    BY <1>1, <2>1, <2>2, NoNewUserType
<1>6. CASE \/ LoadFails \/ SourceIsNull \/ LoadSucceeds \/ SessionIsNull
           \/ ReadSectionHeader \/ EndStreams \/ StreamsFail
           \/ OpenTable \/ SkipTable \/ EndTables \/ EnumTablesFails \/ TableFails
           \/ FetchBatch \/ FetchNothing \/ FetchFails
           \/ UNCHANGED vars
  <2>1. UserType' = UserType /\ SrcRange' = SrcRange /\ read' = read /\ pdb' = pdb
    BY <1>6 DEF LoadFails, SourceIsNull, LoadSucceeds, SessionIsNull,
      ReadSectionHeader, EndStreams, StreamsFail, OpenTable, SkipTable, EndTables,
      EnumTablesFails, TableFails, FetchBatch, FetchNothing, FetchFails, vars,
      result, byTag, control
  <2> QED
    BY <1>1, <2>1, NoNewUserType
<1> QED
  BY <1>2, <1>3, <1>4, <1>5, <1>6 DEF Next, Progress, Fault

\* Whichever handlers append to src_lines, and in whatever order, a user type
\* that DIA knows the line of refers to a row that holds this very line.
THEOREM SrcLinesAreOwn == Spec => []SrcLineIsOwn
<1>1. Init => UserTypesBacked
  BY DEF Init, UserTypesBacked
<1>2. TypeOK /\ Cursor /\ UserTypesBacked /\ [Next]_vars => UserTypesBacked'
  BY BackedStep
<1>3. TypeOK /\ UserTypesBacked => SrcLineIsOwn
  <2> SUFFICES ASSUME TypeOK, UserTypesBacked,
                      NEW u \in DOMAIN UserType, NEW k \in 1..read["Symbols"],
                      pdb.symbols[k].id = UserType[u].symbol,
                      pdb.symbols[k].line # NoLine
               PROVE  \E r \in DOMAIN SrcRange :
                        /\ SrcRange[r].id = UserType[u].src_line
                        /\ SrcRange[r].line = pdb.symbols[k].line
    BY DEF SrcLineIsOwn
  <2>1. /\ pdb \in Pdbs /\ read["Symbols"] \in Nat
        /\ read["Symbols"] <= Len(pdb.symbols)
    <3>1. pdb \in Pdbs /\ read["Symbols"] \in Nat
      BY DEF TypeOK, ControlOK, TableNames
    <3> QED
      BY <3>1, ItemsOfParts DEF TypeOK, ControlOK, TableNames
  <2>2. PICK j \in 1..read["Symbols"] :
          /\ UserType[u].symbol = pdb.symbols[j].id
          /\ pdb.symbols[j].line # NoLine =>
               \E r \in DOMAIN SrcRange : /\ SrcRange[r].id = UserType[u].src_line
                                          /\ SrcRange[r].line = pdb.symbols[j].line
    BY DEF UserTypesBacked, Backed
  <2>3. j = k
    <3>1. j \in 1..Len(pdb.symbols) /\ k \in 1..Len(pdb.symbols)
      BY <2>1, PdbParts
    <3> QED
      BY <2>1, <2>2, <3>1, PdbParts DEF DistinctIds
  <2> QED
    BY <2>2, <2>3
<1> QED
  BY <1>1, <1>2, <1>3, Typed, PTL DEF Spec

-----------------------------------------------------------------------------
(* Compilands and their details. *)

\* c is one of the compilands among the first n symbols of p.
CompilandRead(p, n, c) ==
  \E k \in 1..n : p.symbols[k].tag = "Compiland" /\ p.symbols[k].id = c

\* Each compiland read has an entry in map, the index of its own row ...
Mapped(p, n, map, rows) ==
  \A c : CompilandRead(p, n, c) =>
    /\ c \in DOMAIN map
    /\ map[c] + 1 \in DOMAIN rows
    /\ rows[map[c] + 1].symbol = c

\* ... and any other entry was made for a stray: the first row's.
OthersAreFirst(p, n, map) ==
  \A c \in DOMAIN map : CompilandRead(p, n, c) \/ map[c] = 0

\* The details in a row are those of its compiland, or of a stray.
OwnDetails(p, n, rows) ==
  \A r \in DOMAIN rows :
    rows[r].details # NoDetails =>
      rows[r].details.parent = rows[r].symbol \/ (r = 1 /\ Strays(p, n) # {})

\* Each details symbol among the first n of p reached the row of its compiland,
\* if it is not a stray.
DetailsReached(p, n, rows) ==
  \A k \in (1..n) \ Strays(p, n) :
    p.symbols[k].tag = "CompilandDetails" =>
      \E r \in DOMAIN rows : /\ rows[r].symbol = p.symbols[k].parent
                             /\ rows[r].details # NoDetails

CompilandsAt(n) ==
  /\ outOfBounds => Strays(pdb, n) # {}
  /\ Mapped(pdb, n, SymCompilandMap, Compiland)
  /\ OthersAreFirst(pdb, n, SymCompilandMap)
  /\ OwnDetails(pdb, n, Compiland)
  /\ DetailsReached(pdb, n, Compiland)

CompilandsInv == CompilandsAt(read["Symbols"])

\* What one more symbol adds to the compilands and to the strays.
LEMMA OneMoreSymbol ==
  ASSUME NEW p, NEW n \in Nat
  PROVE  /\ \A c : CompilandRead(p, n + 1, c) <=>
                    \/ CompilandRead(p, n, c)
                    \/ p.symbols[n + 1].tag = "Compiland" /\ p.symbols[n + 1].id = c
         /\ Strays(p, n) \subseteq Strays(p, n + 1)
         /\ \A k \in 1..n : k \in Strays(p, n + 1) <=> k \in Strays(p, n)
         /\ n + 1 \in Strays(p, n + 1) <=>
              /\ p.symbols[n + 1].tag = "CompilandDetails"
              /\ ~CompilandRead(p, n, p.symbols[n + 1].parent)
<1>1. \A k \in 1..(n + 1) : k \in 1..n \/ k = n + 1
  OBVIOUS
<1>2. 1..n \subseteq 1..(n + 1) /\ n + 1 \in 1..(n + 1) /\ (n + 1) - 1 = n
  OBVIOUS
<1> QED
  BY <1>1, <1>2 DEF CompilandRead, Strays

\* A compiland is appended and its index entered in the map.
LEMMA CompilandAppended ==
  ASSUME TypeOK, Cursor, CompilandsInv, ReadCompilandSymbol
  PROVE  CompilandsInv'
<1>1. /\ Element("Symbols") /\ "Symbols" \in TableNames /\ ControlOK
      /\ nextSymbol.tag = "Compiland" /\ outOfBounds' = outOfBounds
      /\ Compiland \in Seq(CompilandRow)
  BY DEF ReadCompilandSymbol, Symbolic, TypeOK, RowsOK, TableNames, history
<1>2. PICK n \in Nat : n = read["Symbols"]
  BY <1>1 DEF ControlOK
<1>3. read'["Symbols"] = n + 1 /\ pdb' = pdb
  BY <1>1, <1>2, NextElement DEF ControlOK
<1>4. nextSymbol \in SymbolItem /\ nextSymbol = pdb.symbols[n + 1]
  BY <1>1, <1>2, NextSymbol DEF nextSymbol
<1>5. PICK l \in Nat : l = Len(Compiland)
  BY <1>1
<1>6. PICK id \in Nat : id = nextSymbol.id
  BY <1>4 DEF SymbolItem
<1> DEFINE row == [symbol |-> id, details |-> NoDetails]
<1>7. /\ DOMAIN SymCompilandMap' = DOMAIN SymCompilandMap \cup {id}
      /\ SymCompilandMap'[id] = l
      /\ \A c \in DOMAIN SymCompilandMap : c # id => SymCompilandMap'[c] = SymCompilandMap[c]
      /\ Compiland' = Append(Compiland, row)
  BY <1>5, <1>6 DEF ReadCompilandSymbol
<1>8. /\ \A r \in DOMAIN Compiland : r \in DOMAIN Compiland' /\ Compiland'[r] = Compiland[r]
      /\ l + 1 \in DOMAIN Compiland' /\ Compiland'[l + 1] = row
      /\ \A r \in DOMAIN Compiland' : r \in DOMAIN Compiland \/ r = l + 1
  <2>1. row \in CompilandRow
    BY DEF CompilandRow
  <2> HIDE DEF row, CompilandRow
  <2> QED
    BY <1>1, <1>5, <1>7, <2>1
<1>9. /\ outOfBounds => Strays(pdb, n) # {}
      /\ Mapped(pdb, n, SymCompilandMap, Compiland)
      /\ OthersAreFirst(pdb, n, SymCompilandMap)
      /\ OwnDetails(pdb, n, Compiland)
      /\ DetailsReached(pdb, n, Compiland)
  BY <1>2 DEF CompilandsInv, CompilandsAt
<1>10. /\ pdb.symbols[n + 1].tag = "Compiland" /\ pdb.symbols[n + 1].id = id
       /\ \A c : CompilandRead(pdb, n + 1, c) <=> CompilandRead(pdb, n, c) \/ c = id
       /\ Strays(pdb, n) \subseteq Strays(pdb, n + 1)
       /\ \A k \in (1..(n + 1)) \ Strays(pdb, n + 1) :
            k \in (1..n) \ Strays(pdb, n) \/ k = n + 1
  <2>1. pdb.symbols[n + 1].tag = "Compiland" /\ pdb.symbols[n + 1].id = id
    BY <1>1, <1>4, <1>6
  <2>2. \A k \in 1..(n + 1) : k \in 1..n \/ k = n + 1
    OBVIOUS
  <2> QED
    BY <2>1, <2>2, OneMoreSymbol
<1>11. Mapped(pdb, n + 1, SymCompilandMap', Compiland')
  <2> SUFFICES ASSUME NEW c, CompilandRead(pdb, n + 1, c)
               PROVE  /\ c \in DOMAIN SymCompilandMap'
                      /\ SymCompilandMap'[c] + 1 \in DOMAIN Compiland'
                      /\ Compiland'[SymCompilandMap'[c] + 1].symbol = c
    BY DEF Mapped
  <2>1. CASE c = id
    BY <1>7, <1>8, <2>1
  <2>2. CASE c # id
    <3>1. /\ c \in DOMAIN SymCompilandMap
          /\ SymCompilandMap[c] + 1 \in DOMAIN Compiland
          /\ Compiland[SymCompilandMap[c] + 1].symbol = c
      BY <1>9, <1>10, <2>2 DEF Mapped
    <3> QED
      BY <1>7, <1>8, <2>2, <3>1
  <2> QED
    BY <2>1, <2>2
<1>12. OthersAreFirst(pdb, n + 1, SymCompilandMap')
  BY <1>7, <1>9, <1>10 DEF OthersAreFirst
<1>13. OwnDetails(pdb, n + 1, Compiland')
  <2>1. row.details = NoDetails
    OBVIOUS
  <2> HIDE DEF row
  <2> QED
    BY <1>8, <1>9, <1>10, <2>1 DEF OwnDetails
<1>14. DetailsReached(pdb, n + 1, Compiland')
  <2>1. pdb.symbols[n + 1].tag # "CompilandDetails"
    BY <1>10
  <2> QED
    BY <1>8, <1>9, <1>10, <2>1 DEF DetailsReached
<1>15. outOfBounds' => Strays(pdb, n + 1) # {}
  BY <1>1, <1>9, <1>10
<1> QED
  BY <1>3, <1>11, <1>12, <1>13, <1>14, <1>15 DEF CompilandsInv, CompilandsAt

\* A details symbol patches the row of its compiland, if that came first, and
\* otherwise the first row, if there is one.
LEMMA DetailsPatched ==
  ASSUME TypeOK, Cursor, CompilandsInv, ReadCompilandDetailsSymbol
  PROVE  CompilandsInv'
<1>1. /\ Element("Symbols") /\ "Symbols" \in TableNames /\ ControlOK
      /\ nextSymbol.tag = "CompilandDetails"
      /\ Compiland \in Seq(CompilandRow)
      /\ SymCompilandMap \in [DOMAIN SymCompilandMap -> Nat]
  BY DEF ReadCompilandDetailsSymbol, Symbolic, TypeOK, RowsOK, TableNames
<1>2. PICK n \in Nat : n = read["Symbols"]
  BY <1>1 DEF ControlOK
<1>3. read'["Symbols"] = n + 1 /\ pdb' = pdb /\ n + 1 \in 1..Len(pdb.symbols)
  BY <1>1, <1>2, NextElement, NextSymbol DEF ControlOK
<1>4. PICK s \in SymbolItem : s = nextSymbol
  BY <1>1, NextSymbol
<1>5. s = pdb.symbols[n + 1] /\ s.tag = "CompilandDetails" /\ s # NoDetails
  BY <1>1, <1>2, <1>4, NoneAssumption DEF nextSymbol
<1>6. /\ outOfBounds => Strays(pdb, n) # {}
      /\ Mapped(pdb, n, SymCompilandMap, Compiland)
      /\ OthersAreFirst(pdb, n, SymCompilandMap)
      /\ OwnDetails(pdb, n, Compiland)
      /\ DetailsReached(pdb, n, Compiland)
  BY <1>2 DEF CompilandsInv, CompilandsAt
<1>7. /\ \A c : CompilandRead(pdb, n + 1, c) <=> CompilandRead(pdb, n, c)
      /\ Strays(pdb, n) \subseteq Strays(pdb, n + 1)
      /\ \A k \in (1..(n + 1)) \ Strays(pdb, n + 1) :
           k \in (1..n) \ Strays(pdb, n) \/ k = n + 1
      /\ n + 1 \in Strays(pdb, n + 1) <=> ~CompilandRead(pdb, n, s.parent)
  <2>1. \A k \in 1..(n + 1) : k \in 1..n \/ k = n + 1
    OBVIOUS
  <2> QED
    BY <1>5, <2>1, OneMoreSymbol
<1>8. PICK idx \in Nat :
        /\ idx = IF s.parent \in DOMAIN SymCompilandMap
                 THEN SymCompilandMap[s.parent] ELSE 0
        /\ CompilandRead(pdb, n, s.parent) =>
             /\ idx < Len(Compiland) /\ Compiland[idx + 1].symbol = s.parent
        /\ ~CompilandRead(pdb, n, s.parent) => idx = 0
  <2>1. PICK idx : idx = IF s.parent \in DOMAIN SymCompilandMap
                         THEN SymCompilandMap[s.parent] ELSE 0
    OBVIOUS
  <2>2. idx \in Nat
    BY <1>1, <2>1
  <2>3. CASE CompilandRead(pdb, n, s.parent)
    <3>1. /\ s.parent \in DOMAIN SymCompilandMap
          /\ SymCompilandMap[s.parent] + 1 \in DOMAIN Compiland
          /\ Compiland[SymCompilandMap[s.parent] + 1].symbol = s.parent
      BY <1>6, <2>3 DEF Mapped
    <3>2. idx = SymCompilandMap[s.parent] /\ idx < Len(Compiland)
      BY <1>1, <2>1, <2>2, <3>1
    <3> QED
      BY <2>1, <2>2, <2>3, <3>1, <3>2
  <2>4. CASE ~CompilandRead(pdb, n, s.parent)
    <3>1. idx = 0
      BY <1>6, <2>1, <2>4 DEF OthersAreFirst
    <3> QED
      BY <2>1, <2>2, <2>4, <3>1
  <2> QED
    BY <2>3, <2>4
<1>9. /\ SymCompilandMap' = [x \in DOMAIN SymCompilandMap \cup {s.parent} |->
                               IF x = s.parent THEN idx ELSE SymCompilandMap[x]]
      /\ idx < Len(Compiland) =>
           /\ Compiland' = [Compiland EXCEPT ![idx + 1].details = s]
           /\ outOfBounds' = outOfBounds
      /\ ~(idx < Len(Compiland)) => Compiland' = Compiland
  <2> SUFFICES ASSUME NEW d, d = idx
               PROVE  /\ SymCompilandMap' = [x \in DOMAIN SymCompilandMap \cup {s.parent}
                                              |-> IF x = s.parent THEN d
                                                  ELSE SymCompilandMap[x]]
                      /\ d < Len(Compiland) =>
                           /\ Compiland' = [Compiland EXCEPT ![d + 1].details = s]
                           /\ outOfBounds' = outOfBounds
                      /\ ~(d < Len(Compiland)) => Compiland' = Compiland
    OBVIOUS
  <2> QED
    BY <1>4, <1>8 DEF ReadCompilandDetailsSymbol
<1>10. /\ DOMAIN Compiland' = DOMAIN Compiland
       /\ \A r \in DOMAIN Compiland : Compiland'[r].symbol = Compiland[r].symbol
       /\ \A r \in DOMAIN Compiland : r # idx + 1 => Compiland'[r] = Compiland[r]
       /\ idx + 1 \in DOMAIN Compiland => Compiland'[idx + 1].details = s
  <2>1. CASE idx < Len(Compiland)
    <3>1. PICK i \in DOMAIN Compiland : i = idx + 1
      BY <1>1, <2>1
    <3>2. Compiland[i] \in CompilandRow
      BY <1>1
    <3>3. /\ [Compiland[i] EXCEPT !.details = s].symbol = Compiland[i].symbol
          /\ [Compiland[i] EXCEPT !.details = s].details = s
      BY <3>2 DEF CompilandRow
    <3>4. Compiland' = [Compiland EXCEPT ![i] = [Compiland[i] EXCEPT !.details = s]]
      BY <1>9, <2>1, <3>1
    <3> QED
      BY <1>1, <3>1, <3>3, <3>4
  <2>2. CASE ~(idx < Len(Compiland))
    <3>1. idx + 1 \notin DOMAIN Compiland
      BY <1>1, <2>2
    <3> QED
      BY <1>9, <2>2, <3>1
  <2> QED
    BY <2>1, <2>2
<1>11. Mapped(pdb, n + 1, SymCompilandMap', Compiland')
  <2> SUFFICES ASSUME NEW c, CompilandRead(pdb, n, c)
               PROVE  /\ c \in DOMAIN SymCompilandMap'
                      /\ SymCompilandMap'[c] + 1 \in DOMAIN Compiland'
                      /\ Compiland'[SymCompilandMap'[c] + 1].symbol = c
    BY <1>7 DEF Mapped
  <2>1. /\ c \in DOMAIN SymCompilandMap
        /\ SymCompilandMap[c] + 1 \in DOMAIN Compiland
        /\ Compiland[SymCompilandMap[c] + 1].symbol = c
    BY <1>6 DEF Mapped
  <2>2. SymCompilandMap'[c] = SymCompilandMap[c] /\ c \in DOMAIN SymCompilandMap'
    BY <1>8, <1>9, <2>1
  <2> QED
    BY <1>10, <2>1, <2>2
<1>12. OthersAreFirst(pdb, n + 1, SymCompilandMap')
  <2> SUFFICES ASSUME NEW c \in DOMAIN SymCompilandMap', ~CompilandRead(pdb, n, c)
               PROVE  SymCompilandMap'[c] = 0
    BY <1>7 DEF OthersAreFirst
  <2>1. CASE c = s.parent
    BY <1>8, <1>9, <2>1
  <2>2. CASE c # s.parent
    BY <1>6, <1>9, <2>2 DEF OthersAreFirst
  <2> QED
    BY <2>1, <2>2
<1>13. OwnDetails(pdb, n + 1, Compiland')
  <2> SUFFICES ASSUME NEW r \in DOMAIN Compiland', Compiland'[r].details # NoDetails
               PROVE  \/ Compiland'[r].details.parent = Compiland'[r].symbol
                      \/ r = 1 /\ Strays(pdb, n + 1) # {}
    BY DEF OwnDetails
  <2>1. CASE r # idx + 1
    BY <1>6, <1>7, <1>10, <2>1 DEF OwnDetails
  <2>2. CASE r = idx + 1 /\ CompilandRead(pdb, n, s.parent)
    BY <1>8, <1>10, <2>2
  <2>3. CASE r = idx + 1 /\ ~CompilandRead(pdb, n, s.parent)
    BY <1>7, <1>8, <2>3
  <2> QED
    BY <2>1, <2>2, <2>3
<1>14. DetailsReached(pdb, n + 1, Compiland')
  <2> SUFFICES ASSUME NEW k \in (1..(n + 1)) \ Strays(pdb, n + 1),
                      pdb.symbols[k].tag = "CompilandDetails"
               PROVE  \E r \in DOMAIN Compiland' :
                        /\ Compiland'[r].symbol = pdb.symbols[k].parent
                        /\ Compiland'[r].details # NoDetails
    BY DEF DetailsReached
  <2>1. CASE k = n + 1
    <3>1. CompilandRead(pdb, n, s.parent)
      BY <1>7, <2>1
    <3>2. idx + 1 \in DOMAIN Compiland
      BY <1>1, <1>8, <3>1
    <3> QED
      BY <1>5, <1>8, <1>10, <2>1, <3>1, <3>2
  <2>2. CASE k # n + 1
    <3>1. k \in (1..n) \ Strays(pdb, n)
      BY <1>7, <2>2
    <3>2. PICK r \in DOMAIN Compiland :
            /\ Compiland[r].symbol = pdb.symbols[k].parent
            /\ Compiland[r].details # NoDetails
      BY <1>6, <3>1 DEF DetailsReached
    <3> QED
      BY <1>5, <1>10, <3>2
  <2> QED
    BY <2>1, <2>2
<1>15. outOfBounds' => Strays(pdb, n + 1) # {}
  <2>1. CASE idx < Len(Compiland)
    BY <1>6, <1>7, <1>9, <2>1
  <2>2. CASE ~(idx < Len(Compiland))
    BY <1>7, <1>8, <2>2
  <2> QED
    BY <2>1, <2>2
<1> QED
  BY <1>3, <1>11, <1>12, <1>13, <1>14, <1>15 DEF CompilandsInv, CompilandsAt

\* A step that touches neither compilands nor their map.
LEMMA CompilandsUntouched ==
  ASSUME TypeOK, CompilandsInv, pdb' = pdb, outOfBounds' = outOfBounds,
         Compiland' = Compiland, SymCompilandMap' = SymCompilandMap,
         \/ read'["Symbols"] = read["Symbols"]
         \/ /\ read'["Symbols"] = read["Symbols"] + 1
            /\ nextSymbol.tag \notin {"Compiland", "CompilandDetails"}
  PROVE  CompilandsInv'
<1>1. PICK n \in Nat : n = read["Symbols"]
  BY DEF TypeOK, ControlOK, TableNames
<1>2. CASE read'["Symbols"] = read["Symbols"]
  BY <1>2 DEF CompilandsInv, CompilandsAt
<1>3. CASE /\ read'["Symbols"] = read["Symbols"] + 1
           /\ nextSymbol.tag \notin {"Compiland", "CompilandDetails"}
  <2>1. /\ pdb.symbols[n + 1].tag \notin {"Compiland", "CompilandDetails"}
        /\ read'["Symbols"] = n + 1
        /\ \A k \in 1..(n + 1) : k \in 1..n \/ k = n + 1
    BY <1>1, <1>3 DEF nextSymbol
  <2>2. /\ \A c : CompilandRead(pdb, n + 1, c) <=> CompilandRead(pdb, n, c)
        /\ Strays(pdb, n) \subseteq Strays(pdb, n + 1)
        /\ \A k \in (1..(n + 1)) \ Strays(pdb, n + 1) :
             k \in (1..n) \ Strays(pdb, n) \/ k = n + 1
    BY <1>1, <2>1, OneMoreSymbol
  <2>3. CompilandsAt(n)
    BY <1>1 DEF CompilandsInv
  <2>4. CompilandsAt(n + 1)
    BY <2>1, <2>2, <2>3
       DEF CompilandsAt, Mapped, OthersAreFirst, OwnDetails, DetailsReached
  <2> QED
    BY <2>1, <2>4 DEF CompilandsInv, CompilandsAt
<1> QED
  BY <1>2, <1>3

\* Every step keeps the compilands, their map and their details together.
LEMMA CompilandsStep ==
  ASSUME TypeOK, Cursor, CompilandsInv, [Next]_vars
  PROVE  CompilandsInv'
<1>1. ControlOK
  BY DEF TypeOK
<1>2. CASE ReadCompilandSymbol
  BY <1>2, CompilandAppended
<1>3. CASE ReadCompilandDetailsSymbol
  BY <1>3, DetailsPatched
<1>4. CASE ReadUDTSymbol \/ ReadDedicatedSymbol \/ ReadIgnoredSymbol
  <2>1. /\ Element("Symbols") /\ Compiland' = Compiland
        /\ SymCompilandMap' = SymCompilandMap /\ outOfBounds' = outOfBounds
        /\ nextSymbol.tag \notin {"Compiland", "CompilandDetails"}
    BY <1>4 DEF ReadUDTSymbol, ReadDedicatedSymbol, ReadIgnoredSymbol, Symbolic,
                byTag, history, DedicatedTags, IgnoredTags
  <2>2. read'["Symbols"] = read["Symbols"] + 1 /\ pdb' = pdb
    BY <1>1, <2>1, NextElement DEF ControlOK, TableNames
  <2> QED
    BY <2>1, <2>2, CompilandsUntouched
<1>5. CASE ReadLines \/ ReadSourceFile \/ ReadSourceFails \/ EmplaceItem
  <2>1. /\ \E n \in TableNames \ {"Symbols"} : Element(n)
        /\ Compiland' = Compiland /\ SymCompilandMap' = SymCompilandMap
        /\ outOfBounds' = outOfBounds
    BY <1>5 DEF ReadLines, ReadSourceFile, ReadSourceFails, ReadSource, EmplaceItem,
                TableNames, EmplaceTables, byTag, history
  <2>2. read'["Symbols"] = read["Symbols"] /\ pdb' = pdb
    BY <1>1, <2>1, NextElement DEF ControlOK, TableNames
  <2> QED
    BY <2>1, <2>2, CompilandsUntouched
<1>6. CASE \/ LoadFails \/ SourceIsNull \/ LoadSucceeds \/ SessionIsNull
           \/ ReadSectionHeader \/ EndStreams \/ StreamsFail
           \/ OpenTable \/ SkipTable \/ EndTables \/ EnumTablesFails \/ TableFails
           \/ FetchBatch \/ FetchNothing \/ FetchFails
           \/ UNCHANGED vars
  <2>1. /\ Compiland' = Compiland /\ SymCompilandMap' = SymCompilandMap
        /\ outOfBounds' = outOfBounds /\ read' = read /\ pdb' = pdb
    BY <1>6 DEF LoadFails, SourceIsNull, LoadSucceeds, SessionIsNull,
      ReadSectionHeader, EndStreams, StreamsFail, OpenTable, SkipTable, EndTables,
      EnumTablesFails, TableFails, FetchBatch, FetchNothing, FetchFails, vars,
      result, byTag, control, history
  <2> QED
    BY <2>1, CompilandsUntouched
<1> QED
  BY <1>2, <1>3, <1>4, <1>5, <1>6 DEF Next, Progress, Fault, ReadSymbol

\* Wherever DIA lists them, details that come after their compiland reach its
\* row; those that come before it harm no row but the first.
THEOREM DetailsReachTheirRow == Spec => []DetailsReachOwnCompiland
<1>1. Init => CompilandsInv
  <2>1. ASSUME NEW p
        PROVE  Strays(p, 0) = {} /\ \A c : ~CompilandRead(p, 0, c)
    BY DEF Strays, CompilandRead
  <2> SUFFICES ASSUME Init PROVE CompilandsInv
    OBVIOUS
  <2>2. /\ read["Symbols"] = 0 /\ outOfBounds = FALSE
        /\ DOMAIN SymCompilandMap = {} /\ DOMAIN Compiland = {}
    BY DEF Init, TableNames
  <2>3. /\ Mapped(pdb, 0, SymCompilandMap, Compiland)
        /\ OthersAreFirst(pdb, 0, SymCompilandMap)
    BY <2>1, <2>2 DEF Mapped, OthersAreFirst
  <2>4. OwnDetails(pdb, 0, Compiland) /\ DetailsReached(pdb, 0, Compiland)
    BY <2>2 DEF OwnDetails, DetailsReached
  <2> QED
    BY <2>2, <2>3, <2>4 DEF CompilandsInv, CompilandsAt
<1>2. TypeOK /\ Cursor /\ CompilandsInv /\ [Next]_vars => CompilandsInv'
  BY CompilandsStep
<1>3. CompilandsInv => DetailsReachOwnCompiland
  BY DEF CompilandsInv, CompilandsAt, OwnDetails, DetailsReached,
         DetailsReachOwnCompiland
<1> QED
  BY <1>1, <1>2, <1>3, Typed, PTL DEF Spec
-----------------------------------------------------------------------------
(* The rows of the typed tables. *)

\* Among the first n symbols of p, those with one of the tags have one row each,
\* and the table has no others.
OneRow(p, n, tags, table) ==
  /\ \A k \in 1..n : p.symbols[k].tag \in tags =>
       \E r \in DOMAIN table : table[r].symbol = p.symbols[k].id
  /\ \A r \in DOMAIN table : \E k \in 1..n :
       p.symbols[k].tag \in tags /\ table[r].symbol = p.symbols[k].id
  /\ \A q, r \in DOMAIN table : table[q].symbol = table[r].symbol => q = r

\* A row of Dedicated has the tag and the id of the same symbol.
OwnTag(p, n, rows) ==
  \A r \in DOMAIN rows : \E k \in 1..n :
    rows[r] = [tag |-> p.symbols[k].tag, symbol |-> p.symbols[k].id]

TypedRowsInv ==
  /\ OneRow(pdb, read["Symbols"], {"Compiland"}, Compiland)
  /\ OneRow(pdb, read["Symbols"], {"UDT"}, UserType)
  /\ OneRow(pdb, read["Symbols"], DedicatedTags, Dedicated)
  /\ OwnTag(pdb, read["Symbols"], Dedicated)

\* The next symbol has one of the tags, and its row is appended.
LEMMA RowAdded ==
  ASSUME NEW p \in Pdbs, NEW n \in Nat, n + 1 \in 1..Len(p.symbols),
         NEW tags, p.symbols[n + 1].tag \in tags,
         NEW S, NEW table \in Seq(S), NEW row \in S, row.symbol = p.symbols[n + 1].id,
         OneRow(p, n, tags, table)
  PROVE  OneRow(p, n + 1, tags, Append(table, row))
<1> DEFINE more == Append(table, row)
<1>1. PICK l \in Nat : l = Len(table)
  OBVIOUS
<1>2. /\ DOMAIN table = 1..l /\ DOMAIN more = 1..(l + 1)
      /\ more[l + 1] = row
      /\ \A r \in 1..l : more[r] = table[r]
  BY <1>1
<1> HIDE DEF more
<1>3. ASSUME NEW k \in 1..(n + 1), p.symbols[k].tag \in tags
      PROVE  \E r \in DOMAIN more : more[r].symbol = p.symbols[k].id
  <2>1. CASE k = n + 1
    BY <1>2, <2>1
  <2>2. CASE k # n + 1
    <3>1. PICK r \in DOMAIN table : table[r].symbol = p.symbols[k].id
      BY <1>3, <2>2 DEF OneRow
    <3> QED
      BY <1>2, <3>1
  <2> QED
    BY <2>1, <2>2
<1>4. ASSUME NEW r \in DOMAIN more
      PROVE  \E k \in 1..(n + 1) :
               p.symbols[k].tag \in tags /\ more[r].symbol = p.symbols[k].id
  <2>1. CASE r = l + 1
    BY <1>2, <2>1
  <2>2. CASE r # l + 1
    <3>1. r \in DOMAIN table /\ more[r] = table[r]
      BY <1>2, <2>2
    <3>2. PICK k \in 1..n : /\ p.symbols[k].tag \in tags
                            /\ table[r].symbol = p.symbols[k].id
      BY <3>1 DEF OneRow
    <3> QED
      BY <3>1, <3>2
  <2> QED
    BY <2>1, <2>2
<1>5. \A r \in 1..l : table[r].symbol # row.symbol
  <2> SUFFICES ASSUME NEW r \in 1..l, table[r].symbol = row.symbol PROVE FALSE
    OBVIOUS
  <2>1. PICK k \in 1..n : table[r].symbol = p.symbols[k].id
    BY <1>2 DEF OneRow
  <2>2. k \in 1..Len(p.symbols) /\ k # n + 1
    BY PdbParts
  <2> QED
    BY <2>1, <2>2, PdbParts DEF DistinctIds
<1>6. ASSUME NEW q \in DOMAIN more, NEW r \in DOMAIN more,
             more[q].symbol = more[r].symbol
      PROVE  q = r
  <2>1. CASE q \in 1..l /\ r \in 1..l
    BY <1>2, <1>6, <2>1 DEF OneRow
  <2>2. CASE q = l + 1 \/ r = l + 1
    BY <1>2, <1>5, <1>6, <2>2
  <2> QED
    BY <1>2, <2>1, <2>2
<1>7. OneRow(p, n + 1, tags, more)
  BY <1>3, <1>4, <1>6 DEF OneRow
<1> QED
  BY <1>7 DEF more

\* The next symbol, if one is read, has none of the tags, and the keys of the
\* rows stay.
LEMMA RowsKept ==
  ASSUME NEW p \in Pdbs, NEW n \in Nat, NEW m \in Nat, NEW tags, NEW table, NEW same,
         m = n \/ (m = n + 1 /\ p.symbols[m].tag \notin tags),
         DOMAIN same = DOMAIN table,
         \A r \in DOMAIN table : same[r].symbol = table[r].symbol,
         OneRow(p, n, tags, table)
  PROVE  OneRow(p, m, tags, same)
<1>1. \A k \in 1..m : p.symbols[k].tag \in tags => k \in 1..n
  OBVIOUS
<1>2. \A k \in 1..n : k \in 1..m
  OBVIOUS
<1> QED
  BY <1>1, <1>2 DEF OneRow

\* Rows of Dedicated keep their tags as reading goes on.
LEMMA TagsKept ==
  ASSUME NEW p, NEW n \in Nat, NEW m \in Nat, n <= m, NEW rows, OwnTag(p, n, rows)
  PROVE  OwnTag(p, m, rows)
<1>1. \A k \in 1..n : k \in 1..m
  OBVIOUS
<1> QED
  BY <1>1 DEF OwnTag

\* Patching a compiland leaves the keys alone.
LEMMA PatchKeepsKeys ==
  ASSUME TypeOK, Cursor, ReadCompilandDetailsSymbol
  PROVE  /\ DOMAIN Compiland' = DOMAIN Compiland
         /\ \A r \in DOMAIN Compiland : Compiland'[r].symbol = Compiland[r].symbol
<1>1. Compiland \in Seq(CompilandRow) /\ nextSymbol \in SymbolItem
  BY NextSymbol DEF ReadCompilandDetailsSymbol, Symbolic, TypeOK, RowsOK
<1>2. \/ Compiland' = Compiland
      \/ \E i : Compiland' = [Compiland EXCEPT ![i] =
                                [Compiland[i] EXCEPT !.details = nextSymbol]]
  BY DEF ReadCompilandDetailsSymbol
<1>3. \A r \in DOMAIN Compiland :
        [Compiland[r] EXCEPT !.details = nextSymbol].symbol = Compiland[r].symbol
  BY <1>1, DetailedRow
<1> QED
  BY <1>1, <1>2, <1>3

\* Every step keeps one row for each symbol.
LEMMA TypedRowsStep ==
  ASSUME TypeOK, Cursor, TypedRowsInv, [Next]_vars
  PROVE  TypedRowsInv'
<1>1. ControlOK /\ pdb \in Pdbs
  BY DEF TypeOK, ControlOK
<1>2. PICK n \in Nat : n = read["Symbols"]
  BY <1>1 DEF ControlOK, TableNames
<1>3. /\ OneRow(pdb, n, {"Compiland"}, Compiland) /\ OneRow(pdb, n, {"UDT"}, UserType)
      /\ OneRow(pdb, n, DedicatedTags, Dedicated) /\ OwnTag(pdb, n, Dedicated)
  BY <1>2 DEF TypedRowsInv
<1>4. CASE ReadSymbol
  <2>1. Element("Symbols")
    BY <1>4 DEF ReadSymbol, ReadCompilandSymbol, ReadCompilandDetailsSymbol,
                ReadUDTSymbol, ReadDedicatedSymbol, ReadIgnoredSymbol, Symbolic
  <2>2. read'["Symbols"] = n + 1 /\ pdb' = pdb /\ n + 1 \in 1..Len(pdb.symbols)
    BY <1>1, <1>2, <2>1, NextElement, NextSymbol DEF ControlOK, TableNames
  <2>3. PICK s \in SymbolItem : s = nextSymbol /\ s = pdb.symbols[n + 1]
    BY <1>1, <1>2, <2>1, NextSymbol DEF nextSymbol
  <2>4. SUFFICES /\ OneRow(pdb, n + 1, {"Compiland"}, Compiland')
                 /\ OneRow(pdb, n + 1, {"UDT"}, UserType')
                 /\ OneRow(pdb, n + 1, DedicatedTags, Dedicated')
                 /\ OwnTag(pdb, n + 1, Dedicated')
    BY <2>2 DEF TypedRowsInv
  <2>5. /\ s.tag \notin {"Compiland"} /\ Compiland' = Compiland
             => OneRow(pdb, n + 1, {"Compiland"}, Compiland')
        /\ s.tag \notin {"UDT"} /\ UserType' = UserType
             => OneRow(pdb, n + 1, {"UDT"}, UserType')
        /\ s.tag \notin DedicatedTags /\ Dedicated' = Dedicated
             => OneRow(pdb, n + 1, DedicatedTags, Dedicated')
        /\ Dedicated' = Dedicated => OwnTag(pdb, n + 1, Dedicated')
    BY <1>1, <1>3, <2>3, RowsKept, TagsKept
  <2>6. /\ Compiland \in Seq(CompilandRow) /\ UserType \in Seq(UserTypeRow)
        /\ Dedicated \in Seq([tag : DedicatedTags, symbol : Nat])
        /\ s.id \in Nat
    BY DEF TypeOK, RowsOK, SymbolItem
  <2>7. CASE ReadCompilandSymbol
    <3> DEFINE row == [symbol |-> s.id, details |-> NoDetails]
    <3>1. /\ s.tag = "Compiland" /\ s.tag \notin {"UDT"} /\ s.tag \notin DedicatedTags
          /\ Compiland' = Append(Compiland, row)
          /\ UserType' = UserType /\ Dedicated' = Dedicated
      BY <2>3, <2>7 DEF ReadCompilandSymbol, Symbolic, DedicatedTags
    <3>2. row \in CompilandRow /\ row.symbol = s.id
      BY <2>6 DEF CompilandRow
    <3> HIDE DEF row
    <3>3. OneRow(pdb, n + 1, {"Compiland"}, Compiland')
      BY <1>1, <1>3, <2>2, <2>3, <2>6, <3>1, <3>2, RowAdded
    <3> QED
      BY <2>5, <3>1, <3>3
  <2>8. CASE ReadCompilandDetailsSymbol
    <3>1. /\ s.tag \notin {"Compiland"} /\ s.tag \notin {"UDT"}
          /\ s.tag \notin DedicatedTags
          /\ UserType' = UserType /\ Dedicated' = Dedicated
      BY <2>3, <2>8 DEF ReadCompilandDetailsSymbol, Symbolic, DedicatedTags
    <3>2. OneRow(pdb, n + 1, {"Compiland"}, Compiland')
      BY <1>1, <1>3, <2>3, <2>8, <3>1, PatchKeepsKeys, RowsKept
    <3> QED
      BY <2>5, <3>1, <3>2
  <2>9. CASE ReadUDTSymbol
    <3>1. /\ s.tag = "UDT" /\ s.tag \notin {"Compiland"} /\ s.tag \notin DedicatedTags
          /\ Compiland' = Compiland /\ Dedicated' = Dedicated
      BY <2>3, <2>9 DEF ReadUDTSymbol, Symbolic, DedicatedTags
    <3>2. PICK l \in Nat :
            UserType' = Append(UserType, [symbol |-> s.id, src_line |-> l])
      <4>1. Len(SrcRange) \in Nat
        BY DEF TypeOK, RowsOK
      <4> QED
        BY <2>3, <2>9, <4>1 DEF ReadUDTSymbol
    <3> DEFINE row == [symbol |-> s.id, src_line |-> l]
    <3>3. row \in UserTypeRow /\ row.symbol = s.id
      BY <2>6 DEF UserTypeRow
    <3>4. UserType' = Append(UserType, row)
      BY <3>2
    <3> HIDE DEF row
    <3>5. OneRow(pdb, n + 1, {"UDT"}, UserType')
      BY <1>1, <1>3, <2>2, <2>3, <2>6, <3>1, <3>3, <3>4, RowAdded
    <3> QED
      BY <2>5, <3>1, <3>5
  <2>10. CASE ReadDedicatedSymbol
    <3> DEFINE row == [tag |-> s.tag, symbol |-> s.id]
    <3>1. /\ s.tag \in DedicatedTags /\ s.tag \notin {"Compiland"} /\ s.tag \notin {"UDT"}
          /\ Dedicated' = Append(Dedicated, row)
          /\ Compiland' = Compiland /\ UserType' = UserType
      BY <2>3, <2>10 DEF ReadDedicatedSymbol, Symbolic, DedicatedTags
    <3>2. row \in [tag : DedicatedTags, symbol : Nat] /\ row.symbol = s.id
      BY <2>6, <3>1
    <3>3. \A r \in DOMAIN Dedicated' :
            \/ r \in DOMAIN Dedicated /\ Dedicated'[r] = Dedicated[r]
            \/ Dedicated'[r] = row
      <4> HIDE DEF row
      <4> QED
        BY <2>6, <3>1, <3>2
    <3>4. OwnTag(pdb, n + 1, Dedicated')
      <4>1. OwnTag(pdb, n + 1, Dedicated)
        BY <1>3, TagsKept
      <4>2. row = [tag |-> pdb.symbols[n + 1].tag, symbol |-> pdb.symbols[n + 1].id]
        BY <2>3
      <4>3. n + 1 \in 1..(n + 1)
        OBVIOUS
      <4> HIDE DEF row
      <4> QED
        BY <3>3, <4>1, <4>2, <4>3 DEF OwnTag
    <3> HIDE DEF row
    <3>5. OneRow(pdb, n + 1, DedicatedTags, Dedicated')
      BY <1>1, <1>3, <2>2, <2>3, <2>6, <3>1, <3>2, RowAdded
    <3> QED
      BY <2>5, <3>1, <3>4, <3>5
  <2>11. CASE ReadIgnoredSymbol
    <3>1. /\ s.tag \notin {"Compiland"} /\ s.tag \notin {"UDT"}
          /\ s.tag \notin DedicatedTags
          /\ Compiland' = Compiland /\ UserType' = UserType /\ Dedicated' = Dedicated
      BY <2>3, <2>11 DEF ReadIgnoredSymbol, Symbolic, DedicatedTags, IgnoredTags, byTag
    <3> QED
      BY <2>5, <3>1
  <2> QED
    BY <1>4, <2>7, <2>8, <2>9, <2>10, <2>11 DEF ReadSymbol
<1>5. CASE ReadLines \/ ReadSourceFile \/ ReadSourceFails \/ EmplaceItem
  <2>1. /\ \E t \in TableNames \ {"Symbols"} : Element(t)
        /\ byTag' = byTag
    BY <1>5 DEF ReadLines, ReadSourceFile, ReadSourceFails, ReadSource, EmplaceItem,
                TableNames, EmplaceTables
  <2>2. read'["Symbols"] = read["Symbols"] /\ pdb' = pdb
    BY <1>1, <2>1, NextElement DEF ControlOK, TableNames
  <2> QED
    BY <1>3, <1>2, <2>1, <2>2 DEF TypedRowsInv, byTag
<1>6. CASE \/ LoadFails \/ SourceIsNull \/ LoadSucceeds \/ SessionIsNull
           \/ ReadSectionHeader \/ EndStreams \/ StreamsFail
           \/ OpenTable \/ SkipTable \/ EndTables \/ EnumTablesFails \/ TableFails
           \/ FetchBatch \/ FetchNothing \/ FetchFails
           \/ UNCHANGED vars
  <2>1. byTag' = byTag /\ read'["Symbols"] = read["Symbols"] /\ pdb' = pdb
    <3>1. byTag' = byTag /\ pdb' = pdb /\ read' = read
      BY <1>6 DEF LoadFails, SourceIsNull, LoadSucceeds, SessionIsNull,
        ReadSectionHeader, EndStreams, StreamsFail, OpenTable, SkipTable, EndTables,
        EnumTablesFails, TableFails, FetchBatch, FetchNothing, FetchFails, vars,
        result, control
    <3> QED
      BY <3>1
  <2> QED
    BY <1>3, <1>2, <2>1 DEF TypedRowsInv, byTag
<1> QED
  BY <1>4, <1>5, <1>6 DEF Next, Progress, Fault

\* Whatever the order of the tags, the batches and the failures, a symbol has
\* one row in the table of its tag, none elsewhere, and its entry in the master
\* table.
THEOREM EachHasItsRow == Spec => []OneRowPerSymbol
<1>1. Init => TypedRowsInv
  BY DEF Init, TypedRowsInv, OneRow, OwnTag, TableNames
<1>2. TypeOK /\ Cursor /\ TypedRowsInv /\ [Next]_vars => TypedRowsInv'
  BY TypedRowsStep
<1>3. TypeOK /\ SymbolRowsFollowItems /\ TypedRowsInv => OneRowPerSymbol
  <2> SUFFICES ASSUME TypeOK, SymbolRowsFollowItems, TypedRowsInv
               PROVE  OneRowPerSymbol
    OBVIOUS
  <2>1. ASSUME NEW tags, NEW table, OneRow(pdb, read["Symbols"], tags, table)
        PROVE  /\ \A k \in SymbolsRead(tags) :
                    \E r \in DOMAIN table : table[r].symbol = pdb.symbols[k].id
               /\ \A r \in DOMAIN table :
                    \E k \in SymbolsRead(tags) : table[r].symbol = pdb.symbols[k].id
               /\ \A q, r \in DOMAIN table : table[q].symbol = table[r].symbol => q = r
    BY <2>1 DEF OneRow, SymbolsRead
  <2>2. \A r \in DOMAIN Dedicated : \E i \in DOMAIN Symbol :
          Symbol[i] = [symbol |-> Dedicated[r].symbol, tag |-> Dedicated[r].tag]
    <3> SUFFICES ASSUME NEW r \in DOMAIN Dedicated
                 PROVE  \E i \in DOMAIN Symbol :
                          Symbol[i] = [symbol |-> Dedicated[r].symbol,
                                       tag    |-> Dedicated[r].tag]
      OBVIOUS
    <3>1. PICK k \in 1..read["Symbols"] :
            Dedicated[r] = [tag |-> pdb.symbols[k].tag, symbol |-> pdb.symbols[k].id]
      BY DEF TypedRowsInv, OwnTag
    <3>2. /\ read["Symbols"] \in Nat
          /\ Symbol \in Seq([symbol : Nat, tag : Tags \cup {"Unknown"}])
      BY DEF TypeOK, ControlOK, RowsOK, TableNames
    <3>3. PICK n \in Nat : n = read["Symbols"]
      BY <3>2
    <3>4. k \in 1..n /\ Symbol # <<>>
      BY <3>3 DEF SymbolRowsFollowItems
    <3>5. /\ Len(Symbol) = n + 1
          /\ \A i \in 1..n : Symbol[i + 1] = SymbolRow(pdb.symbols[i])
      BY <3>3, <3>4 DEF SymbolRowsFollowItems
    <3>6. k + 1 \in DOMAIN Symbol /\ Symbol[k + 1] = SymbolRow(pdb.symbols[k])
      BY <3>2, <3>4, <3>5
    <3> QED
      BY <3>1, <3>6 DEF SymbolRow
  <2> QED
    BY <2>1, <2>2 DEF OneRowPerSymbol, TypedRowsInv
<1> QED
  BY <1>1, <1>2, <1>3, Typed, SymbolsInOrder, PTL DEF Spec
-----------------------------------------------------------------------------
(* How often a line is counted. *)

RowsWith(rows, l)     == {r \in DOMAIN rows : rows[r].line = l}
LinesWith(p, m, l)    == {k \in 1..m : p.lines[k] = l}
UserTypesWith(p, n, l) ==
  {k \in 1..n : p.symbols[k].tag = "UDT" /\ p.symbols[k].line = l}

CountInv ==
  \A l \in Lines :
    Cardinality(RowsWith(SrcRange, l)) =
      Cardinality(LinesWith(pdb, read["LineNumbers"], l))
      + Cardinality(UserTypesWith(pdb, read["Symbols"], l))

\* Sets of positions can be counted.
LEMMA Countable ==
  ASSUME NEW n \in Nat, NEW T, T \subseteq 1..n
  PROVE  /\ IsFiniteSet(T) /\ Cardinality(T) \in Nat
         /\ n + 1 \notin T
         /\ Cardinality(T \cup {n + 1}) = Cardinality(T) + 1
<1>1. IsFiniteSet(T)
  <2>1. IsFiniteSet(1..n) /\ T \in SUBSET (1..n)
    BY FS_Interval
  <2> QED
    BY <2>1, FS_Subset
<1>2. n + 1 \notin T
  OBVIOUS
<1> QED
  BY <1>1, <1>2, FS_AddElement, FS_CardinalityType

\* A row more has its own line more.
LEMMA RowCounted ==
  ASSUME NEW rows \in Seq(SrcRangeRow), NEW row \in SrcRangeRow, NEW l
  PROVE  /\ Cardinality(RowsWith(rows, l)) \in Nat
         /\ row.line = l => Cardinality(RowsWith(Append(rows, row), l)) =
                              Cardinality(RowsWith(rows, l)) + 1
         /\ row.line # l => Cardinality(RowsWith(Append(rows, row), l)) =
                              Cardinality(RowsWith(rows, l))
<1>1. PICK n \in Nat : n = Len(rows)
  OBVIOUS
<1> DEFINE more == Append(rows, row)
<1>2. /\ DOMAIN rows = 1..n /\ DOMAIN more = 1..(n + 1) /\ more[n + 1] = row
      /\ \A r \in 1..n : more[r] = rows[r]
  BY <1>1
<1> HIDE DEF more
<1>3. RowsWith(rows, l) \subseteq 1..n
  BY <1>2 DEF RowsWith
<1>4. /\ row.line = l => RowsWith(more, l) = RowsWith(rows, l) \cup {n + 1}
      /\ row.line # l => RowsWith(more, l) = RowsWith(rows, l)
  BY <1>2 DEF RowsWith
<1>5. /\ Cardinality(RowsWith(rows, l)) \in Nat
      /\ Cardinality(RowsWith(rows, l) \cup {n + 1}) =
           Cardinality(RowsWith(rows, l)) + 1
  BY <1>3, Countable
<1> QED
  BY <1>4, <1>5 DEF more

\* A line number read counts where it is.
LEMMA LineCounted ==
  ASSUME NEW p, NEW m \in Nat, NEW l
  PROVE  /\ Cardinality(LinesWith(p, m, l)) \in Nat
         /\ p.lines[m + 1] = l => Cardinality(LinesWith(p, m + 1, l)) =
                                    Cardinality(LinesWith(p, m, l)) + 1
         /\ p.lines[m + 1] # l => Cardinality(LinesWith(p, m + 1, l)) =
                                    Cardinality(LinesWith(p, m, l))
<1>1. LinesWith(p, m, l) \subseteq 1..m
  BY DEF LinesWith
<1>2. /\ p.lines[m + 1] = l => LinesWith(p, m + 1, l) = LinesWith(p, m, l) \cup {m + 1}
      /\ p.lines[m + 1] # l => LinesWith(p, m + 1, l) = LinesWith(p, m, l)
  BY DEF LinesWith
<1>3. /\ Cardinality(LinesWith(p, m, l)) \in Nat
      /\ Cardinality(LinesWith(p, m, l) \cup {m + 1}) =
           Cardinality(LinesWith(p, m, l)) + 1
  BY <1>1, Countable
<1> QED
  BY <1>2, <1>3

\* A symbol read counts where its line is, if it is a user type.
LEMMA UserTypeCounted ==
  ASSUME NEW p, NEW n \in Nat, NEW l
  PROVE  /\ Cardinality(UserTypesWith(p, n, l)) \in Nat
         /\ LET new == p.symbols[n + 1].tag = "UDT" /\ p.symbols[n + 1].line = l
            IN /\ new => Cardinality(UserTypesWith(p, n + 1, l)) =
                           Cardinality(UserTypesWith(p, n, l)) + 1
               /\ ~new => Cardinality(UserTypesWith(p, n + 1, l)) =
                            Cardinality(UserTypesWith(p, n, l))
<1> DEFINE new == p.symbols[n + 1].tag = "UDT" /\ p.symbols[n + 1].line = l
<1>1. UserTypesWith(p, n, l) \subseteq 1..n
  BY DEF UserTypesWith
<1>2. /\ new => UserTypesWith(p, n + 1, l) = UserTypesWith(p, n, l) \cup {n + 1}
      /\ ~new => UserTypesWith(p, n + 1, l) = UserTypesWith(p, n, l)
  BY DEF UserTypesWith
<1>3. /\ Cardinality(UserTypesWith(p, n, l)) \in Nat
      /\ Cardinality(UserTypesWith(p, n, l) \cup {n + 1}) =
           Cardinality(UserTypesWith(p, n, l)) + 1
  BY <1>1, Countable
<1> QED
  BY <1>2, <1>3

\* Every step counts on both sides.
LEMMA CountStep ==
  ASSUME TypeOK, Cursor, CountInv, [Next]_vars
  PROVE  CountInv'
<1>1. ControlOK /\ pdb \in Pdbs /\ SrcRange \in Seq(SrcRangeRow)
  BY DEF TypeOK, ControlOK, RowsOK
<1>2. PICK n \in Nat : n = read["Symbols"]
  BY <1>1 DEF ControlOK, TableNames
<1>3. PICK m \in Nat : m = read["LineNumbers"]
  BY <1>1 DEF ControlOK, TableNames
<1>4. \A l \in Lines :
        Cardinality(RowsWith(SrcRange, l)) =
          Cardinality(LinesWith(pdb, m, l)) + Cardinality(UserTypesWith(pdb, n, l))
  BY <1>2, <1>3 DEF CountInv
<1>5. CASE ReadSymbol
  <2>1. Element("Symbols")
    BY <1>5 DEF ReadSymbol, ReadCompilandSymbol, ReadCompilandDetailsSymbol,
                ReadUDTSymbol, ReadDedicatedSymbol, ReadIgnoredSymbol, Symbolic
  <2>2. /\ read'["Symbols"] = n + 1 /\ read'["LineNumbers"] = m /\ pdb' = pdb
        /\ n + 1 \in 1..Len(pdb.symbols)
    BY <1>1, <1>2, <1>3, <2>1, NextElement, NextSymbol DEF ControlOK, TableNames
  <2>3. PICK s \in SymbolItem : s = nextSymbol /\ s = pdb.symbols[n + 1]
    BY <1>1, <1>2, <2>1, NextSymbol DEF nextSymbol
  <2>4. SUFFICES ASSUME NEW l \in Lines
                 PROVE  Cardinality(RowsWith(SrcRange', l)) =
                          Cardinality(LinesWith(pdb, m, l))
                          + Cardinality(UserTypesWith(pdb, n + 1, l))
    BY <2>2 DEF CountInv
  <2>5. CASE s.tag = "UDT" /\ s.line = l
    <3> DEFINE row == [id |-> Len(SrcRange), line |-> s.line]
    <3>1. SrcRange' = Append(SrcRange, row)
      BY <1>5, <2>3, <2>5, NoneAssumption
         DEF ReadSymbol, ReadCompilandSymbol, ReadCompilandDetailsSymbol,
             ReadUDTSymbol, ReadDedicatedSymbol, ReadIgnoredSymbol, Symbolic,
             DedicatedTags, IgnoredTags
    <3>2. row \in SrcRangeRow /\ row.line = l
      BY <1>1, <2>5 DEF SrcRangeRow
    <3> HIDE DEF row
    <3>3. Cardinality(RowsWith(SrcRange', l)) = Cardinality(RowsWith(SrcRange, l)) + 1
      BY <1>1, <3>1, <3>2, RowCounted
    <3>4. Cardinality(UserTypesWith(pdb, n + 1, l)) =
            Cardinality(UserTypesWith(pdb, n, l)) + 1
      BY <2>3, <2>5, UserTypeCounted
    <3>5. /\ Cardinality(LinesWith(pdb, m, l)) \in Nat
          /\ Cardinality(UserTypesWith(pdb, n, l)) \in Nat
      BY LineCounted, UserTypeCounted
    <3>6. Cardinality(RowsWith(SrcRange, l)) =
            Cardinality(LinesWith(pdb, m, l)) + Cardinality(UserTypesWith(pdb, n, l))
      BY <1>4
    <3> QED
      BY <3>3, <3>4, <3>5, <3>6
  <2>6. CASE ~(s.tag = "UDT" /\ s.line = l)
    <3>1. Cardinality(UserTypesWith(pdb, n + 1, l)) =
            Cardinality(UserTypesWith(pdb, n, l))
      BY <2>3, <2>6, UserTypeCounted
    <3>2. Cardinality(RowsWith(SrcRange', l)) = Cardinality(RowsWith(SrcRange, l))
      <4>1. CASE SrcRange' = SrcRange
        BY <4>1
      <4>2. CASE SrcRange' # SrcRange
        <5> DEFINE row == [id |-> Len(SrcRange), line |-> s.line]
        <5>1. SrcRange' = Append(SrcRange, row) /\ s.line # NoLine /\ s.tag = "UDT"
          BY <1>5, <2>3, <4>2
             DEF ReadSymbol, ReadCompilandSymbol, ReadCompilandDetailsSymbol,
                 ReadUDTSymbol, ReadDedicatedSymbol, ReadIgnoredSymbol, Symbolic
        <5>2. row \in SrcRangeRow /\ row.line # l
          BY <1>1, <2>6, <5>1 DEF SrcRangeRow, SymbolItem
        <5> HIDE DEF row
        <5> QED
          BY <1>1, <5>1, <5>2, RowCounted
      <4> QED
        BY <4>1, <4>2
    <3> QED
      BY <1>4, <3>1, <3>2
  <2> QED
    BY <2>5, <2>6
<1>6. CASE ReadLines
  <2>1. Element("LineNumbers")
    BY <1>6 DEF ReadLines
  <2>2. /\ read'["Symbols"] = n /\ read'["LineNumbers"] = m + 1 /\ pdb' = pdb
        /\ m + 1 \in 1..Len(pdb.lines)
    BY <1>1, <1>2, <1>3, <2>1, NextElement, ItemsOfParts DEF ControlOK, TableNames
  <2> DEFINE row == [id |-> Len(SrcRange), line |-> pdb.lines[m + 1]]
  <2>3. SrcRange' = Append(SrcRange, row)
    BY <1>3, <1>6 DEF ReadLines
  <2>4. row \in SrcRangeRow /\ row.line = pdb.lines[m + 1]
    BY <1>1, <2>2, PdbParts DEF SrcRangeRow
  <2> HIDE DEF row
  <2>5. SUFFICES ASSUME NEW l \in Lines
                 PROVE  Cardinality(RowsWith(SrcRange', l)) =
                          Cardinality(LinesWith(pdb, m + 1, l))
                          + Cardinality(UserTypesWith(pdb, n, l))
    BY <2>2 DEF CountInv
  <2>6. PICK one \in {0, 1} : one = IF pdb.lines[m + 1] = l THEN 1 ELSE 0
    OBVIOUS
  <2>7. /\ Cardinality(RowsWith(SrcRange', l)) =
             Cardinality(RowsWith(SrcRange, l)) + one
        /\ Cardinality(RowsWith(SrcRange, l)) \in Nat
    <3>1. /\ row.line = l => Cardinality(RowsWith(SrcRange', l)) =
                               Cardinality(RowsWith(SrcRange, l)) + 1
          /\ row.line # l => Cardinality(RowsWith(SrcRange', l)) =
                               Cardinality(RowsWith(SrcRange, l))
          /\ Cardinality(RowsWith(SrcRange, l)) \in Nat
      BY <1>1, <2>3, <2>4, RowCounted
    <3> QED
      BY <2>4, <2>6, <3>1
  <2>8. /\ Cardinality(LinesWith(pdb, m + 1, l)) =
             Cardinality(LinesWith(pdb, m, l)) + one
        /\ Cardinality(LinesWith(pdb, m, l)) \in Nat
    <3>1. /\ pdb.lines[m + 1] = l => Cardinality(LinesWith(pdb, m + 1, l)) =
                                       Cardinality(LinesWith(pdb, m, l)) + 1
          /\ pdb.lines[m + 1] # l => Cardinality(LinesWith(pdb, m + 1, l)) =
                                       Cardinality(LinesWith(pdb, m, l))
          /\ Cardinality(LinesWith(pdb, m, l)) \in Nat
      BY LineCounted
    <3> QED
      BY <2>6, <3>1
  <2>9. Cardinality(UserTypesWith(pdb, n, l)) \in Nat
    BY UserTypeCounted
  <2> QED
    BY <1>4, <2>7, <2>8, <2>9
<1>7. CASE ReadSourceFile \/ ReadSourceFails \/ EmplaceItem
  <2>1. /\ \E t \in TableNames \ {"Symbols", "LineNumbers"} : Element(t)
        /\ SrcRange' = SrcRange
    BY <1>7 DEF ReadSourceFile, ReadSourceFails, ReadSource, EmplaceItem,
                TableNames, EmplaceTables
  <2>2. /\ read'["Symbols"] = read["Symbols"]
        /\ read'["LineNumbers"] = read["LineNumbers"] /\ pdb' = pdb
    BY <1>1, <2>1, NextElement DEF ControlOK, TableNames
  <2> QED
    BY <2>1, <2>2 DEF CountInv
<1>8. CASE \/ LoadFails \/ SourceIsNull \/ LoadSucceeds \/ SessionIsNull
           \/ ReadSectionHeader \/ EndStreams \/ StreamsFail
           \/ OpenTable \/ SkipTable \/ EndTables \/ EnumTablesFails \/ TableFails
           \/ FetchBatch \/ FetchNothing \/ FetchFails
           \/ UNCHANGED vars
  <2>1. SrcRange' = SrcRange /\ read' = read /\ pdb' = pdb
    BY <1>8 DEF LoadFails, SourceIsNull, LoadSucceeds, SessionIsNull,
      ReadSectionHeader, EndStreams, StreamsFail, OpenTable, SkipTable, EndTables,
      EnumTablesFails, TableFails, FetchBatch, FetchNothing, FetchFails, vars,
      result, control
  <2> QED
    BY <2>1 DEF CountInv
<1> QED
  BY <1>5, <1>6, <1>7, <1>8 DEF Next, Progress, Fault

\* Whatever the order of the tables: src_lines holds a line once for each line
\* number read and once more for each user type that begins there.
THEOREM LinesAreCounted == Spec => []LinesCountedTwice
<1>1. Init => CountInv
  <2> SUFFICES ASSUME Init, NEW l \in Lines
               PROVE  Cardinality(RowsWith(SrcRange, l)) =
                        Cardinality(LinesWith(pdb, read["LineNumbers"], l))
                        + Cardinality(UserTypesWith(pdb, read["Symbols"], l))
    BY DEF CountInv
  <2>1. /\ RowsWith(SrcRange, l) = {} /\ LinesWith(pdb, read["LineNumbers"], l) = {}
        /\ UserTypesWith(pdb, read["Symbols"], l) = {}
    BY DEF Init, TableNames, RowsWith, LinesWith, UserTypesWith
  <2> QED
    BY <2>1, FS_EmptySet
<1>2. TypeOK /\ Cursor /\ CountInv /\ [Next]_vars => CountInv'
  BY CountStep
<1>3. CountInv => LinesCountedTwice
  <2>1. \A l : UserTypesWith(pdb, read["Symbols"], l) =
                 {k \in SymbolsRead({"UDT"}) : pdb.symbols[k].line = l}
    BY DEF UserTypesWith, SymbolsRead
  <2> QED
    BY <2>1 DEF CountInv, LinesCountedTwice, RowsWith, LinesWith
<1> QED
  BY <1>1, <1>2, <1>3, Typed, PTL DEF Spec
=============================================================================
