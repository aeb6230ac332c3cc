---------------------------- MODULE SqlTextProofs ----------------------------
(***************************************************************************)
(* Theorems about SqlText, for procedure files, comments and directories   *)
(* of every length and content.                                            *)
(***************************************************************************)
EXTENDS SqlText, WellFoundedInduction, SequenceTheorems, FiniteSetTheorems, TLAPS

-----------------------------------------------------------------------------
(* Facts about the helpers. *)

\* A set of numbers that is not empty has a least one.
LEMMA Least ==
  ASSUME NEW T, T \subseteq Nat, T # {}
  PROVE  \E k \in T : \A j \in T : k <= j
<1>1. PICK k \in T : \A j \in T : ~(<<j, k>> \in OpToRel(<, Nat))
  BY NatLessThanWellFounded, WFMin
<1>2. \A j \in T : ~(j < k)
  BY <1>1 DEF OpToRel
<1> QED
  BY <1>2

\* The part of a text between two offsets.
LEMMA Part ==
  ASSUME NEW S, NEW s \in Seq(S), NEW a \in Nat, NEW b \in 0..Len(s)
  PROVE  /\ SubSeq(s, a + 1, b) \in Seq(S)
         /\ Len(SubSeq(s, a + 1, b)) = IF a <= b THEN b - a ELSE 0
         /\ \A i \in 1..(b - a) : SubSeq(s, a + 1, b)[i] = s[a + i]
<1> DEFINE n == IF a <= b THEN b - a ELSE 0
           u == SubSeq(s, a + 1, b)
<1>1. Len(u) = n
  OBVIOUS
<1>2. \A i \in 1..n : u[i] = s[a + i]
  OBVIOUS
<1>3. u \in Seq(S)
  OBVIOUS
<1> QED
  BY <1>1, <1>2, <1>3

\* A text behind another.
LEMMA Concatenated ==
  ASSUME NEW S, NEW x \in Seq(S), NEW y \in Seq(S),
         NEW n \in Nat, n = Len(x), NEW k \in Nat, k = Len(y)
  PROVE  /\ x \o y \in Seq(S)
         /\ Len(x \o y) = n + k
         /\ \A i \in 1..n : (x \o y)[i] = x[i]
         /\ \A i \in 1..k : (x \o y)[n + i] = y[i]
OBVIOUS

\* What std::string::find returns: the first place, if there is one.
LEMMA Found ==
  ASSUME NEW s, NEW w, NEW from \in Nat, Len(s) \in Nat
  PROVE  \/ /\ find(s, w, from) = NPos
            /\ \A i \in from..Len(s) : ~Occurs(s, w, i)
         \/ /\ find(s, w, from) \in from..Len(s)
            /\ Occurs(s, w, find(s, w, from))
            /\ \A i \in from..(find(s, w, from) - 1) : ~Occurs(s, w, i)
<1> DEFINE hits == {i \in from..Len(s) : Occurs(s, w, i)}
<1>1. CASE hits = {}
  BY <1>1 DEF find
<1>2. CASE hits # {}
  <2>1. \E k \in hits : \A j \in hits : k <= j
    <3>1. hits \subseteq Nat
      OBVIOUS
    <3> HIDE DEF hits
    <3> QED
      BY <1>2, <3>1, Least
  <2>2. find(s, w, from) = CHOOSE i \in hits : \A j \in hits : i <= j
    BY <1>2 DEF find
  <2> DEFINE f == find(s, w, from)
  <2>3. f \in hits /\ \A j \in hits : f <= j
    BY <2>1, <2>2
  <2>4. f \in from..Len(s) /\ Occurs(s, w, f)
    BY <2>3
  <2>5. ASSUME NEW i \in from..(f - 1)
        PROVE  ~Occurs(s, w, i)
    <3>1. i \in from..Len(s) /\ ~(f <= i)
      BY <2>4
    <3> QED
      BY <3>1, <2>3
  <2> QED
    BY <2>4, <2>5
<1> QED
  BY <1>1, <1>2

\* Where a single character occurs.
LEMMA OneOccurs ==
  ASSUME NEW S, NEW s \in Seq(S), NEW c, NEW i \in Nat
  PROVE  Occurs(s, <<c>>, i) <=> i < Len(s) /\ s[i + 1] = c
<1>1. PICK l \in Nat : l = Len(s)
  OBVIOUS
<1>2. CASE i < l
  <2>1. SubSeq(s, i + 1, i + 1) = <<s[i + 1]>>
    <3>1. SubSeq(s, i + 1, i + 1) \in Seq(S) /\ <<s[i + 1]>> \in Seq(S)
      BY <1>1, <1>2
    <3>2. /\ Len(SubSeq(s, i + 1, i + 1)) = 1
          /\ SubSeq(s, i + 1, i + 1)[1] = s[i + 1]
      BY <1>1, <1>2
    <3> DEFINE u == SubSeq(s, i + 1, i + 1)
               v == <<s[i + 1]>>
    <3>3. Len(v) = 1 /\ v[1] = s[i + 1]
      OBVIOUS
    <3> HIDE DEF u, v
    <3>4. u = v
      <4>1. Len(u) = Len(v) /\ \A j \in 1..Len(u) : u[j] = v[j]
        <5>1. Len(u) = 1 /\ u[1] = v[1] /\ Len(v) = 1
          BY <3>2, <3>3 DEF u
        <5> QED
          BY <5>1
      <4> QED
        BY <3>1, <4>1, SeqEqual DEF u, v
    <3> QED
      BY <3>4 DEF u, v
  <2>2. <<s[i + 1]>> = <<c>> <=> s[i + 1] = c
    OBVIOUS
  <2>3. Len(<<c>>) = 1
    OBVIOUS
  <2> QED
    BY <1>1, <1>2, <2>1, <2>2, <2>3 DEF Occurs
<1>3. CASE ~(i < l)
  <2>1. Len(<<c>>) = 1
    OBVIOUS
  <2> QED
    BY <1>1, <1>3, <2>1 DEF Occurs
<1> QED
  BY <1>1, <1>2, <1>3

\* Where a separator occurs.
LEMMA SeparatorOccurs ==
  ASSUME NEW S, NEW s \in Seq(S), NEW i \in Nat
  PROVE  Occurs(s, Separator, i) <=> /\ i + 2 <= Len(s)
                                     /\ s[i + 1] = "#" /\ s[i + 2] = "then"
<1>1. PICK l \in Nat : l = Len(s)
  OBVIOUS
<1>2. Len(Separator) = 2
  BY DEF Separator
<1>3. CASE i + 2 <= l
  <2>1. SubSeq(s, i + 1, i + 2) = <<s[i + 1], s[i + 2]>>
    <3> DEFINE u == SubSeq(s, i + 1, i + 2)
               v == <<s[i + 1], s[i + 2]>>
    <3>1. u \in Seq(S) /\ v \in Seq(S)
      BY <1>1, <1>3
    <3>2. Len(u) = 2 /\ u[1] = s[i + 1] /\ u[2] = s[i + 2]
      BY <1>1, <1>3
    <3>3. Len(v) = 2 /\ v[1] = s[i + 1] /\ v[2] = s[i + 2]
      OBVIOUS
    <3> HIDE DEF u, v
    <3>4. u = v
      BY <3>1, <3>2, <3>3, SeqEqual
    <3> QED
      BY <3>4 DEF u, v
  <2>2. <<s[i + 1], s[i + 2]>> = Separator <=> s[i + 1] = "#" /\ s[i + 2] = "then"
    BY DEF Separator
  <2> QED
    BY <1>1, <1>2, <1>3, <2>1, <2>2 DEF Occurs
<1>4. CASE ~(i + 2 <= l)
  BY <1>1, <1>2, <1>4 DEF Occurs
<1> QED
  BY <1>1, <1>3, <1>4

-----------------------------------------------------------------------------
(* Types. *)

\* t is s with its character after the first at of them, c, doubled.
DoubledAt(s, t, at, c) ==
  /\ Len(t) = Len(s) + 1
  /\ \A i \in 1..at : t[i] = s[i]
  /\ t[at + 1] = c /\ t[at + 2] = c
  /\ \A i \in (at + 3)..(Len(s) + 1) : t[i] = s[i - 1]

\* What replace makes of a text.
LEMMA Replaced ==
  ASSUME NEW S, NEW s \in Seq(S), NEW c \in S, NEW at \in Nat, at < Len(s),
         NEW t, t = SubSeq(s, 1, at) \o (<<c>> \o <<c>>) \o SubSeq(s, at + 2, Len(s))
  PROVE  t \in Seq(S) /\ DoubledAt(s, t, at, c)
<1>1. PICK l \in Nat : l = Len(s) /\ at < l
  OBVIOUS
<1>2. PICK a \in Seq(S) : /\ a = SubSeq(s, 1, at) /\ Len(a) = at
                          /\ \A i \in 1..at : a[i] = s[i]
  <2>1. /\ SubSeq(s, 1, at) \in Seq(S) /\ Len(SubSeq(s, 1, at)) = at
        /\ \A i \in 1..at : SubSeq(s, 1, at)[i] = s[i]
    BY <1>1
  <2> QED
    BY <2>1
<1>3. PICK m \in Seq(S) : m = <<c>> \o <<c>> /\ Len(m) = 2 /\ m[1] = c /\ m[2] = c
  <2>1. /\ <<c>> \o <<c>> \in Seq(S) /\ Len(<<c>> \o <<c>>) = 2
        /\ (<<c>> \o <<c>>)[1] = c /\ (<<c>> \o <<c>>)[2] = c
    OBVIOUS
  <2> QED
    BY <2>1
<1>4. PICK k \in Nat : l = at + 1 + k
  <2>1. l - at - 1 \in Nat /\ l = at + 1 + (l - at - 1)
    BY <1>1
  <2> QED
    BY <2>1
<1>5. PICK b \in Seq(S) : /\ b = SubSeq(s, at + 2, Len(s)) /\ Len(b) = k
                          /\ \A i \in 1..k : b[i] = s[at + 1 + i]
  <2>1. /\ SubSeq(s, at + 2, Len(s)) \in Seq(S) /\ Len(SubSeq(s, at + 2, Len(s))) = k
        /\ \A i \in 1..k : SubSeq(s, at + 2, Len(s))[i] = s[at + 1 + i]
    <3>1. PICK n \in Nat : n = at + 1
      OBVIOUS
    <3>2. l \in 0..Len(s) /\ n <= l /\ l - n = k /\ n + 1 = at + 2
      BY <1>1, <1>4, <3>1
    <3>3. /\ SubSeq(s, n + 1, l) \in Seq(S)
          /\ Len(SubSeq(s, n + 1, l)) = IF n <= l THEN l - n ELSE 0
          /\ \A i \in 1..(l - n) : SubSeq(s, n + 1, l)[i] = s[n + i]
      BY <3>2, Part
    <3> QED
      BY <1>1, <3>1, <3>2, <3>3
  <2> QED
    BY <2>1
<1>6. PICK u \in Seq(S) : /\ u = a \o m /\ Len(u) = at + 2
                          /\ \A i \in 1..at : u[i] = a[i]
                          /\ \A i \in 1..2 : u[at + i] = m[i]
  <2>1. /\ a \o m \in Seq(S) /\ Len(a \o m) = at + 2
        /\ \A i \in 1..at : (a \o m)[i] = a[i]
        /\ \A i \in 1..2 : (a \o m)[at + i] = m[i]
    BY <1>2, <1>3
  <2> QED
    BY <2>1
<1>7. /\ u \o b \in Seq(S) /\ Len(u \o b) = at + 2 + k
      /\ \A i \in 1..(at + 2) : (u \o b)[i] = u[i]
      /\ \A i \in 1..k : (u \o b)[at + 2 + i] = b[i]
  <2>1. PICK n \in Nat : n = at + 2
    OBVIOUS
  <2>2. /\ u \o b \in Seq(S) /\ Len(u \o b) = n + k
        /\ \A i \in 1..n : (u \o b)[i] = u[i]
        /\ \A i \in 1..k : (u \o b)[n + i] = b[i]
    <3>1. n = Len(u) /\ k = Len(b)
      BY <1>5, <1>6, <2>1
    <3> QED
      BY <3>1, Concatenated
  <2> QED
    BY <2>1, <2>2
<1>8. t = u \o b
  BY <1>2, <1>3, <1>5, <1>6
<1>9. ASSUME NEW i \in 1..at
      PROVE  t[i] = s[i]
  <2>1. i \in 1..(at + 2)
    OBVIOUS
  <2> QED
    BY <2>1, <1>2, <1>6, <1>7, <1>8
<1>10. t[at + 1] = c /\ t[at + 2] = c
  <2>1. 1 \in 1..2 /\ 2 \in 1..2 /\ at + 1 \in 1..(at + 2) /\ at + 2 \in 1..(at + 2)
    OBVIOUS
  <2>2. u[at + 1] = c /\ u[at + 2] = c
    BY <2>1, <1>3, <1>6
  <2> QED
    BY <2>1, <2>2, <1>7, <1>8
<1>11. ASSUME NEW i \in (at + 3)..(l + 1)
       PROVE  t[i] = s[i - 1]
  <2>1. PICK j \in 1..k : i = at + 2 + j
    <3>1. i - at - 2 \in 1..k /\ i = at + 2 + (i - at - 2)
      BY <1>4
    <3> QED
      BY <3>1
  <2>2. b[j] = s[i - 1]
    <3>1. at + 1 + j = i - 1
      BY <2>1
    <3> QED
      BY <1>5, <3>1
  <2> QED
    BY <2>1, <2>2, <1>7, <1>8
<1>12. t \in Seq(S) /\ Len(t) = l + 1
  <2>1. at + 2 + k = l + 1
    BY <1>4
  <2> QED
    BY <1>7, <1>8, <2>1
<1> QED
  BY <1>1, <1>9, <1>10, <1>11, <1>12 DEF DoubledAt

\* The character that replace doubles.
sought == IF phase = "comment" THEN Quote ELSE Backslash

\* What is searched for is this character.
LEMMA SoughtCharacter == search = <<sought>> /\ sought \in Characters
<1>1. CASE phase = "comment"
  <2>1. search = <<Quote>> /\ sought = Quote
    BY <1>1 DEF search, sought
  <2>2. Quote \in Characters
    BY TextsAssumption
  <2> QED
    BY <2>1, <2>2
<1>2. CASE phase # "comment"
  <2>1. search = <<Backslash>> /\ sought = Backslash
    BY <1>2 DEF search, sought
  <2>2. Backslash \in Characters
    BY TextsAssumption
  <2> QED
    BY <2>1, <2>2
<1> QED
  BY <1>1, <1>2

\* Whether replace meets another one, and where.
LEMMA Sought ==
  ASSUME TypeOK, phase \in {"comment", "path"}
  PROVE  \/ /\ find(subject, search, pos) = NPos
            /\ \A i \in (pos + 1)..Len(subject) : subject[i] # sought
         \/ /\ find(subject, search, pos) \in pos..(Len(subject) - 1)
            /\ subject[find(subject, search, pos) + 1] = sought
            /\ \A i \in (pos + 1)..find(subject, search, pos) : subject[i] # sought
<1>1. search = <<sought>> /\ sought \in Characters
  BY SoughtCharacter
<1>2. subject \in Seq(Characters)
  BY DEF TypeOK, Text
<1>3. PICK l \in Nat : l = Len(subject)
  BY <1>2
<1>4. PICK p \in Nat : p = pos /\ p <= l
  BY <1>3 DEF TypeOK
<1>5. \A i \in Nat : Occurs(subject, search, i) <=> i < l /\ subject[i + 1] = sought
  BY <1>1, <1>2, <1>3, OneOccurs
<1>6. PICK f : f = find(subject, search, p)
  OBVIOUS
<1>7. \/ f = NPos /\ \A i \in p..l : ~Occurs(subject, search, i)
      \/ /\ f \in p..l /\ Occurs(subject, search, f)
         /\ \A i \in p..(f - 1) : ~Occurs(subject, search, i)
  BY <1>3, <1>4, <1>6, Found
<1>8. CASE f = NPos /\ \A i \in p..l : ~Occurs(subject, search, i)
  <2>1. ASSUME NEW i \in (p + 1)..l
        PROVE  subject[i] # sought
    <3>1. i - 1 \in p..l /\ i - 1 \in Nat /\ i - 1 < l /\ (i - 1) + 1 = i
      OBVIOUS
    <3> QED
      BY <3>1, <1>5, <1>8
  <2> QED
    BY <2>1, <1>3, <1>4, <1>6, <1>8
<1>9. CASE /\ f \in p..l /\ Occurs(subject, search, f)
           /\ \A i \in p..(f - 1) : ~Occurs(subject, search, i)
  <2>1. f \in Nat /\ f < l /\ subject[f + 1] = sought
    <3>1. f \in Nat
      BY <1>9
    <3> QED
      BY <3>1, <1>5, <1>9
  <2>2. ASSUME NEW i \in (p + 1)..f
        PROVE  subject[i] # sought
    <3>1. /\ i - 1 \in p..(f - 1) /\ i - 1 \in Nat /\ i - 1 < l
          /\ (i - 1) + 1 = i
      BY <2>1
    <3> QED
      BY <3>1, <1>5, <1>9
  <2>3. f \in p..(l - 1)
    BY <2>1, <1>9
  <2> QED
    BY <2>1, <2>2, <2>3, <1>3, <1>4, <1>6
<1> QED
  BY <1>7, <1>8, <1>9

\* A turn of replace.
LEMMA ReplaceTurn ==
  ASSUME TypeOK, ReplaceOne
  PROVE  \E at \in pos..(Len(subject) - 1) :
           /\ subject[at + 1] = sought
           /\ \A i \in (pos + 1)..at : subject[i] # sought
           /\ subject' \in Seq(Characters)
           /\ DoubledAt(subject, subject', at, sought)
           /\ pos' = at + 2
           /\ UNCHANGED <<phase, given, commands>>
<1>1. phase \in {"comment", "path"} /\ find(subject, search, pos) # NPos
  BY DEF ReplaceOne
<1>2. PICK at : at = find(subject, search, pos)
  OBVIOUS
<1>3. /\ at \in pos..(Len(subject) - 1) /\ subject[at + 1] = sought
      /\ \A i \in (pos + 1)..at : subject[i] # sought
  BY <1>1, <1>2, Sought
<1>4. /\ search = <<sought>> /\ replacement = <<sought>> \o <<sought>>
      /\ sought \in Characters
      /\ Len(search) = 1 /\ Len(replacement) = 2
  <2>1. search = <<sought>> /\ sought \in Characters
    BY SoughtCharacter
  <2>2. Len(<<sought>>) = 1 /\ Len(<<sought>> \o <<sought>>) = 2
    OBVIOUS
  <2> QED
    BY <2>1, <2>2 DEF replacement
<1>5. subject \in Seq(Characters) /\ Len(subject) \in Nat /\ pos \in Nat
  BY DEF TypeOK, Text
<1>6. at \in Nat /\ at < Len(subject)
  BY <1>3, <1>5
<1>7. /\ subject' = SubSeq(subject, 1, at) \o (<<sought>> \o <<sought>>)
                      \o SubSeq(subject, at + 2, Len(subject))
      /\ pos' = at + 2
      /\ UNCHANGED <<phase, given, commands>>
  <2>1. at + Len(search) + 1 = at + 2 /\ at + Len(replacement) = at + 2
    BY <1>4, <1>6
  <2> QED
    BY <2>1, <1>2, <1>4 DEF ReplaceOne
<1>8. subject' \in Seq(Characters) /\ DoubledAt(subject, subject', at, sought)
  BY <1>4, <1>5, <1>6, <1>7, Replaced, Zenon
<1> QED
  BY <1>3, <1>7, <1>8

\* What a procedure file gives to a turn of the loop.
LEMMA SoughtSeparator ==
  ASSUME TypeOK, phase = "parse"
  PROVE  \/ next = NPos /\ \A i \in pos..Len(subject) : ~Occurs(subject, Separator, i)
         \/ /\ next \in pos..(Len(subject) - 2)
            /\ Occurs(subject, Separator, next)
            /\ \A i \in pos..(next - 1) : ~Occurs(subject, Separator, i)
<1>1. subject \in Seq(Characters) /\ Len(subject) \in Nat /\ pos \in Nat
  BY DEF TypeOK, Text
<1>2. \/ next = NPos /\ \A i \in pos..Len(subject) : ~Occurs(subject, Separator, i)
      \/ /\ next \in pos..Len(subject)
         /\ Occurs(subject, Separator, next)
         /\ \A i \in pos..(next - 1) : ~Occurs(subject, Separator, i)
  BY <1>1, Found DEF next
<1>3. CASE next \in pos..Len(subject) /\ Occurs(subject, Separator, next)
  <2>1. next \in Nat
    BY <1>1, <1>3
  <2>2. next + 2 <= Len(subject)
    BY <1>1, <1>3, <2>1, SeparatorOccurs
  <2> QED
    BY <1>1, <1>2, <1>3, <2>1, <2>2 DEF NPos
<1> QED
  BY <1>2, <1>3

\* Every step keeps the types.
LEMMA TypeStep ==
  ASSUME TypeOK, [Next]_vars
  PROVE  TypeOK'
<1>1. /\ subject \in Seq(Characters) /\ given \in Seq(Characters)
      /\ commands \in Seq(Text)
      /\ pos \in 0..(Len(subject) + 1)
  BY DEF TypeOK, Text
<1>2. PICK l \in Nat : l = Len(subject)
  BY <1>1
<1>3. Skip = 3 /\ Len(Separator) = 2
  BY DEF Skip, Separator
<1>4. CASE NextPiece
  <2>1. phase = "parse" /\ next # NPos
    BY <1>4 DEF NextPiece
  <2>2. next \in pos..(l - 2)
    BY <2>1, <1>2, SoughtSeparator
  <2>3. pos' \in 0..(l + 1)
    BY <1>1, <1>2, <1>3, <1>4, <2>2 DEF NextPiece
  <2>4. substr(subject, pos, next) \in Text
    <3>1. pos \in Nat /\ AtMost(pos + next, l) \in 0..l
      BY <1>1, <1>2, <2>2 DEF AtMost
    <3>2. SubSeq(subject, pos + 1, AtMost(pos + next, l)) \in Seq(Characters)
      BY <1>1, <1>2, <3>1, Part
    <3> QED
      BY <3>2, <1>2 DEF substr, Text
  <2>5. commands' \in Seq(Text)
    BY <1>1, <1>4, <2>4, AppendProperties DEF NextPiece
  <2> QED
    BY <1>2, <1>4, <2>1, <2>3, <2>5 DEF NextPiece, TypeOK
<1>5. CASE LastPiece
  <2>1. SubSeq(subject, pos + 1, Len(subject)) \in Text
    BY <1>1, <1>2, Part DEF Text
  <2>2. commands' \in Seq(Text)
    BY <1>1, <1>5, <2>1, AppendProperties DEF LastPiece
  <2> QED
    BY <1>5, <2>2 DEF LastPiece, TypeOK
<1>6. CASE LastPieceThrows
  BY <1>6 DEF LastPieceThrows, TypeOK
<1>7. CASE ReplaceOne
  <2>1. phase \in {"comment", "path"}
    BY <1>7 DEF ReplaceOne
  <2>2. PICK at \in pos..(l - 1) :
          /\ subject' \in Seq(Characters)
          /\ DoubledAt(subject, subject', at, sought)
          /\ pos' = at + 2
          /\ UNCHANGED <<phase, given, commands>>
    BY <1>2, <1>7, ReplaceTurn
  <2>3. Len(subject') = l + 1
    BY <1>2, <2>2 DEF DoubledAt
  <2>4. pos' \in 0..(Len(subject') + 1) /\ pos' <= Len(subject')
    BY <1>1, <1>2, <2>2, <2>3
  <2> QED
    BY <1>1, <2>1, <2>2, <2>4 DEF TypeOK, Text
<1>8. CASE EndComment
  BY <1>8 DEF EndComment, TypeOK
<1>9. CASE EndPath
  <2>1. <<Backslash, Backslash>> \in Seq(Characters)
    BY TextsAssumption
  <2>2. Len(<<Backslash, Backslash>>) = 2
    OBVIOUS
  <2>3. subject' \in Seq(Characters) /\ Len(subject') = l + 2
    BY <1>1, <1>2, <1>9, <2>1, <2>2, Concatenated DEF EndPath
  <2>4. pos' \in 0..(Len(subject') + 1) /\ pos' <= Len(subject')
    BY <1>1, <1>2, <1>9, <2>3 DEF EndPath, TypeOK
  <2> QED
    BY <1>1, <1>9, <2>3, <2>4 DEF EndPath, TypeOK, Text
<1>10. CASE UNCHANGED vars
  BY <1>10 DEF vars, TypeOK
<1> QED
  BY <1>4, <1>5, <1>6, <1>7, <1>8, <1>9, <1>10 DEF Next

\* The first state is typed.
LEMMA InitTyped == Init => TypeOK
<1> SUFFICES ASSUME Init PROVE TypeOK
  OBVIOUS
<1>1. given \in Text
  BY TextsAssumption DEF Init
<1>2. subject = given /\ pos = 0 /\ Len(subject) \in Nat
  BY <1>1 DEF Init, Text
<1>3. commands \in Seq(Text)
  BY DEF Init
<1>4. phase \in {"parse", "comment", "path"}
  BY DEF Init
<1> QED
  BY <1>1, <1>2, <1>3, <1>4 DEF TypeOK

\* replace's pos stays within the text that it makes longer.  ParseProcedure
\* leaves its text alone, and its prev may pass the end of it, by one and no
\* more: where substr throws (ThrowsOnlyAtTheEnd says for which files).
THEOREM TypeCorrect == Spec => []TypeOK
<1>1. TypeOK /\ [Next]_vars => TypeOK'
  BY TypeStep
<1> QED
  BY <1>1, InitTyped, PTL DEF Spec

\* A step that stays in its loop leaves less of the text to look at.
LEMMA TurnAdvances ==
  ASSUME TypeOK, Next, phase' = phase
  PROVE  Len(subject') - pos' < Len(subject) - pos
<1>1. PICK l \in Nat : l = Len(subject)
  BY DEF TypeOK, Text
<1>2. pos \in Nat
  BY DEF TypeOK, Text
<1>3. CASE NextPiece
  <2>1. next \in pos..(l - 2) /\ pos' = next + 3 /\ subject' = subject
    BY <1>1, <1>3, SoughtSeparator DEF NextPiece, Skip, Separator
  <2> QED
    BY <1>1, <1>2, <2>1
<1>4. CASE ReplaceOne
  <2>1. PICK at \in pos..(l - 1) :
          DoubledAt(subject, subject', at, sought) /\ pos' = at + 2
    BY <1>1, <1>4, ReplaceTurn
  <2>2. Len(subject') = l + 1
    BY <1>1, <2>1 DEF DoubledAt
  <2> QED
    BY <1>1, <1>2, <2>1, <2>2
<1>5. ~LastPiece /\ ~LastPieceThrows /\ ~EndComment /\ ~EndPath
  BY DEF LastPiece, LastPieceThrows, EndComment, EndPath
<1> QED
  BY <1>3, <1>4, <1>5 DEF Next

\* The loops of ParseProcedure and replace come nearer to the end of their text
\* with every turn, whatever the text is; TypeCorrect bounds how far they go.
THEOREM LoopsComeNearer == Spec => LoopsAdvance
<1>1. ASSUME TypeOK, [Next]_vars
      PROVE  [phase' = phase => Len(subject') - pos' < Len(subject) - pos]_vars
  BY <1>1, TurnAdvances
<1> QED
  BY <1>1, TypeCorrect, PTL DEF Spec, LoopsAdvance

-----------------------------------------------------------------------------
(* The pieces of a procedure file. *)

\* The separators of a text, and those before an offset, can be counted.
LEMMA Countable ==
  ASSUME NEW s \in Text
  PROVE  /\ Len(s) \in Nat /\ Separators(s) \subseteq 0..Len(s)
         /\ IsFiniteSet(Separators(s)) /\ Cardinality(Separators(s)) \in Nat
         /\ \A i : /\ Before(s, i) \subseteq Separators(s)
                   /\ IsFiniteSet(Before(s, i))
                   /\ Cardinality(Before(s, i)) \in Nat
                   /\ Cardinality(Before(s, i)) <= Cardinality(Separators(s))
<1>1. Len(s) \in Nat /\ Separators(s) \subseteq 0..Len(s)
  BY DEF Separators, Text
<1>2. IsFiniteSet(Separators(s))
  <2>1. IsFiniteSet(0..Len(s))
    BY <1>1, FS_Interval
  <2> QED
    BY <1>1, <2>1, FS_Subset
<1>3. ASSUME NEW i
      PROVE  /\ Before(s, i) \subseteq Separators(s)
             /\ IsFiniteSet(Before(s, i))
             /\ Cardinality(Before(s, i)) \in Nat
             /\ Cardinality(Before(s, i)) <= Cardinality(Separators(s))
  <2>1. Before(s, i) \subseteq Separators(s)
    BY DEF Before
  <2> QED
    BY <1>2, <2>1, FS_Subset, FS_CardinalityType
<1> QED
  BY <1>1, <1>2, <1>3, FS_CardinalityType

\* Of two separators, one more is before the later one at least.
LEMMA MoreBefore ==
  ASSUME NEW s \in Text, NEW i \in Separators(s), NEW j \in Nat, i < j
  PROVE  Cardinality(Before(s, i)) + 1 <= Cardinality(Before(s, j))
<1>1. i \in Nat
  BY Countable
<1>2. Before(s, i) \cup {i} \in SUBSET Before(s, j)
  <2>1. ASSUME NEW k \in Before(s, i)
        PROVE  k \in Before(s, j)
    <3>1. k \in Nat /\ k < i /\ k \in Separators(s)
      BY Countable DEF Before
    <3> QED
      BY <1>1, <3>1 DEF Before
  <2>2. i \in Before(s, j)
    BY DEF Before
  <2> QED
    BY <2>1, <2>2
<1>3. i \notin Before(s, i)
  BY <1>1 DEF Before
<1>4. Cardinality(Before(s, i) \cup {i}) = Cardinality(Before(s, i)) + 1
  BY <1>3, Countable, FS_AddElement
<1>5. Cardinality(Before(s, i) \cup {i}) <= Cardinality(Before(s, j))
  BY <1>2, Countable, FS_Subset
<1> QED
  BY <1>4, <1>5

\* A separator is told by the number of those before it.
LEMMA Ranked ==
  ASSUME NEW s \in Text, NEW k \in Nat, NEW i \in Separators(s),
         Cardinality(Before(s, i)) = k - 1
  PROVE  Separated(s, k) = i
<1>1. ASSUME NEW j \in Separators(s), Cardinality(Before(s, j)) = k - 1
      PROVE  j = i
  <2>1. i \in Nat /\ j \in Nat
    BY Countable
  <2>2. ~(i < j)
    <3>1. i < j => Cardinality(Before(s, i)) + 1 <= Cardinality(Before(s, j))
      BY <2>1, MoreBefore
    <3> QED
      BY <1>1, <3>1
  <2>3. ~(j < i)
    <3>1. j < i => Cardinality(Before(s, j)) + 1 <= Cardinality(Before(s, i))
      BY <2>1, MoreBefore
    <3> QED
      BY <1>1, <3>1
  <2> QED
    BY <2>1, <2>2, <2>3
<1> QED
  BY <1>1 DEF Separated

\* Separators on lines of their own leave the newline after each alone.
LEMMA Gap ==
  ASSUME NEW s \in Text, OwnLines(s), NEW i \in Separators(s), NEW j \in Separators(s),
         i < j
  PROVE  i + 3 <= j
<1>1. i \in Nat /\ j \in Nat /\ s \in Seq(Characters)
  BY Countable DEF Text
<1>2. s[i + 2] = "then" /\ s[j + 1] = "#"
  BY <1>1, SeparatorOccurs DEF Separators
<1>3. s[i + 3] = Newline
  <2>1. Skip = 3
    BY DEF Skip, Separator
  <2> QED
    BY <2>1 DEF OwnLines
<1>4. j # i + 1 /\ j # i + 2
  BY <1>1, <1>2, <1>3 DEF Newline
<1> QED
  BY <1>1, <1>4

\* What ParseProcedure appends for the k-th piece of a text: as many characters
\* as the offset that the piece ends at.
Sent(s, k) == substr(s, PieceStart(s, k), PieceEnd(s, k))

\* The first n separators of s are its separators in their order.
Counted(s, n) ==
  \A k \in 1..n : /\ Separated(s, k) \in Separators(s)
                  /\ Cardinality(Before(s, Separated(s, k))) = k - 1

\* prev is behind the last separator found.
BehindSeparator == pos = 0 \/ (pos >= Skip /\ pos - Skip \in Separators(given))

\* A piece has been appended for every separator before prev, the way Sent says.
PiecesSent ==
  /\ Cardinality(Before(given, pos)) = Len(commands)
  /\ pos = PieceStart(given, Len(commands) + 1)
  /\ pos <= Len(given)
  /\ Counted(given, Len(commands))
  /\ \A k \in 1..Len(commands) : commands[k] = Sent(given, k)

\* And at the end for every piece.
AllSent ==
  /\ Len(commands) = PieceCount(given)
  /\ Counted(given, Cardinality(Separators(given)))
  /\ \A k \in 1..PieceCount(given) : commands[k] = Sent(given, k)

ParseInv ==
  /\ phase = "parse" => BehindSeparator
  /\ phase = "parse" /\ OwnLines(given) => PiecesSent
  /\ phase = "parsed" /\ OwnLines(given) => AllSent
  /\ ThrowsOnlyAtTheEnd

\* The text is not touched while it is parsed.
LEMMA Parsing ==
  ASSUME TypeOK, phase = "parse"
  PROVE  /\ subject = given /\ given \in Text /\ given \in Seq(Characters)
         /\ Len(given) \in Nat /\ pos \in 0..(Len(given) + 1)
         /\ commands \in Seq(Text) /\ Len(commands) \in Nat
  BY DEF TypeOK, Text

\* A turn of the loop sends the piece that the next separator ends.
LEMMA PieceSent ==
  ASSUME TypeOK, OwnLines(given), PiecesSent, NextPiece
  PROVE  PiecesSent'
<1>1. phase = "parse" /\ next # NPos
  BY DEF NextPiece
<1>2. /\ subject = given /\ given \in Text /\ given \in Seq(Characters)
      /\ Len(given) \in Nat /\ pos \in Nat
      /\ commands \in Seq(Text) /\ Len(commands) \in Nat
  BY <1>1, Parsing
<1>3. PICK n \in Nat : n = Len(commands)
  BY <1>2
<1>4. PICK f \in Nat : f = next
  BY <1>1, <1>2, SoughtSeparator
<1>5. /\ f \in pos..(Len(given) - 2) /\ Occurs(given, Separator, f)
      /\ \A i \in pos..(f - 1) : ~Occurs(given, Separator, i)
  BY <1>1, <1>2, <1>4, SoughtSeparator
<1>6. f \in Separators(given) /\ Skip = 3
  BY <1>2, <1>5 DEF Separators, Skip, Separator
<1>7. Before(given, f) = Before(given, pos)
  <2>1. ASSUME NEW j \in Separators(given)
        PROVE  j < f <=> j < pos
    <3>1. j \in Nat /\ Occurs(given, Separator, j)
      BY <1>2, Countable DEF Separators
    <3>2. ~(j \in pos..(f - 1))
      BY <1>5, <3>1
    <3> QED
      BY <1>2, <1>5, <3>1, <3>2
  <2> QED
    BY <2>1 DEF Before
<1>8. Cardinality(Before(given, f)) = n
  BY <1>3, <1>7 DEF PiecesSent
<1>9. Separated(given, n + 1) = f
  <2>1. n + 1 \in Nat /\ (n + 1) - 1 = n
    OBVIOUS
  <2> QED
    BY <1>2, <1>6, <1>8, <2>1, Ranked
<1>10. PieceEnd(given, n + 1) = f
  <2>1. Cardinality(Before(given, f)) + 1 <= Cardinality(Separators(given))
    <3>1. Len(given) + 1 \in Nat /\ f < Len(given) + 1
      BY <1>2, <1>5
    <3>2. Cardinality(Before(given, f)) + 1
            <= Cardinality(Before(given, Len(given) + 1))
      BY <1>2, <1>6, <3>1, MoreBefore
    <3> QED
      BY <1>2, <3>2, Countable
  <2>2. n + 1 # PieceCount(given)
    BY <1>2, <1>8, <2>1, Countable DEF PieceCount
  <2> QED
    BY <1>9, <2>2 DEF PieceEnd
<1>11. /\ given' = given /\ pos' = f + 3
       /\ commands' = Append(commands, Sent(given, n + 1))
  <2>1. pos = PieceStart(given, n + 1)
    BY <1>3 DEF PiecesSent
  <2> QED
    BY <1>2, <1>4, <1>6, <1>10, <2>1 DEF NextPiece, Sent
<1>12. /\ Len(commands') = n + 1
       /\ \A k \in 1..n : commands'[k] = commands[k]
       /\ commands'[n + 1] = Sent(given, n + 1)
  BY <1>2, <1>3, <1>11
<1>13. Cardinality(Before(given, f + 3)) = n + 1
  <2>1. Before(given, f + 3) = Before(given, f) \cup {f}
    <3>1. ASSUME NEW j \in Separators(given)
          PROVE  j < f + 3 <=> j < f \/ j = f
      <4>1. j \in Nat
        BY <1>2, Countable
      <4>2. f < j => f + 3 <= j
        BY <1>2, <1>6, Gap
      <4> QED
        BY <4>1, <4>2
    <3> QED
      BY <1>6, <3>1 DEF Before
  <2>2. f \notin Before(given, f)
    BY DEF Before
  <2> QED
    BY <1>2, <1>8, <2>1, <2>2, Countable, FS_AddElement
<1>14. f + 3 <= Len(given)
  BY <1>2, <1>6 DEF OwnLines
<1>15. f + 3 = PieceStart(given, (n + 1) + 1)
  <2>1. (n + 1) + 1 # 1 /\ ((n + 1) + 1) - 1 = n + 1
    OBVIOUS
  <2> QED
    BY <1>6, <1>9, <2>1 DEF PieceStart
<1>16. Counted(given, n + 1)
  <2>1. ASSUME NEW k \in 1..(n + 1)
        PROVE  /\ Separated(given, k) \in Separators(given)
               /\ Cardinality(Before(given, Separated(given, k))) = k - 1
    <3>1. CASE k \in 1..n
      BY <1>3, <3>1 DEF PiecesSent, Counted
    <3>2. CASE k = n + 1
      BY <1>6, <1>8, <1>9, <3>2
    <3> QED
      BY <3>1, <3>2
  <2> QED
    BY <2>1 DEF Counted
<1>17. \A k \in 1..(n + 1) : commands'[k] = Sent(given, k)
  <2>1. ASSUME NEW k \in 1..(n + 1)
        PROVE  commands'[k] = Sent(given, k)
    <3>1. CASE k \in 1..n
      BY <1>3, <1>12, <3>1 DEF PiecesSent
    <3>2. CASE k = n + 1
      BY <1>12, <3>2
    <3> QED
      BY <3>1, <3>2
  <2> QED
    BY <2>1
<1> QED
  BY <1>11, <1>12, <1>13, <1>14, <1>15, <1>16, <1>17 DEF PiecesSent

\* The last turn sends what is behind the last separator.
LEMMA LastPieceSent ==
  ASSUME TypeOK, OwnLines(given), PiecesSent, LastPiece
  PROVE  AllSent'
<1>1. phase = "parse" /\ next = NPos
  BY DEF LastPiece
<1>2. /\ subject = given /\ given \in Text
      /\ Len(given) \in Nat /\ pos \in Nat
      /\ commands \in Seq(Text) /\ Len(commands) \in Nat
  BY <1>1, Parsing
<1>3. PICK n \in Nat : n = Len(commands)
  BY <1>2
<1>4. Before(given, pos) = Separators(given)
  <2>1. \A i \in pos..Len(given) : ~Occurs(given, Separator, i)
    <3>1. ~(next \in pos..(Len(subject) - 2))
      BY <1>1, <1>2 DEF NPos
    <3> QED
      BY <1>1, <1>2, <3>1, SoughtSeparator
  <2>2. ASSUME NEW j \in Separators(given)
        PROVE  j < pos
    <3>1. j \in 0..Len(given) /\ Occurs(given, Separator, j)
      BY DEF Separators
    <3> QED
      BY <1>2, <2>1, <3>1
  <2> QED
    BY <2>2 DEF Before
<1>5. Cardinality(Separators(given)) = n /\ PieceCount(given) = n + 1
  BY <1>3, <1>4 DEF PiecesSent, PieceCount
<1>6. Sent(given, n + 1) = SubSeq(given, pos + 1, Len(given))
  <2>1. PieceStart(given, n + 1) = pos /\ PieceEnd(given, n + 1) = Len(given)
    BY <1>3, <1>5 DEF PiecesSent, PieceEnd
  <2>2. AtMost(pos + Len(given), Len(given)) = Len(given)
    BY <1>2 DEF AtMost
  <2> QED
    BY <2>1, <2>2 DEF Sent, substr
<1>7. /\ given' = given
      /\ commands' = Append(commands, Sent(given, n + 1))
  BY <1>2, <1>6 DEF LastPiece
<1>8. /\ Len(commands') = n + 1
      /\ \A k \in 1..n : commands'[k] = commands[k]
      /\ commands'[n + 1] = Sent(given, n + 1)
  BY <1>2, <1>3, <1>7
<1>9. \A k \in 1..(n + 1) : commands'[k] = Sent(given, k)
  <2>1. ASSUME NEW k \in 1..(n + 1)
        PROVE  commands'[k] = Sent(given, k)
    <3>1. CASE k \in 1..n
      BY <1>3, <1>8, <3>1 DEF PiecesSent
    <3>2. CASE k = n + 1
      BY <1>8, <3>2
    <3> QED
      BY <3>1, <3>2
  <2> QED
    BY <2>1
<1>10. Counted(given, n)
  BY <1>3 DEF PiecesSent
<1> QED
  BY <1>5, <1>7, <1>8, <1>9, <1>10 DEF AllSent

\* Every step keeps the pieces.
LEMMA ParseStep ==
  ASSUME TypeOK, ParseInv, [Next]_vars
  PROVE  ParseInv'
<1>1. CASE NextPiece
  <2>1. phase = "parse" /\ phase' = "parse" /\ given' = given /\ next # NPos
    BY <1>1 DEF NextPiece
  <2>2. BehindSeparator'
    <3>1. subject = given /\ given \in Text /\ Len(given) \in Nat /\ pos \in Nat
      BY <2>1, Parsing
    <3>2. next \in pos..(Len(given) - 2) /\ Occurs(given, Separator, next)
      BY <2>1, <3>1, SoughtSeparator
    <3>3. PICK f \in Nat : f = next
      BY <3>1, <3>2
    <3>4. Skip = 3 /\ pos' = f + 3
      BY <1>1, <3>3 DEF NextPiece, Skip, Separator
    <3>5. f \in Separators(given) /\ (f + 3) - 3 = f
      BY <3>1, <3>2, <3>3 DEF Separators
    <3> QED
      BY <2>1, <3>4, <3>5 DEF BehindSeparator
  <2>3. OwnLines(given) => PiecesSent'
    BY <1>1, <2>1, PieceSent DEF ParseInv
  <2> QED
    BY <2>1, <2>2, <2>3 DEF ParseInv, ThrowsOnlyAtTheEnd
<1>2. CASE LastPiece
  <2>1. phase = "parse" /\ phase' = "parsed" /\ given' = given
    BY <1>2 DEF LastPiece
  <2>2. OwnLines(given) => AllSent'
    BY <1>2, <2>1, LastPieceSent DEF ParseInv
  <2> QED
    BY <2>1, <2>2 DEF ParseInv, ThrowsOnlyAtTheEnd
<1>3. CASE LastPieceThrows
  <2>1. /\ phase = "parse" /\ phase' = "terminated" /\ given' = given
        /\ pos > Len(subject)
    BY <1>3 DEF LastPieceThrows
  <2>2. /\ subject = given /\ given \in Seq(Characters)
        /\ Len(given) \in Nat /\ pos \in Nat
    BY <2>1, Parsing
  <2>3. pos >= Skip /\ pos - Skip \in Separators(given)
    BY <2>1, <2>2 DEF ParseInv, BehindSeparator
  <2>4. Skip = 3 /\ Len(Separator) = 2
    BY DEF Skip, Separator
  <2>5. pos - 3 \in Nat /\ Occurs(given, Separator, pos - 3)
    BY <2>2, <2>3, <2>4 DEF Separators
  <2>6. (pos - 3) + 2 <= Len(given)
    BY <2>2, <2>5, SeparatorOccurs
  <2>7. pos - 3 = Len(given) - 2 /\ Len(given) >= 2
    BY <2>1, <2>2, <2>3, <2>4, <2>6
  <2>8. ThrowsOnlyAtTheEnd'
    BY <2>1, <2>4, <2>5, <2>7 DEF ThrowsOnlyAtTheEnd
  <2> QED
    BY <2>1, <2>8 DEF ParseInv
<1>4. CASE ReplaceOne \/ EndComment \/ EndPath
  <2>1. phase' \in {"comment", "path", "commented", "located"}
    BY <1>4 DEF ReplaceOne, EndComment, EndPath
  <2> QED
    BY <2>1 DEF ParseInv, ThrowsOnlyAtTheEnd
<1>5. CASE UNCHANGED vars
  <2>1. /\ phase' = phase /\ given' = given /\ pos' = pos /\ commands' = commands
    BY <1>5 DEF vars
  <2> QED
    BY <2>1 DEF ParseInv, BehindSeparator, PiecesSent, AllSent, ThrowsOnlyAtTheEnd
<1> QED
  BY <1>1, <1>2, <1>3, <1>4, <1>5 DEF Next

\* Nothing is sent at first.
LEMMA InitParse == Init => ParseInv
<1> SUFFICES ASSUME Init PROVE ParseInv
  OBVIOUS
<1>1. pos = 0 /\ commands = <<>> /\ Len(commands) = 0
  BY DEF Init
<1>2. phase \in {"parse", "comment", "path"} /\ given \in Text
  BY TextsAssumption DEF Init
<1>3. PiecesSent
  <2>1. Before(given, 0) = {}
    <3>1. \A j \in Separators(given) : ~(j < 0)
      BY <1>2, Countable
    <3> QED
      BY <3>1 DEF Before
  <2>2. Cardinality(Before(given, 0)) = 0
    BY <2>1, FS_EmptySet
  <2>3. PieceStart(given, 0 + 1) = 0
    BY DEF PieceStart
  <2>4. 0 <= Len(given)
    BY <1>2, Countable
  <2> QED
    BY <1>1, <2>2, <2>3, <2>4 DEF PiecesSent, Counted
<1> QED
  BY <1>1, <1>2, <1>3 DEF ParseInv, BehindSeparator, ThrowsOnlyAtTheEnd

\* The pieces of every reachable state.
LEMMA Parsed == Spec => [](TypeOK /\ ParseInv)
<1>1. Init => TypeOK /\ ParseInv
  BY InitTyped, InitParse
<1>2. TypeOK /\ ParseInv /\ [Next]_vars => (TypeOK /\ ParseInv)'
  BY TypeStep, ParseStep
<1> QED
  BY <1>1, <1>2, PTL DEF Spec

\* A part of a text that ends earlier is a prefix of one that ends later.
LEMMA PrefixOfPart ==
  ASSUME NEW S, NEW s \in Seq(S), NEW a \in Nat, NEW e \in 0..Len(s),
         NEW f \in e..Len(s)
  PROVE  IsPrefix(SubSeq(s, a + 1, e), SubSeq(s, a + 1, f))
<1>1. PICK u \in Seq(S) : u = SubSeq(s, a + 1, e)
  BY Part
<1>2. PICK v \in Seq(S) : v = SubSeq(s, a + 1, f)
  <2>1. f \in 0..Len(s)
    OBVIOUS
  <2> QED
    BY <2>1, Part
<1>3. Len(u) = (IF a <= e THEN e - a ELSE 0) /\ \A i \in 1..(e - a) : u[i] = s[a + i]
  BY <1>1, Part
<1>4. Len(v) = (IF a <= f THEN f - a ELSE 0) /\ \A i \in 1..(f - a) : v[i] = s[a + i]
  <2>1. f \in 0..Len(s)
    OBVIOUS
  <2> QED
    BY <1>2, <2>1, Part
<1>5. PICK n \in Nat : n = Len(u)
  <2>1. Len(u) \in Nat
    OBVIOUS
  <2> QED
    BY <2>1
<1>6. /\ n <= Len(v) /\ \A i \in 1..n : u[i] = v[i]
  <2>1. n = IF a <= e THEN e - a ELSE 0
    BY <1>3, <1>5
  <2>2. n <= Len(v)
    BY <1>4, <2>1
  <2>3. ASSUME NEW i \in 1..n
        PROVE  u[i] = v[i]
    <3>1. i \in 1..(e - a) /\ i \in 1..(f - a)
      BY <2>1
    <3> QED
      BY <1>3, <1>4, <3>1
  <2> QED
    BY <2>2, <2>3
<1>7. SubSeq(u, 1, n) = u
  BY <1>5
<1>8. SubSeq(v, 1, n) = u
  <2>1. /\ SubSeq(v, 1, n) \in Seq(S) /\ Len(SubSeq(v, 1, n)) = n
        /\ \A i \in 1..n : SubSeq(v, 1, n)[i] = v[i]
    BY <1>5, <1>6
  <2> QED
    BY <1>5, <1>6, <2>1, SeqEqual
<1> QED
  BY <1>1, <1>2, <1>5, <1>6, <1>7, <1>8 DEF IsPrefix

\* Where the pieces of a text start and end.
LEMMA PieceBounds ==
  ASSUME NEW s \in Text, OwnLines(s), NEW n \in Nat, Counted(s, n),
         n <= Cardinality(Separators(s)), NEW k \in 1..(n + 1)
  PROVE  /\ PieceStart(s, k) \in 0..Len(s)
         /\ k <= n => PieceEnd(s, k) = Separated(s, k)
         /\ k <= n \/ k = PieceCount(s) => PieceEnd(s, k) \in 0..Len(s)
<1>1. Len(s) \in Nat /\ Separators(s) \subseteq 0..Len(s)
  BY Countable
<1>2. PieceStart(s, k) \in 0..Len(s)
  <2>1. CASE k = 1
    BY <1>1, <2>1 DEF PieceStart
  <2>2. CASE k # 1
    <3>1. k - 1 \in 1..n
      BY <2>2
    <3>2. Separated(s, k - 1) \in Separators(s)
      BY <3>1 DEF Counted
    <3>3. Separated(s, k - 1) + Skip <= Len(s) /\ Separated(s, k - 1) \in Nat
      BY <1>1, <3>2 DEF OwnLines
    <3>4. Skip = 3
      BY DEF Skip, Separator
    <3> QED
      BY <1>1, <2>2, <3>3, <3>4 DEF PieceStart
  <2> QED
    BY <2>1, <2>2
<1>3. k <= n => PieceEnd(s, k) = Separated(s, k)
  BY Countable DEF PieceEnd, PieceCount
<1>4. k <= n => PieceEnd(s, k) \in 0..Len(s)
  BY <1>1, <1>3 DEF Counted
<1>5. k = PieceCount(s) => PieceEnd(s, k) \in 0..Len(s)
  BY <1>1 DEF PieceEnd
<1> QED
  BY <1>2, <1>3, <1>4, <1>5

\* Every command has its piece in front.
LEMMA BeginsRight ==
  ASSUME NEW s \in Text, OwnLines(s), NEW n \in Nat, Counted(s, n),
         n <= Cardinality(Separators(s)), NEW k \in 1..(n + 1),
         k <= n \/ k = PieceCount(s)
  PROVE  IsPrefix(Pieces(s)[k], Sent(s, k))
<1>1. s \in Seq(Characters) /\ Len(s) \in Nat /\ Cardinality(Separators(s)) \in Nat
  BY Countable DEF Text
<1>2. PICK a \in Nat : a = PieceStart(s, k) /\ a <= Len(s)
  BY <1>1, PieceBounds
<1>3. PICK e \in 0..Len(s) : e = PieceEnd(s, k)
  BY <1>1, PieceBounds
<1>4. Pieces(s)[k] = SubSeq(s, a + 1, e)
  <2>1. k \in 1..PieceCount(s)
    BY <1>1 DEF PieceCount
  <2> QED
    BY <1>2, <1>3, <2>1 DEF Pieces
<1>5. PICK f \in e..Len(s) : f = AtMost(a + e, Len(s))
  BY <1>1, <1>2, <1>3 DEF AtMost
<1>6. Sent(s, k) = SubSeq(s, a + 1, f)
  BY <1>2, <1>3, <1>5 DEF Sent, substr
<1> QED
  BY <1>1, <1>2, <1>3, <1>4, <1>5, <1>6, PrefixOfPart

\* The first piece and the last are sent as they are.
LEMMA SentExactly ==
  ASSUME NEW s \in Text, NEW k \in 1..PieceCount(s), k = 1 \/ k = PieceCount(s),
         PieceStart(s, k) \in 0..Len(s), PieceEnd(s, k) \in 0..Len(s)
  PROVE  Sent(s, k) = Pieces(s)[k]
<1>1. Len(s) \in Nat
  BY Countable
<1>2. Pieces(s)[k] = SubSeq(s, PieceStart(s, k) + 1, PieceEnd(s, k))
  BY DEF Pieces
<1>3. AtMost(PieceStart(s, k) + PieceEnd(s, k), Len(s)) = PieceEnd(s, k)
  <2>1. CASE k = 1
    BY <1>1, <2>1 DEF PieceStart, AtMost
  <2>2. CASE k = PieceCount(s)
    BY <1>1, <2>2 DEF PieceEnd, AtMost
  <2> QED
    BY <2>1, <2>2
<1> QED
  BY <1>2, <1>3 DEF Sent, substr

\* The second piece of three or more is sent too long.
LEMMA SentTooLong ==
  ASSUME NEW s \in Text, OwnLines(s), Cardinality(Separators(s)) >= 2,
         Counted(s, Cardinality(Separators(s)))
  PROVE  Sent(s, 2) # Pieces(s)[2]
<1>1. s \in Seq(Characters) /\ Len(s) \in Nat /\ Cardinality(Separators(s)) \in Nat
  BY Countable DEF Text
<1>2. PICK i \in Separators(s) : i = Separated(s, 1) /\ Cardinality(Before(s, i)) = 0
  <2>1. 1 \in 1..Cardinality(Separators(s)) /\ 1 - 1 = 0
    BY <1>1
  <2> QED
    BY <2>1 DEF Counted
<1>3. PICK j \in Separators(s) : j = Separated(s, 2) /\ Cardinality(Before(s, j)) = 1
  <2>1. 2 \in 1..Cardinality(Separators(s)) /\ 2 - 1 = 1
    BY <1>1
  <2> QED
    BY <2>1 DEF Counted
<1>4. i \in Nat /\ j \in Nat /\ j + 2 <= Len(s)
  <2>1. i \in Nat /\ j \in Nat /\ Occurs(s, Separator, j)
    BY Countable DEF Separators
  <2> QED
    BY <1>1, <2>1, SeparatorOccurs
<1>5. i + 3 <= j
  <2>1. ~(j < i)
    <3>1. j < i => Cardinality(Before(s, j)) + 1 <= Cardinality(Before(s, i))
      BY <1>4, MoreBefore
    <3> QED
      BY <1>2, <1>3, <3>1
  <2>2. i # j
    BY <1>2, <1>3
  <2> QED
    BY <1>4, <2>1, <2>2, Gap
<1>6. PieceStart(s, 2) = i + 3
  BY <1>2 DEF PieceStart, Skip, Separator
<1>7. PieceEnd(s, 2) = j
  BY <1>1, <1>3 DEF PieceEnd, PieceCount
<1>8. PICK a \in Nat : a = i + 3
  BY <1>4
<1>9. Pieces(s)[2] = SubSeq(s, a + 1, j)
  <2>1. 2 \in 1..PieceCount(s)
    BY <1>1 DEF PieceCount
  <2> QED
    BY <1>6, <1>7, <1>8, <2>1 DEF Pieces
<1>10. PICK f \in (j + 1)..Len(s) : f = AtMost(a + j, Len(s))
  BY <1>1, <1>4, <1>8 DEF AtMost
<1>11. Sent(s, 2) = SubSeq(s, a + 1, f)
  BY <1>6, <1>7, <1>8, <1>10 DEF Sent, substr
<1>12. Len(SubSeq(s, a + 1, j)) = j - a
  <2>1. a <= j /\ j \in 0..Len(s)
    BY <1>1, <1>4, <1>5, <1>8
  <2> QED
    BY <1>1, <2>1, Part
<1>13. Len(SubSeq(s, a + 1, f)) = f - a
  <2>1. a <= f /\ f \in 0..Len(s)
    BY <1>1, <1>4, <1>5, <1>8, <1>10
  <2> QED
    BY <1>1, <2>1, Part
<1>14. j - a # f - a
  BY <1>1, <1>4, <1>8, <1>10
<1> QED
  BY <1>9, <1>11, <1>12, <1>13, <1>14

\* A file whose separators end their lines is sent as its pieces if it has one
\* separator at most, and only then.  With more of them no command is missing and
\* each begins with its piece, but some run on into the pieces behind.  The
\* program ends for the sake of a file only if that file ends with a separator,
\* without so much as a newline.
THEOREM ProceduresAreSent == Spec => []ProceduresSent
<1>1. ASSUME TypeOK, ParseInv
      PROVE  ProceduresSent
  <2>1. commands \in Seq(Text) /\ given \in Text
    BY <1>1 DEF TypeOK
  <2>2. /\ Cardinality(Separators(given)) \in Nat
        /\ PieceCount(given) = Cardinality(Separators(given)) + 1
    BY <2>1, Countable DEF PieceCount
  <2>3. ASSUME phase = "parsed", OwnLines(given)
        PROVE  AllSent
    BY <1>1, <2>3 DEF ParseInv
  <2>4. OneSeparatorIsExact
    <3> SUFFICES ASSUME phase = "parsed", OwnLines(given)
                 PROVE  commands = Pieces(given)
                          <=> Cardinality(Separators(given)) <= 1
      BY DEF OneSeparatorIsExact
    <3>1. PICK n \in Nat : n = Cardinality(Separators(given))
      BY <2>2
    <3>2. Len(commands) = n + 1 /\ Counted(given, n) /\ PieceCount(given) = n + 1
      BY <2>2, <2>3, <3>1 DEF AllSent
    <3>3. \A k \in 1..(n + 1) : commands[k] = Sent(given, k)
      BY <2>3, <3>2 DEF AllSent
    <3>4. ASSUME n <= 1
          PROVE  commands = Pieces(given)
      <4>1. ASSUME NEW k \in 1..(n + 1)
            PROVE  commands[k] = Pieces(given)[k]
        <5>1. k = 1 \/ k = PieceCount(given)
          BY <3>2, <3>4
        <5>2. PieceStart(given, k) \in 0..Len(given)
          BY <2>1, <3>1, <3>2, PieceBounds
        <5>3. PieceEnd(given, k) \in 0..Len(given)
          BY <2>1, <3>1, <3>2, PieceBounds
        <5> QED
          BY <2>1, <3>2, <3>3, <5>1, <5>2, <5>3, SentExactly
      <4>2. commands = [k \in 1..(n + 1) |-> commands[k]]
        BY <2>1, <3>2
      <4>3. Pieces(given) = [k \in 1..(n + 1) |-> Pieces(given)[k]]
        BY <3>2 DEF Pieces
      <4> QED
        BY <4>1, <4>2, <4>3
    <3>5. ASSUME ~(n <= 1)
          PROVE  commands # Pieces(given)
      <4>1. Sent(given, 2) # Pieces(given)[2]
        BY <2>1, <3>1, <3>2, <3>5, SentTooLong
      <4>2. commands[2] = Sent(given, 2)
        BY <3>3, <3>5
      <4> QED
        BY <4>1, <4>2
    <3> QED
      BY <3>1, <3>4, <3>5
  <2>5. CommandsBeginRight
    <3> SUFFICES ASSUME OwnLines(given), phase \in {"parse", "parsed"}
                 PROVE  /\ \A i \in 1..Len(commands) :
                             IsPrefix(Pieces(given)[i], commands[i])
                        /\ phase = "parsed" => Len(commands) = Len(Pieces(given))
      BY DEF CommandsBeginRight
    <3>1. CASE phase = "parse"
      <4>1. PiecesSent
        BY <1>1, <3>1 DEF ParseInv
      <4>2. PICK n \in Nat : n = Len(commands)
        BY <2>1
      <4>3. n <= Cardinality(Separators(given)) /\ Counted(given, n)
        BY <2>1, <4>1, <4>2, Countable DEF PiecesSent
      <4>4. ASSUME NEW i \in 1..n
            PROVE  IsPrefix(Pieces(given)[i], commands[i])
        <5>1. commands[i] = Sent(given, i)
          BY <4>1, <4>2 DEF PiecesSent
        <5>2. i \in 1..(n + 1) /\ i <= n
          OBVIOUS
        <5> QED
          BY <2>1, <4>3, <5>1, <5>2, BeginsRight
      <4> QED
        BY <3>1, <4>2, <4>4
    <3>2. CASE phase = "parsed"
      <4>1. AllSent
        BY <2>3, <3>2
      <4>2. PICK n \in Nat : n = Cardinality(Separators(given))
        BY <2>2
      <4>3. PieceCount(given) = n + 1 /\ Len(commands) = n + 1 /\ Counted(given, n)
        BY <2>2, <4>1, <4>2 DEF AllSent
      <4>4. ASSUME NEW i \in 1..(n + 1)
            PROVE  IsPrefix(Pieces(given)[i], commands[i])
        <5>1. commands[i] = Sent(given, i)
          BY <4>1, <4>3 DEF AllSent
        <5>2. i <= n \/ i = PieceCount(given)
          BY <4>3
        <5> QED
          BY <2>1, <4>2, <4>3, <5>1, <5>2, BeginsRight
      <4>5. Len(Pieces(given)) = n + 1
        BY <4>3 DEF Pieces
      <4> QED
        BY <4>3, <4>4, <4>5
    <3> QED
      BY <3>1, <3>2
  <2> QED
    BY <1>1, <2>4, <2>5 DEF ProceduresSent, ParseInv
<1> QED
  BY <1>1, Parsed, PTL

-----------------------------------------------------------------------------
(* What replace has done to a literal. *)

\* Where the i-th character of s is when every c of it is doubled: the second of
\* the two if it is a c itself.
Offset(s, c, i) == i + Cardinality({j \in 1..i : s[j] = c})

\* It moves on by one, or by two over a c.
LEMMA OffsetStep ==
  ASSUME NEW s, NEW c, NEW i \in Nat
  PROVE  /\ Offset(s, c, i) \in Nat /\ i <= Offset(s, c, i)
         /\ s[i + 1] = c => Offset(s, c, i + 1) = Offset(s, c, i) + 2
         /\ s[i + 1] # c => Offset(s, c, i + 1) = Offset(s, c, i) + 1
         /\ Offset(s, c, 0) = 0
<1> DEFINE C(n) == {j \in 1..n : s[j] = c}
<1>1. IsFiniteSet(C(i)) /\ Cardinality(C(i)) \in Nat
  <2>1. IsFiniteSet(1..i)
    BY FS_Interval
  <2>2. C(i) \in SUBSET (1..i)
    OBVIOUS
  <2> QED
    BY <2>1, <2>2, FS_Subset, FS_CardinalityType
<1>2. s[i + 1] = c => Cardinality(C(i + 1)) = Cardinality(C(i)) + 1
  <2> SUFFICES ASSUME s[i + 1] = c
               PROVE  Cardinality(C(i + 1)) = Cardinality(C(i)) + 1
    OBVIOUS
  <2>1. C(i + 1) = C(i) \cup {i + 1} /\ i + 1 \notin C(i)
    OBVIOUS
  <2> HIDE DEF C
  <2> QED
    BY <1>1, <2>1, FS_AddElement
<1>3. s[i + 1] # c => C(i + 1) = C(i)
  OBVIOUS
<1>4. Cardinality(C(0)) = 0
  <2>1. C(0) = {}
    OBVIOUS
  <2> HIDE DEF C
  <2> QED
    BY <2>1, FS_EmptySet
<1>5. \A n : Offset(s, c, n) = n + Cardinality(C(n))
  BY DEF Offset
<1> HIDE DEF C
<1> QED
  BY <1>1, <1>2, <1>3, <1>4, <1>5

\* It moves on with every character.
LEMMA OffsetGrows ==
  ASSUME NEW s, NEW c, NEW i \in Nat, NEW k \in Nat, i <= k
  PROVE  Offset(s, c, i) <= Offset(s, c, k)
<1>1. IsFiniteSet(1..k)
  BY FS_Interval
<1>2. IsFiniteSet({j \in 1..k : s[j] = c})
  <2>1. {j \in 1..k : s[j] = c} \in SUBSET (1..k)
    OBVIOUS
  <2> QED
    BY <1>1, <2>1, FS_Subset
<1>3. {j \in 1..i : s[j] = c} \in SUBSET {j \in 1..k : s[j] = c}
  OBVIOUS
<1>4. PICK a \in Nat : a = Cardinality({j \in 1..i : s[j] = c})
  BY <1>2, <1>3, FS_Subset, FS_CardinalityType
<1>5. PICK b \in Nat : b = Cardinality({j \in 1..k : s[j] = c})
  BY <1>2, FS_CardinalityType
<1>6. a <= b
  BY <1>2, <1>3, <1>4, <1>5, FS_Subset
<1> QED
  BY <1>4, <1>5, <1>6 DEF Offset

\* As long as there is no c, by as much as there are characters.
LEMMA OffsetKept ==
  ASSUME NEW s, NEW c, NEW i \in Nat, NEW k \in Nat, i <= k,
         \A j \in (i + 1)..k : s[j] # c
  PROVE  Offset(s, c, k) = Offset(s, c, i) + (k - i)
<1>1. {j \in 1..k : s[j] = c} = {j \in 1..i : s[j] = c}
  <2>1. ASSUME NEW j \in 1..k, s[j] = c
        PROVE  j \in 1..i
    <3>1. ~(j \in (i + 1)..k)
      BY <2>1
    <3> QED
      BY <3>1
  <2> QED
    BY <2>1
<1>2. Offset(s, c, i) \in Nat
  BY OffsetStep
<1>3. PICK n : n = Cardinality({j \in 1..i : s[j] = c})
  OBVIOUS
<1>4. Offset(s, c, i) = i + n /\ Offset(s, c, k) = k + n
  BY <1>1, <1>3 DEF Offset
<1>5. n \in Nat
  <2>1. IsFiniteSet(1..i)
    BY FS_Interval
  <2>2. {j \in 1..i : s[j] = c} \in SUBSET (1..i)
    OBVIOUS
  <2>3. IsFiniteSet({j \in 1..i : s[j] = c})
    BY <2>1, <2>2, FS_Subset
  <2> QED
    BY <1>3, <2>3, FS_CardinalityType
<1> QED
  BY <1>4, <1>5

\* In t, the first k characters of s are at their offsets, and each c of them is
\* behind another.
Placed(t, s, c, k) ==
  \A j \in 1..k : /\ t[Offset(s, c, j)] = s[j]
                  /\ s[j] = c => t[Offset(s, c, j) - 1] = c

\* The rest of s follows them as it is.
Rest(t, s, c, k) ==
  /\ Len(t) = Offset(s, c, k) + (Len(s) - k)
  /\ \A j \in (k + 1)..Len(s) : t[Offset(s, c, k) + (j - k)] = s[j]

\* t is s with every c doubled.
Doubled(t, s, c) ==
  t \in Seq(Characters) /\ Len(t) = Offset(s, c, Len(s)) /\ Placed(t, s, c, Len(s))

\* replace is done with the characters before pos, and not with any other.
LiteralInv ==
  /\ phase \in {"comment", "path"} =>
       \E k \in 0..Len(given) : /\ pos = Offset(given, sought, k)
                                /\ Placed(subject, given, sought, k)
                                /\ Rest(subject, given, sought, k)
  /\ phase = "commented" => Doubled(subject, given, Quote)
  /\ phase = "located" =>
       \E t \in Seq(Characters) : /\ Doubled(t, given, Backslash)
                                  /\ subject = t \o <<Backslash, Backslash>>

\* One turn of replace more.
LEMMA DoublesOne ==
  ASSUME NEW s \in Seq(Characters), NEW c, NEW k \in 0..Len(s),
         NEW t \in Seq(Characters), Placed(t, s, c, k), Rest(t, s, c, k),
         NEW at \in Offset(s, c, k)..(Len(t) - 1), t[at + 1] = c,
         \A i \in (Offset(s, c, k) + 1)..at : t[i] # c,
         NEW u \in Seq(Characters), DoubledAt(t, u, at, c)
  PROVE  \E n \in 0..Len(s) : /\ at + 2 = Offset(s, c, n)
                              /\ Placed(u, s, c, n)
                              /\ Rest(u, s, c, n)
<1>1. PICK p \in Nat : p = Offset(s, c, k)
  BY OffsetStep
<1>2. PICK l \in Nat : l = Len(s) /\ k \in 0..l
  OBVIOUS
<1>3. Len(t) = p + (l - k) /\ \A j \in (k + 1)..l : t[p + (j - k)] = s[j]
  BY <1>1, <1>2 DEF Rest
<1>4. PICK m \in Nat : at = p + m /\ k + m + 1 <= l
  <2>1. at - p \in Nat /\ at = p + (at - p) /\ k + (at - p) + 1 <= l
    BY <1>1, <1>2, <1>3
  <2> QED
    BY <2>1
<1>5. ASSUME NEW j \in (k + 1)..(k + m)
      PROVE  s[j] # c
  <2>1. j \in (k + 1)..l /\ p + (j - k) \in (p + 1)..at
    BY <1>2, <1>4
  <2> QED
    BY <1>1, <1>3, <2>1
<1>6. s[k + m + 1] = c
  <2>1. k + m + 1 \in (k + 1)..l /\ p + ((k + m + 1) - k) = at + 1
    BY <1>2, <1>4
  <2> QED
    BY <1>3, <2>1
<1>7. PICK n \in Nat : n = k + m + 1
  BY <1>2
<1>8. ASSUME NEW j \in k..(k + m)
      PROVE  Offset(s, c, j) = p + (j - k)
  <2>1. j \in Nat /\ k \in Nat /\ k <= j /\ \A i \in (k + 1)..j : s[i] # c
    BY <1>2, <1>5
  <2> QED
    BY <1>1, <2>1, OffsetKept
<1>9. Offset(s, c, n) = at + 2
  <2>1. Offset(s, c, k + m) = at
    BY <1>2, <1>4, <1>8
  <2> QED
    BY <1>2, <1>6, <1>7, <2>1, OffsetStep
<1>10. /\ Len(u) = Len(t) + 1
       /\ \A i \in 1..at : u[i] = t[i]
       /\ u[at + 1] = c /\ u[at + 2] = c
       /\ \A i \in (at + 3)..(Len(t) + 1) : u[i] = t[i - 1]
  BY DEF DoubledAt
<1>11. ASSUME NEW j \in 1..n
       PROVE  /\ u[Offset(s, c, j)] = s[j]
              /\ s[j] = c => u[Offset(s, c, j) - 1] = c
  <2>1. CASE j \in 1..k
    <3>1. j \in Nat /\ k \in Nat /\ j <= k /\ j >= 1
      BY <1>2, <2>1
    <3>2. PICK o \in Nat : o = Offset(s, c, j) /\ 1 <= o /\ o <= p
      BY <1>1, <3>1, OffsetStep, OffsetGrows
    <3>3. s[j] = c => o >= 2
      <4>1. j - 1 \in Nat /\ (j - 1) + 1 = j
        BY <3>1
      <4>2. Offset(s, c, j - 1) \in Nat
        BY <4>1, OffsetStep
      <4>3. s[j] = c => o = Offset(s, c, j - 1) + 2
        BY <3>2, <4>1, OffsetStep
      <4> QED
        BY <4>2, <4>3
    <3>4. t[o] = s[j] /\ (s[j] = c => t[o - 1] = c)
      BY <2>1, <3>2 DEF Placed
    <3>5. u[o] = t[o] /\ (s[j] = c => u[o - 1] = t[o - 1])
      BY <1>4, <1>10, <3>2, <3>3
    <3> QED
      BY <3>2, <3>4, <3>5
  <2>2. CASE j \in (k + 1)..(k + m)
    <3>1. Offset(s, c, j) = p + (j - k)
      BY <1>2, <1>8, <2>2
    <3>2. p + (j - k) \in 1..at /\ j \in (k + 1)..l
      BY <1>2, <1>4, <2>2
    <3> QED
      BY <1>3, <1>5, <1>10, <2>2, <3>1, <3>2
  <2>3. CASE j = n
    <3>1. (at + 2) - 1 = at + 1
      BY <1>4
    <3> QED
      BY <1>6, <1>7, <1>9, <1>10, <2>3, <3>1
  <2> QED
    BY <1>2, <1>7, <2>1, <2>2, <2>3
<1>12. Len(u) = (at + 2) + (l - n)
  BY <1>2, <1>3, <1>4, <1>7, <1>10
<1>13. ASSUME NEW j \in (n + 1)..l
       PROVE  u[(at + 2) + (j - n)] = s[j]
  <2>1. PICK i \in Nat : i = (at + 2) + (j - n)
    BY <1>4, <1>7
  <2>2. i \in (at + 3)..(Len(t) + 1) /\ i - 1 = p + (j - k)
    BY <1>2, <1>3, <1>4, <1>7, <2>1
  <2>3. u[i] = t[p + (j - k)]
    BY <1>10, <2>2
  <2>4. j \in (k + 1)..l
    BY <1>2, <1>7
  <2> QED
    BY <1>3, <2>1, <2>3, <2>4
<1>14. n \in 0..l
  BY <1>2, <1>4, <1>7
<1>15. Placed(u, s, c, n)
  BY <1>11 DEF Placed
<1>16. Rest(u, s, c, n)
  BY <1>2, <1>9, <1>12, <1>13 DEF Rest
<1> QED
  BY <1>2, <1>9, <1>14, <1>15, <1>16

\* When there is nothing left to double, all of s has been placed.
LEMMA DoublesAll ==
  ASSUME NEW s \in Seq(Characters), NEW c, NEW k \in 0..Len(s),
         NEW t \in Seq(Characters), Placed(t, s, c, k), Rest(t, s, c, k),
         \A i \in (Offset(s, c, k) + 1)..Len(t) : t[i] # c
  PROVE  Doubled(t, s, c)
<1>1. PICK p \in Nat : p = Offset(s, c, k)
  BY OffsetStep
<1>2. PICK l \in Nat : l = Len(s) /\ k \in 0..l
  OBVIOUS
<1>3. Len(t) = p + (l - k) /\ \A j \in (k + 1)..l : t[p + (j - k)] = s[j]
  BY <1>1, <1>2 DEF Rest
<1>4. ASSUME NEW j \in (k + 1)..l
      PROVE  s[j] # c
  <2>1. p + (j - k) \in (p + 1)..Len(t)
    BY <1>2, <1>3
  <2> QED
    BY <1>1, <1>3, <2>1
<1>5. ASSUME NEW j \in k..l
      PROVE  Offset(s, c, j) = p + (j - k)
  <2>1. j \in Nat /\ k \in Nat /\ k <= j /\ \A i \in (k + 1)..j : s[i] # c
    BY <1>2, <1>4
  <2> QED
    BY <1>1, <2>1, OffsetKept
<1>6. Len(t) = Offset(s, c, l)
  BY <1>2, <1>3, <1>5
<1>7. ASSUME NEW j \in 1..l
      PROVE  /\ t[Offset(s, c, j)] = s[j]
             /\ s[j] = c => t[Offset(s, c, j) - 1] = c
  <2>1. CASE j \in 1..k
    BY <2>1 DEF Placed
  <2>2. CASE j \in (k + 1)..l
    BY <1>2, <1>3, <1>4, <1>5, <2>2
  <2> QED
    BY <1>2, <2>1, <2>2
<1> QED
  BY <1>2, <1>6, <1>7 DEF Doubled, Placed

\* Every step keeps the literals.
LEMMA LiteralStep ==
  ASSUME TypeOK, LiteralInv, [Next]_vars
  PROVE  LiteralInv'
<1>1. CASE NextPiece \/ LastPiece \/ LastPieceThrows
  <2>1. phase' \in {"parse", "parsed", "terminated"}
    BY <1>1 DEF NextPiece, LastPiece, LastPieceThrows
  <2> QED
    BY <2>1 DEF LiteralInv
<1>2. ASSUME phase \in {"comment", "path"}
      PROVE  \E k \in 0..Len(given) :
               /\ pos = Offset(given, sought, k)
               /\ Placed(subject, given, sought, k)
               /\ Rest(subject, given, sought, k)
  BY <1>2 DEF LiteralInv
<1>3. subject \in Seq(Characters) /\ given \in Seq(Characters)
  BY DEF TypeOK, Text
<1>4. CASE ReplaceOne
  <2>1. phase \in {"comment", "path"}
    BY <1>4 DEF ReplaceOne
  <2>2. PICK k \in 0..Len(given) : /\ pos = Offset(given, sought, k)
                                   /\ Placed(subject, given, sought, k)
                                   /\ Rest(subject, given, sought, k)
    BY <1>2, <2>1
  <2>3. PICK at \in pos..(Len(subject) - 1) :
          /\ subject[at + 1] = sought
          /\ \A i \in (pos + 1)..at : subject[i] # sought
          /\ subject' \in Seq(Characters)
          /\ DoubledAt(subject, subject', at, sought)
          /\ pos' = at + 2
          /\ UNCHANGED <<phase, given, commands>>
    BY <1>4, ReplaceTurn
  <2>4. PICK u \in Seq(Characters) : u = subject'
    BY <2>3
  <2>5. \E n \in 0..Len(given) : /\ at + 2 = Offset(given, sought, n)
                                 /\ Placed(u, given, sought, n)
                                 /\ Rest(u, given, sought, n)
    <3>1. /\ at \in Offset(given, sought, k)..(Len(subject) - 1)
          /\ \A i \in (Offset(given, sought, k) + 1)..at : subject[i] # sought
          /\ subject[at + 1] = sought
          /\ DoubledAt(subject, u, at, sought)
      BY <2>2, <2>3, <2>4
    <3> QED
      BY <1>3, <2>2, <3>1, DoublesOne
  <2>6. sought' = sought /\ given' = given /\ phase' = phase
    BY <2>3 DEF sought
  <2>7. phase' \notin {"commented", "located"}
    BY <2>1, <2>6
  <2> QED
    BY <2>3, <2>4, <2>5, <2>6, <2>7 DEF LiteralInv
<1>5. ASSUME phase \in {"comment", "path"}, find(subject, search, pos) = NPos
      PROVE  Doubled(subject, given, sought)
  <2>1. PICK k \in 0..Len(given) : /\ pos = Offset(given, sought, k)
                                   /\ Placed(subject, given, sought, k)
                                   /\ Rest(subject, given, sought, k)
    BY <1>2, <1>5
  <2>2. \A i \in (pos + 1)..Len(subject) : subject[i] # sought
    <3>1. ~(find(subject, search, pos) \in pos..(Len(subject) - 1))
      <4>1. pos \in Nat /\ Len(subject) \in Nat
        BY DEF TypeOK, Text
      <4> QED
        BY <1>5, <4>1 DEF NPos
    <3> QED
      BY <1>5, <3>1, Sought
  <2>3. \A i \in (Offset(given, sought, k) + 1)..Len(subject) : subject[i] # sought
    BY <2>1, <2>2
  <2> QED
    BY <1>3, <2>1, <2>3, DoublesAll
<1>6. CASE EndComment
  <2>1. /\ phase = "comment" /\ find(subject, search, pos) = NPos
        /\ phase' = "commented" /\ subject' = subject /\ given' = given
    BY <1>6 DEF EndComment
  <2>2. Doubled(subject, given, Quote)
    BY <1>5, <2>1 DEF sought
  <2> QED
    BY <2>1, <2>2 DEF LiteralInv
<1>7. CASE EndPath
  <2>1. /\ phase = "path" /\ find(subject, search, pos) = NPos
        /\ phase' = "located" /\ given' = given
        /\ subject' = subject \o <<Backslash, Backslash>>
    BY <1>7 DEF EndPath
  <2>2. Doubled(subject, given, Backslash)
    BY <1>5, <2>1 DEF sought
  <2> QED
    BY <1>3, <2>1, <2>2 DEF LiteralInv
<1>8. CASE UNCHANGED vars
  <2>1. phase' = phase /\ given' = given /\ subject' = subject /\ pos' = pos
        /\ sought' = sought
    BY <1>8 DEF vars, sought
  <2> QED
    BY <2>1 DEF LiteralInv
<1> QED
  BY <1>1, <1>4, <1>6, <1>7, <1>8 DEF Next

\* Nothing is doubled at first.
LEMMA InitLiteral == Init => LiteralInv
<1> SUFFICES ASSUME Init PROVE LiteralInv
  OBVIOUS
<1>1. pos = 0 /\ subject = given /\ phase \in {"parse", "comment", "path"}
  BY DEF Init
<1>2. given \in Seq(Characters) /\ Len(given) \in Nat
  BY TextsAssumption DEF Init, Text
<1>3. Offset(given, sought, 0) = 0
  BY OffsetStep
<1>4. Placed(subject, given, sought, 0)
  BY DEF Placed
<1>5. Rest(subject, given, sought, 0)
  <2>1. ASSUME NEW j \in 1..Len(given)
        PROVE  given[0 + (j - 0)] = given[j]
    <3>1. 0 + (j - 0) = j
      OBVIOUS
    <3> QED
      BY <3>1
  <2>2. Len(subject) = 0 + (Len(given) - 0)
    BY <1>1, <1>2
  <2> QED
    BY <1>1, <1>3, <2>1, <2>2 DEF Rest
<1>6. 0 \in 0..Len(given)
  BY <1>2
<1> QED
  BY <1>1, <1>3, <1>4, <1>5, <1>6 DEF LiteralInv

\* The literals of every reachable state.
LEMMA Literal == Spec => [](TypeOK /\ LiteralInv)
<1>1. Init => TypeOK /\ LiteralInv
  BY InitTyped, InitLiteral
<1>2. TypeOK /\ LiteralInv /\ [Next]_vars => (TypeOK /\ LiteralInv)'
  BY TypeStep, LiteralStep
<1> QED
  BY <1>1, <1>2, PTL DEF Spec

-----------------------------------------------------------------------------
(* How the server reads a literal. *)

\* What it reads of one: characters, and the end.
Marks == Characters \cup {"end"}

\* One turn of Reading, f having what is read from the offsets behind i on.
ReadOne(s, f, i) ==
  IF i > Len(s) THEN <<>>
  ELSE IF Paired(s, i) THEN <<s[i + 1]>> \o f[i + 2]
  ELSE IF s[i] = Quote THEN <<"end">>
  ELSE <<s[i]>> \o f[i + 1]

\* It depends only on what is read behind i.
LEMMA ReadOneSame ==
  ASSUME NEW s \in Seq(Characters), NEW f, NEW g, NEW i \in 1..(Len(s) + 2),
         \A j \in (i + 1)..(Len(s) + 2) : g[j] = f[j] /\ f[j] \in Seq(Marks)
  PROVE  ReadOne(s, g, i) = ReadOne(s, f, i) /\ ReadOne(s, f, i) \in Seq(Marks)
<1>1. PICK l \in Nat : l = Len(s)
  OBVIOUS
<1>2. CASE i > l
  BY <1>1, <1>2 DEF ReadOne
<1>3. CASE i <= l /\ Paired(s, i)
  <2>1. i + 1 \in 1..l /\ i + 2 \in (i + 1)..(l + 2)
    BY <1>1, <1>3 DEF Paired
  <2>2. s[i + 1] \in Marks /\ g[i + 2] = f[i + 2] /\ f[i + 2] \in Seq(Marks)
    BY <1>1, <2>1 DEF Marks
  <2>3. <<s[i + 1]>> \o f[i + 2] \in Seq(Marks)
    BY <2>2
  <2> QED
    BY <1>1, <1>3, <2>2, <2>3 DEF ReadOne
<1>4. CASE i <= l /\ ~Paired(s, i) /\ s[i] = Quote
  <2>1. ReadOne(s, f, i) = <<"end">> /\ ReadOne(s, g, i) = <<"end">>
    BY <1>1, <1>4 DEF ReadOne
  <2>2. "end" \in Marks
    BY DEF Marks
  <2>3. <<"end">> \in Seq(Marks)
    BY <2>2
  <2> QED
    BY <2>1, <2>3
<1>5. CASE i <= l /\ ~Paired(s, i) /\ s[i] # Quote
  <2>1. i \in 1..l /\ i + 1 \in (i + 1)..(l + 2)
    BY <1>1, <1>5
  <2>2. s[i] \in Marks /\ g[i + 1] = f[i + 1] /\ f[i + 1] \in Seq(Marks)
    BY <1>1, <2>1 DEF Marks
  <2>3. <<s[i]>> \o f[i + 1] \in Seq(Marks)
    BY <2>2
  <2> QED
    BY <1>1, <1>5, <2>2, <2>3 DEF ReadOne
<1> QED
  BY <1>1, <1>2, <1>3, <1>4, <1>5

\* What is read from the k-th character on is defined.
ReadableFrom(s, k) ==
  \E f \in [k..(Len(s) + 2) -> Seq(Marks)] :
    \A i \in k..(Len(s) + 2) : f[i] = ReadOne(s, f, i)

LEMMA Readable ==
  ASSUME NEW s \in Seq(Characters)
  PROVE  ReadableFrom(s, 1)
<1>1. PICK l \in Nat : l = Len(s)
  OBVIOUS
<1> DEFINE T == {k \in 1..(l + 2) : ReadableFrom(s, k)}
<1>2. l + 2 \in T
  <2> DEFINE f == [i \in (l + 2)..(l + 2) |-> <<>>]
  <2>1. f \in [(l + 2)..(Len(s) + 2) -> Seq(Marks)]
    BY <1>1
  <2>2. \A i \in (l + 2)..(Len(s) + 2) : f[i] = ReadOne(s, f, i)
    BY <1>1 DEF ReadOne
  <2>3. ReadableFrom(s, l + 2)
    BY <2>1, <2>2 DEF ReadableFrom
  <2> QED
    BY <2>3
<1>3. PICK k \in T : \A j \in T : k <= j
  <2>1. T \subseteq Nat
    OBVIOUS
  <2> HIDE DEF T
  <2> QED
    BY <1>2, <2>1, Least
<1>4. CASE k = 1
  BY <1>3, <1>4
<1>5. CASE k # 1
  <2>1. PICK n \in Nat : n = k - 1 /\ n \in 1..(l + 1)
    BY <1>5
  <2>2. PICK f \in [k..(l + 2) -> Seq(Marks)] :
          \A i \in k..(l + 2) : f[i] = ReadOne(s, f, i)
    BY <1>1 DEF ReadableFrom
  <2> DEFINE g == [i \in n..(l + 2) |-> IF i = n THEN ReadOne(s, f, n) ELSE f[i]]
  <2>3. \A i \in k..(l + 2) : g[i] = f[i] /\ f[i] \in Seq(Marks)
    BY <2>1, <2>2
  <2>4. g[n] = ReadOne(s, f, n)
    BY <2>1
  <2>5. DOMAIN g = n..(l + 2) /\ g = [i \in n..(l + 2) |-> g[i]]
    OBVIOUS
  <2> HIDE DEF g
  <2>6. \A i \in n..(l + 2) :
          ReadOne(s, g, i) = ReadOne(s, f, i) /\ ReadOne(s, f, i) \in Seq(Marks)
    <3>1. ASSUME NEW i \in n..(l + 2)
          PROVE  ReadOne(s, g, i) = ReadOne(s, f, i) /\ ReadOne(s, f, i) \in Seq(Marks)
      <4>1. i \in 1..(Len(s) + 2)
        BY <1>1, <2>1
      <4>2. \A j \in (i + 1)..(Len(s) + 2) : j \in k..(l + 2)
        BY <1>1, <2>1
      <4>3. \A j \in (i + 1)..(Len(s) + 2) : g[j] = f[j] /\ f[j] \in Seq(Marks)
        BY <2>3, <4>2
      <4> QED
        BY <4>1, <4>3, ReadOneSame
    <3> QED
      BY <3>1
  <2>7. ASSUME NEW i \in n..(l + 2)
        PROVE  g[i] = ReadOne(s, g, i) /\ g[i] \in Seq(Marks)
    <3>1. CASE i = n
      BY <2>4, <2>6, <3>1
    <3>2. CASE i # n
      <4>1. i \in k..(l + 2)
        BY <2>1, <3>2
      <4> QED
        BY <2>2, <2>3, <2>6, <4>1
    <3> QED
      BY <3>1, <3>2
  <2>8. g \in [n..(l + 2) -> Seq(Marks)]
    BY <2>5, <2>7
  <2>9. ReadableFrom(s, n)
    BY <1>1, <2>7, <2>8 DEF ReadableFrom
  <2>10. n \in T /\ n < k
    BY <2>1, <2>9
  <2> QED
    BY <1>3, <2>10
<1> QED
  BY <1>4, <1>5

\* Reading is what its definition says.
LEMMA Reads ==
  ASSUME NEW s \in Seq(Characters), NEW i \in 1..(Len(s) + 2)
  PROVE  /\ Reading(s)[i] = ReadOne(s, Reading(s), i)
         /\ Reading(s)[i] \in Seq(Marks)
<1>1. PICK l \in Nat : l = Len(s)
  OBVIOUS
<1>2. PICK f \in [1..(l + 2) -> Seq(Marks)] :
        \A j \in 1..(l + 2) : f[j] = ReadOne(s, f, j)
  BY <1>1, Readable DEF ReadableFrom
<1>3. f = [j \in 1..(l + 2) |-> ReadOne(s, f, j)]
  BY <1>2
<1>4. Reading(s) = CHOOSE g : g = [j \in 1..(l + 2) |-> ReadOne(s, g, j)]
  BY <1>1 DEF Reading, ReadOne
<1>5. PICK r : r = Reading(s)
  OBVIOUS
<1>6. r = [j \in 1..(l + 2) |-> ReadOne(s, r, j)]
  BY <1>3, <1>4, <1>5
<1>7. \A j \in 1..(l + 2) : r[j] = ReadOne(s, r, j)
  BY <1>6
<1> DEFINE T == {m \in 0..(l + 1) : r[l + 2 - m] \notin Seq(Marks)}
<1>8. T = {}
  <2> SUFFICES ASSUME T # {} PROVE FALSE
    OBVIOUS
  <2>1. PICK m \in T : \A j \in T : m <= j
    <3>1. T \subseteq Nat
      OBVIOUS
    <3> HIDE DEF T
    <3> QED
      BY <3>1, Least
  <2>2. PICK n \in 1..(l + 2) : n = l + 2 - m
    BY <1>1
  <2>3. ASSUME NEW j \in (n + 1)..(l + 2)
        PROVE  r[j] \in Seq(Marks)
    <3>1. PICK o \in 0..(l + 1) : o = l + 2 - j
      BY <2>2
    <3>2. ~(m <= o) /\ l + 2 - o = j
      BY <2>1, <2>2, <3>1
    <3>3. o \notin T
      BY <2>1, <3>2
    <3> QED
      BY <3>1, <3>2, <3>3
  <2>4. ReadOne(s, r, n) \in Seq(Marks)
    BY <1>1, <2>3, ReadOneSame
  <2> QED
    BY <1>7, <2>1, <2>2, <2>4
<1>9. r[i] \in Seq(Marks)
  <2>1. l + 2 - i \in 0..(l + 1) /\ l + 2 - (l + 2 - i) = i
    BY <1>1
  <2>2. l + 2 - i \notin T
    BY <1>8
  <2> QED
    BY <2>1, <2>2
<1> QED
  BY <1>1, <1>5, <1>7, <1>9

\* One character in front of a text.
LEMMA InFront ==
  ASSUME NEW S, NEW a \in S, NEW x \in Seq(S)
  PROVE  /\ <<a>> \o x \in Seq(S) /\ Len(<<a>> \o x) = Len(x) + 1
         /\ (<<a>> \o x)[1] = a
         /\ \A y \in Seq(S) : <<a>> \o y = <<a>> \o x => y = x
<1>1. <<a>> \in Seq(S) /\ Len(<<a>>) = 1 /\ <<a>>[1] = a
  OBVIOUS
<1>2. PICK n \in Nat : n = Len(x)
  OBVIOUS
<1>3. <<a>> \o x \in Seq(S) /\ Len(<<a>> \o x) = n + 1 /\ (<<a>> \o x)[1] = a
  BY <1>2
<1>4. ASSUME NEW y \in Seq(S), <<a>> \o y = <<a>> \o x
      PROVE  y = x
  BY <1>1, <1>4, ConcatSimplifications
<1> QED
  BY <1>2, <1>3, <1>4

\* What is behind the first j characters of a text.
LEMMA Behind ==
  ASSUME NEW S, NEW g \in Seq(S), NEW j \in Nat, j < Len(g)
  PROVE  /\ g[j + 1] \in S
         /\ SubSeq(g, j + 2, Len(g)) \in Seq(S)
         /\ SubSeq(g, j + 1, Len(g)) = <<g[j + 1]>> \o SubSeq(g, j + 2, Len(g))
         /\ Len(SubSeq(g, j + 1, Len(g))) = Len(g) - j
<1>1. PICK l \in Nat : l = Len(g) /\ j < l
  OBVIOUS
<1>2. g[j + 1] \in S
  BY <1>1
<1>3. PICK n \in Nat : n = j + 1 /\ n + 1 = j + 2
  OBVIOUS
<1>4. SubSeq(g, j + 2, Len(g)) \in Seq(S)
  <2>1. l \in 0..Len(g)
    BY <1>1
  <2>2. SubSeq(g, n + 1, l) \in Seq(S)
    BY <2>1, Part
  <2> QED
    BY <1>1, <1>3, <2>2
<1>5. SubSeq(g, j + 1, Len(g)) = <<g[j + 1]>> \o SubSeq(g, j + 2, Len(g))
  <2>1. n \in 1..Len(g) /\ l \in n..Len(g)
    BY <1>1, <1>3
  <2>2. SubSeq(g, n, l) = <<g[n]>> \o SubSeq(g, n + 1, l)
    BY <2>1, SubSeqRecursiveFirst
  <2> QED
    BY <1>1, <1>3, <2>2
<1>6. Len(SubSeq(g, j + 1, Len(g))) = Len(g) - j
  <2>1. l \in 0..Len(g) /\ j <= l
    BY <1>1
  <2> QED
    BY <1>1, <2>1, Part
<1> QED
  BY <1>2, <1>4, <1>5, <1>6

\* Where the next character of s is in t.
LEMMA NextPlaced ==
  ASSUME NEW s \in Seq(Characters), NEW c, NEW t, Doubled(t, s, c),
         NEW j \in Nat, j < Len(s)
  PROVE  /\ Offset(s, c, j) \in Nat
         /\ Offset(s, c, j) + 1 <= Len(t) /\ t[Offset(s, c, j) + 1] = s[j + 1]
         /\ s[j + 1] # c => Offset(s, c, j + 1) = Offset(s, c, j) + 1
         /\ s[j + 1] = c => /\ Offset(s, c, j + 1) = Offset(s, c, j) + 2
                            /\ Offset(s, c, j) + 2 <= Len(t)
                            /\ t[Offset(s, c, j) + 2] = c
<1>1. PICK l \in Nat : l = Len(s) /\ j + 1 <= l
  OBVIOUS
<1>2. PICK o \in Nat : o = Offset(s, c, j)
  BY OffsetStep
<1>3. PICK p \in Nat : p = Offset(s, c, j + 1)
  BY OffsetStep
<1>4. (s[j + 1] = c => p = o + 2) /\ (s[j + 1] # c => p = o + 1)
  BY <1>2, <1>3, OffsetStep
<1>5. p <= Len(t)
  <2>1. Len(t) = Offset(s, c, l)
    BY <1>1 DEF Doubled
  <2> QED
    BY <1>1, <1>3, <2>1, OffsetGrows
<1>6. t[p] = s[j + 1] /\ (s[j + 1] = c => t[p - 1] = c)
  <2>1. j + 1 \in 1..Len(s)
    BY <1>1
  <2> QED
    BY <1>3, <2>1 DEF Doubled, Placed
<1>7. Len(t) \in Nat
  BY DEF Doubled
<1>8. CASE s[j + 1] = c
  <2>1. p = o + 2 /\ p - 1 = o + 1
    BY <1>4, <1>8
  <2> QED
    BY <1>2, <1>3, <1>5, <1>6, <1>7, <1>8, <2>1
<1>9. CASE s[j + 1] # c
  <2>1. p = o + 1
    BY <1>4, <1>9
  <2> QED
    BY <1>2, <1>3, <1>5, <1>6, <1>9, <2>1
<1> QED
  BY <1>8, <1>9

\* One turn of the server.
LEMMA ServerReads ==
  ASSUME NEW u \in Seq(Characters), NEW i \in 1..Len(u)
  PROVE  /\ Reading(u)[i] \in Seq(Marks)
         /\ Paired(u, i) => Reading(u)[i] = <<u[i + 1]>> \o Reading(u)[i + 2]
         /\ ~Paired(u, i) /\ u[i] = Quote => Reading(u)[i] = <<"end">>
         /\ ~Paired(u, i) /\ u[i] # Quote =>
              Reading(u)[i] = <<u[i]>> \o Reading(u)[i + 1]
<1>1. i \in 1..(Len(u) + 2) /\ ~(i > Len(u))
  OBVIOUS
<1>2. /\ Reading(u)[i] = ReadOne(u, Reading(u), i)
      /\ Reading(u)[i] \in Seq(Marks)
  BY <1>1, Reads
<1> QED
  BY <1>1, <1>2 DEF ReadOne

\* A comment without a backslash is read as it was given.
LEMMA CommentRead ==
  ASSUME NEW s \in Seq(Characters), NEW t, Doubled(t, s, Quote),
         \A i \in 1..Len(s) : s[i] # Backslash
  PROVE  Meaning(t) = s \o <<"end">>
<1>1. PICK l \in Nat : l = Len(s)
  OBVIOUS
<1>2. PICK u \in Seq(Characters) : /\ u = t \o <<Quote>>
                                   /\ Len(u) = Len(t) + 1
                                   /\ \A i \in 1..Len(t) : u[i] = t[i]
                                   /\ u[Len(t) + 1] = Quote
  <2>1. t \in Seq(Characters) /\ <<Quote>> \in Seq(Characters) /\ Len(<<Quote>>) = 1
    BY TextsAssumption DEF Doubled
  <2>2. PICK n \in Nat : n = Len(t)
    BY <2>1
  <2>3. /\ t \o <<Quote>> \in Seq(Characters)
        /\ Len(t \o <<Quote>>) = n + 1
        /\ \A i \in 1..n : (t \o <<Quote>>)[i] = t[i]
        /\ (t \o <<Quote>>)[n + 1] = Quote
    BY <2>1, <2>2
  <2> QED
    BY <2>2, <2>3
<1>3. PICK g \in Seq(Marks) : /\ g = s \o <<"end">> /\ Len(g) = l + 1
                              /\ \A i \in 1..l : g[i] = s[i]
                              /\ g[l + 1] = "end"
  <2>1. s \in Seq(Marks) /\ <<"end">> \in Seq(Marks)
    <3>1. \A i \in 1..l : s[i] \in Marks
      BY <1>1 DEF Marks
    <3>2. "end" \in Marks
      BY DEF Marks
    <3> QED
      BY <1>1, <3>1, <3>2
  <2>2. /\ s \o <<"end">> \in Seq(Marks)
        /\ Len(s \o <<"end">>) = l + 1
        /\ \A i \in 1..l : (s \o <<"end">>)[i] = s[i]
        /\ (s \o <<"end">>)[l + 1] = "end"
    BY <1>1, <2>1
  <2> QED
    BY <2>2
<1>4. PICK r : r = Reading(u)
  OBVIOUS
<1> DEFINE O(j) == Offset(s, Quote, j)
           P(j) == r[O(j) + 1] = SubSeq(g, j + 1, l + 1)
           T == {m \in 0..l : ~P(l - m)}
<1>5. P(l)
  <2>1. O(l) = Len(t) /\ Len(t) \in Nat
    BY <1>1 DEF Doubled
  <2>2. Len(t) + 1 \in 1..Len(u) /\ ~Paired(u, Len(t) + 1)
    BY <1>2, <2>1 DEF Paired
  <2>3. r[O(l) + 1] = <<"end">>
    BY <1>2, <1>4, <2>1, <2>2, ServerReads
  <2>4. SubSeq(g, l + 1, l + 1) = <<"end">>
    <3>1. /\ SubSeq(g, l + 1, Len(g)) = <<g[l + 1]>> \o SubSeq(g, l + 2, Len(g))
      BY <1>1, <1>3, Behind
    <3>2. SubSeq(g, l + 2, Len(g)) = <<>>
      BY <1>3, SubSeqEmpty
    <3>3. <<g[l + 1]>> \o <<>> = <<"end">>
      BY <1>3
    <3> QED
      BY <1>3, <3>1, <3>2, <3>3
  <2> QED
    BY <2>3, <2>4
<1>6. ASSUME NEW j \in 0..(l - 1), P(j + 1)
      PROVE  P(j)
  <2>1. j \in Nat /\ j < Len(s) /\ j < Len(g) /\ j + 1 \in 1..l
    BY <1>1, <1>3
  <2>2. PICK o \in Nat : o = O(j)
    BY OffsetStep
  <2>3. /\ o + 1 <= Len(t) /\ t[o + 1] = s[j + 1]
        /\ s[j + 1] # Quote => O(j + 1) = o + 1
        /\ s[j + 1] = Quote => /\ O(j + 1) = o + 2
                               /\ o + 2 <= Len(t)
                               /\ t[o + 2] = Quote
    BY <2>1, <2>2, NextPlaced
  <2>4. Len(t) \in Nat /\ o + 1 \in 1..Len(t) /\ o + 1 \in 1..Len(u) /\ o + 1 < Len(u)
    BY <1>2, <2>3 DEF Doubled
  <2>5. u[o + 1] = s[j + 1]
    BY <1>2, <2>3, <2>4
  <2>6. SubSeq(g, j + 1, l + 1) = <<s[j + 1]>> \o SubSeq(g, (j + 1) + 1, l + 1)
    <3>1. SubSeq(g, j + 1, Len(g)) = <<g[j + 1]>> \o SubSeq(g, j + 2, Len(g))
      BY <2>1, Behind
    <3>2. (j + 1) + 1 = j + 2
      BY <2>1
    <3> QED
      BY <1>3, <2>1, <3>1, <3>2
  <2>7. CASE s[j + 1] = Quote
    <3>1. u[o + 2] = Quote
      <4>1. o + 2 \in 1..Len(t)
        BY <2>3, <2>4, <2>7
      <4> QED
        BY <1>2, <2>3, <2>7, <4>1
    <3>2. Paired(u, o + 1) /\ (o + 1) + 1 = o + 2 /\ (o + 1) + 2 = (o + 2) + 1
      BY <2>4, <2>5, <2>7, <3>1 DEF Paired
    <3>3. r[o + 1] = <<u[o + 2]>> \o r[(o + 2) + 1]
      BY <1>4, <2>4, <3>2, ServerReads
    <3> QED
      BY <1>6, <2>2, <2>3, <2>6, <2>7, <3>1, <3>3
  <2>8. CASE s[j + 1] # Quote
    <3>1. s[j + 1] # Backslash
      BY <1>1, <2>1
    <3>2. ~Paired(u, o + 1)
      BY <2>5, <2>8, <3>1 DEF Paired
    <3>3. r[o + 1] = <<u[o + 1]>> \o r[(o + 1) + 1]
      BY <1>4, <2>4, <2>5, <2>8, <3>2, ServerReads
    <3> QED
      BY <1>6, <2>2, <2>3, <2>5, <2>6, <2>8, <3>3
  <2> QED
    BY <2>7, <2>8
<1> HIDE DEF P
<1>7. T = {}
  <2> SUFFICES ASSUME T # {} PROVE FALSE
    OBVIOUS
  <2>1. PICK m \in T : \A n \in T : m <= n
    <3>1. T \subseteq Nat
      OBVIOUS
    <3> HIDE DEF T
    <3> QED
      BY <3>1, Least
  <2>2. m # 0
    BY <1>1, <1>5, <2>1
  <2>3. PICK o \in 0..l : o = m - 1 /\ ~(m <= o)
    BY <2>1, <2>2
  <2>4. o \notin T /\ l - m \in 0..(l - 1) /\ (l - m) + 1 = l - o
    BY <1>1, <2>1, <2>2, <2>3
  <2>5. P((l - m) + 1)
    BY <2>3, <2>4
  <2> QED
    BY <1>6, <2>1, <2>4, <2>5
<1>8. P(0)
  <2>1. l \in 0..l /\ l \notin T /\ l - l = 0
    BY <1>1, <1>7
  <2> QED
    BY <2>1
<1>9. r[1] = g
  <2>1. O(0) + 1 = 1
    BY OffsetStep
  <2>2. SubSeq(g, 0 + 1, l + 1) = g
    BY <1>3, SubSeqFull
  <2> QED
    BY <1>8, <2>1, <2>2 DEF P
<1> QED
  BY <1>2, <1>3, <1>4, <1>9 DEF Meaning

\* The path is read as it was given, with a backslash behind it, if it holds no
\* quote, and as something else if it holds one.
LEMMA PathRead ==
  ASSUME NEW s \in Seq(Characters), NEW t, Doubled(t, s, Backslash)
  PROVE  (\A i \in 1..Len(s) : s[i] # Quote)
           <=> Meaning(t \o <<Backslash, Backslash>>) = s \o <<Backslash, "end">>
<1>1. PICK l \in Nat : l = Len(s)
  OBVIOUS
<1>2. PICK n \in Nat : n = Len(t) /\ t \in Seq(Characters)
  BY DEF Doubled
<1>3. PICK u \in Seq(Characters) :
        /\ u = (t \o <<Backslash, Backslash>>) \o <<Quote>>
        /\ Len(u) = n + 3
        /\ \A i \in 1..n : u[i] = t[i]
        /\ u[n + 1] = Backslash /\ u[n + 2] = Backslash /\ u[n + 3] = Quote
  <2>1. PICK b \in Seq(Characters) : /\ b = <<Backslash, Backslash>> /\ Len(b) = 2
                                     /\ b[1] = Backslash /\ b[2] = Backslash
    <3>1. <<Backslash, Backslash>> \in Seq(Characters)
      BY TextsAssumption
    <3> QED
      BY <3>1
  <2>2. PICK v \in Seq(Characters) : /\ v = t \o b /\ Len(v) = n + 2
                                     /\ \A i \in 1..n : v[i] = t[i]
                                     /\ v[n + 1] = Backslash
                                     /\ v[n + 2] = Backslash
    <3>1. /\ t \o b \in Seq(Characters) /\ Len(t \o b) = n + 2
          /\ \A i \in 1..n : (t \o b)[i] = t[i]
          /\ (t \o b)[n + 1] = b[1] /\ (t \o b)[n + 2] = b[2]
      BY <1>2, <2>1
    <3> QED
      BY <2>1, <3>1
  <2>3. PICK k \in Nat : k = n + 2
    OBVIOUS
  <2>4. <<Quote>> \in Seq(Characters) /\ Len(<<Quote>>) = 1 /\ <<Quote>>[1] = Quote
    BY TextsAssumption
  <2>5. /\ v \o <<Quote>> \in Seq(Characters)
        /\ Len(v \o <<Quote>>) = k + 1
        /\ \A i \in 1..k : (v \o <<Quote>>)[i] = v[i]
        /\ (v \o <<Quote>>)[k + 1] = Quote
    BY <2>2, <2>3, <2>4
  <2>6. /\ Len(v \o <<Quote>>) = n + 3
        /\ \A i \in 1..n : (v \o <<Quote>>)[i] = t[i]
        /\ (v \o <<Quote>>)[n + 1] = Backslash
        /\ (v \o <<Quote>>)[n + 2] = Backslash
        /\ (v \o <<Quote>>)[n + 3] = Quote
    <3>1. n + 1 \in 1..k /\ n + 2 \in 1..k /\ k + 1 = n + 3
          /\ \A i \in 1..n : i \in 1..k
      BY <2>3
    <3> QED
      BY <2>2, <2>5, <3>1
  <2> QED
    BY <2>1, <2>2, <2>5, <2>6
<1>4. PICK g \in Seq(Marks) : /\ g = s \o <<Backslash, "end">> /\ Len(g) = l + 2
                              /\ \A i \in 1..l : g[i] = s[i]
                              /\ g[l + 1] = Backslash /\ g[l + 2] = "end"
  <2>1. s \in Seq(Marks) /\ <<Backslash, "end">> \in Seq(Marks)
    <3>1. \A i \in 1..l : s[i] \in Marks
      BY <1>1 DEF Marks
    <3>2. "end" \in Marks /\ Backslash \in Marks
      BY TextsAssumption DEF Marks
    <3> QED
      BY <1>1, <3>1, <3>2
  <2>2. PICK e \in Seq(Marks) : /\ e = <<Backslash, "end">> /\ Len(e) = 2
                                /\ e[1] = Backslash /\ e[2] = "end"
    BY <2>1
  <2>3. /\ s \o e \in Seq(Marks)
        /\ Len(s \o e) = l + 2
        /\ \A i \in 1..l : (s \o e)[i] = s[i]
        /\ (s \o e)[l + 1] = e[1] /\ (s \o e)[l + 2] = e[2]
    BY <1>1, <2>1, <2>2
  <2> QED
    BY <2>2, <2>3
<1>5. PICK r : r = Reading(u)
  OBVIOUS
<1> DEFINE O(j) == Offset(s, Backslash, j)
           W(j) == SubSeq(g, j + 1, l + 2)
           P(j) == /\ (\A i \in (j + 1)..l : s[i] # Quote) <=> r[O(j) + 1] = W(j)
                   /\ r[O(j) + 1] \in Seq(Marks)
                   /\ Len(r[O(j) + 1]) <= l + 2 - j
           T == {m \in 0..l : ~P(l - m)}
<1>6. P(l)
  <2>1. O(l) = n
    BY <1>1, <1>2 DEF Doubled
  <2>2. /\ n + 1 \in 1..Len(u) /\ Paired(u, n + 1)
        /\ (n + 1) + 1 = n + 2 /\ (n + 1) + 2 = n + 3
    BY <1>3 DEF Paired
  <2>3. r[n + 1] = <<Backslash>> \o r[n + 3]
    <3>1. PICK i \in 1..Len(u) : i = n + 1
      BY <2>2
    <3>2. Reading(u)[i] = <<u[i + 1]>> \o Reading(u)[i + 2]
      BY <2>2, <3>1, ServerReads
    <3> QED
      BY <1>3, <1>5, <2>2, <3>1, <3>2
  <2>4. n + 3 \in 1..Len(u) /\ ~Paired(u, n + 3)
    BY <1>3 DEF Paired
  <2>5. r[n + 3] = <<"end">>
    BY <1>3, <1>5, <2>4, ServerReads
  <2>6. W(l) = <<Backslash>> \o <<"end">>
    <3>1. SubSeq(g, l + 1, Len(g)) = <<g[l + 1]>> \o SubSeq(g, l + 2, Len(g))
      BY <1>1, <1>4, Behind
    <3>2. SubSeq(g, l + 2, Len(g)) = <<"end">>
      <4>1. PICK k \in Nat : k = l + 1 /\ k < Len(g) /\ k + 1 = l + 2
        BY <1>1, <1>4
      <4>2. SubSeq(g, k + 1, Len(g)) = <<g[k + 1]>> \o SubSeq(g, k + 2, Len(g))
        BY <4>1, Behind
      <4>3. SubSeq(g, k + 2, Len(g)) = <<>>
        BY <1>4, <4>1, SubSeqEmpty
      <4>4. <<g[k + 1]>> \o <<>> = <<"end">>
        <5>1. g[k + 1] = "end" /\ <<"end">> \o <<>> = <<"end">>
          BY <1>4, <4>1
        <5> QED
          BY <5>1
      <4> QED
        BY <4>1, <4>2, <4>3, <4>4
    <3> QED
      BY <1>4, <3>1, <3>2
  <2>7. <<Backslash>> \o <<"end">> \in Seq(Marks) /\ Len(<<Backslash>> \o <<"end">>) = 2
    <3>1. "end" \in Marks /\ Backslash \in Marks
      BY TextsAssumption DEF Marks
    <3> QED
      BY <3>1
  <2>8. (\A i \in (l + 1)..l : s[i] # Quote) /\ l + 2 - l = 2
    OBVIOUS
  <2> HIDE DEF W
  <2> QED
    BY <2>1, <2>3, <2>5, <2>6, <2>7, <2>8
<1>7. ASSUME NEW j \in 0..(l - 1), P(j + 1), j + 2 <= l => P(j + 2)
      PROVE  P(j)
  <2>1. j \in Nat /\ j < Len(s) /\ j < Len(g) /\ j + 1 \in 1..l /\ j + 1 \in Nat
    BY <1>1, <1>4
  <2>2. PICK o \in Nat : o = O(j)
    BY OffsetStep
  <2>3. /\ o + 1 <= n /\ t[o + 1] = s[j + 1]
        /\ s[j + 1] # Backslash => O(j + 1) = o + 1
        /\ s[j + 1] = Backslash => /\ O(j + 1) = o + 2
                                   /\ o + 2 <= n
                                   /\ t[o + 2] = Backslash
    BY <1>2, <2>1, <2>2, NextPlaced
  <2>4. o + 1 \in 1..n /\ o + 1 \in 1..Len(u) /\ o + 1 < Len(u)
    BY <1>3, <2>3
  <2>5. u[o + 1] = s[j + 1] /\ s[j + 1] \in Marks
    BY <1>1, <1>3, <2>1, <2>3, <2>4 DEF Marks
  <2>6. /\ W(j) = <<s[j + 1]>> \o W(j + 1) /\ W(j + 1) \in Seq(Marks)
        /\ Len(W(j)) = l + 2 - j
    <3>1. /\ SubSeq(g, j + 1, Len(g)) = <<g[j + 1]>> \o SubSeq(g, j + 2, Len(g))
          /\ SubSeq(g, j + 2, Len(g)) \in Seq(Marks)
          /\ Len(SubSeq(g, j + 1, Len(g))) = Len(g) - j
      BY <2>1, Behind
    <3>2. (j + 1) + 1 = j + 2
      BY <2>1
    <3>3. g[j + 1] = s[j + 1] /\ Len(g) = l + 2
      BY <1>4, <2>1
    <3> QED
      BY <3>1, <3>2, <3>3
  <2>7. ASSUME s[j + 1] # Quote, r[o + 1] = <<s[j + 1]>> \o r[O(j + 1) + 1]
        PROVE  P(j)
    <3>1. PICK x \in Seq(Marks) : x = r[O(j + 1) + 1] /\ Len(x) <= l + 2 - (j + 1)
      BY <1>7
    <3>2. r[o + 1] \in Seq(Marks) /\ Len(r[o + 1]) = Len(x) + 1
      BY <2>5, <2>7, <3>1, InFront
    <3>3. r[o + 1] = W(j) <=> x = W(j + 1)
      <4>1. PICK y \in Seq(Marks) : y = W(j + 1)
        BY <2>6
      <4>2. PICK a \in Marks : a = s[j + 1]
        BY <2>5
      <4>3. r[o + 1] = <<a>> \o x /\ W(j) = <<a>> \o y
        <5> HIDE DEF W
        <5> QED
          BY <2>6, <2>7, <3>1, <4>1, <4>2
      <4>4. <<a>> \o x = <<a>> \o y => x = y
        BY InFront
      <4> HIDE DEF W
      <4> QED
        BY <4>1, <4>3, <4>4
    <3>4. (\A i \in (j + 1)..l : s[i] # Quote)
            <=> (\A i \in ((j + 1) + 1)..l : s[i] # Quote)
      <4>1. \A i \in (j + 1)..l : i = j + 1 \/ i \in ((j + 1) + 1)..l
        BY <2>1
      <4>2. \A i \in ((j + 1) + 1)..l : i \in (j + 1)..l
        BY <2>1
      <4> QED
        BY <2>7, <4>1, <4>2
    <3>5. (\A i \in ((j + 1) + 1)..l : s[i] # Quote) <=> x = W(j + 1)
      BY <1>7, <3>1
    <3>6. Len(r[o + 1]) <= l + 2 - j
      BY <2>1, <3>1, <3>2
    <3> HIDE DEF W
    <3> QED
      BY <2>2, <3>2, <3>3, <3>4, <3>5, <3>6
  <2>8. CASE s[j + 1] = Backslash
    <3>1. u[o + 2] = Backslash
      <4>1. o + 2 \in 1..n
        BY <2>3, <2>8
      <4> QED
        BY <1>3, <2>3, <2>8, <4>1
    <3>2. Paired(u, o + 1) /\ (o + 1) + 1 = o + 2 /\ (o + 1) + 2 = (o + 2) + 1
      BY <2>4, <2>5, <2>8 DEF Paired
    <3>3. r[o + 1] = <<u[o + 2]>> \o r[(o + 2) + 1]
      BY <1>5, <2>4, <3>2, ServerReads
    <3>4. s[j + 1] # Quote
      BY <2>8 DEF Backslash, Quote
    <3> QED
      BY <2>3, <2>7, <2>8, <3>1, <3>3, <3>4
  <2>9. CASE s[j + 1] # Backslash /\ s[j + 1] # Quote
    <3>1. ~Paired(u, o + 1)
      BY <2>5, <2>9 DEF Paired
    <3>2. r[o + 1] = <<u[o + 1]>> \o r[(o + 1) + 1]
      BY <1>5, <2>4, <2>5, <2>9, <3>1, ServerReads
    <3> QED
      BY <2>3, <2>5, <2>7, <2>9, <3>2
  <2>10. CASE s[j + 1] = Quote
    <3>1. Quote # Backslash /\ Quote # "end"
      BY DEF Quote, Backslash
    <3>2. O(j + 1) = o + 1
      BY <2>3, <2>10, <3>1
    <3>3. j + 1 \in (j + 1)..l /\ ~(\A i \in (j + 1)..l : s[i] # Quote)
      BY <2>1, <2>10
    <3>4. r[o + 1] \in Seq(Marks)
      BY <1>5, <2>4, ServerReads
    <3>5. CASE Paired(u, o + 1)
      <4>1. u[o + 2] = Quote
        <5>1. (o + 1) + 1 = o + 2
          OBVIOUS
        <5> QED
          BY <2>5, <2>10, <3>1, <3>5, <5>1 DEF Paired
      <4>2. j + 2 <= l
        <5> SUFFICES ASSUME ~(j + 2 <= l) PROVE FALSE
          OBVIOUS
        <5>1. j + 1 = l
          BY <2>1
        <5>2. o + 1 = n
          BY <1>1, <1>2, <3>2, <5>1 DEF Doubled
        <5>3. o + 2 = n + 1
          BY <5>2
        <5> QED
          BY <1>3, <3>1, <4>1, <5>3
      <4>3. j + 1 < Len(s) /\ (j + 1) + 1 = j + 2 /\ (o + 1) + 1 = o + 2
        BY <1>1, <2>1, <4>2
      <4>4. /\ o + 2 <= n /\ t[o + 2] = s[j + 2]
            /\ s[j + 2] # Backslash => O(j + 2) = o + 2
        BY <1>2, <2>1, <3>2, <4>3, NextPlaced
      <4>5. s[j + 2] = Quote
        <5>1. o + 2 \in 1..n
          BY <4>4
        <5> QED
          BY <1>3, <4>1, <4>4, <5>1
      <4>6. O(j + 2) = o + 2
        BY <3>1, <4>4, <4>5
      <4>7. PICK x \in Seq(Marks) : x = r[(o + 2) + 1] /\ Len(x) <= l + 2 - (j + 2)
        BY <1>7, <4>2, <4>6
      <4>8. r[o + 1] = <<Quote>> \o x
        <5>1. (o + 1) + 1 = o + 2 /\ (o + 1) + 2 = (o + 2) + 1
          OBVIOUS
        <5> QED
          BY <1>5, <2>4, <3>5, <4>1, <4>7, <5>1, ServerReads
      <4>9. Len(r[o + 1]) = Len(x) + 1
        BY <2>5, <2>10, <4>8, InFront
      <4>10. Len(r[o + 1]) < l + 2 - j
        BY <2>1, <4>7, <4>9
      <4>11. r[o + 1] # W(j)
        <5> HIDE DEF W
        <5> QED
          BY <2>6, <4>10
      <4> HIDE DEF W
      <4> QED
        BY <2>1, <2>2, <3>3, <3>4, <4>9, <4>10, <4>11
    <3>6. CASE ~Paired(u, o + 1)
      <4>1. r[o + 1] = <<"end">>
        BY <1>5, <2>4, <2>5, <2>10, <3>6, ServerReads
      <4>2. W(j)[1] = Quote
        <5> HIDE DEF W
        <5> QED
          BY <2>5, <2>6, <2>10, InFront
      <4>3. r[o + 1] # W(j)
        <5> HIDE DEF W
        <5>1. <<"end">>[1] = "end"
          OBVIOUS
        <5> QED
          BY <3>1, <4>1, <4>2, <5>1
      <4>4. Len(r[o + 1]) = 1 /\ 1 <= l + 2 - j
        BY <2>1, <4>1
      <4> HIDE DEF W
      <4> QED
        BY <2>2, <3>3, <3>4, <4>3, <4>4
    <3> QED
      BY <3>5, <3>6
  <2> QED
    BY <2>8, <2>9, <2>10
<1> HIDE DEF P
<1>8. T = {}
  <2> SUFFICES ASSUME T # {} PROVE FALSE
    OBVIOUS
  <2>1. PICK m \in T : \A i \in T : m <= i
    <3>1. T \subseteq Nat
      OBVIOUS
    <3> HIDE DEF T
    <3> QED
      BY <3>1, Least
  <2>2. m # 0
    BY <1>1, <1>6, <2>1
  <2>3. PICK o \in 0..l : o = m - 1 /\ ~(m <= o)
    BY <2>1, <2>2
  <2>4. PICK j \in 0..(l - 1) : j = l - m /\ j + 1 = l - o
    <3>1. l - m \in 0..(l - 1) /\ (l - m) + 1 = l - o
      BY <1>1, <2>1, <2>2, <2>3
    <3> QED
      BY <3>1
  <2>5. P(j + 1)
    BY <2>1, <2>3, <2>4
  <2>6. ASSUME j + 2 <= l
        PROVE  P(j + 2)
    <3>1. PICK q \in 0..l : q = m - 2 /\ ~(m <= q) /\ l - q = j + 2
      BY <2>1, <2>3, <2>4, <2>6
    <3> QED
      BY <2>1, <3>1
  <2> QED
    BY <1>7, <2>1, <2>4, <2>5, <2>6
<1>9. P(0)
  <2>1. l \in 0..l /\ l \notin T /\ l - l = 0
    BY <1>1, <1>8
  <2> QED
    BY <2>1
<1>10. (\A i \in 1..l : s[i] # Quote) <=> r[1] = g
  <2>1. O(0) + 1 = 1 /\ 0 + 1 = 1
    BY OffsetStep
  <2>2. SubSeq(g, 0 + 1, l + 2) = g
    BY <1>4, <2>1, SubSeqFull
  <2> QED
    BY <1>9, <2>1, <2>2 DEF P
<1>11. Meaning(t \o <<Backslash, Backslash>>) = r[1]
  BY <1>3, <1>5 DEF Meaning
<1> QED
  BY <1>1, <1>4, <1>10, <1>11

\* A description without a backslash reaches the schema as it was written,
\* however many quotes it holds.
THEOREM CommentsReadBack == Spec => []CommentReadsBack
<1>1. ASSUME TypeOK, LiteralInv
      PROVE  CommentReadsBack
  <2>1. given \in Seq(Characters)
    BY <1>1 DEF TypeOK, Text
  <2>2. phase = "commented" => Doubled(subject, given, Quote)
    BY <1>1 DEF LiteralInv
  <2> QED
    BY <2>1, <2>2, CommentRead DEF CommentReadsBack
<1> QED
  BY <1>1, Literal, PTL

\* Whatever backslashes a temporary directory holds, LOAD is told that directory
\* if and only if it holds no quote.
THEOREM PathsReadBack == Spec => []PathReadsBack
<1>1. ASSUME TypeOK, LiteralInv
      PROVE  PathReadsBack
  <2> SUFFICES ASSUME phase = "located"
               PROVE  (\A i \in 1..Len(given) : given[i] # Quote)
                        <=> Meaning(subject) = given \o <<Backslash, "end">>
    BY DEF PathReadsBack
  <2>1. given \in Seq(Characters)
    BY <1>1 DEF TypeOK, Text
  <2>2. PICK t \in Seq(Characters) : /\ Doubled(t, given, Backslash)
                                     /\ subject = t \o <<Backslash, Backslash>>
    BY <1>1 DEF LiteralInv
  <2> QED
    BY <2>1, <2>2, PathRead
<1> QED
  BY <1>1, Literal, PTL
=============================================================================
