--------------------------- MODULE IteratorProofs ---------------------------
(***************************************************************************)
(* Disassembling loses nothing, for every code of any length.              *)
(***************************************************************************)
EXTENDS InstructionIterator, SequenceTheorems, WellFoundedInduction, TLAPS

LEMMA Smallest ==
  ASSUME NEW T \in SUBSET Nat, T # {}
  PROVE  \E x \in T : \A y \in T : x <= y
<1>1. PICK x \in T : \A y \in T : ~ (<<y, x>> \in OpToRel(<, Nat))
  BY NatLessThanWellFounded, WFMin
<1>2. \A y \in T : ~ (y < x)
  BY <1>1 DEF OpToRel
<1> QED BY <1>2

-----------------------------------------------------------------------------
(* FlattenSeq defines a function by recursion over the first parts.        *)
Flattens(parts, n, f) ==
  f = [i \in 1..n |-> IF i = 1 THEN parts[i] ELSE f[i - 1] \o parts[i]]

LEMMA FlattensExists ==
  ASSUME NEW parts, NEW n \in Nat
  PROVE  \E f : Flattens(parts, n, f)
<1> DEFINE T == {m \in Nat : ~ \E f : Flattens(parts, m, f)}
<1> SUFFICES ASSUME T # {} PROVE FALSE
  OBVIOUS
<1>1. PICK m \in T : \A y \in T : m <= y
  BY Smallest
<1>2. CASE m = 0
  <2>1. Flattens(parts, 0, [i \in 1..0 |-> 0])
    BY DEF Flattens
  <2> QED BY <1>1, <1>2, <2>1
<1>3. CASE m # 0
  <2>1. m - 1 \in Nat /\ m - 1 \notin T
    BY <1>1, <1>3
  <2>2. PICK f : Flattens(parts, m - 1, f)
    BY <2>1
  <2> DEFINE g == [i \in 1..m |-> IF i # m THEN f[i]
                                  ELSE IF m = 1 THEN parts[m] ELSE f[m - 1] \o parts[m]]
  <2>3. Flattens(parts, m, g)
    <3>1. ASSUME NEW i \in 1..m
          PROVE  g[i] = IF i = 1 THEN parts[i] ELSE g[i - 1] \o parts[i]
      <4>1. CASE i = m
        BY <1>3, <2>1, <4>1
      <4>2. CASE i # m
        <5>1. i \in 1..(m - 1)
          BY <1>3, <4>2
        <5>2. f[i] = IF i = 1 THEN parts[i] ELSE f[i - 1] \o parts[i]
          BY <2>2, <5>1 DEF Flattens
        <5> QED BY <4>2, <5>1, <5>2
      <4> QED BY <4>1, <4>2
    <3>2. g = [i \in 1..m |-> g[i]]
      OBVIOUS
    <3> HIDE DEF g
    <3> QED BY <3>1, <3>2 DEF Flattens
  <2> QED BY <1>1, <2>3
<1> QED BY <1>2, <1>3

LEMMA FlattensUnique ==
  ASSUME NEW parts, NEW n \in Nat, NEW f, Flattens(parts, n, f),
         NEW m \in 1..n, NEW g, Flattens(parts, m, g)
  PROVE  f[m] = g[m]
<1> DEFINE T == {i \in 1..m : f[i] # g[i]}
<1>1. ASSUME T # {} PROVE FALSE
  <2>1. T \subseteq Nat
    OBVIOUS
  <2>2. PICK k \in T : \A y \in T : k <= y
    <3> HIDE DEF T
    <3> QED BY <1>1, <2>1, Smallest
  <2>3. /\ f[k] = IF k = 1 THEN parts[k] ELSE f[k - 1] \o parts[k]
        /\ g[k] = IF k = 1 THEN parts[k] ELSE g[k - 1] \o parts[k]
    <3>1. k \in 1..m /\ k \in 1..n
      OBVIOUS
    <3>2. \A i \in 1..n : f[i] = IF i = 1 THEN parts[i] ELSE f[i - 1] \o parts[i]
      BY DEF Flattens
    <3>3. \A i \in 1..m : g[i] = IF i = 1 THEN parts[i] ELSE g[i - 1] \o parts[i]
      BY DEF Flattens
    <3> HIDE DEF T
    <3> QED BY <3>1, <3>2, <3>3
  <2>4. k # 1 => k - 1 \in 1..m /\ k - 1 \notin T
    BY <2>2
  <2> QED BY <2>3, <2>4
<1> QED BY <1>1

LEMMA FlattenIs ==
  ASSUME NEW parts, NEW n \in Nat \ {0}, Len(parts) = n, NEW f, Flattens(parts, n, f)
  PROVE  FlattenSeq(parts) = f[n]
<1> DEFINE g == CHOOSE h : Flattens(parts, n, h)
<1>1. Flattens(parts, n, g)
  OBVIOUS
<1>2. FlattenSeq(parts) = g[n]
  BY DEF FlattenSeq, Flattens
<1>3. n \in 1..n
  OBVIOUS
<1> HIDE DEF g
<1> QED BY <1>1, <1>2, <1>3, FlattensUnique

LEMMA FlattenOne ==
  ASSUME NEW parts, Len(parts) = 1
  PROVE  FlattenSeq(parts) = parts[1]
<1>1. PICK f : Flattens(parts, 1, f)
  BY FlattensExists
<1>2. f[1] = parts[1]
  BY <1>1 DEF Flattens
<1> QED BY <1>1, <1>2, FlattenIs

LEMMA FlattenLast ==
  ASSUME NEW ps, NEW qs, NEW n \in Nat \ {0}, Len(ps) = n, Len(qs) = n + 1,
         \A i \in 1..n : ps[i] = qs[i]
  PROVE  FlattenSeq(qs) = FlattenSeq(ps) \o qs[n + 1]
<1>1. PICK f : Flattens(qs, n + 1, f)
  BY FlattensExists
<1>2. \A i \in 1..(n + 1) : f[i] = IF i = 1 THEN qs[i] ELSE f[i - 1] \o qs[i]
  BY <1>1 DEF Flattens
<1> DEFINE g == [i \in 1..n |-> f[i]]
<1>3. Flattens(ps, n, g)
  <2>1. \A i \in 1..n : g[i] = IF i = 1 THEN ps[i] ELSE g[i - 1] \o ps[i]
    <3> SUFFICES ASSUME NEW i \in 1..n
                 PROVE  g[i] = IF i = 1 THEN ps[i] ELSE g[i - 1] \o ps[i]
      OBVIOUS
    <3>1. f[i] = IF i = 1 THEN ps[i] ELSE f[i - 1] \o ps[i]
      BY <1>2
    <3>2. i # 1 => i - 1 \in 1..n
      OBVIOUS
    <3> QED BY <3>1, <3>2
  <2>2. g = [i \in 1..n |-> g[i]]
    OBVIOUS
  <2> HIDE DEF g
  <2> QED BY <2>1, <2>2 DEF Flattens
<1>4. g[n] = f[n]
  OBVIOUS
<1>5. f[n + 1] = f[n] \o qs[n + 1]
  <2>1. n + 1 \in 1..(n + 1) /\ n + 1 # 1 /\ (n + 1) - 1 = n
    OBVIOUS
  <2> HIDE DEF g
  <2> QED BY <1>2, <2>1
<1>6. FlattenSeq(ps) = g[n]
  <2> HIDE DEF g
  <2> QED BY <1>3, FlattenIs
<1>7. FlattenSeq(qs) = f[n + 1]
  BY <1>1, FlattenIs
<1> QED BY <1>4, <1>5, <1>6, <1>7

-----------------------------------------------------------------------------
(* The lines of a listing, and what they assemble to.                      *)
Lines == [pc : Nat, op : {String(b) : b \in Bytes}, arg : Seq(Bytes)]

Piece(line) == <<StringToOp(line.op)>> \o line.arg

LEMMA NameOfByte ==
  ASSUME NEW b \in Bytes
  PROVE  /\ StringToOp(String(b)) =
              IF opCodeToString[b] = "" THEN OpCode["STOP"] ELSE b
         /\ StringToOp(String(b)) \in Bytes
<1>1. opCodeToString[b] =
        IF \E name \in Written : OpCode[name] = b
        THEN CHOOSE name \in Written : OpCode[name] = b ELSE ""
  BY DEF opCodeToString
<1>2. CASE opCodeToString[b] = ""
  BY <1>2, TablesAssumption DEF String, StringToOp, IsValidString
<1>3. CASE opCodeToString[b] # ""
  <2>1. opCodeToString[b] \in Written /\ OpCode[opCodeToString[b]] = b
    BY <1>1, <1>3
  <2>2. Written \subseteq Listed
    BY DEF Written, Listed
  <2> QED BY <1>3, <2>1, <2>2 DEF String, StringToOp, IsValidString
<1> QED BY <1>2, <1>3, TablesAssumption

LEMMA PieceTyped ==
  ASSUME NEW l \in Lines
  PROVE  Piece(l) \in Seq(Bytes) /\ Len(Piece(l)) = Len(l.arg) + 1
<1>1. StringToOp(l.op) \in Bytes /\ l.arg \in Seq(Bytes)
  BY NameOfByte DEF Lines
<1>2. <<StringToOp(l.op)>> \in Seq(Bytes) /\ Len(<<StringToOp(l.op)>>) = 1
  BY <1>1
<1>3. Len(l.arg) \in Nat
  BY <1>1
<1> QED BY <1>1, <1>2, <1>3, ConcatProperties DEF Piece

LEMMA AssembledNone == Assembled(<<>>) = <<>>
<1> DEFINE e == <<>>
           parts == [i \in DOMAIN e |-> <<StringToOp(e[i].op)>> \o e[i].arg]
<1>1. parts = <<>> /\ Len(parts) = 0
  OBVIOUS
<1>2. Assembled(e) = FlattenSeq(parts)
  BY DEF Assembled
<1> HIDE DEF parts
<1> QED BY <1>1, <1>2 DEF FlattenSeq

LEMMA AssembledLast ==
  ASSUME NEW lines \in Seq(Lines), NEW l \in Lines, Assembled(lines) \in Seq(Bytes)
  PROVE  Assembled(Append(lines, l)) = Assembled(lines) \o Piece(l)
<1> DEFINE n == Len(lines)
           more == Append(lines, l)
           ps == [i \in 1..n |-> Piece(lines[i])]
           qs == [i \in 1..(n + 1) |-> Piece(more[i])]
<1>1. /\ n \in Nat /\ DOMAIN lines = 1..n /\ DOMAIN more = 1..(n + 1)
      /\ \A i \in 1..n : more[i] = lines[i]
      /\ more[n + 1] = l
  BY AppendProperties, LenProperties
<1>2. Assembled(lines) = FlattenSeq(ps) /\ Assembled(more) = FlattenSeq(qs)
  BY <1>1 DEF Assembled, Piece
<1>3. Len(ps) = n /\ Len(qs) = n + 1 /\ \A i \in 1..n : ps[i] = qs[i]
  BY <1>1
<1>4. qs[n + 1] = Piece(l)
  BY <1>1
<1>5. CASE n = 0
  <2>1. Assembled(more) = Piece(l)
    <3> HIDE DEF qs, ps, n, more
    <3> QED BY <1>2, <1>3, <1>4, <1>5, FlattenOne
  <2>2. lines = <<>>
    BY <1>5, EmptySeq
  <2> QED BY <2>1, <2>2, AssembledNone, PieceTyped, ConcatEmptySeq
<1>6. CASE n # 0
  <2> HIDE DEF ps, qs, n, more
  <2>1. FlattenSeq(qs) = FlattenSeq(ps) \o qs[n + 1]
    BY <1>1, <1>3, <1>6, FlattenLast
  <2> QED BY <1>2, <1>4, <2>1 DEF more
<1> QED BY <1>5, <1>6

-----------------------------------------------------------------------------
(* Where instructions begin.                                               *)
After(c, j) == j + 1 + ArgLength(c[j + 1])

Bounds(c, n, f) ==
  f = [i \in 0..n |-> \/ i = 0
                      \/ \E j \in 0..(i - 1) : i = After(c, j) /\ f[j]]

LEMMA ArgLengthTyped == ASSUME NEW b \in Bytes PROVE ArgLength(b) \in Nat
<1>1. OpCode["PUSH0"] \in Nat
  BY TablesAssumption DEF Bytes
<1> QED BY <1>1 DEF ArgLength, IsPush, Bytes

LEMMA BoundsExist == ASSUME NEW c, NEW n \in Nat PROVE \E f : Bounds(c, n, f)
<1> DEFINE T == {m \in Nat : ~ \E f : Bounds(c, m, f)}
<1> SUFFICES ASSUME T # {} PROVE FALSE
  OBVIOUS
<1>1. PICK m \in T : \A y \in T : m <= y
  BY Smallest
<1>2. CASE m = 0
  <2>1. Bounds(c, 0, [i \in 0..0 |-> TRUE])
    BY DEF Bounds
  <2> QED BY <1>1, <1>2, <2>1
<1>3. CASE m # 0
  <2>1. m - 1 \in Nat /\ m - 1 \notin T
    BY <1>1, <1>3
  <2>2. PICK f : Bounds(c, m - 1, f)
    BY <2>1
  <2> DEFINE g == [i \in 0..m |->
                     IF i # m THEN f[i]
                     ELSE \E j \in 0..(m - 1) : m = After(c, j) /\ f[j]]
  <2>3. Bounds(c, m, g)
    <3>1. ASSUME NEW i \in 0..m
          PROVE  g[i] = (i = 0 \/ \E j \in 0..(i - 1) : i = After(c, j) /\ g[j])
      <4>1. \A j \in 0..(i - 1) : g[j] = f[j]
        <5>1. \A j \in 0..(i - 1) : j \in 0..m /\ j # m
          OBVIOUS
        <5> QED BY <5>1
      <4>2. CASE i = m
        <5>1. g[i] = \E j \in 0..(i - 1) : i = After(c, j) /\ f[j]
          BY <4>2
        <5> HIDE DEF g
        <5> QED BY <1>3, <4>1, <4>2, <5>1
      <4>3. CASE i # m
        <5>1. i \in 0..(m - 1)
          BY <1>3, <4>3
        <5>2. f[i] = (i = 0 \/ \E j \in 0..(i - 1) : i = After(c, j) /\ f[j])
          BY <2>2, <5>1 DEF Bounds
        <5>3. g[i] = f[i]
          BY <4>3
        <5> HIDE DEF g
        <5> QED BY <4>1, <5>2, <5>3
      <4> QED BY <4>2, <4>3
    <3>2. g = [i \in 0..m |-> g[i]]
      OBVIOUS
    <3> HIDE DEF g
    <3> QED BY <3>1, <3>2 DEF Bounds
  <2> QED BY <1>1, <2>3
<1> QED BY <1>2, <1>3

LEMMA BoundaryIs == ASSUME Len(code) \in Nat PROVE Bounds(code, Len(code), IsBoundary)
<1> DEFINE n == Len(code)
           g == CHOOSE f : Bounds(code, n, f)
<1>1. Bounds(code, n, g)
  BY BoundsExist
<1>2. IsBoundary = g
  BY DEF IsBoundary, Bounds, Byte, After
<1> QED BY <1>1, <1>2

(* Up to a place e, no instruction reaches over it.                        *)
NoneOver(c, f, e) == \A i \in 0..(e - 1) : f[i] => After(c, i) <= e

LEMMA NextBoundary ==
  ASSUME NEW c \in Seq(Bytes), NEW f, Bounds(c, Len(c), f), NEW e \in 0..(Len(c) - 1),
         f[e], NoneOver(c, f, e), After(c, e) <= Len(c)
  PROVE  /\ f[After(c, e)] /\ NoneOver(c, f, After(c, e))
         /\ \A i \in (e + 1)..(After(c, e) - 1) : ~f[i]
<1> DEFINE n == Len(c)
           u == After(c, e)
<1>1. n \in Nat /\ \A i \in 0..(n - 1) : c[i + 1] \in Bytes
  BY ElementOfSeq, LenProperties
<1>2. \A i \in 0..(n - 1) : After(c, i) \in Nat /\ After(c, i) > i
  <2> SUFFICES ASSUME NEW i \in 0..(n - 1) PROVE After(c, i) \in Nat /\ After(c, i) > i
    OBVIOUS
  <2>1. ArgLength(c[i + 1]) \in Nat
    BY <1>1, ArgLengthTyped
  <2> QED BY <1>1, <2>1 DEF After
<1>3. u \in Nat /\ u > e /\ u <= n
  BY <1>2
<1>4. \A i \in 0..n : f[i] <=> (i = 0 \/ \E j \in 0..(i - 1) : i = After(c, j) /\ f[j])
  BY DEF Bounds
<1>5. f[u]
  <2>1. u \in 0..n /\ e \in 0..(u - 1)
    BY <1>1, <1>3
  <2> HIDE DEF u
  <2>2. u = After(c, e)
    BY DEF u
  <2> QED BY <1>4, <2>1, <2>2
<1>6. \A i \in (e + 1)..(u - 1) : ~f[i]
  <2> DEFINE T == {i \in (e + 1)..(u - 1) : f[i]}
  <2> HIDE DEF u, n
  <2>1. ASSUME T # {} PROVE FALSE
    <3>1. T \subseteq Nat
      BY <1>3
    <3>2. PICK m \in T : \A y \in T : m <= y
      <4> HIDE DEF T
      <4> QED BY <2>1, <3>1, Smallest
    <3>3. m \in 0..n /\ m # 0 /\ m > e /\ m < u /\ f[m]
      BY <1>1, <1>3, <3>2
    <3>4. PICK j \in 0..(m - 1) : m = After(c, j) /\ f[j]
      BY <1>4, <3>3
    <3>5. CASE j < e
      <4>1. After(c, j) <= e
        BY <3>4, <3>5 DEF NoneOver
      <4> QED BY <3>3, <3>4, <4>1
    <3>6. CASE j = e
      BY <3>3, <3>4, <3>6 DEF u
    <3>7. CASE j > e
      <4>1. j \in T
        BY <1>3, <3>3, <3>4, <3>7
      <4> QED BY <3>2, <3>3, <3>4, <4>1
    <3> QED BY <1>3, <3>5, <3>6, <3>7
  <2> QED BY <2>1
<1>7. NoneOver(c, f, u)
  <2> SUFFICES ASSUME NEW i \in 0..(u - 1), f[i] PROVE After(c, i) <= u
    BY DEF NoneOver
  <2> HIDE DEF u, n
  <2>1. CASE i < e
    <3>1. After(c, i) <= e /\ After(c, i) \in Nat
      <4>1. i \in 0..(e - 1) /\ i \in 0..(n - 1)
        BY <1>1, <1>3, <2>1
      <4> QED BY <1>2, <4>1 DEF NoneOver
    <3> QED BY <1>3, <3>1
  <2>2. CASE i = e
    BY <1>3, <2>2 DEF u
  <2>3. CASE i > e
    BY <1>3, <1>6, <2>3
  <2> QED BY <1>3, <2>1, <2>2, <2>3
<1> QED BY <1>5, <1>6, <1>7

-----------------------------------------------------------------------------
(* Where the walk has got to: the instruction Next has to find, or, at the *)
(* end, the end of the code or the instruction whose argument is cut off.  *)
Edge == IF ended THEN pc ELSE NextPC

IteratorTyped ==
  /\ code \in Codes
  /\ pc \in Nat
  /\ arg \in Seq(Bytes)
  /\ error \in BOOLEAN /\ started \in BOOLEAN /\ ended \in BOOLEAN
  /\ instrs \in Seq(Lines)

(* The iterator stands on a whole instruction until it is done.            *)
OnInstruction ==
  /\ ~ended => /\ ~error
               /\ IF started THEN pc < Len(code) ELSE pc = 0
  /\ ended /\ ~error => pc = Len(code)
  /\ error => pc < Len(code) /\ Incomplete(pc)

PlacesShown ==
  \A i \in 1..Len(instrs) : instrs[i].pc = Len(Assembled(SubSeq(instrs, 1, i - 1)))

WalkInv ==
  /\ IteratorTyped
  /\ OnInstruction
  /\ Edge <= Len(code)
  /\ IsBoundary[Edge]
  /\ NoneOver(code, IsBoundary, Edge)
  /\ Assembled(instrs) = Recovered(Edge)
  /\ PlacesShown

LEMMA CodeTyped ==
  ASSUME code \in Codes
  PROVE  /\ code \in Seq(Bytes) /\ Len(code) \in Nat
         /\ Bounds(code, Len(code), IsBoundary)
         /\ \A i \in 0..(Len(code) - 1) : Byte(i) \in Bytes /\ ArgLength(Byte(i)) \in Nat
<1>1. code \in Seq(Bytes) /\ Len(code) \in Nat
  BY IteratorAssumption, LenProperties
<1>2. \A i \in 0..(Len(code) - 1) : Byte(i) \in Bytes
  <2> SUFFICES ASSUME NEW i \in 0..(Len(code) - 1) PROVE code[i + 1] \in Bytes
    BY DEF Byte
  <2>1. i + 1 \in 1..Len(code)
    BY <1>1
  <2> QED BY <1>1, <2>1, ElementOfSeq
<1> QED BY <1>1, <1>2, ArgLengthTyped, BoundaryIs

LEMMA SequenceOf ==
  ASSUME NEW S, NEW n \in Nat, NEW s \in [1..n -> S]
  PROVE  s \in Seq(S) /\ Len(s) = n
OBVIOUS

LEMMA RecoveredTyped ==
  ASSUME code \in Codes, NEW e \in 0..Len(code)
  PROVE  Recovered(e) \in Seq(Bytes) /\ Len(Recovered(e)) = e
<1>1. e \in Nat
  OBVIOUS
<1>2. \A i \in 1..e : (IF IsBoundary[i - 1] /\ opCodeToString[code[i]] = ""
                       THEN OpCode["STOP"] ELSE code[i]) \in Bytes
  <2> SUFFICES ASSUME NEW i \in 1..e PROVE code[i] \in Bytes
    BY TablesAssumption
  <2>1. code \in Seq(Bytes) /\ i \in 1..Len(code)
    BY CodeTyped
  <2> QED BY <2>1, ElementOfSeq
<1>3. Recovered(e) \in [1..e -> Bytes]
  BY <1>2 DEF Recovered
<1> QED BY <1>1, <1>3, SequenceOf

(* The invariant says all that ListingRebuilds asks for.                   *)
LEMMA WalkRebuilds == WalkInv => ListingRebuilds
<1> SUFFICES ASSUME WalkInv, ended PROVE
      /\ error <=> \E i \in 0..(Len(code) - 1) : CutOff(i)
      /\ error => CutOff(pc) /\ Assembled(instrs) = Recovered(pc)
      /\ ~error => Assembled(instrs) = Recovered(Len(code))
      /\ \A i \in DOMAIN instrs :
           instrs[i].pc = Len(Assembled(SubSeq(instrs, 1, i - 1)))
  <2>1. ~error => Disassembled = instrs
    BY DEF Disassembled
  <2>2. ~error /\ Assembled(instrs) = Recovered(Len(code))
          => Assembled(Disassembled) = Recovered(Len(code))
    BY <2>1
  <2> QED BY <2>2, Zenon DEF ListingRebuilds
<1>1. /\ code \in Codes /\ pc \in Nat /\ error \in BOOLEAN
      /\ instrs \in Seq(Lines)
      /\ Edge = pc
  BY DEF WalkInv, IteratorTyped, Edge
<1>2. CASE error
  <2>1. pc < Len(code) /\ Incomplete(pc) /\ IsBoundary[pc]
    BY <1>1, <1>2 DEF WalkInv, OnInstruction
  <2>2. CutOff(pc)
    <3>1. Len(code) \in Nat /\ ArgLength(Byte(pc)) \in Nat
      BY <1>1, <2>1, CodeTyped
    <3> QED BY <1>1, <2>1, <3>1 DEF CutOff, Incomplete
  <2> QED BY <1>1, <1>2, <2>1, <2>2, CodeTyped DEF WalkInv, PlacesShown
<1>3. CASE ~error
  <2>1. pc = Len(code)
    BY <1>3 DEF WalkInv, OnInstruction
  <2>2. ASSUME NEW i \in 0..(Len(code) - 1), CutOff(i) PROVE FALSE
    <3>1. After(code, i) <= Len(code)
      BY <1>1, <2>1, <2>2 DEF WalkInv, NoneOver, CutOff
    <3>2. Len(code) \in Nat /\ ArgLength(Byte(i)) \in Nat
      BY <1>1, CodeTyped
    <3> QED BY <2>2, <3>1, <3>2 DEF CutOff, After, Byte
  <2> QED BY <1>1, <1>3, <2>1, <2>2 DEF WalkInv, PlacesShown
<1> QED BY <1>1, <1>2, <1>3

LEMMA InitWalk == Init => WalkInv
<1> SUFFICES ASSUME Init PROVE WalkInv
  OBVIOUS
<1>1. code \in Codes /\ Len(code) \in Nat /\ Edge = 0
  BY CodeTyped DEF Init, Edge, NextPC
<1>2. IteratorTyped
  BY EmptySeq DEF Init, IteratorTyped
<1>3. OnInstruction
  BY DEF Init, OnInstruction
<1>4. IsBoundary[0]
  BY <1>1, CodeTyped DEF Bounds
<1>5. NoneOver(code, IsBoundary, 0)
  BY DEF NoneOver
<1>6. Assembled(instrs) = Recovered(0)
  <2>1. Recovered(0) = <<>>
    BY DEF Recovered
  <2> QED BY <2>1, AssembledNone DEF Init
<1>7. PlacesShown
  BY DEF Init, PlacesShown
<1> QED BY <1>1, <1>2, <1>3, <1>4, <1>5, <1>6, <1>7 DEF WalkInv

-----------------------------------------------------------------------------
(* What one whole instruction adds to the listing.                         *)
Line(e) == [pc |-> e, op |-> String(Byte(e)), arg |-> Argument(e)]

LEMMA WholeInstruction ==
  ASSUME code \in Codes, NEW e \in 0..(Len(code) - 1), ~Incomplete(e)
  PROVE  /\ After(code, e) \in Nat /\ After(code, e) > e /\ After(code, e) <= Len(code)
         /\ Argument(e) \in Seq(Bytes)
         /\ After(code, e) = e + Len(Argument(e)) + 1
         /\ \A i \in 1..Len(Argument(e)) : Argument(e)[i] = code[e + 1 + i]
         /\ Line(e) \in Lines
<1> DEFINE n == Len(code)
           l == ArgLength(Byte(e))
<1>1. n \in Nat /\ code \in Seq(Bytes) /\ Byte(e) \in Bytes /\ l \in Nat
  BY CodeTyped
<1>2. After(code, e) = e + 1 + l
  BY DEF After, Byte
<1>3. e + 1 + l <= n
  <2>1. ~IsPush(Byte(e)) => l = 0
    BY DEF ArgLength
  <2>2. IsPush(Byte(e)) => ~(n < e + 1 + l)
    BY DEF Incomplete
  <2> HIDE DEF n, l
  <2> QED BY <1>1, <2>1, <2>2 DEF n
<1> HIDE DEF l
<1>4. Argument(e) = SubSeq(code, e + 2, e + 1 + l)
  BY DEF Argument, l
<1>5. /\ Argument(e) \in Seq(Bytes) /\ Len(Argument(e)) = l
      /\ \A i \in 1..l : Argument(e)[i] = code[e + 1 + i]
  <2>1. \A i \in (e + 2)..(e + 1 + l) : code[i] \in Bytes
    <3>1. \A i \in (e + 2)..(e + 1 + l) : i \in 1..Len(code)
      BY <1>1, <1>3
    <3> QED BY <1>1, <3>1, ElementOfSeq
  <2>2. /\ Len(Argument(e)) = l
        /\ \A i \in 1..l : Argument(e)[i] = code[e + 1 + i]
        /\ Argument(e) \in Seq(Bytes)
    <3>1. e + 2 \in Int /\ e + 1 + l \in Int
      BY <1>1
    <3> DEFINE b == e + 2
               c == e + 1 + l
    <3>2. b \in Int /\ c \in Int /\ \A i \in b..c : code[i] \in Bytes
      BY <2>1, <3>1
    <3>3. c - b + 1 = l /\ (IF b <= c THEN c - b + 1 ELSE 0) = l
          /\ \A i \in 1..l : b + i - 1 = e + 1 + i
      BY <1>1
    <3>4. Argument(e) = SubSeq(code, b, c)
      BY <1>4
    <3> HIDE DEF b, c
    <3>5. /\ SubSeq(code, b, c) \in Seq(Bytes)
          /\ Len(SubSeq(code, b, c)) = IF b <= c THEN c - b + 1 ELSE 0
          /\ \A i \in 1..(c - b + 1) : SubSeq(code, b, c)[i] = code[b + i - 1]
      BY <3>2, SubSeqProperties
    <3> QED BY <3>3, <3>4, <3>5
  <2> QED BY <2>2
<1>6. Line(e) \in Lines
  BY <1>1, <1>5 DEF Line, Lines
<1> QED BY <1>1, <1>2, <1>3, <1>5, <1>6

LEMMA Joined ==
  ASSUME NEW s \in Seq(Bytes), NEW t \in Seq(Bytes), NEW m, NEW n, Len(s) = m, Len(t) = n
  PROVE  /\ s \o t \in Seq(Bytes) /\ Len(s \o t) = m + n
         /\ \A i \in 1..(m + n) : (s \o t)[i] = IF i <= m THEN s[i] ELSE t[i - m]
BY ConcatProperties

LEMMA Headed ==
  ASSUME NEW x \in Bytes, NEW s \in Seq(Bytes)
  PROVE  /\ (<<x>> \o s)[1] = x
         /\ \A k \in 2..(Len(s) + 1) : (<<x>> \o s)[k] = s[k - 1]
<1> DEFINE h == <<x>>
<1>1. h \in Seq(Bytes) /\ Len(h) = 1 /\ h[1] = x
  OBVIOUS
<1>2. Len(s) \in Nat
  BY LenProperties
<1> HIDE DEF h
<1>3. \A k \in 1..(Len(h) + Len(s)) :
        (h \o s)[k] = IF k <= Len(h) THEN h[k] ELSE s[k - Len(h)]
  BY <1>1, ConcatProperties
<1> QED BY <1>1, <1>2, <1>3 DEF h

LEMMA RecoveredNext ==
  ASSUME code \in Codes, NEW e \in 0..(Len(code) - 1), ~Incomplete(e), IsBoundary[e],
         \A i \in (e + 1)..(After(code, e) - 1) : ~IsBoundary[i]
  PROVE  Recovered(After(code, e)) = Recovered(e) \o Piece(Line(e))
<1> DEFINE u == After(code, e)
           a == Argument(e)
           p == Piece(Line(e))
           r == Recovered(e)
           t == Recovered(u)
<1>1. /\ u \in Nat /\ u > e /\ u <= Len(code) /\ u = e + Len(a) + 1
      /\ a \in Seq(Bytes)
      /\ \A i \in 1..Len(a) : a[i] = code[e + 1 + i]
      /\ Line(e) \in Lines
  BY WholeInstruction
<1>2. Len(code) \in Nat /\ Byte(e) \in Bytes /\ Byte(e) = code[e + 1]
  BY CodeTyped DEF Byte
<1>3. /\ r \in Seq(Bytes) /\ Len(r) = e /\ t \in Seq(Bytes) /\ Len(t) = u
  <2> HIDE DEF u
  <2> QED BY <1>1, <1>2, RecoveredTyped
<1>4. /\ p \in Seq(Bytes) /\ Len(p) = Len(a) + 1
      /\ p[1] = StringToOp(String(Byte(e)))
      /\ \A k \in 2..(Len(a) + 1) : p[k] = a[k - 1]
  <2>1. p = <<StringToOp(String(Byte(e)))>> \o a /\ p \in Seq(Bytes) /\ Len(p) = Len(a) + 1
    BY <1>1, PieceTyped DEF Piece, Line
  <2>2. StringToOp(String(Byte(e))) \in Bytes /\ a \in Seq(Bytes)
    BY <1>1, <1>2, NameOfByte
  <2> HIDE DEF p, a
  <2> QED BY <2>1, <2>2, Headed
<1>5. /\ r \o p \in Seq(Bytes) /\ Len(r \o p) = u
      /\ \A i \in 1..u : (r \o p)[i] = IF i <= e THEN r[i] ELSE p[i - e]
  <2> HIDE DEF r, p, a, u
  <2>1. Len(a) \in Nat
    BY <1>1
  <2>2. Len(r) + Len(p) = u
    BY <1>1, <1>3, <1>4, <2>1
  <2> DEFINE m == Len(p)
  <2>3. Len(p) = m /\ e + m = u
    BY <1>3, <2>2
  <2> HIDE DEF m
  <2>4. /\ r \o p \in Seq(Bytes) /\ Len(r \o p) = e + m
        /\ \A i \in 1..(e + m) : (r \o p)[i] = IF i <= e THEN r[i] ELSE p[i - e]
    BY <1>3, <1>4, <2>3, Joined
  <2> QED BY <2>3, <2>4
<1>6. ASSUME NEW i \in 1..u PROVE t[i] = (r \o p)[i]
  <2>1. t[i] = IF IsBoundary[i - 1] /\ opCodeToString[code[i]] = ""
               THEN OpCode["STOP"] ELSE code[i]
    BY DEF Recovered
  <2> HIDE DEF t, p, a, u
  <2>2. CASE i <= e
    <3>1. r[i] = IF IsBoundary[i - 1] /\ opCodeToString[code[i]] = ""
                 THEN OpCode["STOP"] ELSE code[i]
      BY <1>1, <2>2 DEF Recovered
    <3> HIDE DEF r
    <3> QED BY <1>5, <2>1, <2>2, <3>1
  <2> HIDE DEF r
  <2>3. CASE i = e + 1
    <3>1. (r \o p)[i] = p[1]
      BY <1>1, <1>5, <2>3
    <3>2. i - 1 = e
      BY <2>3
    <3> QED BY <1>2, <1>4, <2>1, <2>3, <3>1, <3>2, NameOfByte
  <2>4. CASE i > e + 1
    <3>1. ~IsBoundary[i - 1]
      <4>1. i - 1 \in (e + 1)..(u - 1)
        BY <1>1, <2>4
      <4> QED BY <4>1 DEF u
    <3>2. (r \o p)[i] = p[i - e]
      BY <1>1, <1>5, <2>4
    <3>4. Len(a) \in Nat
      BY <1>1
    <3>5. /\ i - e \in 2..(Len(a) + 1)
          /\ (i - e) - 1 \in 1..Len(a) /\ e + 1 + ((i - e) - 1) = i
      <4>1. i \in Int /\ e \in Int /\ i <= u /\ u = e + Len(a) + 1
        BY <1>1, <1>2
      <4> HIDE DEF a, u
      <4> QED BY <2>4, <3>4, <4>1
    <3>3. (r \o p)[i] = code[i]
      BY <1>1, <1>4, <3>2, <3>5
    <3> QED BY <2>1, <3>1, <3>3
  <2>5. i <= e \/ i = e + 1 \/ i > e + 1
    <3>1. i \in Int /\ e \in Int
      BY <1>1, <1>2
    <3> QED BY <3>1
  <2> QED BY <2>2, <2>3, <2>4, <2>5
<1>7. \A s, v \in Seq(Bytes) : Len(s) = u /\ Len(v) = u /\ (\A i \in 1..u : s[i] = v[i]) => s = v
  <2> HIDE DEF u
  <2> QED BY <1>1, SeqEqual
<1> HIDE DEF u, a, p, r, t
<1>8. t = r \o p
  BY <1>3, <1>5, <1>6, <1>7
<1> QED BY <1>8 DEF u, p, r, t

-----------------------------------------------------------------------------
(* The returns of Next, one by one.                                        *)
LEMMA SameBoundaries == ASSUME code' = code PROVE IsBoundary' = IsBoundary
BY DEF IsBoundary, Byte

LEMMA SameRecovered ==
  ASSUME code' = code, NEW e, Edge' = e
  PROVE  Recovered(Edge)' = Recovered(e)
BY SameBoundaries DEF Recovered

LEMMA SubSeqAppended ==
  ASSUME NEW S, NEW s \in Seq(S), NEW x \in S, NEW i \in 1..(Len(s) + 1)
  PROVE  SubSeq(Append(s, x), 1, i - 1) = SubSeq(s, 1, i - 1)
<1>1. /\ Append(s, x) \in Seq(S) /\ Len(Append(s, x)) = Len(s) + 1 /\ Len(s) \in Nat
      /\ \A k \in 1..Len(s) : Append(s, x)[k] = s[k]
      /\ \A k \in 1..Len(s) : s[k] \in S
  BY AppendProperties, LenProperties, ElementOfSeq
<1> DEFINE a == SubSeq(Append(s, x), 1, i - 1)
           b == SubSeq(s, 1, i - 1)
<1>2. /\ a \in Seq(S) /\ b \in Seq(S) /\ Len(a) = i - 1 /\ Len(b) = i - 1
      /\ \A k \in 1..(i - 1) : a[k] = Append(s, x)[k] /\ b[k] = s[k]
  BY <1>1
<1>3. \A k \in 1..(i - 1) : a[k] = b[k]
  BY <1>1, <1>2
<1> HIDE DEF a, b
<1>4. a = b
  BY <1>2, <1>3, SeqEqual
<1> QED BY <1>4 DEF a, b

(* A return that adds no line and stays where the walk has got to.         *)
LEMMA NothingAdded ==
  ASSUME WalkInv, code' = code, instrs' = instrs, Edge' = Edge,
         IteratorTyped', OnInstruction'
  PROVE  WalkInv'
<1>1. /\ Edge' <= Len(code') /\ IsBoundary'[Edge']
      /\ NoneOver(code, IsBoundary, Edge)'
  BY SameBoundaries DEF WalkInv, NoneOver
<1>2. (Assembled(instrs) = Recovered(Edge))'
  BY SameRecovered DEF WalkInv
<1>3. PlacesShown'
  BY DEF WalkInv, PlacesShown
<1> QED BY <1>1, <1>2, <1>3 DEF WalkInv

LEMMA WalkTyped ==
  ASSUME WalkInv
  PROVE  /\ code \in Codes /\ Len(code) \in Nat /\ Len(arg) \in Nat
         /\ pc \in Nat /\ NextPC \in Nat
BY CodeTyped, LenProperties DEF WalkInv, IteratorTyped, NextPC

LEMMA ExhaustedWalk == ASSUME WalkInv, ReturnExhausted PROVE WalkInv'
<1>1. ~ended /\ ~error /\ Len(code) <= pc /\ ~started /\ pc = 0 /\ Len(code) = 0
  BY WalkTyped DEF WalkInv, OnInstruction, ReturnExhausted, Exhausted
<1>2. /\ code' = code /\ instrs' = instrs /\ pc' = pc /\ arg' = arg
      /\ error' = error /\ started' = started /\ ended' = TRUE
  BY DEF ReturnExhausted
<1>3. Edge' = Edge
  BY <1>1, <1>2 DEF Edge, NextPC
<1>4. IteratorTyped'
  BY <1>2 DEF WalkInv, IteratorTyped
<1>5. OnInstruction'
  BY <1>1, <1>2 DEF OnInstruction
<1> QED BY <1>2, <1>3, <1>4, <1>5, NothingAdded

LEMMA EndWalk == ASSUME WalkInv, ReturnEnd PROVE WalkInv'
<1>1. ~ended /\ ~error /\ NextPC = Len(code) /\ NextPC = Edge
  BY WalkTyped DEF WalkInv, OnInstruction, ReturnEnd, Exhausted, Edge
<1>2. /\ code' = code /\ instrs' = instrs /\ pc' = NextPC /\ arg' = <<>>
      /\ error' = error /\ started' = TRUE /\ ended' = TRUE
  BY DEF ReturnEnd
<1>3. Edge' = Edge
  BY <1>1, <1>2 DEF Edge
<1>4. IteratorTyped'
  BY <1>2, WalkTyped, EmptySeq DEF WalkInv, IteratorTyped
<1>5. OnInstruction'
  BY <1>1, <1>2 DEF OnInstruction
<1> QED BY <1>2, <1>3, <1>4, <1>5, NothingAdded

LEMMA IncompleteWalk == ASSUME WalkInv, ReturnIncomplete PROVE WalkInv'
<1>1. ~ended /\ NextPC < Len(code) /\ NextPC = Edge /\ Incomplete(NextPC)
  BY DEF ReturnIncomplete, Edge
<1>2. /\ code' = code /\ instrs' = instrs /\ pc' = NextPC /\ arg' = <<>>
      /\ error' = TRUE /\ started' = TRUE /\ ended' = TRUE
  BY DEF ReturnIncomplete
<1>3. Edge' = Edge
  BY <1>1, <1>2 DEF Edge
<1>4. IteratorTyped'
  BY <1>2, WalkTyped, EmptySeq DEF WalkInv, IteratorTyped
<1>5. OnInstruction'
  <2>1. Incomplete(pc)'
    BY <1>1, <1>2 DEF Incomplete, Byte
  <2> QED BY <1>1, <1>2, <2>1 DEF OnInstruction
<1> QED BY <1>2, <1>3, <1>4, <1>5, NothingAdded

LEMMA InstructionWalk == ASSUME WalkInv, ReturnInstruction PROVE WalkInv'
<1> DEFINE e == NextPC
           u == After(code, e)
<1>1. /\ ~ended /\ ~error /\ e < Len(code) /\ e = Edge /\ ~Incomplete(e)
      /\ e \in 0..(Len(code) - 1)
  BY WalkTyped DEF WalkInv, OnInstruction, ReturnInstruction, Edge
<1>2. /\ code' = code /\ pc' = e /\ arg' = Argument(e) /\ started' = TRUE
      /\ instrs' = Append(instrs, Line(e)) /\ error' = error /\ ended' = ended
  BY DEF ReturnInstruction, Line
<1>3. /\ code \in Codes /\ code \in Seq(Bytes) /\ Len(code) \in Nat
      /\ Bounds(code, Len(code), IsBoundary)
  BY WalkTyped, CodeTyped
<1>4. /\ u \in Nat /\ u > e /\ u <= Len(code) /\ Argument(e) \in Seq(Bytes)
      /\ u = e + Len(Argument(e)) + 1 /\ Line(e) \in Lines
  BY <1>1, <1>3, WholeInstruction
<1>5. /\ IsBoundary[e] /\ NoneOver(code, IsBoundary, e) /\ instrs \in Seq(Lines)
      /\ Assembled(instrs) = Recovered(e) /\ PlacesShown
  BY <1>1 DEF WalkInv, IteratorTyped
<1>6. Edge' = u
  BY <1>1, <1>2, <1>4 DEF Edge, NextPC
<1>7. IteratorTyped'
  <2>1. e \in Nat
    BY WalkTyped
  <2> HIDE DEF e
  <2>2. instrs' \in Seq(Lines)
    BY <1>2, <1>4, <1>5, AppendProperties
  <2> QED BY <1>2, <1>4, <2>1, <2>2 DEF WalkInv, IteratorTyped
<1>8. OnInstruction'
  BY <1>1, <1>2 DEF OnInstruction
<1> HIDE DEF e
<1>9. /\ IsBoundary[u] /\ NoneOver(code, IsBoundary, u)
      /\ \A i \in (e + 1)..(u - 1) : ~IsBoundary[i]
  BY <1>1, <1>3, <1>4, <1>5, NextBoundary
<1>10. /\ Edge' <= Len(code') /\ IsBoundary'[Edge'] /\ NoneOver(code, IsBoundary, Edge)'
  <2> HIDE DEF u
  <2> QED BY <1>2, <1>4, <1>6, <1>9, SameBoundaries DEF NoneOver
<1>11. Recovered(e) \in Seq(Bytes) /\ Len(Recovered(e)) = e
  BY <1>1, <1>3, RecoveredTyped
<1>12. (Assembled(instrs) = Recovered(Edge))'
  <2>1. Assembled(instrs') = Recovered(e) \o Piece(Line(e))
    BY <1>2, <1>4, <1>5, <1>11, AssembledLast
  <2>2. Recovered(u) = Recovered(e) \o Piece(Line(e))
    BY <1>1, <1>3, <1>5, <1>9, RecoveredNext
  <2>3. Recovered(Edge)' = Recovered(u)
    BY <1>2, <1>6, SameRecovered
  <2> QED BY <2>1, <2>2, <2>3
<1>13. PlacesShown'
  <2> DEFINE n == Len(instrs)
             more == Append(instrs, Line(e))
  <2>1. /\ n \in Nat /\ Len(more) = n + 1 /\ more[n + 1] = Line(e)
        /\ \A i \in 1..n : more[i] = instrs[i]
    BY <1>4, <1>5, AppendProperties, LenProperties
  <2>2. \A i \in 1..(n + 1) : SubSeq(more, 1, i - 1) = SubSeq(instrs, 1, i - 1)
    BY <1>4, <1>5, <2>1, SubSeqAppended
  <2>3. SubSeq(instrs, 1, n) = instrs
    BY <1>5, SubSeqFull
  <2>4. Line(e).pc = e
    BY DEF Line
  <2> HIDE DEF n, more
  <2>5. ASSUME NEW i \in 1..(n + 1) PROVE more[i].pc = Len(Assembled(SubSeq(more, 1, i - 1)))
    <3>1. CASE i \in 1..n
      BY <1>5, <2>1, <2>2, <3>1 DEF PlacesShown, n
    <3>2. CASE i = n + 1
      <4>1. i - 1 = n
        BY <2>1, <3>2
      <4> QED BY <1>5, <1>11, <2>1, <2>2, <2>3, <2>4, <3>2, <4>1
    <3> QED BY <2>1, <3>1, <3>2
  <2> QED BY <1>2, <2>1, <2>5 DEF PlacesShown, more
<1> QED BY <1>7, <1>8, <1>10, <1>12, <1>13 DEF WalkInv

LEMMA WalkInvariant == Spec => []WalkInv
<1>1. WalkInv /\ [Next]_vars => WalkInv'
  <2> SUFFICES ASSUME WalkInv, [Next]_vars PROVE WalkInv'
    OBVIOUS
  <2>1. CASE ReturnExhausted
    BY <2>1, ExhaustedWalk
  <2>2. CASE ReturnEnd
    BY <2>2, EndWalk
  <2>3. CASE ReturnIncomplete
    BY <2>3, IncompleteWalk
  <2>4. CASE ReturnInstruction
    BY <2>4, InstructionWalk
  <2>5. CASE UNCHANGED vars
    <3>1. Edge' = Edge
      BY <2>5 DEF vars, Edge, NextPC
    <3>2. IteratorTyped' /\ OnInstruction'
      BY <2>5 DEF vars, WalkInv, IteratorTyped, OnInstruction, Incomplete, Byte
    <3> QED BY <2>5, <3>1, <3>2, NothingAdded DEF vars
  <2> QED BY <2>1, <2>2, <2>3, <2>4, <2>5 DEF Next
<1> QED BY <1>1, InitWalk, PTL DEF Spec

(* Every code, of any length and over all 256 bytes, can be put together   *)
(* again from what Disassemble returns for it, or, where it returns an     *)
(* error, up to there from the lines printed.                              *)
THEOREM ListingAlwaysRebuilds == Spec => []ListingRebuilds
BY WalkInvariant, WalkRebuilds, PTL
=============================================================================
