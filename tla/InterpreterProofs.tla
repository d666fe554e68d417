-------------------------- MODULE InterpreterProofs --------------------------
(* Nested runs, for any jump table, any gas and any limit of the depth.    *)
EXTENDS Interpreter, SequenceTheorems, WellFoundedInduction, TLAPS

(***************************************************************************)
(* The register pool: indices are unique and loops in order, for any       *)
(* depths, places and length of run.                                       *)
(***************************************************************************)
LEMMA InitPool == Init => PoolInv
<1> SUFFICES ASSUME Init PROVE PoolInv
  OBVIOUS
<1>1. regkeyList \in Seq(Index) /\ 1..Len(regkeyList) = {}
  BY EmptySeq DEF Init
<1>2. DOMAIN loopLookUpTable = {} /\ panicked = FALSE
  BY DEF Init
<1>3. TypeOK
  BY <1>1, <1>2 DEF TypeOK
<1> QED BY <1>1, <1>3 DEF PoolInv, IndexUnique

LEMMA LookedTyped ==
  ASSUME TypeOK, NEW k \in Keys
  PROVE  /\ Lookup(k) \in Nat
         /\ DOMAIN Looked(k) = DOMAIN loopLookUpTable \cup {k}
         /\ Looked(k)[k] = Lookup(k)
         /\ \A j \in DOMAIN loopLookUpTable :
              /\ Looked(k)[j] \in Nat
              /\ loopLookUpTable[j] <= Looked(k)[j]
         /\ k \in DOMAIN loopLookUpTable => Lookup(k) > loopLookUpTable[k]
BY DEF TypeOK, Lookup, Looked

LEMMA AppendPool ==
  ASSUME PoolInv, NEW d \in Depths, NEW p \in PCs, NEW n \in MinStacks, AppendReg(d, p, n)
  PROVE  PoolInv'
<1> DEFINE k == <<d, p>>
           r == [depth |-> d, pc |-> p, loop |-> Lookup(k)]
<1>0. TypeOK
  BY DEF PoolInv
<1>1. k \in Keys
  BY DEF Keys
<1>2. /\ loopLookUpTable' = Looked(k)
      /\ \/ regkeyList' = Append(regkeyList, r) /\ panicked' = panicked
         \/ regkeyList' = regkeyList /\ panicked' = TRUE
  BY DEF AppendReg
<1>3. r \in Index
  BY <1>0, <1>1, LookedTyped DEF Index
<1>4. TypeOK'
  <2>1. regkeyList' \in Seq(Index)
    BY <1>0, <1>2, <1>3, AppendProperties DEF TypeOK
  <2>2. /\ DOMAIN loopLookUpTable' \subseteq Keys
        /\ \A j \in DOMAIN loopLookUpTable' : loopLookUpTable'[j] \in Nat
    BY <1>0, <1>1, <1>2, LookedTyped DEF TypeOK
  <2> QED BY <1>0, <1>2, <2>1, <2>2 DEF TypeOK
<1>a. \A i \in 1..Len(regkeyList) :
        /\ regkeyList[i] \in Index
        /\ <<regkeyList[i].depth, regkeyList[i].pc>> \in DOMAIN loopLookUpTable
        /\ regkeyList[i].loop
             <= loopLookUpTable[<<regkeyList[i].depth, regkeyList[i].pc>>]
  <2>1. regkeyList \in Seq(Index)
    BY <1>0 DEF TypeOK
  <2>2. \A i \in 1..Len(regkeyList) : regkeyList[i] \in Index
    BY <2>1, ElementOfSeq
  <2> QED BY <2>2 DEF PoolInv
<1>5. ASSUME NEW i \in 1..Len(regkeyList)
      PROVE  /\ <<regkeyList[i].depth, regkeyList[i].pc>> \in DOMAIN loopLookUpTable'
             /\ regkeyList[i].loop
                  <= loopLookUpTable'[<<regkeyList[i].depth, regkeyList[i].pc>>]
             /\ regkeyList[i] # r
  <2> DEFINE j == <<regkeyList[i].depth, regkeyList[i].pc>>
  <2>1. /\ j \in DOMAIN loopLookUpTable /\ regkeyList[i].loop <= loopLookUpTable[j]
        /\ regkeyList[i].loop \in Nat /\ loopLookUpTable[j] \in Nat
    BY <1>0, <1>a DEF TypeOK, Index
  <2>2. /\ j \in DOMAIN loopLookUpTable'
        /\ loopLookUpTable[j] <= loopLookUpTable'[j]
        /\ loopLookUpTable'[j] \in Nat
    BY <1>0, <1>1, <1>2, <2>1, LookedTyped
  <2>3. ASSUME regkeyList[i] = r PROVE FALSE
    <3>1. j = k /\ regkeyList[i].loop = Lookup(k)
      BY <2>3
    <3>2. Lookup(k) > loopLookUpTable[k] /\ Lookup(k) \in Nat
      BY <1>0, <1>1, <2>1, <3>1, LookedTyped
    <3> HIDE DEF k
    <3> QED BY <2>1, <3>1, <3>2
  <2> HIDE DEF j
  <2>4. regkeyList[i].loop <= loopLookUpTable'[j]
    BY <2>1, <2>2
  <2> QED BY <2>2, <2>3, <2>4 DEF j
<1>6. CASE regkeyList' = regkeyList
  BY <1>4, <1>5, <1>6 DEF PoolInv, IndexUnique
<1>7. CASE regkeyList' = Append(regkeyList, r)
  <2>1. /\ Len(regkeyList') = Len(regkeyList) + 1
        /\ regkeyList'[Len(regkeyList) + 1] = r
        /\ \A i \in 1..Len(regkeyList) : regkeyList'[i] = regkeyList[i]
    BY <1>0, <1>3, <1>7, AppendProperties DEF TypeOK
  <2>2. Len(regkeyList) \in Nat
    BY <1>0, LenProperties DEF TypeOK
  <2>3. k \in DOMAIN loopLookUpTable' /\ loopLookUpTable'[k] = Lookup(k)
        /\ Lookup(k) \in Nat
    BY <1>0, <1>1, <1>2, LookedTyped
  <2>4. r.depth = d /\ r.pc = p /\ r.loop = Lookup(k)
    OBVIOUS
  <2>5. \A i \in 1..Len(regkeyList') :
          <<regkeyList'[i].depth, regkeyList'[i].pc>> \in DOMAIN loopLookUpTable'
          /\ regkeyList'[i].loop
               <= loopLookUpTable'[<<regkeyList'[i].depth, regkeyList'[i].pc>>]
    <3> SUFFICES ASSUME NEW i \in 1..Len(regkeyList')
                 PROVE  /\ <<regkeyList'[i].depth, regkeyList'[i].pc>>
                             \in DOMAIN loopLookUpTable'
                        /\ regkeyList'[i].loop <= loopLookUpTable'[
                             <<regkeyList'[i].depth, regkeyList'[i].pc>>]
      OBVIOUS
    <3>1. CASE i \in 1..Len(regkeyList)
      BY <1>5, <2>1, <3>1
    <3>2. CASE i = Len(regkeyList) + 1
      <4>1. regkeyList'[i].depth = d /\ regkeyList'[i].pc = p
            /\ regkeyList'[i].loop = Lookup(k)
        BY <2>1, <2>4, <3>2
      <4> QED BY <2>3, <4>1
    <3> QED BY <2>1, <2>2, <3>1, <3>2
  <2>6. IndexUnique'
    <3> SUFFICES ASSUME NEW i \in 1..Len(regkeyList'), NEW j \in 1..Len(regkeyList'),
                        i # j
                 PROVE  regkeyList'[i] # regkeyList'[j]
      BY DEF IndexUnique
    <3> HIDE DEF r
    <3>1. IndexUnique
      BY DEF PoolInv
    <3>2. \A m \in 1..Len(regkeyList) : regkeyList[m] # r
      BY <1>5
    <3>3. 1..Len(regkeyList') = 1..Len(regkeyList) \cup {Len(regkeyList) + 1}
      BY <2>1, <2>2
    <3>4. CASE i \in 1..Len(regkeyList) /\ j \in 1..Len(regkeyList)
      BY <2>1, <3>1, <3>4 DEF IndexUnique
    <3>5. CASE i = Len(regkeyList) + 1 \/ j = Len(regkeyList) + 1
      BY <2>1, <2>2, <3>2, <3>3, <3>5
    <3> QED BY <3>3, <3>4, <3>5
  <2> QED BY <1>4, <2>5, <2>6 DEF PoolInv
<1> QED BY <1>2, <1>6, <1>7

LEMMA StepPool == PoolInv /\ [Next]_vars => PoolInv'
<1> SUFFICES ASSUME PoolInv, [Next]_vars PROVE PoolInv'
  OBVIOUS
<1>1. CASE UNCHANGED vars
  BY <1>1 DEF vars, PoolInv, TypeOK, IndexUnique
<1> QED BY <1>1, AppendPool DEF Next

(* No two registers ever share an index.                                   *)
THEOREM IndexAlwaysUnique == Spec => []IndexUnique
<1>1. PoolInv => IndexUnique
  BY DEF PoolInv
<1> QED BY InitPool, StepPool, <1>1, PTL DEF Spec

-----------------------------------------------------------------------------
(* Why there is no gap: the table holds the loop of the last register of   *)
(* each place, unless that register could not be built.                    *)
At(k, loop) == [depth |-> k[1], pc |-> k[2], loop |-> loop]

LoopInv ==
  /\ PoolInv
  /\ LoopsInOrder
  /\ \/ panicked
     \/ \A k \in DOMAIN loopLookUpTable :
          \E i \in 1..Len(regkeyList) : regkeyList[i] = At(k, loopLookUpTable[k])

LEMMA InitLoops == Init => LoopInv
<1> SUFFICES ASSUME Init PROVE LoopInv
  OBVIOUS
<1>1. 1..Len(regkeyList) = {} /\ DOMAIN loopLookUpTable = {}
  BY EmptySeq DEF Init
<1> QED BY <1>1, InitPool DEF LoopInv, LoopsInOrder

(* The loops before the one that is given out next.                        *)
LEMMA EarlierLoops ==
  ASSUME LoopInv, ~panicked, NEW k \in Keys, NEW n \in 0..(Lookup(k) - 1)
  PROVE  \E i \in 1..Len(regkeyList) : regkeyList[i] = At(k, n)
<1>1. k \in DOMAIN loopLookUpTable
  BY DEF Lookup
<1>2. loopLookUpTable[k] \in Nat /\ n \in 0..loopLookUpTable[k] /\ Len(regkeyList) \in Nat
  BY <1>1, LenProperties DEF Lookup, LoopInv, PoolInv, TypeOK
<1>3. PICK j \in 1..Len(regkeyList) : regkeyList[j] = At(k, loopLookUpTable[k])
  BY <1>1 DEF LoopInv
<1>4. CASE n = loopLookUpTable[k]
  BY <1>3, <1>4
<1>5. CASE n # loopLookUpTable[k]
  <2>1. regkeyList[j].loop = loopLookUpTable[k] /\ [regkeyList[j] EXCEPT !.loop = n] = At(k, n)
    BY <1>3 DEF At
  <2>2. n \in 0..(regkeyList[j].loop - 1)
    BY <1>2, <1>5, <2>1
  <2>3. PICK i \in 1..(j - 1) : regkeyList[i] = [regkeyList[j] EXCEPT !.loop = n]
    BY <2>2 DEF LoopInv, LoopsInOrder
  <2>4. i \in 1..Len(regkeyList)
    BY <1>2
  <2> QED BY <2>1, <2>3, <2>4
<1> QED BY <1>4, <1>5

LEMMA AppendLoops ==
  ASSUME LoopInv, NEW d \in Depths, NEW p \in PCs, NEW n \in MinStacks, AppendReg(d, p, n)
  PROVE  LoopInv'
<1> DEFINE k == <<d, p>>
           r == At(k, Lookup(k))
           m == Len(regkeyList)
<1>1. PoolInv' /\ ~panicked /\ k \in Keys /\ TypeOK
  BY AppendPool DEF LoopInv, PoolInv, AppendReg, Keys
<1>2. /\ loopLookUpTable' = Looked(k)
      /\ \/ regkeyList' = Append(regkeyList, r)
         \/ regkeyList' = regkeyList /\ panicked' = TRUE
  BY DEF AppendReg, At
<1>3. CASE regkeyList' = regkeyList /\ panicked' = TRUE
  <2>1. LoopsInOrder'
    BY <1>3 DEF LoopInv, LoopsInOrder
  <2> QED BY <1>1, <1>3, <2>1 DEF LoopInv
<1>4. CASE regkeyList' = Append(regkeyList, r)
  <2>1. r \in Index /\ Lookup(k) \in Nat /\ m \in Nat
    BY <1>1, LookedTyped, LenProperties DEF Index, At, Keys, TypeOK
  <2>2. /\ Len(regkeyList') = m + 1 /\ regkeyList'[m + 1] = r
        /\ \A i \in 1..m : regkeyList'[i] = regkeyList[i]
    BY <1>1, <1>4, <2>1, AppendProperties DEF TypeOK
  <2>3. ASSUME NEW j \in 1..Len(regkeyList'), NEW l \in 0..(regkeyList'[j].loop - 1)
        PROVE  \E i \in 1..(j - 1) : regkeyList'[i] = [regkeyList'[j] EXCEPT !.loop = l]
    <3>1. CASE j = m + 1
      <4>1. regkeyList'[j] = r /\ r.loop = Lookup(k) /\ [r EXCEPT !.loop = l] = At(k, l)
        BY <2>2, <3>1 DEF At
      <4>2. PICK i \in 1..m : regkeyList[i] = At(k, l)
        <5>1. l \in 0..(Lookup(k) - 1)
          BY <4>1
        <5> QED BY <1>1, <5>1, EarlierLoops
      <4>3. i \in 1..(j - 1) /\ regkeyList'[i] = [regkeyList'[j] EXCEPT !.loop = l]
        <5> HIDE DEF r, k
        <5> QED BY <2>1, <2>2, <3>1, <4>1, <4>2
      <4> QED BY <4>3
    <3>2. CASE j # m + 1
      <4>1. j \in 1..m /\ regkeyList'[j] = regkeyList[j]
        BY <2>1, <2>2, <3>2
      <4>2. PICK i \in 1..(j - 1) : regkeyList[i] = [regkeyList[j] EXCEPT !.loop = l]
        BY <4>1 DEF LoopInv, LoopsInOrder
      <4>3. i \in 1..m
        BY <2>1, <4>1
      <4>4. regkeyList'[i] = [regkeyList'[j] EXCEPT !.loop = l]
        BY <2>2, <4>1, <4>2, <4>3
      <4> QED BY <4>4
    <3> QED BY <3>1, <3>2
  <2>4. LoopsInOrder'
    BY <2>3 DEF LoopsInOrder
  <2>5. ASSUME NEW j \in DOMAIN loopLookUpTable'
        PROVE  \E i \in 1..Len(regkeyList') : regkeyList'[i] = At(j, loopLookUpTable'[j])
    <3>1. DOMAIN loopLookUpTable' = DOMAIN loopLookUpTable \cup {k}
          /\ loopLookUpTable'[k] = Lookup(k)
      BY <1>1, <1>2, LookedTyped
    <3>2. CASE j = k
      <4>1. m + 1 \in 1..Len(regkeyList')
        BY <2>1, <2>2
      <4> HIDE DEF k, m
      <4> QED BY <2>2, <3>1, <3>2, <4>1
    <3>3. CASE j # k
      <4>1. j \in DOMAIN loopLookUpTable /\ loopLookUpTable'[j] = loopLookUpTable[j]
        BY <1>2, <3>1, <3>3 DEF Looked
      <4>2. PICK i \in 1..m : regkeyList[i] = At(j, loopLookUpTable[j])
        BY <1>1, <4>1 DEF LoopInv
      <4>3. i \in 1..Len(regkeyList') /\ regkeyList'[i] = regkeyList[i]
        BY <2>1, <2>2
      <4> QED BY <4>1, <4>2, <4>3
    <3> QED BY <3>2, <3>3
  <2> QED BY <1>1, <2>4, <2>5 DEF LoopInv
<1> QED BY <1>2, <1>3, <1>4

LEMMA StepLoops == LoopInv /\ [Next]_vars => LoopInv'
<1> SUFFICES ASSUME LoopInv, [Next]_vars PROVE LoopInv'
  OBVIOUS
<1>1. CASE UNCHANGED vars
  BY <1>1 DEF vars, LoopInv, LoopsInOrder, PoolInv, TypeOK, IndexUnique
<1> QED BY <1>1, AppendLoops DEF Next

(* The registers of a place are numbered from 0 without a gap.             *)
THEOREM LoopsAlwaysInOrder == Spec => []LoopsInOrder
<1>1. LoopInv => LoopsInOrder
  BY DEF LoopInv
<1> QED BY InitLoops, StepLoops, <1>1, PTL DEF Spec

-----------------------------------------------------------------------------
(* Sums of gas.  Their recursive definition is determined by the frames.   *)
UpTo(fs, n, s) ==
  s = [i \in 0..n |-> IF i = 0 THEN 0 ELSE s[i - 1] + fs[i].gas]

LEMMA Least ==
  ASSUME NEW T, T \subseteq Nat, T # {}
  PROVE  \E x \in T : \A y \in T : x <= y
<1>1. PICK x \in T : \A y \in T : ~ (<<y, x>> \in OpToRel(<, Nat))
  BY NatLessThanWellFounded, WFMin
<1>2. \A y \in T : ~ (y < x)
  BY <1>1 DEF OpToRel
<1> QED BY <1>2

LEMMA SumExists == ASSUME NEW fs, NEW n \in Nat PROVE \E s : UpTo(fs, n, s)
<1> DEFINE T == {m \in Nat : ~ \E s : UpTo(fs, m, s)}
<1> SUFFICES ASSUME T # {} PROVE FALSE
  OBVIOUS
<1>1. PICK m \in T : \A y \in T : m <= y
  BY Least
<1>2. CASE m = 0
  <2>1. UpTo(fs, 0, [i \in 0..0 |-> 0])
    BY DEF UpTo
  <2> QED BY <1>1, <1>2, <2>1
<1>3. CASE m # 0
  <2>1. m - 1 \in Nat /\ m - 1 \notin T
    BY <1>1, <1>3
  <2>2. PICK s : UpTo(fs, m - 1, s)
    BY <2>1
  <2> DEFINE t == [i \in 0..m |-> IF i = m THEN s[m - 1] + fs[m].gas ELSE s[i]]
  <2>3. UpTo(fs, m, t)
    <3>1. ASSUME NEW i \in 0..m
          PROVE  t[i] = IF i = 0 THEN 0 ELSE t[i - 1] + fs[i].gas
      <4>1. CASE i = m
        BY <1>3, <2>1, <4>1
      <4>2. CASE i # m
        BY <2>1, <2>2, <4>2 DEF UpTo
      <4> QED BY <4>1, <4>2
    <3>2. t = [i \in 0..m |-> t[i]]
      OBVIOUS
    <3> HIDE DEF t
    <3> QED BY <3>1, <3>2 DEF UpTo
  <2> QED BY <1>1, <2>3
<1> QED BY <1>2, <1>3

LEMMA SumUnique ==
  ASSUME NEW fs, NEW n \in Nat, NEW s, NEW t, UpTo(fs, n, s), UpTo(fs, n, t),
         NEW i \in 0..n
  PROVE  s[i] = t[i]
<1> DEFINE T == {j \in 0..n : s[j] # t[j]}
<1> SUFFICES ASSUME T # {} PROVE FALSE
  OBVIOUS
<1>0. T \subseteq Nat
  OBVIOUS
<1>1. PICK m \in T : \A y \in T : m <= y
  <2> HIDE DEF T
  <2> QED BY <1>0, Least
<1>2. s[0] = 0 /\ t[0] = 0
  BY DEF UpTo
<1>3. m # 0 /\ m - 1 \in 0..n /\ m - 1 \notin T
  BY <1>1, <1>2
<1>4. s[m] = s[m - 1] + fs[m].gas /\ t[m] = t[m - 1] + fs[m].gas
  BY <1>3 DEF UpTo
<1> QED BY <1>1, <1>3, <1>4

LEMMA GasIsSum ==
  ASSUME NEW fs, Len(fs) \in Nat, NEW s, UpTo(fs, Len(fs), s)
  PROVE  GasIn(fs) = s[Len(fs)]
<1> DEFINE t == CHOOSE f : UpTo(fs, Len(fs), f)
<1>1. UpTo(fs, Len(fs), t)
  OBVIOUS
<1>2. GasIn(fs) = t[Len(fs)]
  BY DEF GasIn, UpTo
<1> QED BY <1>1, <1>2, SumUnique

(* The last frame adds its gas to that of the frames below.                *)
LEMMA GasLast ==
  ASSUME NEW fs, NEW gs, Len(gs) \in Nat, Len(fs) = Len(gs) + 1,
         \A i \in 1..Len(gs) : gs[i].gas = fs[i].gas
  PROVE  GasIn(fs) = GasIn(gs) + fs[Len(fs)].gas
<1> DEFINE n == Len(gs)
<1>1. PICK s : UpTo(fs, n + 1, s)
  BY SumExists
<1> DEFINE t == [i \in 0..n |-> s[i]]
<1>2. UpTo(gs, n, t)
  <2>1. ASSUME NEW i \in 0..n
        PROVE  t[i] = IF i = 0 THEN 0 ELSE t[i - 1] + gs[i].gas
    BY <1>1 DEF UpTo
  <2>2. t = [i \in 0..n |-> t[i]]
    OBVIOUS
  <2> HIDE DEF t
  <2> QED BY <2>1, <2>2 DEF UpTo
<1>3. GasIn(gs) = t[n] /\ t[n] = s[n]
  BY <1>2, GasIsSum
<1>4. GasIn(fs) = s[n + 1]
  BY <1>1, GasIsSum
<1>5. s[n + 1] = s[n] + fs[n + 1].gas
  BY <1>1 DEF UpTo
<1> QED BY <1>3, <1>4, <1>5

LEMMA GasNone == ASSUME NEW fs, Len(fs) = 0 PROVE GasIn(fs) = 0
<1>1. PICK s : UpTo(fs, 0, s)
  BY SumExists
<1>2. s[0] = 0
  BY <1>1 DEF UpTo
<1> QED BY <1>1, <1>2, GasIsSum

LEMMA GasTyped ==
  ASSUME NEW fs, Len(fs) \in Nat, \A i \in 1..Len(fs) : fs[i].gas \in Nat
  PROVE  GasIn(fs) \in Nat
<1>1. PICK s : UpTo(fs, Len(fs), s)
  BY SumExists
<1> DEFINE T == {i \in 0..Len(fs) : s[i] \notin Nat}
<1>2. ASSUME T # {} PROVE FALSE
  <2>0. T \subseteq Nat
    OBVIOUS
  <2>1. PICK m \in T : \A y \in T : m <= y
    <3> HIDE DEF T
    <3> QED BY <1>2, <2>0, Least
  <2>2. s[0] = 0
    BY <1>1 DEF UpTo
  <2>3. m # 0 /\ m - 1 \in 0..Len(fs) /\ m - 1 \notin T
    BY <2>1, <2>2
  <2>4. s[m] = s[m - 1] + fs[m].gas
    BY <1>1, <2>3 DEF UpTo
  <2> QED BY <2>1, <2>3, <2>4
<1> QED BY <1>1, <1>2, GasIsSum

-----------------------------------------------------------------------------
(* What holds of every frame: the operation that executes was announced,   *)
(* found its operands, and will not leave more items than the stack takes. *)
Frame ==
  [gas : Nat, requested : BOOLEAN, asked : BOOLEAN, empty : BOOLEAN,
   executing : BOOLEAN, logged : BOOLEAN, pc : PCs, items : 0..StackLimit,
   memory : Nat, op : Operations \cup {NoOp}, off : Nat, len : Nat, paid : Nat,
   called : BOOLEAN]

Prepared(f) ==
  /\ f.logged
  /\ f.op \in Operations
  /\ f.op.minStack <= f.items /\ f.items <= f.op.maxStack

Whole(bytes) == \E words \in 0..MaxU64 : bytes = words * WordBytes

GoodFrame ==
  {f \in Frame :
     /\ f.executing => Prepared(f)
     /\ Whole(f.memory)
     /\ f.executing /\ f.op.dynamic /\ f.len # 0 => f.off + f.len <= f.memory}

Results == [gas : Nat, err : CreateErrors, stored : BOOLEAN]
Told == [opcodes : Nat, cost : Nat, faults : Nat, spent : Nat]
Counts == [runs : Nat, fetched : Nat, failed : Nat, unpaid : Int]

RunTyped ==
  /\ frames \in Seq(GoodFrame)
  /\ depth = Len(frames) /\ depth <= CallCreateDepth + 1
  /\ readOnly \in BOOLEAN
  /\ result \in Results
  /\ tracer \in Told
  /\ supply \in Int
  /\ seen \in Counts

(* Nothing is put in twice: the host starts one run.                       *)
Fresh ==
  seen.runs = 0 =>
    /\ frames = <<>> /\ supply = 0
    /\ tracer.cost = 0 /\ tracer.spent = 0 /\ seen.unpaid = 0

Balanced == supply = GasInFrames + (tracer.cost - seen.unpaid) + tracer.spent

(* All the frames together never hold more than one was started with: an   *)
(* instruction that is paid for has a cost that fits.                      *)
Bounded == GasInFrames <= MaxU64

(* Who holds the flag: the outermost frame that was called read-only, and  *)
(* no other resets it.                                                     *)
FlagHeld ==
  /\ readOnly <=> \E i \in 1..Len(frames) : frames[i].asked
  /\ \A i, j \in 1..Len(frames) : frames[i].asked /\ frames[j].asked => i = j
  /\ \A i \in 1..Len(frames) : frames[i].asked => frames[i].requested
  /\ \A i \in 1..Len(frames) :
       frames[i].requested => \E k \in 1..i : frames[k].asked

RunInv == RunTyped /\ Fresh /\ Balanced /\ Bounded /\ FlagHeld /\ TracedOnce

-----------------------------------------------------------------------------
(* Arithmetic of the memory size.                                          *)
LEMMA Quotient ==
  ASSUME NEW x \in Nat, NEW w \in Nat, w > 0
  PROVE  /\ x \div w \in Nat
         /\ (x \div w) * w <= x /\ x < (x \div w) * w + w
OBVIOUS

LEMMA SumWraps ==
  ASSUME NEW m \in Nat, NEW x \in Nat, x < m + m, m > 0
  PROVE  x % m = IF x < m THEN x ELSE x - m
OBVIOUS

(* A sum that wraps is below its parts, so one that is not is exact.       *)
LEMMA CalcMemSizeExact ==
  ASSUME NEW off \in Nat, NEW len \in Nat, CalcMemSize(off, len) # TooBig
  PROVE  /\ CalcMemSize(off, len) \in 0..MaxU64
         /\ len # 0 => CalcMemSize(off, len) = off + len
<1>1. MaxU64 \in Nat
  BY RulesAssumption
<1>2. CASE len = 0
  BY <1>1, <1>2 DEF CalcMemSize
<1>3. CASE len # 0
  <2> DEFINE s == (off + len) % (MaxU64 + 1)
  <2>1. ~(len > MaxU64) /\ ~(off > MaxU64) /\ ~(s < off) /\ CalcMemSize(off, len) = s
    BY <1>3, Zenon DEF CalcMemSize
  <2>2. s = IF off + len < MaxU64 + 1 THEN off + len ELSE off + len - (MaxU64 + 1)
    <3>1. off + len \in Nat /\ off + len < (MaxU64 + 1) + (MaxU64 + 1)
      BY <1>1, <2>1
    <3> QED BY <1>1, <3>1, SumWraps
  <2> HIDE DEF s
  <2> QED BY <1>1, <2>1, <2>2
<1> QED BY <1>2, <1>3

LEMMA MemorySizeWhole ==
  ASSUME NEW off \in Nat, NEW len \in Nat, MemorySize(off, len) # TooBig
  PROVE  /\ Whole(MemorySize(off, len)) /\ MemorySize(off, len) \in Nat
         /\ len # 0 => off + len <= MemorySize(off, len)
<1> DEFINE size == CalcMemSize(off, len)
           words == ToWordSize(size)
<1>1. MaxU64 \in Nat /\ WordBytes \in Nat /\ WordBytes > 0
  BY RulesAssumption, MemoryAssumption
<1>2. /\ size # TooBig /\ ~(words * WordBytes > MaxU64)
      /\ MemorySize(off, len) = words * WordBytes
  BY Zenon DEF MemorySize
<1>3. size \in 0..MaxU64 /\ (len # 0 => size = off + len)
  BY <1>2, CalcMemSizeExact
<1> HIDE DEF size
<1>4. words \in Nat /\ size <= words * WordBytes
  <2>1. CASE size > MaxU64 - (WordBytes - 1)
    <3> DEFINE q == MaxU64 \div WordBytes
    <3>1. q \in Nat /\ MaxU64 < q * WordBytes + WordBytes
      BY <1>1, Quotient
    <3>2. words = q + 1
      BY <2>1 DEF ToWordSize
    <3>3. words * WordBytes = q * WordBytes + WordBytes
      <4> HIDE DEF q, words
      <4> QED BY <1>1, <3>1, <3>2
    <3> QED BY <1>2, <3>1, <3>3
  <2>2. CASE ~(size > MaxU64 - (WordBytes - 1))
    <3>1. words = (size + (WordBytes - 1)) \div WordBytes
      BY <2>2 DEF ToWordSize
    <3>2. size + (WordBytes - 1) \in Nat
      BY <1>1, <1>3
    <3>3. words \in Nat /\ size + (WordBytes - 1) < words * WordBytes + WordBytes
      BY <1>1, <3>1, <3>2, Quotient
    <3> HIDE DEF words
    <3>4. words * WordBytes \in Nat
      BY <1>1, <3>3
    <3> QED BY <1>1, <1>3, <3>3, <3>4
  <2> HIDE DEF words
  <2> QED BY <2>1, <2>2
<1> HIDE DEF words
<1>5. words * WordBytes \in Nat /\ words <= words * WordBytes
  BY <1>1, <1>4
<1>6. words \in 0..MaxU64
  BY <1>1, <1>2, <1>4, <1>5
<1> QED BY <1>2, <1>3, <1>4, <1>5, <1>6 DEF Whole

-----------------------------------------------------------------------------
(* What the three kinds of step do to the frames.                          *)
LEMMA TopGood ==
  ASSUME RunTyped, frames # <<>>
  PROVE  /\ Len(frames) \in Nat /\ Len(frames) > 0 /\ Len(frames) \in 1..Len(frames)
         /\ Top = frames[Len(frames)] /\ Top \in GoodFrame
         /\ DOMAIN frames = 1..Len(frames)
<1>1. frames \in Seq(GoodFrame)
  BY DEF RunTyped
<1>2. Len(frames) \in Nat /\ Len(frames) > 0 /\ Len(frames) \in 1..Len(frames)
  BY <1>1, EmptySeq, LenProperties
<1> QED BY <1>1, <1>2, ElementOfSeq, LenProperties DEF Top

LEMMA GasOfGood == ASSUME NEW f \in GoodFrame PROVE f.gas \in Nat
BY DEF GoodFrame, Frame

LEMMA GasOfAll == ASSUME NEW fs \in Seq(GoodFrame) PROVE GasIn(fs) \in Nat
<1>1. Len(fs) \in Nat /\ \A i \in 1..Len(fs) : fs[i] \in GoodFrame
  BY LenProperties, ElementOfSeq
<1>2. \A i \in 1..Len(fs) : fs[i].gas \in Nat
  BY <1>1, GasOfGood
<1> QED BY <1>1, <1>2, GasTyped

LEMMA LastChanged ==
  ASSUME NEW fs \in Seq(GoodFrame), Len(fs) > 0, NEW g \in GoodFrame
  PROVE  LET gs == [fs EXCEPT ![Len(fs)] = g] IN
         /\ gs \in Seq(GoodFrame) /\ Len(gs) = Len(fs) /\ gs[Len(fs)] = g
         /\ \A i \in 1..(Len(fs) - 1) : gs[i] = fs[i]
         /\ GasIn(gs) = GasIn(fs) - fs[Len(fs)].gas + g.gas
<1> DEFINE n == Len(fs)
           gs == [fs EXCEPT ![Len(fs)] = g]
<1>1. n \in Nat /\ n > 0 /\ n \in 1..n /\ fs[n] \in GoodFrame
  BY LenProperties, ElementOfSeq
<1>2. gs \in Seq(GoodFrame) /\ Len(gs) = n /\ gs[n] = g
      /\ \A i \in 1..(n - 1) : gs[i] = fs[i]
  BY <1>1, ExceptSeq
<1> DEFINE below == [i \in 1..(n - 1) |-> fs[i]]
<1>3. below \in Seq(GoodFrame) /\ Len(below) = n - 1
      /\ \A i \in 1..(n - 1) : below[i] = fs[i]
  BY <1>1
<1> HIDE DEF below, n, gs
<1>4. GasIn(fs) = GasIn(below) + fs[n].gas
  BY <1>1, <1>3, GasLast DEF n
<1>5. GasIn(gs) = GasIn(below) + g.gas
  <2>1. /\ Len(below) \in Nat /\ Len(gs) = Len(below) + 1
        /\ \A i \in 1..Len(below) : below[i].gas = gs[i].gas
    BY <1>1, <1>2, <1>3
  <2>2. GasIn(gs) = GasIn(below) + gs[Len(gs)].gas
    BY <2>1, GasLast
  <2> QED BY <1>2, <2>2
<1>6. GasIn(below) \in Nat /\ fs[n].gas \in Nat /\ g.gas \in Nat
  BY <1>1, <1>3, GasOfAll, GasOfGood
<1>7. GasIn(gs) = GasIn(fs) - fs[n].gas + g.gas
  BY <1>4, <1>5, <1>6
<1> QED BY <1>2, <1>7 DEF n, gs

LEMMA GasChanged ==
  ASSUME NEW f \in GoodFrame, NEW x \in Nat, NEW g, g = [f EXCEPT !.gas = x]
  PROVE  /\ g \in GoodFrame /\ g.gas = x
         /\ g.asked = f.asked /\ g.requested = f.requested
<1>1. f \in Frame /\ g \in Frame
  BY DEF GoodFrame, Frame
<1>2. /\ g.gas = x /\ g.asked = f.asked /\ g.requested = f.requested
      /\ g.executing = f.executing /\ g.logged = f.logged /\ g.op = f.op
      /\ g.items = f.items /\ g.memory = f.memory /\ g.off = f.off /\ g.len = f.len
  BY <1>1 DEF Frame
<1>3. f \in GoodFrame
  OBVIOUS
<1> QED BY ONLY <1>1, <1>2, <1>3 DEF GoodFrame, Prepared

LEMMA NewFrameGood ==
  ASSUME NEW gas \in Nat, NEW requested \in BOOLEAN, NEW asked \in BOOLEAN,
         NEW empty \in BOOLEAN
  PROVE  NewFrame(gas, requested, asked, empty) \in GoodFrame
<1>1. 0 \in PCs /\ 0 \in 0..StackLimit
  BY InterpreterAssumption
<1>2. Whole(0)
  BY RulesAssumption, MemoryAssumption DEF Whole
<1> QED BY <1>1, <1>2 DEF NewFrame, GoodFrame, Frame

LEMMA Entered ==
  ASSUME NEW outer \in Seq(GoodFrame), NEW gas \in Nat, NEW requested \in BOOLEAN,
         NEW empty \in BOOLEAN, readOnly \in BOOLEAN, Enter(outer, gas, requested, empty)
  PROVE  /\ frames' \in Seq(GoodFrame) /\ Len(frames') = Len(outer) + 1
         /\ \A i \in 1..Len(outer) : frames'[i] = outer[i]
         /\ frames'[Len(outer) + 1] = NewFrame(gas, requested, TurnsOn(requested), empty)
         /\ readOnly' \in BOOLEAN
         /\ GasIn(frames') = GasIn(outer) + gas
<1> DEFINE f == NewFrame(gas, requested, TurnsOn(requested), empty)
<1>1. frames' = Append(outer, f) /\ readOnly' \in BOOLEAN
  BY DEF Enter
<1>2. f \in GoodFrame
  <2>1. TurnsOn(requested) \in BOOLEAN
    BY DEF TurnsOn
  <2> QED BY <2>1, NewFrameGood
<1>3. f.gas = gas
  BY DEF NewFrame
<1> HIDE DEF f
<1>4. /\ frames' \in Seq(GoodFrame) /\ Len(frames') = Len(outer) + 1
      /\ \A i \in 1..Len(outer) : frames'[i] = outer[i]
      /\ frames'[Len(outer) + 1] = f /\ Len(outer) \in Nat
  BY <1>1, <1>2, AppendProperties, LenProperties
<1>5. GasIn(frames') = GasIn(outer) + f.gas
  BY <1>4, GasLast
<1> QED BY <1>1, <1>3, <1>4, <1>5 DEF f

LEMMA DeployKeepsGas ==
  ASSUME NEW run, run.gas \in Nat, run.size \in Nat, run.err \in RunErrors
  PROVE  DeployError(run) \in CreateErrors /\ GasAfterDeploy(run) \in 0..run.gas
<1>1. CodeCost(run) \in Nat
  BY CreateAssumption DEF CodeCost
<1>2. DeployError(run) \in CreateErrors
  BY DEF DeployError, CreateErrors, DeployErrors
<1>3. DeployError(run) = NoError => ~(run.gas < CodeCost(run))
  BY DEF DeployError, NoError
<1> QED BY <1>1, <1>2, <1>3 DEF GasAfterDeploy

(* A frame that returns gives something of its gas to the frame below.     *)
LEMMA Left ==
  ASSUME RunTyped, frames # <<>>, NEW run, run.gas \in Nat, NEW back \in 0..run.gas,
         DeployError(run) \in CreateErrors, NEW told, Deferred,
         HandBack(run, back, told)
  PROVE  /\ frames' \in Seq(GoodFrame) /\ Len(frames') = Len(frames) - 1
         /\ depth' = Len(frames') /\ depth' <= CallCreateDepth + 1
         /\ \A i \in 1..(Len(frames) - 1) :
              /\ frames'[i].asked = frames[i].asked
              /\ frames'[i].requested = frames[i].requested
         /\ GasIn(frames') =
              IF Len(frames) = 1 THEN 0 ELSE GasInFrames - Top.gas + back
         /\ Len(frames) = 1 => GasInFrames = Top.gas
         /\ result' \in Results
<1> DEFINE n == Len(frames)
<1>1. /\ n \in Nat /\ n > 0 /\ frames \in Seq(GoodFrame) /\ Top \in GoodFrame
      /\ Top = frames[n] /\ Top.gas \in Nat /\ back \in Nat
  BY TopGood, GasOfGood DEF RunTyped
<1>2. \A i \in 1..n : frames[i] \in GoodFrame
  BY <1>1, ElementOfSeq
<1>3. result' \in Results
  <2>1. PICK stored \in BOOLEAN : stored = (DeployError(run) = NoError /\ run.size > 0)
    OBVIOUS
  <2>2. result \in Results
    BY DEF RunTyped
  <2>3. \/ result' = result
        \/ result' = [gas |-> back, err |-> DeployError(run), stored |-> stored]
    BY <2>1 DEF HandBack
  <2> QED BY ONLY <1>1, <2>2, <2>3, DeployError(run) \in CreateErrors DEF Results
<1>4. depth' = n - 1 /\ depth' <= CallCreateDepth + 1
  BY <1>1, InterpreterAssumption DEF Deferred, RunTyped
<1>5. CASE n = 1
  <2>1. frames' = <<>>
    BY <1>5 DEF HandBack
  <2>2. Len(frames') = 0 /\ frames' \in Seq(GoodFrame)
    BY <2>1, EmptySeq
  <2>3. GasIn(frames') = 0
    BY <2>2, GasNone
  <2>4. GasIn(frames) = GasIn(frames') + Top.gas
    <3>1. /\ Len(frames') \in Nat /\ Len(frames) = Len(frames') + 1
          /\ \A i \in 1..Len(frames') : frames'[i].gas = frames[i].gas
      BY <1>5, <2>2
    <3> QED BY <1>1, <1>5, <3>1, GasLast
  <2>5. GasInFrames = Top.gas
    BY <1>1, <2>3, <2>4 DEF GasInFrames
  <2>6. \A i \in 1..(n - 1) : FALSE
    BY <1>5
  <2> QED BY <1>3, <1>4, <1>5, <2>2, <2>3, <2>5, <2>6
<1>6. CASE n # 1
  <2> DEFINE f == Below[n - 1]
             g == [f EXCEPT !.gas = @ + back]
  <2>1. frames' = [Below EXCEPT ![n - 1].gas = @ + back]
    BY <1>6 DEF HandBack
  <2>2. /\ Below \in Seq(GoodFrame) /\ Len(Below) = n - 1
        /\ \A i \in 1..(n - 1) : Below[i] = frames[i]
    <3>1. 1 \in Int /\ n - 1 \in Int /\ \A i \in 1..(n - 1) : frames[i] \in GoodFrame
      BY <1>1, <1>2
    <3>2. /\ Below \in Seq(GoodFrame)
          /\ Len(Below) = IF 1 <= n - 1 THEN n - 1 - 1 + 1 ELSE 0
          /\ \A i \in 1..(n - 1 - 1 + 1) : Below[i] = frames[1 + i - 1]
      <4> HIDE DEF n
      <4> QED BY <3>1, SubSeqProperties DEF Below, n
    <3> HIDE DEF n
    <3>3. Len(Below) = n - 1
      BY <1>1, <1>6, <3>2
    <3>4. ASSUME NEW i \in 1..(n - 1) PROVE Below[i] = frames[i]
      <4>1. i \in 1..(n - 1 - 1 + 1) /\ 1 + i - 1 = i
        BY <1>1
      <4> QED BY <3>2, <4>1
    <3> QED BY <3>2, <3>3, <3>4
  <2>3. n - 1 \in 1..(n - 1) /\ n - 1 > 0 /\ f \in GoodFrame
    BY <1>1, <1>2, <1>6, <2>2
  <2>4. g \in GoodFrame /\ g.gas = f.gas + back /\ f.gas \in Nat
        /\ g.asked = f.asked /\ g.requested = f.requested
    <3>1. f.gas \in Nat /\ f.gas + back \in Nat
      BY <1>1, <2>3, GasOfGood
    <3> QED BY <2>3, <3>1, GasChanged
  <2>5. frames' = [Below EXCEPT ![Len(Below)] = g]
    BY <2>1, <2>2
  <2> HIDE DEF f, g
  <2>6. /\ frames' \in Seq(GoodFrame) /\ Len(frames') = n - 1 /\ frames'[n - 1] = g
        /\ \A i \in 1..(n - 2) : frames'[i] = Below[i]
        /\ GasIn(frames') = GasIn(Below) - Below[n - 1].gas + g.gas
    <3>1. Len(Below) - 1 = n - 2 /\ Len(Below) > 0
      BY <1>1, <2>2, <2>3
    <3> HIDE DEF n
    <3>2. /\ frames' \in Seq(GoodFrame) /\ Len(frames') = Len(Below)
          /\ frames'[Len(Below)] = g
          /\ \A i \in 1..(Len(Below) - 1) : frames'[i] = Below[i]
          /\ GasIn(frames') = GasIn(Below) - Below[Len(Below)].gas + g.gas
      <4>1. Below \in Seq(GoodFrame) /\ g \in GoodFrame /\ Len(Below) > 0
        BY <2>2, <2>4, <3>1
      <4>3. /\ frames' \in Seq(GoodFrame) /\ Len(frames') = Len(Below)
            /\ frames'[Len(Below)] = g
            /\ \A i \in 1..(Len(Below) - 1) : frames'[i] = Below[i]
        BY <4>1, <2>5, LastChanged
      <4>4. GasIn([Below EXCEPT ![Len(Below)] = g])
              = GasIn(Below) - Below[Len(Below)].gas + g.gas
        BY <4>1, LastChanged
      <4> QED BY <4>3, <4>4, <2>5
    <3> QED BY <2>2, <3>1, <3>2
  <2>7. GasIn(frames) = GasIn(Below) + Top.gas
    BY <1>1, <2>2, GasLast
  <2>8. GasIn(Below) \in Nat
    BY <2>2, GasOfAll
  <2>9. GasIn(frames') = GasIn(frames) - Top.gas + back
    BY <1>1, <2>4, <2>6, <2>7, <2>8 DEF f
  <2>10. \A i \in 1..(n - 1) :
           frames'[i].asked = frames[i].asked /\ frames'[i].requested = frames[i].requested
    <3> SUFFICES ASSUME NEW i \in 1..(n - 1)
                 PROVE  /\ frames'[i].asked = frames[i].asked
                        /\ frames'[i].requested = frames[i].requested
      OBVIOUS
    <3>1. CASE i = n - 1
      BY <2>2, <2>4, <2>6, <3>1 DEF f
    <3>2. CASE i # n - 1
      <4>1. i \in 1..(n - 2)
        BY <1>1, <3>2
      <4> QED BY <2>2, <2>6, <4>1
    <3> QED BY <3>1, <3>2
  <2> QED BY <1>1, <1>3, <1>4, <1>6, <2>6, <2>9, <2>10 DEF GasInFrames
<1> QED BY <1>5, <1>6

-----------------------------------------------------------------------------
(* The read-only flag.                                                     *)
SameFlags(fs, gs, n) ==
  \A i \in 1..n : fs[i].asked = gs[i].asked /\ fs[i].requested = gs[i].requested

LEMMA FlagSame ==
  ASSUME FlagHeld, Len(frames') = Len(frames), SameFlags(frames', frames, Len(frames)),
         readOnly' = readOnly
  PROVE  FlagHeld'
<1>1. \A i \in 1..Len(frames) : \A k \in 1..i : Len(frames) \in Nat => k \in 1..Len(frames)
  OBVIOUS
<1> QED BY <1>1 DEF FlagHeld, SameFlags

LEMMA FlagEntered ==
  ASSUME FlagHeld, NEW n \in Nat, n = Len(frames), Len(frames') = n + 1,
         SameFlags(frames', frames, n), NEW requested \in BOOLEAN,
         frames'[n + 1].requested = requested,
         frames'[n + 1].asked = TurnsOn(requested),
         readOnly' = (readOnly \/ TurnsOn(requested)), readOnly \in BOOLEAN
  PROVE  FlagHeld'
<1>1. 1..(n + 1) = 1..n \cup {n + 1} /\ n + 1 \notin 1..n
      /\ \A i \in 1..n : \A k \in 1..i : k \in 1..n
  OBVIOUS
<1>2. /\ \A i \in 1..n : frames'[i].asked <=> frames[i].asked
      /\ \A i \in 1..n : frames'[i].requested <=> frames[i].requested
  BY DEF SameFlags
<1>3. /\ frames'[n + 1].requested <=> requested
      /\ frames'[n + 1].asked <=> requested /\ ~readOnly
      /\ readOnly' <=> readOnly \/ requested
  BY DEF TurnsOn
<1>4. /\ readOnly <=> \E i \in 1..n : frames[i].asked
      /\ \A i, j \in 1..n : frames[i].asked /\ frames[j].asked => i = j
      /\ \A i \in 1..n : frames[i].asked => frames[i].requested
      /\ \A i \in 1..n : frames[i].requested => \E k \in 1..i : frames[k].asked
  BY DEF FlagHeld
<1>5. readOnly' <=> \E i \in 1..(n + 1) : frames'[i].asked
  BY <1>1, <1>2, <1>3, <1>4
<1>6. \A i, j \in 1..(n + 1) : frames'[i].asked /\ frames'[j].asked => i = j
  BY <1>1, <1>2, <1>3, <1>4
<1>7. \A i \in 1..(n + 1) : frames'[i].asked => frames'[i].requested
  BY <1>1, <1>2, <1>3, <1>4
<1>8. ASSUME NEW i \in 1..(n + 1), frames'[i].requested
      PROVE  \E k \in 1..i : frames'[k].asked
  <2>1. CASE i \in 1..n
    BY <1>1, <1>2, <1>4, <1>8, <2>1
  <2>2. CASE i = n + 1
    BY <1>1, <1>2, <1>3, <1>4, <1>8, <2>2
  <2> QED BY <1>1, <2>1, <2>2
<1> QED BY <1>5, <1>6, <1>7, <1>8 DEF FlagHeld

LEMMA FlagLeft ==
  ASSUME FlagHeld, NEW n \in Nat, n + 1 = Len(frames), Len(frames') = n,
         SameFlags(frames', frames, n),
         readOnly' = (readOnly /\ ~frames[n + 1].asked)
  PROVE  FlagHeld'
<1>1. 1..(n + 1) = 1..n \cup {n + 1} /\ n + 1 \notin 1..n
      /\ \A i \in 1..n : \A k \in 1..i : k \in 1..n
  OBVIOUS
<1>2. /\ \A i \in 1..n : frames'[i].asked <=> frames[i].asked
      /\ \A i \in 1..n : frames'[i].requested <=> frames[i].requested
  BY DEF SameFlags
<1>3. readOnly' <=> readOnly /\ ~frames[n + 1].asked
  OBVIOUS
<1>4. /\ readOnly <=> \E i \in 1..(n + 1) : frames[i].asked
      /\ \A i, j \in 1..(n + 1) : frames[i].asked /\ frames[j].asked => i = j
      /\ \A i \in 1..(n + 1) : frames[i].asked => frames[i].requested
      /\ \A i \in 1..(n + 1) : frames[i].requested => \E k \in 1..i : frames[k].asked
  BY DEF FlagHeld
<1>5. readOnly' <=> \E i \in 1..n : frames'[i].asked
  BY <1>1, <1>2, <1>3, <1>4
<1>6. \A i, j \in 1..n : frames'[i].asked /\ frames'[j].asked => i = j
  BY <1>1, <1>2, <1>4
<1>7. \A i \in 1..n : frames'[i].asked => frames'[i].requested
  BY <1>1, <1>2, <1>4
<1>8. \A i \in 1..n : frames'[i].requested => \E k \in 1..i : frames'[k].asked
  BY <1>1, <1>2, <1>4
<1> QED BY <1>5, <1>6, <1>7, <1>8 DEF FlagHeld

-----------------------------------------------------------------------------
(* Each kind of step keeps the invariant.                                  *)
LEMMA InitRun == RunInit => RunInv
<1> SUFFICES ASSUME RunInit PROVE RunInv
  OBVIOUS
<1>1. frames \in Seq(GoodFrame) /\ Len(frames) = 0 /\ 1..Len(frames) = {}
  BY EmptySeq DEF RunInit
<1>2. GasInFrames = 0
  BY <1>1, GasNone DEF GasInFrames
<1>3. NoError \in CreateErrors
  BY DEF CreateErrors, RunErrors
<1>4. RunTyped
  <2>0. readOnly \in BOOLEAN
    BY DEF RunInit
  <2>1. 0 <= CallCreateDepth + 1 /\ depth = 0
    BY InterpreterAssumption DEF RunInit
  <2>2. result \in Results
    BY <1>3 DEF RunInit, Results
  <2>3. /\ tracer \in Told
        /\ supply \in Int
        /\ seen \in Counts
    BY DEF RunInit, Told, Counts
  <2> QED BY <1>1, <2>0, <2>1, <2>2, <2>3 DEF RunTyped
<1>5. Fresh /\ Balanced /\ Bounded /\ TracedOnce
  BY <1>2, RulesAssumption DEF RunInit, Fresh, Balanced, Bounded, TracedOnce
<1>6. FlagHeld
  BY <1>1 DEF RunInit, FlagHeld
<1> QED BY <1>4, <1>5, <1>6 DEF RunInv

LEMMA GasesTyped == Gases \subseteq Nat
BY InterpreterAssumption, RulesAssumption

LEMMA StartRun ==
  ASSUME RunInv, NEW gas \in Gases, NEW requested \in BOOLEAN, NEW empty \in BOOLEAN,
         Start(gas, requested, empty)
  PROVE  RunInv'
<1>1. /\ RunTyped /\ Fresh /\ FlagHeld /\ TracedOnce
      /\ frames = <<>> /\ seen.runs = 0 /\ Enter(<<>>, gas, requested, empty)
      /\ supply' = gas /\ seen' = [seen EXCEPT !.runs = 1]
      /\ UNCHANGED <<result, tracer>>
  BY DEF RunInv, Start
<1>2. /\ gas \in Nat /\ <<>> \in Seq(GoodFrame) /\ Len(frames) = 0 /\ Len(<<>>) = 0
      /\ readOnly \in BOOLEAN /\ depth = 0
  BY <1>1, GasesTyped, EmptySeq DEF RunTyped
<1>3. /\ frames' \in Seq(GoodFrame) /\ Len(frames') = 1
      /\ frames'[1] = NewFrame(gas, requested, TurnsOn(requested), empty)
      /\ readOnly' \in BOOLEAN /\ GasIn(frames') = gas
  <2>1. GasIn(<<>>) = 0
    BY <1>2, GasNone
  <2>2. /\ frames' \in Seq(GoodFrame) /\ Len(frames') = Len(<<>>) + 1
        /\ frames'[Len(<<>>) + 1] = NewFrame(gas, requested, TurnsOn(requested), empty)
        /\ readOnly' \in BOOLEAN /\ GasIn(frames') = GasIn(<<>>) + gas
    <3>1. PICK outer : outer = <<>>
      OBVIOUS
    <3>2. outer \in Seq(GoodFrame) /\ Enter(outer, gas, requested, empty)
      BY <1>1, <1>2, <3>1
    <3>3. /\ frames' \in Seq(GoodFrame) /\ Len(frames') = Len(outer) + 1
          /\ frames'[Len(outer) + 1] = NewFrame(gas, requested, TurnsOn(requested), empty)
          /\ readOnly' \in BOOLEAN
      BY <1>2, <3>2, Entered
    <3>4. GasIn(frames') = GasIn(outer) + gas
      BY <1>2, <3>2, Entered
    <3> QED BY <3>1, <3>3, <3>4
  <2> QED BY <1>2, <2>1, <2>2
<1>4. RunTyped'
  <2>1. depth' = 1 /\ 1 <= CallCreateDepth + 1
    BY <1>1, <1>2, InterpreterAssumption DEF Enter
  <2>2. supply' \in Int /\ seen' \in Counts /\ tracer' \in Told /\ result' \in Results
    BY <1>1, <1>2 DEF RunTyped, Counts
  <2> QED BY <1>2, <1>3, <2>1, <2>2 DEF RunTyped
<1>5. Fresh' /\ TracedOnce'
  BY <1>1 DEF Fresh, TracedOnce, RunTyped, Counts
<1>6. Balanced' /\ Bounded'
  <2>1. /\ tracer'.cost = 0 /\ tracer'.spent = 0 /\ seen'.unpaid = 0
    BY <1>1 DEF Fresh, RunTyped, Counts
  <2>2. gas <= MaxU64
    BY InterpreterAssumption
  <2> QED BY <1>1, <1>2, <1>3, <2>1, <2>2 DEF Balanced, Bounded, GasInFrames
<1>7. FlagHeld'
  <2>1. SameFlags(frames', frames, 0)
    BY DEF SameFlags
  <2>2. /\ frames'[0 + 1].requested = requested
        /\ frames'[0 + 1].asked = TurnsOn(requested)
    BY <1>3 DEF NewFrame
  <2>3. readOnly' = (readOnly \/ TurnsOn(requested)) /\ Len(frames') = 0 + 1
    BY <1>1, <1>3 DEF Enter
  <2> QED BY <1>1, <1>2, <2>1, <2>2, <2>3, FlagEntered
<1> QED BY <1>4, <1>5, <1>6, <1>7 DEF RunInv

(* The frame that executes pays for the one it calls.                      *)
LEMMA EndowedFrames ==
  ASSUME RunTyped, NEW gas \in Nat, Executing, gas <= Top.gas
  PROVE  /\ Endowed(gas) \in Seq(GoodFrame) /\ Len(Endowed(gas)) = Len(frames)
         /\ SameFlags(Endowed(gas), frames, Len(frames))
         /\ GasIn(Endowed(gas)) = GasInFrames - gas
<1> DEFINE n == Len(frames)
           g == [Top EXCEPT !.gas = @ - gas, !.called = TRUE]
<1>1. /\ n \in Nat /\ n > 0 /\ n \in 1..n /\ Top = frames[n] /\ Top \in GoodFrame
      /\ frames \in Seq(GoodFrame) /\ Top.gas \in Nat
  BY TopGood, GasOfGood DEF Executing, RunTyped
<1>2. Endowed(gas) = [frames EXCEPT ![n] = g]
  BY DEF Endowed, WithTop
<1>3. g \in GoodFrame /\ g.gas = Top.gas - gas /\ g.asked = Top.asked
      /\ g.requested = Top.requested
  <2>1. Top \in Frame /\ Top.gas - gas \in Nat
    BY <1>1 DEF GoodFrame
  <2>2. g \in Frame
    BY <2>1 DEF Frame
  <2>3. /\ g.gas = Top.gas - gas /\ g.asked = Top.asked /\ g.requested = Top.requested
        /\ g.executing = Top.executing /\ g.logged = Top.logged /\ g.op = Top.op
        /\ g.items = Top.items /\ g.memory = Top.memory /\ g.off = Top.off
        /\ g.len = Top.len
    BY <2>1 DEF Frame
  <2> HIDE DEF g
  <2> QED BY <1>1, <2>2, <2>3 DEF GoodFrame, Prepared
<1> HIDE DEF g
<1>4. /\ Endowed(gas) \in Seq(GoodFrame) /\ Len(Endowed(gas)) = n
      /\ Endowed(gas)[n] = g
      /\ \A i \in 1..(n - 1) : Endowed(gas)[i] = frames[i]
  BY <1>1, <1>2, <1>3, LastChanged
<1>5. GasIn(Endowed(gas)) = GasIn(frames) - frames[n].gas + g.gas
  <2>1. GasIn([frames EXCEPT ![n] = g]) = GasIn(frames) - frames[n].gas + g.gas
    BY <1>1, <1>3, LastChanged
  <2> QED BY <1>2, <2>1
<1>6. GasIn(frames) \in Nat
  BY <1>1, GasOfAll
<1>7. GasIn(Endowed(gas)) = GasIn(frames) - gas
  BY <1>1, <1>3, <1>5, <1>6
<1>8. SameFlags(Endowed(gas), frames, n)
  <2>1. \A i \in 1..n : i = n \/ i \in 1..(n - 1)
    BY <1>1
  <2> QED BY <1>1, <1>3, <1>4, <2>1 DEF SameFlags
<1> QED BY <1>4, <1>7, <1>8 DEF GasInFrames

LEMMA StartInnerRun ==
  ASSUME RunInv, NEW gas \in Gases, NEW requested \in BOOLEAN, NEW empty \in BOOLEAN,
         StartInner(gas, requested, empty)
  PROVE  RunInv'
<1> DEFINE n == Len(frames)
           outer == Endowed(gas)
<1>1. /\ RunTyped /\ Fresh /\ Balanced /\ Bounded /\ FlagHeld /\ TracedOnce
      /\ Executing /\ gas <= Top.gas /\ depth <= CallCreateDepth
      /\ Enter(outer, gas, requested, empty)
      /\ UNCHANGED <<result, tracer, supply, seen>> /\ frames # <<>>
  BY DEF RunInv, StartInner, Calling, DepthAllows, Executing
<1>2. gas \in Nat /\ n \in Nat /\ readOnly \in BOOLEAN /\ depth = n
  BY <1>1, GasesTyped, TopGood DEF RunTyped
<1>3. /\ outer \in Seq(GoodFrame) /\ Len(outer) = n /\ SameFlags(outer, frames, n)
      /\ GasIn(outer) = GasInFrames - gas
  BY <1>1, <1>2, EndowedFrames
<1> HIDE DEF outer
<1>4. /\ frames' \in Seq(GoodFrame) /\ Len(frames') = n + 1
      /\ \A i \in 1..n : frames'[i] = outer[i]
      /\ frames'[n + 1] = NewFrame(gas, requested, TurnsOn(requested), empty)
      /\ readOnly' \in BOOLEAN /\ GasIn(frames') = GasIn(outer) + gas
  BY <1>1, <1>2, <1>3, Entered
<1>5. RunTyped'
  <2>1. depth' = n + 1 /\ n + 1 <= CallCreateDepth + 1
    BY <1>1, <1>2, InterpreterAssumption DEF Enter
  <2> QED BY <1>1, <1>4, <2>1 DEF RunTyped
<1>6. Fresh' /\ TracedOnce'
  BY <1>1 DEF Fresh, TracedOnce
<1>7. Balanced' /\ Bounded'
  <2>1. GasInFrames \in Nat
    BY <1>1, GasOfAll DEF RunTyped, GasInFrames
  <2>2. GasInFrames' = GasInFrames
    BY <1>2, <1>3, <1>4, <2>1 DEF GasInFrames
  <2> QED BY <1>1, <2>2 DEF Balanced, Bounded
<1>8. FlagHeld'
  <2>1. SameFlags(frames', frames, n)
    BY <1>3, <1>4 DEF SameFlags
  <2>2. /\ frames'[n + 1].requested = requested
        /\ frames'[n + 1].asked = TurnsOn(requested)
    BY <1>4 DEF NewFrame
  <2>3. readOnly' = (readOnly \/ TurnsOn(requested))
    BY <1>1 DEF Enter
  <2> QED BY <1>1, <1>2, <1>4, <2>1, <2>2, <2>3, FlagEntered
<1> QED BY <1>5, <1>6, <1>7, <1>8 DEF RunInv

(* What create spends, it takes from the gas that Run has left.            *)
LEMMA SpentExact ==
  ASSUME NEW run, run.gas \in Nat, run.size \in Nat, run.err \in RunErrors
  PROVE  Spent(run) \in Nat /\ GasAfterDeploy(run) + Spent(run) = run.gas
<1>1. CodeCost(run) \in Nat
  BY CreateAssumption DEF CodeCost
<1>2. CASE DeployError(run) = NoError
  <2>1. Spent(run) = CodeCost(run) /\ GasAfterDeploy(run) = run.gas - CodeCost(run)
    BY <1>2 DEF Spent, GasAfterDeploy
  <2> QED BY <1>1, <2>1
<1>3. CASE /\ DeployError(run) # NoError /\ Undoes(DeployError(run))
           /\ DeployError(run) # "ErrExecutionReverted"
  <2>1. Spent(run) = run.gas /\ GasAfterDeploy(run) = 0
    BY <1>3 DEF Spent, GasAfterDeploy
  <2> QED BY <2>1
<1>4. CASE /\ DeployError(run) # NoError
           /\ ~(Undoes(DeployError(run)) /\ DeployError(run) # "ErrExecutionReverted")
  <2>1. Spent(run) = 0 /\ GasAfterDeploy(run) = run.gas
    BY <1>4 DEF Spent, GasAfterDeploy
  <2> QED BY <2>1
<1> QED BY <1>2, <1>3, <1>4

(* The frame leaves with run.gas; the rest of its gas was told as a cost.  *)
Reported(run, told) ==
  /\ told.cost - seen'.unpaid = tracer.cost - seen.unpaid + (Top.gas - run.gas)
  /\ told.spent = tracer.spent

LEMMA SupplyLeft ==
  ASSUME RunTyped, Balanced, frames # <<>>, NEW run, run.gas \in Nat,
         run.gas <= Top.gas, run.size \in Nat, run.err \in RunErrors,
         NEW told \in Told, Deferred, HandBack(run, GasAfterDeploy(run), told),
         seen' \in Counts, Reported(run, told)
  PROVE  /\ supply' \in Int /\ Balanced' /\ tracer' \in Told
         /\ tracer'.opcodes = told.opcodes /\ tracer'.faults = told.faults
<1> DEFINE n == Len(frames)
           back == GasAfterDeploy(run)
           spent == Spent(run)
<1>1. /\ supply \in Int /\ tracer.cost \in Int /\ tracer.spent \in Int
      /\ seen.unpaid \in Int /\ Top.gas \in Int /\ GasInFrames \in Int
      /\ supply = GasInFrames + (tracer.cost - seen.unpaid) + tracer.spent
  <2>1. Top.gas \in Nat
    BY TopGood, GasOfGood
  <2>2. GasInFrames \in Nat
    BY GasOfAll DEF RunTyped, GasInFrames
  <2>3. supply \in Int /\ tracer \in Told /\ seen \in Counts
    BY DEF RunTyped
  <2>4. tracer.cost \in Int /\ tracer.spent \in Int /\ seen.unpaid \in Int
    BY <2>3 DEF Told, Counts
  <2> QED BY <2>1, <2>2, <2>3, <2>4 DEF Balanced
<1>2. back \in 0..run.gas /\ spent \in Nat /\ back + spent = run.gas
      /\ DeployError(run) \in CreateErrors
  BY DeployKeepsGas, SpentExact
<1>3. /\ supply' = IF n = 1 THEN supply - back ELSE supply
      /\ tracer' = [told EXCEPT !.spent = @ + spent]
  BY DEF HandBack
<1>4. HandBack(run, back, told)
  OBVIOUS
<1> HIDE DEF back, spent
<1>5. /\ GasInFrames' = IF n = 1 THEN 0 ELSE GasInFrames - Top.gas + back
      /\ n = 1 => GasInFrames = Top.gas
  BY <1>2, <1>4, Left DEF GasInFrames
<1> HIDE DEF n
<1>6. /\ tracer' \in Told /\ tracer'.opcodes = told.opcodes
      /\ tracer'.faults = told.faults /\ tracer'.cost = told.cost
      /\ tracer'.spent = tracer.spent + spent
  <2>1. told.spent \in Nat /\ told.spent = tracer.spent /\ told.spent + spent \in Nat
    BY <1>2 DEF Told, Reported
  <2>2. tracer' = [told EXCEPT !.spent = told.spent + spent]
    BY <1>3 DEF Told
  <2> QED BY ONLY <2>1, <2>2, told \in Told DEF Told
<1>7. /\ told.cost \in Int /\ seen'.unpaid \in Int
      /\ told.cost - seen'.unpaid = tracer.cost - seen.unpaid + (Top.gas - run.gas)
  BY DEF Told, Counts, Reported
<1>8. supply' \in Int /\ GasInFrames' \in Int
      /\ supply' = GasInFrames' + (told.cost - seen'.unpaid) + (tracer.spent + spent)
  <2> DEFINE s == supply
             g == GasInFrames
             top == Top.gas
             cost == tracer.cost
             unpaid == seen.unpaid
             before == tracer.spent
             left == run.gas
             cost2 == told.cost
             unpaid2 == seen'.unpaid
  <2>1. /\ s \in Int /\ g \in Int /\ top \in Int /\ cost \in Int /\ unpaid \in Int
        /\ before \in Int /\ left \in Int /\ cost2 \in Int /\ unpaid2 \in Int
        /\ back \in Int /\ spent \in Int
    BY <1>1, <1>2, <1>7
  <2>2. /\ s = g + (cost - unpaid) + before /\ back + spent = left
        /\ cost2 - unpaid2 = cost - unpaid + (top - left)
    BY <1>1, <1>2, <1>7
  <2>3. CASE n = 1
    <3>1. supply' = s - back /\ GasInFrames' = 0 /\ g = top
      BY <1>3, <1>5, <2>3
    <3> HIDE DEF s, g, top, cost, unpaid, before, left, cost2, unpaid2
    <3>2. s - back = 0 + (cost2 - unpaid2) + (before + spent) /\ s - back \in Int
      BY ONLY <2>1, <2>2, <3>1
    <3>3. /\ supply' \in Int /\ GasInFrames' \in Int
          /\ supply' = GasInFrames' + (cost2 - unpaid2) + (before + spent)
      BY ONLY <3>1, <3>2
    <3> QED BY <3>3 DEF cost2, unpaid2, before
  <2>4. CASE n # 1
    <3>1. supply' = s /\ GasInFrames' = g - top + back
      BY <1>3, <1>5, <2>4
    <3> HIDE DEF s, g, top, cost, unpaid, before, left, cost2, unpaid2
    <3>2. /\ s = (g - top + back) + (cost2 - unpaid2) + (before + spent)
          /\ g - top + back \in Int
      BY ONLY <2>1, <2>2
    <3>3. /\ supply' \in Int /\ GasInFrames' \in Int
          /\ supply' = GasInFrames' + (cost2 - unpaid2) + (before + spent)
      BY ONLY <2>1, <3>1, <3>2
    <3> QED BY <3>3 DEF cost2, unpaid2, before
  <2> QED BY <2>3, <2>4
<1>9. Balanced'
  BY <1>6, <1>8 DEF Balanced
<1> QED BY <1>6, <1>8, <1>9

LEMMA LeaveRun ==
  ASSUME RunInv, frames # <<>>, NEW run, run.gas \in Nat, run.gas <= Top.gas,
         run.size \in Nat, run.err \in RunErrors,
         NEW told \in Told, Leave(run, told), seen' \in Counts, Reported(run, told),
         seen'.runs = seen.runs,
         told.opcodes = seen'.fetched, told.faults = seen'.failed
  PROVE  RunInv'
<1> DEFINE n == Len(frames)
           back == GasAfterDeploy(run)
<1>1. RunTyped /\ Fresh /\ Balanced /\ Bounded /\ FlagHeld
  BY DEF RunInv
<1>2. /\ n \in Nat /\ n > 0 /\ Top = frames[n] /\ Top.gas \in Nat
      /\ frames \in Seq(GoodFrame) /\ readOnly \in BOOLEAN /\ GasInFrames \in Nat
  BY <1>1, TopGood, GasOfGood, GasOfAll DEF RunTyped, GasInFrames
<1>3. back \in 0..run.gas /\ DeployError(run) \in CreateErrors
  BY <1>2, DeployKeepsGas
<1>4. Deferred /\ HandBack(run, back, told)
  BY DEF Leave
<1>5. /\ supply' \in Int /\ Balanced' /\ tracer' \in Told
      /\ tracer'.opcodes = told.opcodes /\ tracer'.faults = told.faults
  BY <1>1, <1>4, SupplyLeft
<1> HIDE DEF back
<1>6. /\ frames' \in Seq(GoodFrame) /\ Len(frames') = n - 1
      /\ depth' = Len(frames') /\ depth' <= CallCreateDepth + 1
      /\ SameFlags(frames', frames, n - 1)
      /\ GasInFrames' = IF n = 1 THEN 0 ELSE GasInFrames - Top.gas + back
      /\ result' \in Results
  BY <1>1, <1>3, <1>4, Left DEF SameFlags, GasInFrames
<1>7. readOnly' = (readOnly /\ ~frames[n].asked)
  BY <1>2, <1>4 DEF Deferred
<1>8. RunTyped'
  <2>1. readOnly' \in BOOLEAN
    BY <1>7
  <2> QED BY <1>5, <1>6, <2>1 DEF RunTyped
<1>9. Fresh'
  BY <1>1 DEF Fresh
<1>10. Bounded'
  <2>1. GasInFrames <= MaxU64
    BY <1>1 DEF Bounded
  <2>2. GasInFrames' <= GasInFrames
    BY <1>2, <1>3, <1>6
  <2>3. GasInFrames' \in Int
    BY <1>2, <1>3, <1>6
  <2> QED BY <1>2, <2>1, <2>2, <2>3, RulesAssumption DEF Bounded
<1>11. FlagHeld'
  <2>1. n - 1 \in Nat /\ (n - 1) + 1 = n
    BY <1>2
  <2> QED BY <1>1, <1>6, <1>7, <2>1, FlagLeft
<1>12. TracedOnce'
  BY <1>5 DEF TracedOnce
<1> QED BY <1>5, <1>8, <1>9, <1>10, <1>11, <1>12 DEF RunInv

LEMMA AnnouncedTyped ==
  ASSUME RunTyped, NEW logged \in BOOLEAN, NEW cost \in Nat
  PROVE  LET told == Announced(logged, cost) IN
         /\ told \in Told /\ told.spent = tracer.spent
         /\ logged => /\ told.opcodes = tracer.opcodes /\ told.cost = tracer.cost
                      /\ told.faults = tracer.faults + 1
         /\ ~logged => /\ told.opcodes = tracer.opcodes + 1
                       /\ told.cost = tracer.cost + cost
                       /\ told.faults = tracer.faults
<1> DEFINE told == Announced(logged, cost)
<1>1. tracer \in Told
  BY DEF RunTyped
<1>2. tracer.opcodes \in Nat /\ tracer.cost \in Nat /\ tracer.faults \in Nat
  BY <1>1 DEF Told
<1>3. CASE logged
  <2>1. told = [tracer EXCEPT !.faults = tracer.faults + 1]
    BY <1>1, <1>3 DEF Announced, Told
  <2> HIDE DEF told
  <2>2. tracer.faults + 1 \in Nat
    BY <1>2
  <2>3. /\ told \in Told /\ told.spent = tracer.spent /\ told.opcodes = tracer.opcodes
        /\ told.cost = tracer.cost /\ told.faults = tracer.faults + 1
    BY ONLY <1>1, <2>1, <2>2 DEF Told
  <2> QED BY <1>3, <2>3 DEF told
<1>4. CASE ~logged
  <2>1. told = [tracer EXCEPT !.opcodes = tracer.opcodes + 1, !.cost = tracer.cost + cost]
    BY <1>1, <1>4 DEF Announced, Told
  <2> HIDE DEF told
  <2>2. tracer.opcodes + 1 \in Nat /\ tracer.cost + cost \in Nat
    BY <1>2
  <2>3. /\ told \in Told /\ told.spent = tracer.spent
        /\ told.opcodes = tracer.opcodes + 1 /\ told.cost = tracer.cost + cost
        /\ told.faults = tracer.faults
    BY ONLY <1>1, <2>1, <2>2 DEF Told
  <2> QED BY <1>4, <2>3 DEF told
<1> QED BY <1>3, <1>4

LEMMA ReturnEmptyRun == ASSUME RunInv, ReturnEmpty PROVE RunInv'
<1> DEFINE run == Returned(Top.gas, NoError, 0, FALSE)
<1>1. /\ frames # <<>> /\ Leave(run, tracer) /\ seen' = seen
      /\ RunTyped /\ TracedOnce
  BY DEF ReturnEmpty, RunInv
<1>2. run.gas = Top.gas /\ run.size \in Nat /\ run.err \in RunErrors
  BY DEF Returned, RunErrors
<1>3. tracer \in Told /\ seen' \in Counts /\ Top.gas \in Nat
  BY <1>1, TopGood, GasOfGood DEF RunTyped
<1> HIDE DEF run
<1>4. Reported(run, tracer)
  BY <1>1, <1>2, <1>3 DEF Reported, Told, Counts
<1> QED BY <1>1, <1>2, <1>3, <1>4, LeaveRun DEF TracedOnce

LEMMA HaltRun ==
  ASSUME RunInv, NEW size \in CodeSizes, NEW startsEF \in BOOLEAN, Halt(size, startsEF)
  PROVE  RunInv'
<1> DEFINE run == Returned(Top.gas, NoError, size, startsEF)
<1>1. /\ frames # <<>> /\ Leave(run, tracer) /\ seen' = seen
      /\ RunTyped /\ TracedOnce
  BY DEF Halt, Executing, RunInv
<1>2. run.gas = Top.gas /\ run.size \in Nat /\ run.err \in RunErrors
  BY CreateAssumption DEF Returned, RunErrors
<1>3. tracer \in Told /\ seen' \in Counts /\ Top.gas \in Nat
  BY <1>1, TopGood, GasOfGood DEF RunTyped
<1> HIDE DEF run
<1>4. Reported(run, tracer)
  BY <1>1, <1>2, <1>3 DEF Reported, Told, Counts
<1> QED BY <1>1, <1>2, <1>3, <1>4, LeaveRun DEF TracedOnce

LEMMA FailRun == ASSUME RunInv, NEW reverted \in BOOLEAN, Fail(reverted) PROVE RunInv'
<1> DEFINE run == Returned(Top.gas,
                           IF reverted THEN "ErrExecutionReverted" ELSE "ErrExecution",
                           0, FALSE)
           told == Announced(Top.logged, Top.paid)
<1>1. /\ frames # <<>> /\ Leave(run, told) /\ Top.executing
      /\ seen' = [seen EXCEPT !.failed = @ + 1]
      /\ RunTyped /\ TracedOnce
  BY DEF Fail, Executing, RunInv
<1>2. run.gas = Top.gas /\ run.size \in Nat /\ run.err \in RunErrors
  BY DEF Returned, RunErrors
<1>3. Top.logged /\ Top.logged \in BOOLEAN /\ Top.paid \in Nat /\ Top.gas \in Nat
  BY <1>1, TopGood DEF GoodFrame, Frame, Prepared
<1>4. /\ told \in Told /\ told.spent = tracer.spent /\ told.cost = tracer.cost
      /\ told.opcodes = tracer.opcodes /\ told.faults = tracer.faults + 1
  BY <1>1, <1>3, AnnouncedTyped
<1>5. /\ seen' \in Counts /\ seen'.runs = seen.runs /\ seen'.unpaid = seen.unpaid
      /\ seen'.fetched = seen.fetched /\ seen'.failed = seen.failed + 1
  BY <1>1 DEF RunTyped, Counts
<1> HIDE DEF run, told
<1>6. Reported(run, told)
  <2>1. tracer.cost \in Nat /\ seen.unpaid \in Int
    BY <1>1 DEF RunTyped, Told, Counts
  <2> QED BY <1>2, <1>3, <1>4, <1>5, <2>1 DEF Reported
<1> QED BY <1>1, <1>2, <1>3, <1>4, <1>5, <1>6, LeaveRun DEF TracedOnce

LEMMA OperationTyped ==
  ASSUME NEW o \in Operations
  PROVE  o.constantGas \in 0..MaxU64 /\ o.minStack \in Nat /\ o.dynamic \in BOOLEAN
<1>1. o \in [minStack : MinStacks, pushes : Nat, maxStack : Nat,
             constantGas : 0..MaxU64, dynamic : BOOLEAN]
  BY InterpreterAssumption
<1>2. o.constantGas \in 0..MaxU64 /\ o.minStack \in MinStacks
  BY <1>1
<1>3. o.dynamic \in BOOLEAN
  BY <1>1
<1> QED BY <1>2, <1>3, PoolAssumption

LEMMA CostTyped ==
  ASSUME NEW o \in Operations, NEW c \in DynamicCosts, NEW off, NEW len
  PROVE  Cost(o, c, off, len) \in Nat
<1>1. o.constantGas \in Nat /\ c \in Nat
  BY OperationTyped, InterpreterAssumption, RulesAssumption
<1> QED BY <1>1, RulesAssumption DEF Cost, Uint64

LEMMA RefuseRun ==
  ASSUME RunInv, NEW o \in Operations, NEW c \in DynamicCosts, NEW off, NEW len,
         Refuse(o, c, off, len)
  PROVE  RunInv'
<1> DEFINE cost == Cost(o, c, off, len)
           taken == IF PaysConstant(o) THEN o.constantGas ELSE 0
           run == Returned(Top.gas - taken, "ErrExecution", 0, FALSE)
           told == Announced(FALSE, cost)
<1>1. /\ frames # <<>> /\ Leave(run, told)
      /\ seen' = [seen EXCEPT !.fetched = @ + 1, !.unpaid = @ + cost - taken]
      /\ RunTyped /\ TracedOnce
  BY DEF Refuse, Fetching, RunInv
<1>2. Top.gas \in Nat /\ taken \in Nat /\ Top.gas - taken \in Nat /\ cost \in Nat
  <2>1. Top.gas \in Nat /\ cost \in Nat /\ o.constantGas \in Nat
    BY <1>1, TopGood, GasOfGood, CostTyped, OperationTyped, RulesAssumption
  <2>2. PaysConstant(o) => o.constantGas <= Top.gas
    BY DEF PaysConstant
  <2> QED BY <2>1, <2>2
<1> HIDE DEF cost, taken
<1>3. run.gas = Top.gas - taken /\ run.size \in Nat /\ run.err \in RunErrors
  BY DEF Returned, RunErrors
<1>4. /\ told \in Told /\ told.spent = tracer.spent /\ told.cost = tracer.cost + cost
      /\ told.opcodes = tracer.opcodes + 1 /\ told.faults = tracer.faults
  BY <1>1, <1>2, AnnouncedTyped
<1>5. seen \in Counts /\ seen.unpaid \in Int /\ seen.fetched \in Nat
      /\ tracer.cost \in Nat
  BY <1>1 DEF RunTyped, Counts, Told
<1>6. /\ seen' \in Counts /\ seen'.runs = seen.runs
      /\ seen'.fetched = seen.fetched + 1 /\ seen'.failed = seen.failed
      /\ seen'.unpaid = seen.unpaid + cost - taken
  <2>1. PICK u : u = seen.unpaid + cost - taken
    OBVIOUS
  <2>2. u \in Int /\ seen.fetched + 1 \in Nat
    BY <1>2, <1>5, <2>1
  <2>3. seen' = [seen EXCEPT !.fetched = seen.fetched + 1, !.unpaid = u]
    BY <1>1, <1>5, <2>1 DEF Counts
  <2>4. /\ seen' \in Counts /\ seen'.runs = seen.runs /\ seen'.failed = seen.failed
        /\ seen'.fetched = seen.fetched + 1 /\ seen'.unpaid = u
    BY ONLY <1>5, <2>2, <2>3 DEF Counts
  <2> QED BY <2>1, <2>4
<1> HIDE DEF run, told
<1>7. Reported(run, told)
  BY <1>2, <1>3, <1>4, <1>5, <1>6 DEF Reported
<1>8. run.gas \in Nat /\ run.gas <= Top.gas
  BY <1>2, <1>3
<1> QED BY <1>1, <1>3, <1>4, <1>6, <1>7, <1>8, LeaveRun DEF TracedOnce

LEMMA TopReplaced ==
  ASSUME RunTyped, frames # <<>>, NEW g \in GoodFrame, frames' = WithTop(g)
  PROVE  /\ frames' \in Seq(GoodFrame) /\ Len(frames') = Len(frames)
         /\ frames'[Len(frames)] = g
         /\ \A i \in 1..(Len(frames) - 1) : frames'[i] = frames[i]
         /\ GasInFrames' = GasInFrames - Top.gas + g.gas
<1> DEFINE n == Len(frames)
<1>1. /\ n > 0 /\ Top = frames[n] /\ frames \in Seq(GoodFrame)
  BY TopGood DEF RunTyped
<1>2. frames' = [frames EXCEPT ![n] = g]
  BY DEF WithTop
<1>3. /\ frames' \in Seq(GoodFrame) /\ Len(frames') = n /\ frames'[n] = g
      /\ \A i \in 1..(n - 1) : frames'[i] = frames[i]
  BY <1>1, <1>2, LastChanged
<1>4. GasIn([frames EXCEPT ![n] = g]) = GasIn(frames) - frames[n].gas + g.gas
  BY <1>1, LastChanged
<1> QED BY <1>1, <1>2, <1>3, <1>4 DEF GasInFrames

(* What the frame pays is told to the tracer.                              *)
LEMMA SupplyChanged ==
  ASSUME RunTyped, Balanced, frames # <<>>, NEW g \in GoodFrame, frames' = WithTop(g),
         Bounded, g.gas <= Top.gas,
         supply' = supply, tracer'.cost = tracer.cost + (Top.gas - g.gas),
         tracer'.spent = tracer.spent, seen'.unpaid = seen.unpaid
  PROVE  Balanced' /\ Bounded'
<1>1. /\ supply \in Int /\ tracer.cost \in Int /\ tracer.spent \in Int
      /\ seen.unpaid \in Int
      /\ Top.gas \in Int /\ g.gas \in Int /\ GasInFrames \in Int
  <2>1. Top.gas \in Nat /\ g.gas \in Nat
    BY TopGood, GasOfGood
  <2>2. GasInFrames \in Nat
    BY GasOfAll DEF RunTyped, GasInFrames
  <2>3. supply \in Int /\ tracer.cost \in Int /\ tracer.spent \in Int
        /\ seen.unpaid \in Int
    BY DEF RunTyped, Told, Counts
  <2> QED BY <2>1, <2>2, <2>3
<1>2. /\ supply = GasInFrames + (tracer.cost - seen.unpaid) + tracer.spent
      /\ GasInFrames' = GasInFrames - Top.gas + g.gas /\ GasInFrames <= MaxU64
  BY TopReplaced DEF Balanced, Bounded
<1>3. supply = GasInFrames' + (tracer'.cost - seen.unpaid) + tracer.spent
      /\ GasInFrames' <= MaxU64
  BY <1>1, <1>2, RulesAssumption
<1> QED BY <1>3 DEF Balanced, Bounded

(* A step that changes the innermost frame only.                           *)
LEMMA ChangeRun ==
  ASSUME RunInv, frames # <<>>, NEW g \in GoodFrame, frames' = WithTop(g),
         g.asked = Top.asked, g.requested = Top.requested,
         UNCHANGED <<depth, readOnly, result, supply>>,
         tracer' \in Told,
         seen' \in Counts,
         g.gas <= Top.gas, tracer'.cost = tracer.cost + (Top.gas - g.gas),
         tracer'.spent = tracer.spent, seen'.unpaid = seen.unpaid,
         seen'.runs = seen.runs, TracedOnce'
  PROVE  RunInv' /\ GasInFrames' = GasInFrames - Top.gas + g.gas
<1> DEFINE n == Len(frames)
<1>1. RunTyped /\ Fresh /\ Balanced /\ Bounded /\ FlagHeld
  BY DEF RunInv
<1>2. n \in Nat /\ n > 0 /\ Top = frames[n]
  BY <1>1, TopGood
<1>4. /\ frames' \in Seq(GoodFrame) /\ Len(frames') = n /\ frames'[n] = g
      /\ \A i \in 1..(n - 1) : frames'[i] = frames[i]
      /\ GasInFrames' = GasInFrames - Top.gas + g.gas
  BY <1>1, TopReplaced
<1>6. RunTyped'
  BY <1>1, <1>4 DEF RunTyped
<1>7. Fresh'
  BY <1>1 DEF Fresh
<1>8. Balanced' /\ Bounded'
  BY <1>1, SupplyChanged
<1>9. FlagHeld'
  <2>1. \A i \in 1..n : i = n \/ i \in 1..(n - 1)
    BY <1>2
  <2>2. SameFlags(frames', frames, n)
    BY <1>2, <1>4, <2>1 DEF SameFlags
  <2> QED BY <1>1, <1>4, <2>2, FlagSame
<1> QED BY <1>4, <1>6, <1>7, <1>8, <1>9 DEF RunInv

(* What the two calls of UseGas take of an instruction that is accepted.   *)
Charged(o, c) == o.constantGas + (IF o.dynamic THEN c ELSE 0)

LEMMA TopWithin == ASSUME RunInv, frames # <<>> PROVE Top.gas <= MaxU64
<1> DEFINE n == Len(frames)
           below == [i \in 1..(n - 1) |-> frames[i]]
<1>1. n \in Nat /\ n > 0 /\ Top = frames[n] /\ frames \in Seq(GoodFrame)
      /\ Top.gas \in Nat /\ \A i \in 1..n : frames[i] \in GoodFrame
  BY TopGood, GasOfGood, ElementOfSeq DEF RunInv, RunTyped
<1>2. below \in Seq(GoodFrame) /\ Len(below) = n - 1
      /\ \A i \in 1..(n - 1) : below[i] = frames[i]
  BY <1>1
<1> HIDE DEF below, n
<1>3. GasIn(frames) = GasIn(below) + frames[n].gas /\ GasIn(below) \in Nat
  BY <1>1, <1>2, GasLast, GasOfAll DEF n
<1>4. GasIn(frames) <= MaxU64
  BY DEF RunInv, Bounded, GasInFrames
<1> QED BY <1>1, <1>3, <1>4, RulesAssumption

(* The cost told of an accepted instruction is what was taken for it: the  *)
(* sum does not wrap.                                                      *)
LEMMA CostCharged ==
  ASSUME RunInv, frames # <<>>, NEW o \in Operations, NEW c \in DynamicCosts,
         NEW off, NEW len, Accepted(o, c, off, len)
  PROVE  /\ Charged(o, c) \in Nat /\ Charged(o, c) <= Top.gas
         /\ Cost(o, c, off, len) = Charged(o, c)
<1>1. /\ o.constantGas \in Nat /\ c \in Nat /\ Top.gas \in Nat /\ MaxU64 \in Nat
      /\ o.dynamic \in BOOLEAN /\ Top.gas <= MaxU64
  BY OperationTyped, InterpreterAssumption, RulesAssumption, TopWithin, TopGood,
     GasOfGood DEF RunInv
<1>2. /\ o.constantGas <= Top.gas
      /\ o.dynamic => CallsDynamicGas(o, off, len) /\ c <= Top.gas - o.constantGas
  BY DEF Accepted, PaysConstant, PaysDynamic
<1>3. CASE o.dynamic
  <2>1. Charged(o, c) = o.constantGas + c
    BY <1>3 DEF Charged
  <2>2. o.constantGas + c <= Top.gas /\ o.constantGas + c \in 0..MaxU64
    BY <1>1, <1>2, <1>3
  <2>3. Uint64(o.constantGas + c) = o.constantGas + c
    <3>1. \A x \in 0..MaxU64 : Uint64(x) = x
      BY RulesAssumption DEF Uint64
    <3> QED BY <2>2, <3>1
  <2> QED BY <1>2, <1>3, <2>1, <2>2, <2>3 DEF Cost
<1>4. CASE ~o.dynamic
  <2>1. Charged(o, c) = o.constantGas
    BY <1>1, <1>4 DEF Charged
  <2>2. ~CallsDynamicGas(o, off, len)
    BY <1>4 DEF CallsDynamicGas
  <2> QED BY <1>1, <1>2, <2>1, <2>2 DEF Cost
<1> QED BY <1>1, <1>3, <1>4

LEMMA FetchTop ==
  ASSUME RunInv, NEW o \in Operations, NEW c \in DynamicCosts, NEW off \in Offsets,
         NEW len \in Lengths, Fetch(o, c, off, len)
  PROVE  \E g \in GoodFrame :
           /\ frames' = WithTop(g)
           /\ g.asked = Top.asked /\ g.requested = Top.requested
           /\ g.gas = Top.gas - Charged(o, c)
<1> DEFINE charged == Charged(o, c)
           bytes == IF o.dynamic THEN MemorySize(off, len) ELSE 0
           memory == IF Top.memory < bytes THEN bytes ELSE Top.memory
           g == [Top EXCEPT !.gas = @ - charged, !.logged = TRUE, !.executing = TRUE,
                            !.memory = IF @ < bytes THEN bytes ELSE @,
                            !.op = o, !.off = off, !.len = len, !.paid = charged]
<1>1. /\ StackValid(o) /\ (o.dynamic => MemorySize(off, len) # TooBig)
      /\ frames # <<>> /\ RunTyped /\ Accepted(o, c, off, len)
      /\ frames' = WithTop(g)
  BY DEF Fetch, Accepted, PaysConstant, CallsDynamicGas, Fetching, RunInv, Charged
<1>2. Top \in GoodFrame /\ Top \in Frame /\ Top.gas \in Nat /\ Top.memory \in Nat
      /\ Whole(Top.memory)
  <2>1. Top \in GoodFrame
    BY <1>1, TopGood
  <2> QED BY <2>1 DEF GoodFrame, Frame
<1>3. /\ o.constantGas \in Nat /\ o.minStack \in Nat /\ o.maxStack \in Nat
      /\ c \in Nat /\ off \in Nat /\ len \in Nat
  <2>1. o \in [minStack : MinStacks, pushes : Nat, maxStack : Nat,
               constantGas : 0..MaxU64, dynamic : BOOLEAN]
    BY InterpreterAssumption
  <2>2. o.constantGas \in 0..MaxU64 /\ o.minStack \in MinStacks /\ o.maxStack \in Nat
    BY <2>1
  <2>3. o.constantGas \in Nat
    BY <2>2, RulesAssumption
  <2>4. o.minStack \in Nat
    BY <2>2, PoolAssumption
  <2> QED BY <2>2, <2>3, <2>4, InterpreterAssumption
<1>4. charged \in Nat /\ Top.gas - charged \in Nat
  <2>1. charged \in Nat /\ charged <= Top.gas
    BY <1>1, CostCharged
  <2> HIDE DEF charged
  <2> QED BY <1>2, <2>1
<1>5. /\ bytes \in Nat /\ Whole(bytes)
      /\ o.dynamic /\ len # 0 => off + len <= bytes
  <2>1. CASE o.dynamic
    BY <1>1, <1>3, <2>1, MemorySizeWhole
  <2>2. CASE ~o.dynamic
    BY <2>2, RulesAssumption, MemoryAssumption DEF Whole
  <2> QED BY <2>1, <2>2
<1> HIDE DEF bytes, charged
<1>6. /\ memory \in Nat /\ Whole(memory)
      /\ o.dynamic /\ len # 0 => off + len <= memory
  <2>1. CASE Top.memory < bytes
    BY <1>5, <2>1
  <2>2. CASE ~(Top.memory < bytes)
    <3>1. bytes <= Top.memory
      BY <1>2, <1>5, <2>2
    <3> QED BY <1>2, <1>3, <1>5, <2>2, <3>1
  <2> QED BY <2>1, <2>2
<1> HIDE DEF memory
<1>7. g = [Top EXCEPT !.gas = Top.gas - charged, !.logged = TRUE, !.executing = TRUE,
                      !.memory = memory, !.op = o, !.off = off, !.len = len,
                      !.paid = charged]
  BY <1>2 DEF memory, Frame
<1> HIDE DEF g
<1>8. g \in Frame
  BY <1>2, <1>3, <1>4, <1>6, <1>7 DEF Frame
<1>9. /\ g.gas = Top.gas - charged /\ g.logged = TRUE /\ g.op = o
      /\ g.memory = memory /\ g.off = off /\ g.len = len /\ g.items = Top.items
      /\ g.asked = Top.asked /\ g.requested = Top.requested
  BY <1>2, <1>7 DEF Frame
<1>10. Prepared(g)
  BY <1>1, <1>9 DEF Prepared, StackValid
<1>11. g \in GoodFrame
  BY <1>6, <1>8, <1>9, <1>10 DEF GoodFrame
<1> QED BY <1>1, <1>9, <1>11 DEF charged

LEMMA FetchRun ==
  ASSUME RunInv, NEW o \in Operations, NEW c \in DynamicCosts, NEW off \in Offsets,
         NEW len \in Lengths, Fetch(o, c, off, len)
  PROVE  RunInv' /\ GasInFrames' \in 0..GasInFrames /\ frames # <<>> /\ frames' # <<>>
<1>1. /\ tracer' = [tracer EXCEPT !.opcodes = @ + 1, !.cost = @ + Cost(o, c, off, len)]
      /\ seen' = [seen EXCEPT !.fetched = @ + 1]
      /\ UNCHANGED <<depth, readOnly, result, supply>>
      /\ frames # <<>> /\ RunTyped /\ TracedOnce /\ Accepted(o, c, off, len)
  BY DEF Fetch, Fetching, RunInv
<1>2. PICK g \in GoodFrame :
        /\ frames' = WithTop(g)
        /\ g.asked = Top.asked /\ g.requested = Top.requested
        /\ g.gas = Top.gas - Charged(o, c)
  BY FetchTop
<1>3. /\ Cost(o, c, off, len) = Charged(o, c)
      /\ Charged(o, c) \in Nat /\ Charged(o, c) <= Top.gas
  BY <1>1, CostCharged
<1>4. /\ tracer' \in Told
      /\ tracer'.cost = tracer.cost + Charged(o, c)
      /\ tracer'.opcodes = tracer.opcodes + 1 /\ tracer'.faults = tracer.faults
      /\ tracer'.spent = tracer.spent
  <2>1. tracer \in Told
    BY <1>1 DEF RunTyped
  <2>2. PICK x \in Nat : x = Charged(o, c)
    BY <1>3
  <2>3. tracer' = [tracer EXCEPT !.opcodes = @ + 1, !.cost = @ + x]
    BY <1>1, <1>3, <2>2
  <2>4. tracer.opcodes \in Nat /\ tracer.cost \in Nat
    BY <2>1 DEF Told
  <2>5. tracer.opcodes + 1 \in Nat /\ tracer.cost + x \in Nat
    BY <2>4
  <2>6. tracer' = [tracer EXCEPT !.opcodes = tracer.opcodes + 1, !.cost = tracer.cost + x]
    BY <2>1, <2>3, Zenon
  <2>7. tracer' \in Told
    BY ONLY <2>1, <2>5, <2>6 DEF Told
  <2>8. /\ tracer'.opcodes = tracer.opcodes + 1 /\ tracer'.faults = tracer.faults
        /\ tracer'.cost = tracer.cost + x /\ tracer'.spent = tracer.spent
    BY ONLY <2>1, <2>6 DEF Told
  <2> QED BY <2>2, <2>7, <2>8
<1>5. /\ seen' \in Counts /\ seen'.runs = seen.runs /\ seen'.unpaid = seen.unpaid
      /\ seen'.fetched = seen.fetched + 1 /\ seen'.failed = seen.failed
  BY <1>1 DEF RunTyped, Counts
<1>6. TracedOnce'
  BY <1>1, <1>4, <1>5 DEF TracedOnce
<1>7. Top.gas \in Nat
  BY <1>1, TopGood, GasOfGood
<1>8. tracer'.cost = tracer.cost + (Top.gas - g.gas) /\ g.gas <= Top.gas
  <2>1. Top.gas - g.gas = Charged(o, c) /\ g.gas <= Top.gas
    BY <1>2, <1>3, <1>7
  <2> QED BY <1>4, <2>1
<1>9. RunInv' /\ GasInFrames' = GasInFrames - Top.gas + g.gas
  BY <1>1, <1>2, <1>4, <1>5, <1>6, <1>8, ChangeRun
<1>10. GasInFrames' \in 0..GasInFrames
  <2>1. GasInFrames \in Nat /\ GasInFrames' \in Nat
    BY <1>1, <1>9, GasOfAll DEF RunTyped, GasInFrames, RunInv
  <2>2. g.gas <= Top.gas /\ g.gas \in Int
    BY <1>2, <1>3, <1>7
  <2> QED BY <1>7, <1>9, <2>1, <2>2
<1>11. frames' # <<>>
  BY <1>1, <1>2, TopReplaced, TopGood, EmptySeq
<1> QED BY <1>1, <1>9, <1>10, <1>11

LEMMA CompleteRun ==
  ASSUME RunInv, NEW next \in PCs, Complete(next)
  PROVE  RunInv' /\ GasInFrames' = GasInFrames /\ frames # <<>> /\ frames' # <<>>
<1> DEFINE items == Top.items - Top.op.minStack + Top.op.pushes
           g == [Top EXCEPT !.pc = next, !.executing = FALSE, !.logged = FALSE,
                            !.items = @ - Top.op.minStack + Top.op.pushes,
                            !.op = NoOp, !.off = 0, !.len = 0, !.paid = 0,
                            !.called = FALSE]
<1>1. /\ frames # <<>> /\ Top.executing /\ frames' = WithTop(g)
      /\ UNCHANGED <<depth, readOnly, result, tracer, supply, seen>>
      /\ RunTyped /\ TracedOnce
  BY DEF Complete, Executing, RunInv
<1>2. Top \in Frame /\ Prepared(Top) /\ Whole(Top.memory) /\ Top.gas \in Nat
  <2>1. Top \in GoodFrame
    BY <1>1, TopGood
  <2> QED BY <1>1, <2>1 DEF GoodFrame, Frame
<1>3. items \in 0..StackLimit
  <2> DEFINE o == Top.op
  <2>1. /\ o \in [minStack : MinStacks, pushes : Nat, maxStack : Nat,
                  constantGas : 0..MaxU64, dynamic : BOOLEAN]
        /\ o.maxStack = StackLimit + o.minStack - o.pushes
    BY <1>2, InterpreterAssumption DEF Prepared
  <2>2. o.minStack \in Nat /\ o.pushes \in Nat /\ StackLimit \in Nat
    BY <2>1, PoolAssumption, InterpreterAssumption
  <2>3. o.minStack <= Top.items /\ Top.items <= o.maxStack /\ Top.items \in Nat
    <3>1. Top.items \in 0..StackLimit
      BY <1>2 DEF Frame
    <3> QED BY <1>2, <2>2, <3>1 DEF Prepared
  <2> HIDE DEF o
  <2>4. Top.items - o.minStack + o.pushes \in 0..StackLimit
    <3>1. Top.items <= StackLimit + o.minStack - o.pushes
      BY <2>1, <2>3
    <3> QED BY <2>2, <2>3, <3>1
  <2> QED BY <2>4 DEF o
<1>4. g = [Top EXCEPT !.pc = next, !.executing = FALSE, !.logged = FALSE,
                      !.items = items, !.op = NoOp, !.off = 0, !.len = 0, !.paid = 0,
                      !.called = FALSE]
  BY <1>2 DEF Frame
<1> HIDE DEF g, items
<1>5. g \in Frame
  BY <1>2, <1>3, <1>4 DEF Frame
<1>6. /\ g.executing = FALSE /\ g.memory = Top.memory /\ g.gas = Top.gas
      /\ g.asked = Top.asked /\ g.requested = Top.requested
  BY <1>2, <1>4 DEF Frame
<1>7. g \in GoodFrame
  BY <1>2, <1>5, <1>6 DEF GoodFrame
<1>8. TracedOnce'
  BY <1>1 DEF TracedOnce
<1>9. tracer'.cost = tracer.cost + (Top.gas - g.gas) /\ g.gas <= Top.gas
  BY <1>1, <1>2, <1>6 DEF RunTyped, Told
<1>10. /\ tracer' \in Told
       /\ seen' \in Counts /\ seen'.runs = seen.runs
  BY <1>1 DEF RunTyped
<1>11. RunInv' /\ GasInFrames' = GasInFrames - Top.gas + g.gas
  BY <1>1, <1>6, <1>7, <1>8, <1>9, <1>10, ChangeRun
<1>12. GasInFrames \in Nat
  BY <1>1, GasOfAll DEF RunTyped, GasInFrames
<1>13. frames' # <<>>
  BY <1>1, <1>7, TopReplaced, TopGood, EmptySeq
<1> QED BY <1>1, <1>2, <1>6, <1>11, <1>12, <1>13

LEMMA SameRun == ASSUME RunInv, UNCHANGED frameVars PROVE RunInv'
BY DEF RunInv, frameVars, RunTyped, Fresh, Balanced, Bounded, GasInFrames, FlagHeld, TracedOnce

LEMMA StepRun == RunInv /\ [RunNext]_allVars => RunInv'
<1> SUFFICES ASSUME RunInv, [RunNext]_allVars PROVE RunInv'
  OBVIOUS
<1>1. CASE UNCHANGED frameVars
  BY <1>1, SameRun
<1>2. UNCHANGED allVars \/ ExecuteNil => UNCHANGED frameVars
  BY DEF allVars, ExecuteNil
<1> QED BY <1>1, <1>2, StartRun, StartInnerRun, ReturnEmptyRun, RefuseRun, FetchRun,
           CompleteRun, HaltRun, FailRun
        DEF RunNext, Turn

LEMMA RunInvariant == RunSpec => []RunInv
BY InitRun, StepRun, PTL DEF RunSpec

-----------------------------------------------------------------------------
(* The pool, fed by the frames.                                            *)
LEMMA StepRunLoops == RunInv /\ LoopInv /\ [RunNext]_allVars => LoopInv'
<1> SUFFICES ASSUME RunInv, LoopInv, [RunNext]_allVars PROVE LoopInv'
  OBVIOUS
<1>1. CASE UNCHANGED vars
  BY <1>1 DEF vars, LoopInv, LoopsInOrder, PoolInv, TypeOK, IndexUnique
<1>2. CASE ExecuteNil
  BY <1>2 DEF ExecuteNil, LoopInv, LoopsInOrder, PoolInv, TypeOK, IndexUnique
<1>3. ASSUME NEW o \in Operations, NEW c \in DynamicCosts, NEW off \in Offsets,
             NEW len \in Lengths, Fetch(o, c, off, len)
      PROVE  LoopInv'
  <2>1. /\ RunTyped /\ frames # <<>> /\ AppendReg(depth, Top.pc, o.minStack)
    BY <1>3 DEF Fetch, Fetching, RunInv
  <2>2. depth \in Depths
    <3>1. /\ Len(frames) \in Nat /\ Len(frames) > 0 /\ depth = Len(frames)
          /\ depth <= CallCreateDepth + 1 /\ CallCreateDepth \in Nat
      BY <2>1, TopGood, InterpreterAssumption DEF RunTyped
    <3>2. depth \in 1..(CallCreateDepth + 1)
      BY <3>1
    <3> QED BY <3>2, InterpreterAssumption
  <2>3. Top.pc \in PCs
    BY <2>1, TopGood DEF GoodFrame, Frame
  <2>4. o.minStack \in MinStacks
    BY InterpreterAssumption
  <2> QED BY <2>1, <2>2, <2>3, <2>4, AppendLoops
<1>4. UNCHANGED allVars => UNCHANGED vars
  BY DEF allVars
<1>5. \/ \E gas \in Gases, requested, empty \in BOOLEAN :
           Start(gas, requested, empty) \/ StartInner(gas, requested, empty)
      \/ ReturnEmpty \/ (\E next \in PCs : Complete(next))
      \/ (\E o \in Operations, c \in DynamicCosts, off \in Offsets, len \in Lengths :
            Refuse(o, c, off, len))
      \/ (\E size \in CodeSizes, startsEF \in BOOLEAN : Halt(size, startsEF))
      \/ (\E reverted \in BOOLEAN : Fail(reverted))
      => UNCHANGED vars
  BY DEF Start, StartInner, Calling, ReturnEmpty, Complete, Refuse, Halt, Fail
<1> QED BY <1>1, <1>2, <1>3, <1>4, <1>5 DEF RunNext, Turn

LEMMA RunLoopInvariant == RunSpec => []LoopInv
<1>1. RunInit => LoopInv
  BY InitLoops DEF RunInit
<1> QED BY <1>1, RunInvariant, StepRunLoops, PTL DEF RunSpec

(* No two registers share an index, however frames are nested.             *)
THEOREM RunIndexUnique == RunSpec => []IndexUnique
<1>1. LoopInv => IndexUnique
  BY DEF LoopInv, PoolInv
<1> QED BY <1>1, RunLoopInvariant, PTL

(* Recursion and sibling calls number the registers of a place like loops. *)
THEOREM RunLoopsInOrder == RunSpec => []LoopsInOrder
<1>1. LoopInv => LoopsInOrder
  BY DEF LoopInv
<1> QED BY <1>1, RunLoopInvariant, PTL

-----------------------------------------------------------------------------
(* The depth counts the active frames, and no more are nested in the       *)
(* outermost one than create's limit.                                      *)
THEOREM NestingAlwaysRestricted == RunSpec => []NestingRestricted
<1>1. RunInv => NestingRestricted
  <2> SUFFICES ASSUME RunInv PROVE NestingRestricted
    OBVIOUS
  <2>1. Len(frames) \in Nat /\ CallCreateDepth \in Nat
    BY LenProperties, InterpreterAssumption DEF RunInv, RunTyped
  <2> QED BY <2>1 DEF RunInv, RunTyped, NestingRestricted
<1> QED BY <1>1, RunInvariant, PTL

(* The flag is on exactly while a frame that was called read-only is       *)
(* active: the one that turned it on is the outermost of these.            *)
THEOREM ReadOnlyAlwaysKept == RunSpec => []ReadOnlyKept
<1>1. RunInv => ReadOnlyKept
  <2> SUFFICES ASSUME RunInv PROVE ReadOnlyKept
    OBVIOUS
  <2>1. FlagHeld /\ Len(frames) \in Nat
    BY LenProperties DEF RunInv, RunTyped
  <2>2. \A i \in 1..Len(frames) : \A k \in 1..i : k \in 1..Len(frames)
    BY <2>1
  <2> QED BY <2>1, <2>2 DEF FlagHeld, ReadOnlyKept
<1> QED BY <1>1, RunInvariant, PTL

(* The hooks are called once per fetched instruction and per failure.      *)
THEOREM TracedAlwaysOnce == RunSpec => []TracedOnce
<1>1. RunInv => TracedOnce
  BY DEF RunInv
<1> QED BY <1>1, RunInvariant, PTL

LEMMA FrameTyped ==
  ASSUME RunInv, NEW i \in DOMAIN frames
  PROVE  frames[i] \in GoodFrame
BY ElementOfSeq, LenProperties DEF RunInv, RunTyped

(* Gas is conserved: what was put in is in the frames or was told to the   *)
(* tracer, whose account is exact but for the costs told of instructions   *)
(* that were refused.  It rests on create telling exactly what it takes    *)
(* (SpentExact) and on the cost of a paid instruction not wrapping         *)
(* (CostCharged).                                                          *)
THEOREM TracedGasAlwaysReal == RunSpec => []TracedGasIsReal
<1>1. RunInv => TracedGasIsReal
  <2> SUFFICES ASSUME RunInv PROVE TracedGasIsReal
    OBVIOUS
  <2>1. \A i \in DOMAIN frames : frames[i].gas \in Nat
    BY FrameTyped, GasOfGood
  <2> QED BY <2>1 DEF RunInv, Balanced, TracedGasIsReal
<1> QED BY <1>1, RunInvariant, PTL

(* Operands are on the stack when they are needed, and it never overflows. *)
THEOREM StackAlwaysSafe == RunSpec => []StackSafe
<1>1. RunInv => StackSafe
  BY FrameTyped DEF StackSafe, GoodFrame, Frame, Prepared
<1> QED BY <1>1, RunInvariant, PTL

(* The bytes an operation addresses are in memory when it executes.        *)
THEOREM MemoryAlwaysCovers == RunSpec => []MemoryCovers
<1>1. RunInv => MemoryCovers
  BY FrameTyped DEF MemoryCovers, GoodFrame, Whole
<1> QED BY <1>1, RunInvariant, PTL

-----------------------------------------------------------------------------
(* To the host, all the nested frames are one deployment.                  *)
LEMMA SpentStep ==
  ASSUME frames # <<>>, frames' # <<>>, GasInFrames' \in 0..GasInFrames,
         result' = result
  PROVE  Deployed!Spend
BY DEF Deployed!Spend

Returns == Deployed!Succeeded \/ Deployed!Kept \/ Deployed!Burnt

(* The outermost frame returns with one of the outcomes.                   *)
LEMMA OutermostReturns ==
  ASSUME RunInv, frames # <<>>, Len(frames) = 1, NEW run, run.gas \in Nat,
         run.gas <= Top.gas, run.err \in RunErrors, run.size \in CodeSizes,
         run.startsEF \in BOOLEAN,
         NEW told, HandBack(run, GasAfterDeploy(run), told), GasInFrames = Top.gas
  PROVE  Returns
<1>1. /\ frames # <<>> /\ frames' = <<>> /\ result'.gas = GasAfterDeploy(run)
      /\ result'.err = DeployError(run)
      /\ result'.stored = (DeployError(run) = NoError /\ run.size > 0)
  <2>1. ~(Len(frames) > 1)
    OBVIOUS
  <2> QED BY <2>1 DEF HandBack
<1>2. Deployed!Return
  BY <1>1 DEF Deployed!Return
<1>3. /\ run.size \in Nat /\ CodeCost(run) \in Nat /\ Top.gas \in Nat
      /\ CodeCost(run) = run.size * CreateDataGas
  <2>1. Top.gas \in Nat
    BY <1>1, TopGood, GasOfGood DEF RunInv
  <2>2. run.size \in Nat /\ CreateDataGas \in Nat
    BY CreateAssumption
  <2>3. run.size * CreateDataGas \in Nat
    BY <2>2
  <2> QED BY <2>1, <2>2, <2>3 DEF CodeCost
<1>4. CASE DeployError(run) = NoError
  <2>1. /\ IsEIP158 => run.size <= MaxCodeSize
        /\ run.gas >= CodeCost(run)
    BY <1>3, <1>4, CreateAssumption DEF DeployError, NoError, RunErrors
  <2>2. GasAfterDeploy(run) = run.gas - run.size * CreateDataGas
    BY <1>3, <1>4 DEF GasAfterDeploy
  <2>3. GasAfterDeploy(run) \in 0..(Top.gas - run.size * CreateDataGas)
    <3> HIDE DEF CodeCost
    <3> QED BY <1>3, <2>1, <2>2
  <2>4. result'.stored = (run.size > 0) /\ result'.err = Deployed!NoError
    BY <1>1, <1>4 DEF NoError, Deployed!NoError
  <2> QED BY <1>1, <1>2, <2>1, <2>3, <2>4 DEF Returns, Deployed!Succeeded
<1>5. CASE DeployError(run) # NoError
  <2>1. ~result'.stored
    BY <1>1, <1>5
  <2>2. CASE ~Undoes(DeployError(run)) \/ DeployError(run) = "ErrExecutionReverted"
    <3>1. result'.gas = run.gas
      BY <1>1, <1>5, <2>2 DEF GasAfterDeploy
    <3>2. \/ result'.err = "ErrExecutionReverted"
          \/ ~IsHomestead /\ result'.err = "ErrCodeStoreOutOfGas"
      BY <1>1, <1>5, <2>2 DEF Undoes
    <3>3. run.gas \in 0..Top.gas
      BY <1>3
    <3> QED BY <1>1, <1>2, <2>1, <3>1, <3>2, <3>3 DEF Returns, Deployed!Kept
  <2>3. CASE Undoes(DeployError(run)) /\ DeployError(run) # "ErrExecutionReverted"
    <3>1. result'.gas = 0
      BY <1>1, <1>5, <2>3 DEF GasAfterDeploy
    <3>2. \/ result'.err \in {"ErrExecution", "ErrContractAddressCollision"}
          \/ IsHomestead /\ result'.err = "ErrCodeStoreOutOfGas"
          \/ IsEIP158 /\ result'.err = "ErrMaxCodeSizeExceeded"
          \/ IsLondon /\ result'.err = "ErrInvalidCode"
      BY <1>1, <1>5, <2>3 DEF Undoes, DeployError, RunErrors, NoError
    <3> QED BY <1>1, <1>2, <2>1, <3>1, <3>2 DEF Returns, Deployed!Burnt
  <2> QED BY <2>2, <2>3
<1> QED BY <1>4, <1>5

LEMMA LeaveSettles ==
  ASSUME RunInv, frames # <<>>, NEW left \in Nat, left <= Top.gas,
         NEW err \in RunErrors, NEW size \in CodeSizes,
         NEW startsEF \in BOOLEAN, NEW told,
         Leave(Returned(left, err, size, startsEF), told)
  PROVE  Returns \/ Deployed!Spend
<1> DEFINE n == Len(frames)
           run == Returned(left, err, size, startsEF)
           back == GasAfterDeploy(run)
<1>1. /\ n \in Nat /\ n > 0 /\ RunTyped /\ Top.gas \in Nat
  BY TopGood, GasOfGood DEF RunInv
<1>2. /\ run.gas = left /\ run.err = err /\ run.size = size /\ size \in Nat
      /\ run.startsEF = startsEF
  BY CreateAssumption DEF Returned
<1>3. /\ back \in 0..run.gas /\ DeployError(run) \in CreateErrors
      /\ Deferred /\ HandBack(run, back, told)
  BY <1>2, DeployKeepsGas DEF Leave
<1> HIDE DEF run
<1>4. HandBack(run, GasAfterDeploy(run), told)
  BY <1>3
<1> HIDE DEF back
<1>6. /\ Len(frames') = n - 1 /\ frames' \in Seq(GoodFrame)
      /\ GasInFrames' = IF n = 1 THEN 0 ELSE GasInFrames - Top.gas + back
      /\ n = 1 => GasInFrames = Top.gas
  BY <1>1, <1>2, <1>3, Left DEF GasInFrames
<1>7. CASE n = 1
  BY <1>2, <1>4, <1>6, <1>7, OutermostReturns
<1>8. CASE n # 1
  <2>1. frames' # <<>> /\ result' = result
    BY <1>1, <1>3, <1>6, <1>8, EmptySeq DEF HandBack
  <2>2. GasInFrames \in Nat /\ GasInFrames' \in Nat
    BY <1>1, <1>6, GasOfAll DEF GasInFrames, RunTyped
  <2>3. GasInFrames' \in 0..GasInFrames
    <3>1. GasInFrames' = GasInFrames - Top.gas + back /\ back \in 0..Top.gas
      BY <1>1, <1>2, <1>3, <1>6, <1>8
    <3> QED BY <1>1, <2>2, <3>1
  <2> QED BY <2>1, <2>3, SpentStep
<1> QED BY <1>7, <1>8

LEMMA StepDeployed ==
  RunInv /\ [RunNext]_allVars => [Deployed!DeploymentNext]_(Deployed!deployment)
<1> SUFFICES ASSUME RunInv, [RunNext]_allVars
             PROVE  Deployed!DeploymentNext \/ UNCHANGED Deployed!deployment
  OBVIOUS
<1>1. RunInv'
  BY StepRun
<1>2. GasInFrames' \in Nat
  BY <1>1, GasOfAll DEF RunInv, RunTyped, GasInFrames
<1>3. CASE UNCHANGED frameVars
  BY <1>3 DEF frameVars, Deployed!deployment, GasInFrames
<1>4. ASSUME NEW gas \in Gases, NEW requested \in BOOLEAN, NEW empty \in BOOLEAN,
             Start(gas, requested, empty)
      PROVE  Deployed!Enter
  <2>1. frames = <<>> /\ Enter(<<>>, gas, requested, empty)
    BY <1>4 DEF Start
  <2>2. frames' # <<>>
    BY <2>1, AppendProperties DEF Enter
  <2> QED BY <1>2, <2>1, <2>2 DEF Deployed!Enter
<1>5. ASSUME NEW gas \in Gases, NEW requested \in BOOLEAN, NEW empty \in BOOLEAN,
             StartInner(gas, requested, empty)
      PROVE  Deployed!Spend
  <2>1. /\ RunTyped /\ RunTyped' /\ Balanced /\ Balanced'
        /\ UNCHANGED <<result, tracer, supply, seen>> /\ frames # <<>>
        /\ Enter(Endowed(gas), gas, requested, empty)
    BY <1>1, <1>5 DEF RunInv, StartInner, Calling, Executing
  <2>2. GasInFrames' = GasInFrames
    <3>1. /\ supply \in Int /\ tracer.cost \in Int /\ tracer.spent \in Int
          /\ seen.unpaid \in Int /\ GasInFrames \in Int /\ GasInFrames' \in Int
      BY <1>2, <2>1, GasOfAll DEF RunTyped, Told, Counts, GasInFrames
    <3>2. /\ supply = GasInFrames + (tracer.cost - seen.unpaid) + tracer.spent
          /\ supply = GasInFrames' + (tracer.cost - seen.unpaid) + tracer.spent
      BY <2>1 DEF Balanced
    <3> QED BY <3>1, <3>2
  <2>3. frames' # <<>>
    BY <2>1, AppendProperties DEF Enter
  <2>4. GasInFrames' \in 0..GasInFrames
    BY <1>2, <2>2
  <2> QED BY <2>1, <2>3, <2>4, SpentStep
<1>g. frames # <<>> => Top.gas \in Nat
  BY TopGood, GasOfGood DEF RunInv
<1>6. ASSUME ReturnEmpty PROVE Returns \/ Deployed!Spend
  <2>1. frames # <<>> /\ Leave(Returned(Top.gas, NoError, 0, FALSE), tracer)
    BY <1>6 DEF ReturnEmpty
  <2>2. NoError \in RunErrors /\ 0 \in CodeSizes
    BY InterpreterAssumption DEF RunErrors
  <2>3. Top.gas \in Nat /\ Top.gas <= Top.gas
    BY <1>g, <2>1
  <2> QED BY <2>1, <2>2, <2>3, LeaveSettles
<1>7. ASSUME NEW o \in Operations, NEW c \in DynamicCosts, NEW off \in Offsets,
             NEW len \in Lengths, Refuse(o, c, off, len)
      PROVE  Returns \/ Deployed!Spend
  <2> DEFINE taken == IF PaysConstant(o) THEN o.constantGas ELSE 0
             told == Announced(FALSE, Cost(o, c, off, len))
  <2>1. /\ frames # <<>>
        /\ Leave(Returned(Top.gas - taken, "ErrExecution", 0, FALSE), told)
    BY <1>7 DEF Refuse, Fetching
  <2>2. Top.gas - taken \in Nat /\ Top.gas - taken <= Top.gas
    <3>1. o.constantGas \in Nat /\ (PaysConstant(o) => o.constantGas <= Top.gas)
      BY OperationTyped, RulesAssumption DEF PaysConstant
    <3> QED BY <1>g, <2>1, <3>1
  <2>3. "ErrExecution" \in RunErrors
    BY DEF RunErrors
  <2> HIDE DEF taken, told
  <2> QED BY <2>1, <2>2, <2>3, InterpreterAssumption, LeaveSettles
<1>8. ASSUME NEW o \in Operations, NEW c \in DynamicCosts, NEW off \in Offsets,
             NEW len \in Lengths, Fetch(o, c, off, len)
      PROVE  Deployed!Spend
  <2>1. result' = result
    BY <1>8 DEF Fetch
  <2> QED BY <1>8, <2>1, FetchRun, SpentStep
<1>9. ASSUME NEW next \in PCs, Complete(next) PROVE Deployed!Spend
  <2>1. result' = result
    BY <1>9 DEF Complete
  <2>2. GasInFrames' \in 0..GasInFrames
    BY <1>2, <1>9, CompleteRun
  <2> QED BY <1>9, <2>1, <2>2, CompleteRun, SpentStep
<1>10. ASSUME NEW size \in CodeSizes, NEW startsEF \in BOOLEAN, Halt(size, startsEF)
       PROVE  Returns \/ Deployed!Spend
  BY <1>10, <1>g, LeaveSettles DEF Halt, Executing, RunErrors
<1>11. ASSUME NEW reverted \in BOOLEAN, Fail(reverted)
       PROVE  Returns \/ Deployed!Spend
  <2> DEFINE err == IF reverted THEN "ErrExecutionReverted" ELSE "ErrExecution"
             told == Announced(Top.logged, Top.paid)
  <2>1. frames # <<>> /\ Leave(Returned(Top.gas, err, 0, FALSE), told)
    BY <1>11 DEF Fail, Executing
  <2>2. err \in RunErrors
    BY DEF RunErrors
  <2> HIDE DEF err, told
  <2>3. Top.gas \in Nat /\ Top.gas <= Top.gas
    BY <1>g, <2>1
  <2> QED BY <2>1, <2>2, <2>3, InterpreterAssumption, LeaveSettles
<1>12. UNCHANGED allVars \/ ExecuteNil => UNCHANGED frameVars
  BY DEF allVars, ExecuteNil
<1> QED BY <1>3, <1>4, <1>5, <1>6, <1>7, <1>8, <1>9, <1>10, <1>11, <1>12
        DEF RunNext, Turn, Returns, Deployed!DeploymentNext

(* However deep init code calls, the host sees one deployment: gas that    *)
(* only shrinks, and in the end one of the outcomes Deployment states.     *)
THEOREM RunImplementsDeployment == RunSpec => ImplementsDeployment
<1>1. RunInit => Deployed!DeploymentInit
  BY DEF RunInit, Deployed!DeploymentInit
<1> QED BY <1>1, RunInvariant, StepDeployed, PTL
        DEF RunSpec, ImplementsDeployment, Deployed!DeploymentSpec
=============================================================================
