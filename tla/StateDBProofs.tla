---------------------------- MODULE StateDBProofs ----------------------------
(* Undoing the journal, for any addresses and any length of it.            *)
EXTENDS StateDB, SequenceTheorems, TLAPS

(* Why undoing works: each entry is the difference between the worlds on   *)
(* its two sides, and objects are only created on destructed addresses.    *)
Now == [exists |-> Existing, contracts |-> newContract]

WorldAt(i) == IF i <= Len(entries) THEN past[i] ELSE Now

Differs(e, v, w) ==
  \/ /\ e.kind = "createObject"
     /\ e.account \notin v.exists
     /\ e.account \in stateObjectsDestruct
     /\ w.exists = v.exists \cup {e.account}
     /\ w.contracts = v.contracts
  \/ /\ e.kind = "createContract"
     /\ e.account \notin v.contracts
     /\ w.exists = v.exists
     /\ w.contracts = v.contracts \cup {e.account}

Shape ==
  /\ newContract \subseteq stateObjects
  /\ stateObjects \subseteq Addr
  /\ stateObjectsDestruct \subseteq Addr
  /\ entries \in Seq(Entry)
  /\ past \in Seq(View)
  /\ Len(past) = Len(entries)
  /\ \A i \in 1..Len(past) : past[i].contracts \subseteq past[i].exists

JournalInv ==
  /\ Shape
  /\ ~panicked
  /\ \A i \in 1..Len(entries) : Differs(entries[i], WorldAt(i), WorldAt(i + 1))

-----------------------------------------------------------------------------
LEMMA InitJournal == Init => JournalInv
<1> SUFFICES ASSUME Init PROVE JournalInv
  OBVIOUS
<1>1. /\ entries \in Seq(Entry) /\ 1..Len(entries) = {}
      /\ past \in Seq(View) /\ 1..Len(past) = {} /\ Len(past) = Len(entries)
  BY EmptySeq DEF Init
<1> QED BY <1>1 DEF Init, JournalInv, Shape

(* What an access may change is not seen from outside.                     *)
LEMMA TouchedUnseen ==
  ASSUME NEW a \in Addr, stateObjects' = Touched(a),
         UNCHANGED stateObjectsDestruct
  PROVE  Existing' = Existing /\ stateObjects \subseteq stateObjects'
BY DEF Existing, Found, Touched

(* Nothing that is journalled changes.                                     *)
LEMMA SameJournal ==
  ASSUME JournalInv, Existing' = Existing, newContract' \subseteq stateObjects',
         stateObjects' \subseteq Addr,
         UNCHANGED <<newContract, stateObjectsDestruct, entries, past, panicked>>
  PROVE  JournalInv'
<1>1. \A i \in 1..(Len(entries) + 1) : WorldAt(i)' = WorldAt(i)
  BY DEF WorldAt, Now
<1>2. Shape'
  BY DEF JournalInv, Shape
<1>3. Len(entries) \in Nat
  BY LenProperties DEF JournalInv, Shape
<1>4. ASSUME NEW i \in 1..Len(entries)
      PROVE  Differs(entries[i], WorldAt(i), WorldAt(i + 1))'
  <2>1. i \in 1..(Len(entries) + 1) /\ i + 1 \in 1..(Len(entries) + 1)
    BY <1>3
  <2>2. Differs(entries[i], WorldAt(i), WorldAt(i + 1))
    BY DEF JournalInv
  <2> QED BY <1>1, <2>1, <2>2 DEF Differs
<1> QED BY <1>2, <1>4 DEF JournalInv

(* A change with its entry.                                                *)
LEMMA Journalled ==
  ASSUME JournalInv, NEW kind \in {"createObject", "createContract"}, NEW a \in Addr,
         AppendEntry(kind, a), Differs([kind |-> kind, account |-> a], Now, Now'),
         newContract' \subseteq stateObjects', stateObjects' \subseteq Addr,
         UNCHANGED <<stateObjectsDestruct, panicked>>
  PROVE  JournalInv'
<1> DEFINE e == [kind |-> kind, account |-> a]
           n == Len(entries)
<1>1. entries' = Append(entries, e) /\ past' = Append(past, Now)
  BY DEF AppendEntry, Remember, Now
<1>2. n \in Nat /\ Len(past) = n /\ entries \in Seq(Entry) /\ past \in Seq(View)
  BY LenProperties DEF JournalInv, Shape
<1>3. e \in Entry /\ Now \in View /\ Now.contracts \subseteq Now.exists
  BY DEF Entry, View, Now, Existing, Found, JournalInv, Shape
<1>4. /\ entries' \in Seq(Entry) /\ Len(entries') = n + 1
      /\ \A i \in 1..n : entries'[i] = entries[i]
      /\ entries'[n + 1] = e
  BY <1>1, <1>2, <1>3, AppendProperties
<1>5. /\ past' \in Seq(View) /\ Len(past') = n + 1
      /\ \A i \in 1..n : past'[i] = past[i]
      /\ past'[n + 1] = Now
  BY <1>1, <1>2, <1>3, AppendProperties
<1>6. Shape'
  <2>1. ASSUME NEW i \in 1..Len(past')
        PROVE  past'[i].contracts \subseteq past'[i].exists
    <3>1. CASE i = n + 1
      BY <1>3, <1>5, <3>1
    <3>2. CASE i # n + 1
      <4>1. i \in 1..n
        BY <1>2, <1>5, <3>2
      <4> QED BY <1>2, <1>5, <4>1 DEF JournalInv, Shape
    <3> QED BY <3>1, <3>2
  <2> QED BY <1>4, <1>5, <2>1 DEF JournalInv, Shape
<1>7. \A i \in 1..(n + 1) : WorldAt(i)' = WorldAt(i)
  <2> SUFFICES ASSUME NEW i \in 1..(n + 1) PROVE WorldAt(i)' = WorldAt(i)
    OBVIOUS
  <2>1. CASE i = n + 1
    BY <1>2, <1>4, <1>5, <2>1 DEF WorldAt
  <2>2. CASE i # n + 1
    <3>1. i \in 1..n
      BY <1>2, <2>2
    <3> QED BY <1>2, <1>4, <1>5, <3>1 DEF WorldAt
  <2> QED BY <2>1, <2>2
<1>8. ASSUME NEW i \in 1..Len(entries')
      PROVE  Differs(entries[i], WorldAt(i), WorldAt(i + 1))'
  <2>1. CASE i = n + 1
    <3>1. WorldAt(i)' = Now
      BY <1>2, <1>4, <1>7, <2>1 DEF WorldAt
    <3>2. WorldAt(i + 1)' = Now'
      BY <1>2, <1>4, <2>1 DEF WorldAt
    <3> QED BY <1>4, <2>1, <3>1, <3>2 DEF Differs
  <2>2. CASE i # n + 1
    <3>1. i \in 1..n /\ i \in 1..(n + 1) /\ i + 1 \in 1..(n + 1)
      BY <1>2, <1>4, <2>2
    <3>2. Differs(entries[i], WorldAt(i), WorldAt(i + 1))
      BY <3>1 DEF JournalInv
    <3>3. /\ entries'[i] = entries[i] /\ WorldAt(i)' = WorldAt(i)
          /\ WorldAt(i + 1)' = WorldAt(i + 1)
      BY <1>4, <1>7, <3>1
    <3> QED BY <3>2, <3>3 DEF Differs
  <2> QED BY <2>1, <2>2
<1> QED BY <1>6, <1>8 DEF JournalInv

(* Taking back the last entry.                                             *)
LEMMA Undone ==
  ASSUME JournalInv, UndoLast
  PROVE  /\ Existing' = past[Len(past)].exists
         /\ newContract' = past[Len(past)].contracts
         /\ newContract' \subseteq stateObjects' /\ stateObjects' \subseteq Addr
         /\ ~panicked'
<1> DEFINE n == Len(entries)
           e == entries[n]
<1>1. n \in Nat /\ n > 0 /\ n \in 1..n /\ Len(past) = n
  BY LenProperties DEF JournalInv, Shape, UndoLast
<1>2. WorldAt(n) = past[n] /\ WorldAt(n + 1) = Now
  BY <1>1 DEF WorldAt
<1>3. Differs(e, past[n], Now)
  BY <1>1, <1>2 DEF JournalInv
<1>4. e \in Entry /\ e.account \in Addr
  <2>1. entries \in Seq(Entry)
    BY DEF JournalInv, Shape
  <2>2. e \in Entry
    BY <1>1, <2>1, ElementOfSeq
  <2> QED BY <2>2 DEF Entry
<1>5. past[n].contracts \subseteq past[n].exists
  BY <1>1 DEF JournalInv, Shape
<1>6. UNCHANGED stateObjectsDestruct
  BY DEF UndoLast
<1>7. CASE e.kind = "createObject"
  <2>1. RevertCreateObject(e.account)
    BY <1>7 DEF UndoLast
  <2>2. /\ e.account \notin past[n].exists
        /\ e.account \in stateObjectsDestruct
        /\ Existing = past[n].exists \cup {e.account}
        /\ newContract = past[n].contracts
    BY <1>3, <1>7 DEF Differs, Now
  <2> QED BY <1>1, <1>4, <1>5, <1>6, <2>1, <2>2
          DEF RevertCreateObject, Existing, Found, JournalInv, Shape
<1>8. CASE e.kind = "createContract"
  <2>1. RevertCreateContract(e.account)
    BY <1>8 DEF UndoLast
  <2>2. /\ e.account \notin past[n].contracts
        /\ Existing = past[n].exists
        /\ newContract = past[n].contracts \cup {e.account}
    BY <1>3, <1>8 DEF Differs, Now
  <2>3. Found(e.account)
    BY <2>2 DEF Found, JournalInv, Shape
  <2> QED BY <1>1, <1>4, <1>6, <2>1, <2>2, <2>3
          DEF RevertCreateContract, Touched, Existing, Found, JournalInv, Shape
<1> QED BY <1>4, <1>7, <1>8 DEF Entry

LEMMA UndoneJournal == ASSUME JournalInv, UndoLast PROVE JournalInv'
<1> DEFINE n == Len(entries)
<1>1. /\ n \in Nat /\ n > 0 /\ Len(past) = n
      /\ entries \in Seq(Entry) /\ past \in Seq(View)
  BY LenProperties DEF JournalInv, Shape, UndoLast
<1>2. entries' = SubSeq(entries, 1, n - 1) /\ past' = SubSeq(past, 1, n - 1)
  BY DEF UndoLast
<1>3. /\ entries' \in Seq(Entry) /\ Len(entries') = n - 1
      /\ \A i \in 1..(n - 1) : entries'[i] = entries[i]
  BY <1>1, <1>2, SubSeqProperties
<1>4. /\ past' \in Seq(View) /\ Len(past') = n - 1
      /\ \A i \in 1..(n - 1) : past'[i] = past[i]
  BY <1>1, <1>2, SubSeqProperties
<1>5. UNCHANGED stateObjectsDestruct
  BY DEF UndoLast
<1>6. Shape'
  <2>1. newContract' \subseteq stateObjects' /\ stateObjects' \subseteq Addr
    BY Undone
  <2>2. stateObjectsDestruct' \subseteq Addr
    BY <1>5 DEF JournalInv, Shape
  <2>3. \A i \in 1..(n - 1) : past'[i].contracts \subseteq past'[i].exists
    <3>1. \A i \in 1..n : past[i].contracts \subseteq past[i].exists
      BY <1>1 DEF JournalInv, Shape
    <3>2. \A i \in 1..(n - 1) : i \in 1..n
      BY <1>1
    <3> QED BY <1>4, <3>1, <3>2
  <2> HIDE DEF n
  <2> QED BY <1>3, <1>4, <2>1, <2>2, <2>3 DEF Shape
<1>7. past[n] = Now'
  <2>1. /\ n \in 1..n /\ Existing' = past[n].exists
        /\ newContract' = past[n].contracts
    BY <1>1, Undone
  <2>2. past[n] \in View
    BY <1>1, <2>1, ElementOfSeq
  <2> QED BY <2>1, <2>2 DEF View, Now
<1>8. \A i \in 1..n : WorldAt(i)' = WorldAt(i)
  <2> SUFFICES ASSUME NEW i \in 1..n PROVE WorldAt(i)' = WorldAt(i)
    OBVIOUS
  <2>1. CASE i = n
    BY <1>1, <1>3, <1>7, <2>1 DEF WorldAt
  <2>2. CASE i # n
    <3>1. i \in 1..(n - 1)
      BY <1>1, <2>2
    <3> QED BY <1>1, <1>3, <1>4, <3>1 DEF WorldAt
  <2> QED BY <2>1, <2>2
<1>9. ASSUME NEW i \in 1..Len(entries')
      PROVE  Differs(entries[i], WorldAt(i), WorldAt(i + 1))'
  <2>1. i \in 1..(n - 1) /\ i \in 1..n /\ i + 1 \in 1..n
    BY <1>1, <1>3
  <2>2. Differs(entries[i], WorldAt(i), WorldAt(i + 1))
    BY <2>1 DEF JournalInv
  <2>3. /\ entries'[i] = entries[i] /\ WorldAt(i)' = WorldAt(i)
        /\ WorldAt(i + 1)' = WorldAt(i + 1)
    BY <1>3, <1>8, <2>1
  <2> QED BY <1>5, <2>2, <2>3 DEF Differs
<1> QED BY <1>6, <1>9, Undone DEF JournalInv

-----------------------------------------------------------------------------
(* A creation is made on a destructed address, and adds to the world.      *)
LEMMA CreatedObject ==
  ASSUME JournalInv, NEW a \in Addr, CreateAccount(a)
  PROVE  /\ a \notin Existing /\ Existing' = Existing \cup {a}
         /\ newContract' = newContract /\ a \in stateObjectsDestruct
BY DEF CreateAccount, Exist, Existing, Found, JournalInv, Shape

LEMMA CreatedContract ==
  ASSUME JournalInv, NEW a \in Addr, CreateContract(a)
  PROVE  /\ Existing' = Existing /\ a \in Existing /\ a \in stateObjects'
         /\ stateObjects \subseteq stateObjects' /\ stateObjects' \subseteq Addr
         /\ UNCHANGED <<panicked, stateObjectsDestruct>>
         /\ \/ UNCHANGED <<newContract, entries, past>>
            \/ /\ a \notin newContract
               /\ newContract' = newContract \cup {a}
               /\ AppendEntry("createContract", a)
BY DEF CreateContract, Exist, Existing, Found, Touched, JournalInv, Shape

LEMMA EndedTx ==
  ASSUME JournalInv, NEW gone \in SUBSET Addr, EndTx(gone)
  PROVE  JournalInv' /\ Existing' = Existing \ gone
<1>1. /\ entries' \in Seq(Entry) /\ 1..Len(entries') = {}
      /\ past' \in Seq(View) /\ 1..Len(past') = {} /\ Len(past') = Len(entries')
  BY EmptySeq DEF EndTx
<1>2. Existing' = Existing \ gone
  BY DEF EndTx, Existing, Found
<1>3. Shape'
  BY <1>1 DEF EndTx, JournalInv, Shape
<1> QED BY <1>1, <1>2, <1>3 DEF EndTx, JournalInv

LEMMA StepJournal == JournalInv /\ [Next]_vars => JournalInv'
<1> SUFFICES ASSUME JournalInv, [Next]_vars PROVE JournalInv'
  OBVIOUS
<1>1. ASSUME NEW a \in Addr, Get(a) PROVE JournalInv'
  <2>1. stateObjects' = Touched(a)
        /\ UNCHANGED <<newContract, stateObjectsDestruct, entries, past, panicked>>
    BY <1>1 DEF Get
  <2>2. Touched(a) \subseteq Addr /\ newContract \subseteq stateObjects
    BY DEF Touched, JournalInv, Shape
  <2> QED BY <2>1, <2>2, TouchedUnseen, SameJournal
<1>2. ASSUME NEW a \in Addr, CreateAccount(a) PROVE JournalInv'
  <2>1. Differs([kind |-> "createObject", account |-> a], Now, Now')
    BY <1>2, CreatedObject DEF Differs, Now
  <2>2. /\ newContract' \subseteq stateObjects' /\ stateObjects' \subseteq Addr
        /\ AppendEntry("createObject", a)
        /\ UNCHANGED <<stateObjectsDestruct, panicked>>
    BY <1>2 DEF CreateAccount, JournalInv, Shape
  <2> QED BY <2>1, <2>2, Journalled
<1>3. ASSUME NEW a \in Addr, CreateContract(a) PROVE JournalInv'
  <2>1. newContract \subseteq stateObjects
    BY DEF JournalInv, Shape
  <2>2. CASE UNCHANGED <<newContract, entries, past>>
    BY <1>3, <2>1, <2>2, CreatedContract, SameJournal
  <2>3. CASE /\ a \notin newContract
             /\ newContract' = newContract \cup {a}
             /\ AppendEntry("createContract", a)
    <3>1. Differs([kind |-> "createContract", account |-> a], Now, Now')
      BY <1>3, <2>3, CreatedContract DEF Differs, Now
    <3> QED BY <1>3, <2>1, <2>3, <3>1, CreatedContract, Journalled
  <2> QED BY <1>3, <2>2, <2>3, CreatedContract
<1>4. CASE UNCHANGED vars
  <2>1. Existing' = Existing
    BY <1>4 DEF vars, Existing, Found
  <2>2. newContract' \subseteq stateObjects' /\ stateObjects' \subseteq Addr
        /\ UNCHANGED <<newContract, stateObjectsDestruct, entries, past, panicked>>
    BY <1>4 DEF vars, JournalInv, Shape
  <2> QED BY <2>1, <2>2, SameJournal
<1> QED BY <1>1, <1>2, <1>3, <1>4, UndoneJournal, EndedTx DEF Next

LEMMA JournalInvariant == Spec => []JournalInv
BY InitJournal, StepJournal, PTL DEF Spec

(* No nil object is dereferenced: EVM.create only makes contracts of       *)
(* addresses that exist, and undoing only meets objects that are live.     *)
THEOREM NeverNilAlways == Spec => []NeverNil
<1>1. JournalInv => NeverNil
  BY DEF JournalInv, NeverNil
<1> QED BY <1>1, JournalInvariant, PTL

-----------------------------------------------------------------------------
LEMMA StepWorld == JournalInv /\ [Next]_vars => [World!Next]_(World!world)
<1> SUFFICES ASSUME JournalInv, Next PROVE World!Next \/ UNCHANGED World!world
  BY DEF vars, World!world, Existing, Found
<1>1. ASSUME NEW a \in Addr, Get(a) PROVE UNCHANGED World!world
  BY <1>1, TouchedUnseen DEF Get, World!world
<1>2. ASSUME NEW a \in Addr, CreateAccount(a) PROVE World!Create(a)
  BY <1>2, CreatedObject
     DEF CreateAccount, AppendEntry, Remember, World!Create, World!Remembered
<1>3. ASSUME NEW a \in Addr, CreateContract(a)
      PROVE  World!MakeContract(a) \/ UNCHANGED World!world
  BY <1>3, CreatedContract
     DEF AppendEntry, Remember, World!MakeContract, World!Remembered, World!world
<1>4. ASSUME UndoLast PROVE World!Undo
  <2>1. past # <<>> /\ Len(past) = Len(entries)
    BY <1>4, EmptySeq DEF UndoLast, JournalInv, Shape
  <2> QED BY <1>4, <2>1, Undone DEF UndoLast, World!Undo
<1>5. ASSUME NEW gone \in SUBSET Addr, EndTx(gone) PROVE World!EndTx(gone)
  BY <1>5, EndedTx DEF EndTx, World!EndTx
<1> QED BY <1>1, <1>2, <1>3, <1>4, <1>5 DEF Next, World!Next

(* Lazy objects, resurrection and repeated creations cannot be told from a *)
(* plain map of accounts whose changes are undone exactly.                 *)
THEOREM DatabaseImplementsWorld == Spec => ImplementsWorld
<1>1. Init => World!Init
  BY DEF Init, World!Init, Existing, Found
<1> QED BY <1>1, JournalInvariant, StepWorld, PTL DEF Spec, ImplementsWorld, World!Spec

-----------------------------------------------------------------------------
(* The counts: a creation needs an address without an object, so an        *)
(* account is created once in a journal, and its object stays until then.  *)
Created(a) == [kind |-> "createObject", account |-> a]

DirtyInv ==
  /\ JournalInv
  /\ dirties \in [Addr -> Nat]
  /\ DirtiesAccurate
  /\ \A a \in Addr : CreationJournalled(a) => a \in stateObjects
  /\ \A a \in Addr : \A i, j \in 1..Len(entries) :
       entries[i] = Created(a) /\ entries[j] = Created(a) => i = j

LEMMA InitDirty == Init => DirtyInv
<1> SUFFICES ASSUME Init PROVE DirtyInv
  OBVIOUS
<1>1. 1..Len(entries) = {}
  BY EmptySeq DEF Init
<1> QED BY <1>1, InitJournal DEF Init, DirtyInv, DirtiesAccurate, CreationJournalled

(* Objects are added, and nothing else counts.                             *)
LEMMA SameDirty ==
  ASSUME DirtyInv, JournalInv', stateObjects \subseteq stateObjects',
         UNCHANGED <<entries, dirties>>
  PROVE  DirtyInv'
BY DEF DirtyInv, DirtiesAccurate, CreationJournalled

LEMMA AppendedEntry ==
  ASSUME JournalInv, NEW kind \in {"createObject", "createContract"}, NEW a \in Addr,
         AppendEntry(kind, a)
  PROVE  /\ Len(entries) \in Nat /\ Len(entries') = Len(entries) + 1
         /\ \A i \in 1..Len(entries) : entries'[i] = entries[i]
         /\ entries'[Len(entries) + 1] = [kind |-> kind, account |-> a]
         /\ 1..Len(entries') = 1..Len(entries) \cup {Len(entries) + 1}
<1>1. entries \in Seq(Entry) /\ [kind |-> kind, account |-> a] \in Entry
  BY DEF JournalInv, Shape, Entry
<1>2. entries' = Append(entries, [kind |-> kind, account |-> a])
  BY DEF AppendEntry
<1>3. Len(entries) \in Nat /\ Len(entries') = Len(entries) + 1
  BY <1>1, <1>2, LenProperties, AppendProperties
<1> QED BY <1>1, <1>2, <1>3, AppendProperties

LEMMA CreateAccountDirty ==
  ASSUME DirtyInv, JournalInv', NEW a \in Addr, CreateAccount(a)
  PROVE  DirtyInv'
<1> DEFINE n == Len(entries)
<1>1. AppendEntry("createObject", a) /\ a \notin stateObjects
      /\ stateObjects' = stateObjects \cup {a}
  BY DEF CreateAccount, Exist, Found
<1>2. /\ n \in Nat /\ Len(entries') = n + 1 /\ 1..Len(entries') = 1..n \cup {n + 1}
      /\ \A i \in 1..n : entries'[i] = entries[i]
      /\ entries'[n + 1] = Created(a)
  BY <1>1, AppendedEntry DEF DirtyInv, Created
<1>3. \A i \in 1..n : entries[i] # Created(a)
  BY <1>1 DEF DirtyInv, CreationJournalled, Created
<1>4. \A b \in Addr : CreationJournalled(b)' <=> CreationJournalled(b) \/ b = a
  <2> SUFFICES ASSUME NEW b \in Addr
               PROVE  CreationJournalled(b)' <=> CreationJournalled(b) \/ b = a
    OBVIOUS
  <2>1. entries'[n + 1] = Created(b) <=> b = a
    BY <1>2 DEF Created
  <2> QED BY <1>2, <2>1 DEF CreationJournalled, Created
<1>5. dirties' = [dirties EXCEPT ![a] = @ + 1]
  BY <1>1 DEF AppendEntry
<1>6. dirties[a] = 0 /\ ~CreationJournalled(a)
  BY <1>3 DEF DirtyInv, DirtiesAccurate, CreationJournalled, Created
<1>7. dirties' \in [Addr -> Nat] /\ DirtiesAccurate'
  BY <1>4, <1>5, <1>6 DEF DirtyInv, DirtiesAccurate
<1>8. \A b \in Addr : CreationJournalled(b)' => b \in stateObjects'
  BY <1>1, <1>4 DEF DirtyInv
<1>9. ASSUME NEW b \in Addr, NEW i \in 1..Len(entries'), NEW j \in 1..Len(entries'),
             entries'[i] = Created(b), entries'[j] = Created(b)
      PROVE  i = j
  <2>1. CASE b = a
    BY <1>2, <1>3, <1>9, <2>1
  <2>2. CASE b # a
    <3>1. entries'[n + 1] # Created(b)
      BY <1>2, <2>2 DEF Created
    <3> QED BY <1>2, <1>9, <3>1 DEF DirtyInv
  <2> QED BY <2>1, <2>2
<1> QED BY <1>7, <1>8, <1>9 DEF DirtyInv

LEMMA CreateContractDirty ==
  ASSUME DirtyInv, JournalInv', NEW a \in Addr, AppendEntry("createContract", a),
         stateObjects \subseteq stateObjects'
  PROVE  DirtyInv'
<1> DEFINE n == Len(entries)
<1>1. /\ n \in Nat /\ Len(entries') = n + 1 /\ 1..Len(entries') = 1..n \cup {n + 1}
      /\ \A i \in 1..n : entries'[i] = entries[i]
      /\ \A b \in Addr : entries'[n + 1] # Created(b)
  <2>1. entries'[n + 1] = [kind |-> "createContract", account |-> a]
    BY AppendedEntry DEF DirtyInv
  <2>2. \A b \in Addr : entries'[n + 1] # Created(b)
    BY <2>1 DEF Created
  <2> QED BY <2>2, AppendedEntry DEF DirtyInv
<1>2. \A b \in Addr : CreationJournalled(b)' <=> CreationJournalled(b)
  BY <1>1 DEF CreationJournalled, Created
<1>3. dirties' = dirties
  BY DEF AppendEntry
<1>4. dirties' \in [Addr -> Nat] /\ DirtiesAccurate'
  BY <1>2, <1>3 DEF DirtyInv, DirtiesAccurate
<1>5. \A b \in Addr : CreationJournalled(b)' => b \in stateObjects'
  BY <1>2 DEF DirtyInv
<1>6. \A b \in Addr : \A i, j \in 1..Len(entries') :
        entries'[i] = Created(b) /\ entries'[j] = Created(b) => i = j
  BY <1>1 DEF DirtyInv
<1> QED BY <1>4, <1>5, <1>6 DEF DirtyInv

LEMMA UndoDirty == ASSUME DirtyInv, JournalInv', UndoLast PROVE DirtyInv'
<1> DEFINE n == Len(entries)
           e == entries[n]
<1>1. n \in Nat /\ n > 0 /\ n \in 1..n /\ entries \in Seq(Entry)
  BY LenProperties DEF DirtyInv, JournalInv, Shape, UndoLast
<1>2. e \in Entry /\ e.account \in Addr
  <2>1. e \in Entry
    BY <1>1, ElementOfSeq
  <2> QED BY <2>1 DEF Entry
<1>3. entries' = SubSeq(entries, 1, n - 1)
  BY DEF UndoLast
<1>4. /\ Len(entries') = n - 1 /\ 1..n = 1..Len(entries') \cup {n}
      /\ n \notin 1..Len(entries')
      /\ \A i \in 1..Len(entries') : entries'[i] = entries[i]
  <2>1. /\ Len(entries') = n - 1
        /\ \A i \in 1..(n - 1) : entries'[i] = entries[i]
    <3>1. 1 \in Int /\ n - 1 \in Int /\ \A i \in 1..(n - 1) : entries[i] \in Entry
      BY <1>1
    <3>2. /\ Len(entries') = IF 1 <= n - 1 THEN n - 1 - 1 + 1 ELSE 0
          /\ \A i \in 1..(n - 1 - 1 + 1) : entries'[i] = entries[1 + i - 1]
      <4> HIDE DEF n
      <4> QED BY <1>3, <3>1, SubSeqProperties
    <3>3. n \in Nat /\ n > 0
      BY <1>1
    <3> HIDE DEF n
    <3>4. Len(entries') = n - 1
      BY <3>2, <3>3
    <3>5. ASSUME NEW i \in 1..(n - 1) PROVE entries'[i] = entries[i]
      <4>1. i \in 1..(n - 1 - 1 + 1) /\ 1 + i - 1 = i
        BY <3>3
      <4> QED BY <3>2, <4>1
    <3> QED BY <3>4, <3>5
  <2> HIDE DEF n
  <2> QED BY <1>1, <2>1
<1>5. \A b \in Addr : CreationJournalled(b)' <=> CreationJournalled(b) /\ e # Created(b)
  <2> HIDE DEF n
  <2> SUFFICES ASSUME NEW b \in Addr
               PROVE  CreationJournalled(b)' <=> CreationJournalled(b) /\ entries[n] # Created(b)
    OBVIOUS
  <2>1. CreationJournalled(b) <=> \E i \in 1..n : entries[i] = Created(b)
    BY DEF CreationJournalled, Created, n
  <2>2. CreationJournalled(b)' <=> \E i \in 1..Len(entries') : entries[i] = Created(b)
    BY <1>4 DEF CreationJournalled, Created
  <2>3. \A i, j \in 1..n : entries[i] = Created(b) /\ entries[j] = Created(b) => i = j
    BY DEF DirtyInv, n
  <2> QED BY <1>1, <1>4, <2>1, <2>2, <2>3
<1>6. \A b \in Addr : \A i, j \in 1..Len(entries') :
        entries'[i] = Created(b) /\ entries'[j] = Created(b) => i = j
  BY <1>4 DEF DirtyInv
<1>7. CASE e.kind = "createObject"
  <2>1. e = Created(e.account)
    BY <1>2, <1>7 DEF Entry, Created
  <2>2. \A b \in Addr : e = Created(b) <=> b = e.account
    BY <2>1 DEF Created
  <2>3. CreationJournalled(e.account)
    BY <1>1, <2>1 DEF CreationJournalled, Created
  <2>4. dirties' = [dirties EXCEPT ![e.account] = @ - 1]
        /\ stateObjects' = stateObjects \ {e.account}
    BY <1>7 DEF UndoLast, RevertCreateObject
  <2> HIDE DEF e
  <2>5. dirties' \in [Addr -> Nat] /\ DirtiesAccurate'
    BY <1>2, <1>5, <2>2, <2>3, <2>4 DEF DirtyInv, DirtiesAccurate
  <2>6. \A b \in Addr : CreationJournalled(b)' => b \in stateObjects'
    BY <1>5, <2>2, <2>4 DEF DirtyInv
  <2> QED BY <1>6, <2>5, <2>6 DEF DirtyInv
<1>8. CASE e.kind = "createContract"
  <2>1. \A b \in Addr : e # Created(b)
    BY <1>8 DEF Created
  <2>2. dirties' = dirties /\ stateObjects \subseteq stateObjects'
    BY <1>8 DEF UndoLast, RevertCreateContract, Touched
  <2> HIDE DEF e
  <2>3. dirties' \in [Addr -> Nat] /\ DirtiesAccurate'
    BY <1>5, <2>1, <2>2 DEF DirtyInv, DirtiesAccurate
  <2>4. \A b \in Addr : CreationJournalled(b)' => b \in stateObjects'
    BY <1>5, <2>2 DEF DirtyInv
  <2> QED BY <1>6, <2>3, <2>4 DEF DirtyInv
<1> QED BY <1>2, <1>7, <1>8 DEF Entry

LEMMA StepDirty == DirtyInv /\ [Next]_vars => DirtyInv'
<1> SUFFICES ASSUME DirtyInv, [Next]_vars PROVE DirtyInv'
  OBVIOUS
<1>0. JournalInv /\ JournalInv'
  BY StepJournal DEF DirtyInv
<1>1. ASSUME NEW a \in Addr, Get(a) PROVE DirtyInv'
  BY <1>0, <1>1, SameDirty DEF Get, Touched
<1>2. ASSUME NEW a \in Addr, CreateAccount(a) PROVE DirtyInv'
  BY <1>0, <1>2, CreateAccountDirty
<1>3. ASSUME NEW a \in Addr, CreateContract(a) PROVE DirtyInv'
  <2>1. CASE UNCHANGED <<newContract, entries, past>>
    <3>1. UNCHANGED dirties /\ stateObjects \subseteq stateObjects'
      BY <1>0, <1>3, <2>1, CreatedContract
         DEF CreateContract, AppendEntry, JournalInv, Shape, Touched, Exist
    <3> QED BY <1>0, <2>1, <3>1, SameDirty
  <2>2. CASE AppendEntry("createContract", a)
    BY <1>0, <1>3, <2>2, CreatedContract, CreateContractDirty
  <2> QED BY <1>0, <1>3, <2>1, <2>2, CreatedContract
<1>4. ASSUME NEW gone \in SUBSET Addr, EndTx(gone) PROVE DirtyInv'
  <2>1. 1..Len(entries') = {}
    BY <1>4, EmptySeq DEF EndTx
  <2>2. dirties' = [a \in Addr |-> 0]
    BY <1>4 DEF EndTx
  <2> QED BY <1>0, <2>1, <2>2 DEF DirtyInv, DirtiesAccurate, CreationJournalled
<1>5. CASE UNCHANGED vars
  BY <1>0, <1>5, SameDirty DEF vars
<1> QED BY <1>0, <1>1, <1>2, <1>3, <1>4, <1>5, UndoDirty DEF Next

LEMMA DirtyInvariant == Spec => []DirtyInv
BY InitDirty, StepDirty, PTL DEF Spec

(* Every component of the database keeps its type.                         *)
THEOREM StateDBTypeCorrect == Spec => []TypeOK
<1> DEFINE Flag == panicked \in BOOLEAN
<1>1. Init => Flag
  BY DEF Init
<1>2. Flag /\ [Next]_vars => Flag'
  BY DEF Next, vars, Get, CreateAccount, CreateContract, UndoLast, RevertCreateObject,
         RevertCreateContract, EndTx
<1>3. DirtyInv /\ Flag => TypeOK
  BY DEF DirtyInv, JournalInv, Shape, TypeOK
<1> QED BY <1>1, <1>2, <1>3, DirtyInvariant, PTL DEF Spec

(* The counts of the journal say exactly which accounts it created.        *)
THEOREM DirtiesAlwaysAccurate == Spec => []DirtiesAccurate
<1>1. DirtyInv => DirtiesAccurate
  BY DEF DirtyInv
<1> QED BY <1>1, DirtyInvariant, PTL
=============================================================================
