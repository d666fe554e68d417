------------------------------- MODULE StateDB -------------------------------
(***************************************************************************)
(* core/state/statedb.go, the objects of core/state/state_object.go and    *)
(* core/state/journal.go.  The database holds live objects, made on the    *)
(* first access to an address; of an object only its newContract flag ever *)
(* changes in the repository.  Creations are journalled.                   *)
(*                                                                         *)
(* The callers are EVM.create (Exist, CreateAccount, CreateContract) and   *)
(* the getters.  Two steps belong to the host, which the comments of       *)
(* StateDB describe: undoing journal entries, the last one first (journal  *)
(* is "the backbone of Snapshot and RevertToSnapshot", both stubs here),   *)
(* and the end of a transaction, when stateObjectsDestruct is filled.      *)
(***************************************************************************)
EXTENDS Integers, Sequences

CONSTANT Addr

VARIABLES
  stateObjects,          \* addresses that have a live object
  newContract,           \* those whose object has the flag set
  stateObjectsDestruct,  \* addresses destructed in this block
  entries,               \* journal.entries
  dirties,               \* journal.dirties
  panicked

(* History: the world before each journal entry.                           *)
VARIABLE past

vars == <<stateObjects, newContract, stateObjectsDestruct, entries, dirties,
          panicked, past>>

Entry == [kind : {"createObject", "createContract"}, account : Addr]
View == [exists : SUBSET Addr, contracts : SUBSET Addr]

TypeOK ==
  /\ stateObjects \subseteq Addr
  /\ newContract \subseteq stateObjects
  /\ stateObjectsDestruct \subseteq Addr
  /\ entries \in Seq(Entry)
  /\ dirties \in [Addr -> Nat]
  /\ panicked \in BOOLEAN
  /\ past \in Seq(View)

Init ==
  /\ stateObjects = {}
  /\ newContract = {}
  /\ stateObjectsDestruct \in SUBSET Addr
  /\ entries = <<>>
  /\ dirties = [a \in Addr |-> 0]
  /\ panicked = FALSE
  /\ past = <<>>

-----------------------------------------------------------------------------
(* getStateObject: nil for a destructed address without a live object,     *)
(* else the live object, made empty if there was none.                     *)
Found(a) == a \in stateObjects \/ a \notin stateObjectsDestruct

Touched(a) == IF Found(a) THEN stateObjects \cup {a} ELSE stateObjects

(* Exist, taken as its comment has it: true for destructed accounts too.   *)
ExistMutant(a) == TRUE

Exist(a) == Found(a)

Existing == {a \in Addr : Found(a)}

Remember == past' = Append(past, [exists |-> Existing, contracts |-> newContract])

(* An append that forgets the count of the account.                        *)
AppendEntryUncounted(kind, a) ==
  /\ entries' = Append(entries, [kind |-> kind, account |-> a])
  /\ UNCHANGED dirties
  /\ Remember

(* A createContractChange that reports its account as dirtied.             *)
AppendEntryMutant(kind, a) ==
  /\ entries' = Append(entries, [kind |-> kind, account |-> a])
  /\ dirties' = [dirties EXCEPT ![a] = @ + 1]
  /\ Remember

AppendEntry(kind, a) ==
  /\ entries' = Append(entries, [kind |-> kind, account |-> a])
  /\ dirties' = IF kind = "createObject" THEN [dirties EXCEPT ![a] = @ + 1] ELSE dirties
  /\ Remember

-----------------------------------------------------------------------------
(* Any getter, and Exist.                                                  *)
Get(a) ==
  /\ ~panicked
  /\ stateObjects' = Touched(a)
  /\ UNCHANGED <<newContract, stateObjectsDestruct, entries, dirties, panicked, past>>

(* create calls it only for an address that does not exist.  An object     *)
(* that was there would be overwritten by a new one.                       *)
CreateAccount(a) ==
  /\ ~panicked
  /\ ~Exist(a)
  /\ AppendEntry("createObject", a)
  /\ stateObjects' = stateObjects \cup {a}
  /\ newContract' = newContract \ {a}
  /\ UNCHANGED <<stateObjectsDestruct, panicked>>

(* The flag and its entry, unless set already; a nil object panics.        *)
CreateContractMutant(a) ==
  /\ ~panicked
  /\ Exist(a)
  /\ stateObjects' = Touched(a)
  /\ newContract' = newContract \cup {a}
  /\ AppendEntry("createContract", a)
  /\ UNCHANGED <<stateObjectsDestruct, panicked>>

CreateContract(a) ==
  /\ ~panicked
  /\ Exist(a)
  /\ stateObjects' = Touched(a)
  /\ IF ~Found(a)
     THEN panicked' = TRUE /\ UNCHANGED <<newContract, entries, dirties, past>>
     ELSE IF a \in newContract
     THEN UNCHANGED <<newContract, entries, dirties, panicked, past>>
     ELSE /\ newContract' = newContract \cup {a}
          /\ AppendEntry("createContract", a)
          /\ UNCHANGED panicked
  /\ UNCHANGED stateObjectsDestruct

-----------------------------------------------------------------------------
(* revert of the two kinds of entry.                                       *)
RevertCreateObject(a) ==
  /\ stateObjects' = stateObjects \ {a}
  /\ newContract' = newContract \ {a}
  /\ UNCHANGED panicked

RevertCreateContract(a) ==
  /\ stateObjects' = Touched(a)
  /\ newContract' = newContract \ {a}
  /\ panicked' = ~Found(a)

UndoLast ==
  LET n == Len(entries)
      e == entries[n]
  IN  /\ ~panicked
      /\ n > 0
      /\ \/ e.kind = "createObject" /\ RevertCreateObject(e.account)
         \/ e.kind = "createContract" /\ RevertCreateContract(e.account)
      /\ entries' = SubSeq(entries, 1, n - 1)
      /\ dirties' = IF e.kind = "createObject"
                    THEN [dirties EXCEPT ![e.account] = @ - 1] ELSE dirties
      /\ past' = SubSeq(past, 1, n - 1)
      /\ UNCHANGED stateObjectsDestruct

EndTx(gone) ==
  /\ ~panicked
  /\ stateObjects' = stateObjects \ gone
  /\ stateObjectsDestruct' = stateObjectsDestruct \cup gone
  /\ newContract' = {}
  /\ entries' = <<>>
  /\ dirties' = [a \in Addr |-> 0]
  /\ past' = <<>>
  /\ UNCHANGED panicked

Next ==
  \/ \E a \in Addr : Get(a)
  \/ \E a \in Addr : CreateAccount(a)
  \/ \E a \in Addr : CreateContract(a)
  \/ UndoLast
  \/ \E gone \in SUBSET Addr : EndTx(gone)

Spec == Init /\ [][Next]_vars

-----------------------------------------------------------------------------
(* Lazily made objects, resurrected addresses and repeated creations are   *)
(* invisible: the database behaves like WorldState, in particular undoing  *)
(* the last entry brings back the world before it, at any depth.           *)
World == INSTANCE WorldState WITH exists <- Existing, contracts <- newContract

ImplementsWorld == World!Spec

(* create never reaches the nil object of a destructed address, and no     *)
(* entry is undone on one.                                                 *)
NeverNil == ~panicked

(* dirties tells the accounts whose creation is still journalled from the  *)
(* others, however often the flag was set and creations were undone.       *)
CreationJournalled(a) ==
  \E i \in 1..Len(entries) : entries[i] = [kind |-> "createObject", account |-> a]

DirtiesAccurate ==
  \A a \in Addr : dirties[a] = IF CreationJournalled(a) THEN 1 ELSE 0
=============================================================================
