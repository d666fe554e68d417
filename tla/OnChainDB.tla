------------------------------ MODULE OnChainDB ------------------------------
(***************************************************************************)
(* onchain/onchain.go as core/state/state_object.go uses it: Code and      *)
(* CodeSize of an object ask the on-chain database for the code of an      *)
(* address, with a hash, and the database asks a block explorer unless its *)
(* cache has that hash.  Goroutines share one database; each has a state   *)
(* of its own, whose setError keeps the first failure.                     *)
(*                                                                         *)
(* A code travels as a text, the hexadecimal string the explorer sends,    *)
(* or the empty text that a reply without a "result" decodes to.  The hash *)
(* of an account is that of the bytes, the key of the cache is the hash of *)
(* the text; only for the empty text they agree.  The map has no lock: an  *)
(* access while another goroutine is writing may be seen by the runtime,   *)
(* which ends the process, or not, and then a read may miss and a write    *)
(* may be lost.                                                            *)
(***************************************************************************)
EXTENDS Functions

CONSTANTS
  Callers, Addresses, Texts, Hashes,
  TextHash,        \* hasher: text -> hash
  CodeHash,        \* data.CodeHash: address -> hash
  EmptyCodeHash,   \* types.EmptyCodeHash
  Questions,       \* what is asked, by an object or of the database itself
  Replies,         \* address -> texts the explorer may answer with
  None             \* a nil slice

ASSUME DatabaseAssumption ==
  /\ TextHash \in [Texts -> Hashes]
  /\ IsInjective(TextHash)
  /\ CodeHash \in [Addresses -> Hashes]
  /\ EmptyCodeHash \in Hashes
  /\ Questions \subseteq [address : Addresses, hash : Hashes, direct : BOOLEAN]
  /\ \A q \in Questions : ~q.direct => q.hash = CodeHash[q.address]
  /\ Replies \in [Addresses -> SUBSET Texts]
  /\ None \notin Texts

VARIABLES
  CodeCache,    \* the keys that are present, with their texts
  at,           \* where each goroutine is
  asked,        \* what it asked last
  data,         \* the text it fetched or was loaded with
  dbErr,        \* whether its state has an error
  crashed

(* History: the accounts of which an object has loaded a code, and whether *)
(* a goroutine's account was one when it asked.                            *)
VARIABLES loaded, known

vars == <<CodeCache, at, asked, data, dbErr, crashed, loaded, known>>

TypeOK ==
  /\ DOMAIN CodeCache \subseteq Hashes
  /\ \A h \in DOMAIN CodeCache : CodeCache[h] \in Texts
  /\ at \in [Callers -> {"idle", "reading", "fetching", "storing", "writing", "done"}]
  /\ asked \in [Callers -> [address : Addresses, hash : Hashes, direct : BOOLEAN]]
  /\ data \in [Callers -> Texts \cup {None}]
  /\ dbErr \in [Callers -> BOOLEAN]
  /\ crashed \in BOOLEAN
  /\ loaded \subseteq Addresses
  /\ known \in [Callers -> BOOLEAN]

Init ==
  /\ CodeCache = [h \in {} |-> None]
  /\ at = [c \in Callers |-> "idle"]
  /\ asked \in [Callers -> {[address |-> a, hash |-> EmptyCodeHash, direct |-> FALSE] :
                           a \in Addresses}]
  /\ data = [c \in Callers |-> None]
  /\ dbErr = [c \in Callers |-> FALSE]
  /\ crashed = FALSE
  /\ loaded = {}
  /\ known = [c \in Callers |-> FALSE]

-----------------------------------------------------------------------------
Go(c, place) == at' = [at EXCEPT ![c] = place]

Done(c, text) ==
  /\ Go(c, "done")
  /\ data' = [data EXCEPT ![c] = text]
  /\ known' = [known EXCEPT ![c] = FALSE]
  /\ loaded' = IF ~asked[c].direct /\ text # None /\ TextHash[text] # EmptyCodeHash
               THEN loaded \cup {asked[c].address} ELSE loaded

Races(c) == \E d \in Callers \ {c} : at[d] = "writing"

(* Code or CodeSize of an object that does not hold its code, which looks  *)
(* at the hash of no code itself, or a direct call of the database.        *)
Ask(c, q) ==
  /\ ~crashed
  /\ at[c] \in {"idle", "done"}
  /\ asked' = [asked EXCEPT ![c] = q]
  /\ data' = [data EXCEPT ![c] = None]
  /\ known' = [known EXCEPT ![c] = ~q.direct /\ q.address \in loaded]
  /\ Go(c, IF ~q.direct /\ q.hash = EmptyCodeHash THEN "done" ELSE "reading")
  /\ UNCHANGED <<CodeCache, dbErr, crashed, loaded>>

(* The lookup, and what a race makes of it.                                *)
ReadCache(c) ==
  LET hash == asked[c].hash IN
  /\ ~crashed
  /\ at[c] = "reading"
  /\ \/ /\ hash \in DOMAIN CodeCache
        /\ Done(c, CodeCache[hash])
        /\ UNCHANGED crashed
     \/ /\ hash \notin DOMAIN CodeCache \/ Races(c)
        /\ Go(c, "fetching")
        /\ UNCHANGED <<data, loaded, known, crashed>>
     \/ /\ Races(c)
        /\ crashed' = TRUE
        /\ UNCHANGED <<at, data, loaded, known>>
  /\ UNCHANGED <<CodeCache, asked, dbErr>>

(* The explorer answers with a text, maybe the empty one, or fails, or the *)
(* client gives up after its ten seconds.                                  *)
Receive(c, text) ==
  /\ ~crashed
  /\ at[c] = "fetching"
  /\ Go(c, "storing")
  /\ data' = [data EXCEPT ![c] = text]
  /\ UNCHANGED <<CodeCache, asked, dbErr, crashed, loaded, known>>

RetryMutant(c) ==
  /\ ~crashed
  /\ at[c] = "fetching"
  /\ Go(c, "reading")
  /\ UNCHANGED <<CodeCache, asked, data, dbErr, crashed, loaded, known>>

(* An object tells its state, a direct call only its caller.               *)
FetchFails(c) ==
  /\ ~crashed
  /\ at[c] = "fetching"
  /\ Done(c, None)
  /\ dbErr' = [dbErr EXCEPT ![c] = @ \/ ~asked[c].direct]
  /\ UNCHANGED <<CodeCache, asked, crashed>>

BeginWrite(c) ==
  /\ ~crashed
  /\ at[c] = "storing"
  /\ Go(c, "writing")
  /\ crashed' \in {FALSE, Races(c)}
  /\ UNCHANGED <<CodeCache, asked, data, dbErr, loaded, known>>

KeyMutant(c) == asked[c].hash

Key(c) == TextHash[data[c]]

(* The entry is there, or lost if another goroutine wrote meanwhile.       *)
EndWrite(c) ==
  /\ ~crashed
  /\ at[c] = "writing"
  /\ \/ CodeCache' = [h \in DOMAIN CodeCache \cup {Key(c)} |->
                        IF h = Key(c) THEN data[c] ELSE CodeCache[h]]
     \/ Races(c) /\ UNCHANGED CodeCache
  /\ Done(c, data[c])
  /\ UNCHANGED <<asked, dbErr, crashed>>

Proceed(c) ==
  \/ ReadCache(c)
  \/ \E text \in Replies[asked[c].address] : Receive(c, text)
  \/ FetchFails(c)
  \/ BeginWrite(c)
  \/ EndWrite(c)

Next == \E c \in Callers : Proceed(c) \/ \E q \in Questions : Ask(c, q)

(* A goroutine that can run does, and the client has a timeout; whether    *)
(* a code is ever asked for is up to the host.                             *)
Spec == Init /\ [][Next]_vars /\ \A c \in Callers : WF_vars(Proceed(c))

-----------------------------------------------------------------------------
(* An answer is a text of the explorer for the address that was asked, or  *)
(* one with the hash that was asked, whoever put it into the cache, under  *)
(* whatever hash they asked, and through lost writes and missed reads.     *)
(* The explorer's text need not be the code: a message and the empty text  *)
(* are cached and answered alike, but one that it has only for another     *)
(* account is never answered, unless it has the very hash that was asked.  *)
AnswerFits ==
  \A c \in Callers :
    at[c] = "done" /\ data[c] # None =>
      \/ data[c] \in Replies[asked[c].address]
      \/ TextHash[data[c]] = asked[c].hash

(* Every question is answered, with a code or an error, unless the race on *)
(* the map ends the process.                                               *)
LookupEnds ==
  \A c \in Callers : at[c] = "reading" ~> at[c] = "done" \/ crashed

(* CodeSize "uses a cache inside the database to avoid loading codes seen  *)
(* recently" (state_object.go:88): the code of an account that has been    *)
(* loaded is not loaded again.                                             *)
SeenCodesNotLoaded ==
  \A c \in Callers :
    at[c] = "fetching" => ~known[c]

(* Why an answer fits: each text lies under its own hash.                  *)
CacheInv ==
  /\ TypeOK
  /\ \A h \in DOMAIN CodeCache : TextHash[CodeCache[h]] = h
  /\ \A c \in Callers :
       at[c] \in {"storing", "writing"} => data[c] \in Replies[asked[c].address]
  /\ AnswerFits
=============================================================================
