--------------------------- MODULE OnChainDBProofs ---------------------------
(***************************************************************************)
(* Proofs about the on-chain database: for any accounts, hashes, explorer  *)
(* and number of goroutines, and whatever races on the map, what is        *)
(* answered fits the question.                                             *)
(* That every lookup ends needs fairness and is left to TLC.               *)
(***************************************************************************)
EXTENDS OnChainDB, TLAPS

LEMMA InitCache == Init => CacheInv
<1> SUFFICES ASSUME Init PROVE CacheInv
  OBVIOUS
<1>1. asked \in [Callers -> [address : Addresses, hash : Hashes, direct : BOOLEAN]]
  <2>1. EmptyCodeHash \in Hashes /\ FALSE \in BOOLEAN
    BY DatabaseAssumption
  <2>2. \A a \in Addresses, b \in BOOLEAN :
          [address |-> a, hash |-> EmptyCodeHash, direct |-> b]
            \in [address : Addresses, hash : Hashes, direct : BOOLEAN]
    BY ONLY <2>1
  <2>3. {[address |-> a, hash |-> EmptyCodeHash, direct |-> FALSE] : a \in Addresses}
          \subseteq [address : Addresses, hash : Hashes, direct : BOOLEAN]
    BY ONLY <2>1, <2>2, Zenon
  <2> QED BY <2>3 DEF Init
<1>2. DOMAIN CodeCache = {}
  BY DEF Init
<1>3. TypeOK
  BY <1>1, <1>2 DEF Init, TypeOK
<1> QED BY <1>2, <1>3 DEF Init, CacheInv, AnswerFits

(* Done, with a text the explorer has for the address or with one of the   *)
(* hash that was asked, and the cache in order.                            *)
LEMMA DoneKeeps ==
  ASSUME CacheInv, NEW c \in Callers, NEW text \in Texts, Done(c, text),
         asked' = asked, dbErr' = dbErr, crashed' = crashed,
         \/ text \in Replies[asked[c].address]
         \/ TextHash[text] = asked[c].hash,
         DOMAIN CodeCache' \subseteq Hashes,
         \A h \in DOMAIN CodeCache' :
           CodeCache'[h] \in Texts /\ TextHash[CodeCache'[h]] = h
  PROVE  CacheInv'
<1>1. /\ at' = [at EXCEPT ![c] = "done"] /\ data' = [data EXCEPT ![c] = text]
      /\ known' = [known EXCEPT ![c] = FALSE]
      /\ loaded' \in {loaded, loaded \cup {asked[c].address}}
  BY DEF Done, Go
<1>2. TypeOK'
  BY <1>1 DEF CacheInv, TypeOK
<1>3. \A d \in Callers \ {c} : at'[d] = at[d] /\ data'[d] = data[d]
  BY <1>1 DEF CacheInv, TypeOK
<1>4. at'[c] = "done" /\ data'[c] = text
  BY <1>1 DEF CacheInv, TypeOK
<1>5. AnswerFits'
  BY <1>3, <1>4 DEF CacheInv, AnswerFits
<1> QED BY <1>2, <1>3, <1>4, <1>5 DEF CacheInv

(* A goroutine goes on, and nothing but its place and the crash changes.   *)
LEMMA GoKeeps ==
  ASSUME CacheInv, NEW c \in Callers, NEW place, Go(c, place), crashed' \in BOOLEAN,
         UNCHANGED <<CodeCache, asked, data, dbErr, loaded, known>>,
         \/ place = "fetching"
         \/ place = "writing" /\ at[c] = "storing"
  PROVE  CacheInv'
<1>1. at' = [at EXCEPT ![c] = place]
  BY DEF Go
<1>2. TypeOK'
  BY <1>1 DEF CacheInv, TypeOK
<1>3. at'[c] = place /\ \A d \in Callers \ {c} : at'[d] = at[d]
  BY <1>1 DEF CacheInv, TypeOK
<1> QED BY <1>2, <1>3 DEF CacheInv, AnswerFits

LEMMA AskKeeps ==
  ASSUME CacheInv, NEW c \in Callers, NEW q \in Questions, Ask(c, q)
  PROVE  CacheInv'
<1>1. q \in [address : Addresses, hash : Hashes, direct : BOOLEAN]
  BY DatabaseAssumption
<1>2. /\ asked' = [asked EXCEPT ![c] = q] /\ data' = [data EXCEPT ![c] = None]
      /\ UNCHANGED <<CodeCache, dbErr, crashed, loaded>>
  BY DEF Ask
<1>3. \E place \in {"done", "reading"} : at' = [at EXCEPT ![c] = place]
  BY DEF Ask, Go
<1>4. known' \in [Callers -> BOOLEAN]
  <2>1. (~q.direct /\ q.address \in loaded) \in BOOLEAN
    OBVIOUS
  <2> QED BY <2>1 DEF Ask, CacheInv, TypeOK
<1>5. TypeOK'
  BY <1>1, <1>2, <1>3, <1>4 DEF CacheInv, TypeOK
<1>6. \A d \in Callers \ {c} : at'[d] = at[d] /\ data'[d] = data[d] /\ asked'[d] = asked[d]
  BY <1>2, <1>3 DEF CacheInv, TypeOK
<1>7. data'[c] = None /\ asked'[c] = q /\ at'[c] \in {"done", "reading"}
  BY <1>2, <1>3 DEF CacheInv, TypeOK
<1> QED BY <1>2, <1>5, <1>6, <1>7 DEF CacheInv, AnswerFits

LEMMA ReadKeeps ==
  ASSUME CacheInv, NEW c \in Callers, ReadCache(c)
  PROVE  CacheInv'
<1> DEFINE hash == asked[c].hash
<1>1. CASE hash \in DOMAIN CodeCache /\ Done(c, CodeCache[hash]) /\ UNCHANGED crashed
  <2>1. CodeCache[hash] \in Texts /\ TextHash[CodeCache[hash]] = hash
    BY <1>1 DEF CacheInv, TypeOK
  <2>2. asked' = asked /\ dbErr' = dbErr /\ CodeCache' = CodeCache
    BY DEF ReadCache
  <2> QED BY <1>1, <2>1, <2>2, DoneKeeps DEF CacheInv, TypeOK
<1>2. CASE Go(c, "fetching") /\ UNCHANGED <<data, loaded, known, crashed>>
  BY <1>2, GoKeeps DEF ReadCache, CacheInv, TypeOK
<1>3. CASE crashed' = TRUE /\ UNCHANGED <<at, data, loaded, known>>
  BY <1>3 DEF ReadCache, CacheInv, TypeOK, AnswerFits
<1> QED BY <1>1, <1>2, <1>3 DEF ReadCache

LEMMA ReceiveKeeps ==
  ASSUME CacheInv, NEW c \in Callers, NEW text \in Replies[asked[c].address],
         Receive(c, text)
  PROVE  CacheInv'
<1>1. text \in Texts
  BY DatabaseAssumption DEF CacheInv, TypeOK
<1>2. /\ at' = [at EXCEPT ![c] = "storing"] /\ data' = [data EXCEPT ![c] = text]
      /\ UNCHANGED <<CodeCache, asked, dbErr, crashed, loaded, known>>
  BY DEF Receive, Go
<1>3. TypeOK'
  BY <1>1, <1>2 DEF CacheInv, TypeOK
<1>4. \A d \in Callers \ {c} : at'[d] = at[d] /\ data'[d] = data[d]
  BY <1>2 DEF CacheInv, TypeOK
<1>5. at'[c] = "storing" /\ data'[c] = text
  BY <1>2 DEF CacheInv, TypeOK
<1> QED BY <1>2, <1>3, <1>4, <1>5 DEF CacheInv, AnswerFits

(* A failed fetch answers nothing.                                         *)
LEMMA FailureKeeps ==
  ASSUME CacheInv, NEW c \in Callers, FetchFails(c)
  PROVE  CacheInv'
<1>1. /\ at' = [at EXCEPT ![c] = "done"] /\ data' = [data EXCEPT ![c] = None]
      /\ known' = [known EXCEPT ![c] = FALSE] /\ dbErr' \in [Callers -> BOOLEAN]
      /\ UNCHANGED <<CodeCache, asked, crashed, loaded>>
  <2>1. (dbErr[c] \/ ~asked[c].direct) \in BOOLEAN
    OBVIOUS
  <2> QED BY <2>1 DEF FetchFails, Done, Go, CacheInv, TypeOK
<1>2. TypeOK'
  BY <1>1 DEF CacheInv, TypeOK
<1>3. \A d \in Callers \ {c} : at'[d] = at[d] /\ data'[d] = data[d]
  BY <1>1 DEF CacheInv, TypeOK
<1>4. at'[c] = "done" /\ data'[c] = None
  BY <1>1 DEF CacheInv, TypeOK
<1> QED BY <1>1, <1>2, <1>3, <1>4 DEF CacheInv, AnswerFits

(* What is written lies under its own hash, whatever hash was asked.       *)
LEMMA WriteKeeps ==
  ASSUME CacheInv, NEW c \in Callers, EndWrite(c)
  PROVE  CacheInv'
<1>1. data[c] \in Replies[asked[c].address] /\ data[c] \in Texts /\ Key(c) \in Hashes
  <2>1. data[c] \in Replies[asked[c].address] /\ asked[c].address \in Addresses
    BY DEF EndWrite, CacheInv, TypeOK
  <2> QED BY <2>1, DatabaseAssumption DEF Key
<1>2. CASE CodeCache' = [h \in DOMAIN CodeCache \cup {Key(c)} |->
                           IF h = Key(c) THEN data[c] ELSE CodeCache[h]]
  <2>1. DOMAIN CodeCache' \subseteq Hashes
    BY <1>1, <1>2 DEF CacheInv, TypeOK
  <2>2. \A h \in DOMAIN CodeCache' :
          CodeCache'[h] \in Texts /\ TextHash[CodeCache'[h]] = h
    BY <1>1, <1>2 DEF CacheInv, TypeOK, Key
  <2> QED BY <1>1, <2>1, <2>2, DoneKeeps DEF EndWrite
<1>3. CASE UNCHANGED CodeCache
  <2>1. /\ DOMAIN CodeCache' \subseteq Hashes
        /\ \A h \in DOMAIN CodeCache' :
             CodeCache'[h] \in Texts /\ TextHash[CodeCache'[h]] = h
    BY <1>3 DEF CacheInv, TypeOK
  <2> QED BY <1>1, <2>1, DoneKeeps DEF EndWrite
<1> QED BY <1>2, <1>3 DEF EndWrite

LEMMA StepCache == CacheInv /\ [Next]_vars => CacheInv'
<1> SUFFICES ASSUME CacheInv, [Next]_vars PROVE CacheInv'
  OBVIOUS
<1>1. ASSUME NEW c \in Callers, NEW q \in Questions, Ask(c, q) PROVE CacheInv'
  BY <1>1, AskKeeps
<1>2. ASSUME NEW c \in Callers, ReadCache(c) PROVE CacheInv'
  BY <1>2, ReadKeeps
<1>3. ASSUME NEW c \in Callers, NEW text \in Replies[asked[c].address],
             Receive(c, text)
      PROVE  CacheInv'
  BY <1>3, ReceiveKeeps
<1>4. ASSUME NEW c \in Callers, FetchFails(c) PROVE CacheInv'
  BY <1>4, FailureKeeps
<1>5. ASSUME NEW c \in Callers, BeginWrite(c) PROVE CacheInv'
  <2>1. crashed' \in BOOLEAN
    BY <1>5 DEF BeginWrite, Races
  <2> QED BY <1>5, <2>1, GoKeeps DEF BeginWrite
<1>6. ASSUME NEW c \in Callers, EndWrite(c) PROVE CacheInv'
  BY <1>6, WriteKeeps
<1>7. CASE UNCHANGED vars
  BY <1>7 DEF vars, CacheInv, TypeOK, AnswerFits
<1> QED BY <1>1, <1>2, <1>3, <1>4, <1>5, <1>6, <1>7 DEF Next, Proceed

LEMMA CacheInvariant == Spec => []CacheInv
BY InitCache, StepCache, PTL DEF Spec

-----------------------------------------------------------------------------
(* A text that is answered is one the explorer has for the address, or has *)
(* the hash that was asked.                                                *)
THEOREM AnswerAlwaysFits == Spec => []AnswerFits
<1>1. CacheInv => AnswerFits
  BY DEF CacheInv
<1> QED BY <1>1, CacheInvariant, PTL
=============================================================================
