------------------------- MODULE SharedTablesProofs -------------------------
(***************************************************************************)
(* The shared tables stay right for any number of concurrent reviews: the  *)
(* token cache keeps its promise (for any lifetimes with                   *)
(* RowLife + Margin <= TokenLife), and the transactions that replace the   *)
(* call graph leave neither superseded rows nor references without their   *)
(* symbols, whichever of them overlap, wait for each other or abort.       *)
(***************************************************************************)
EXTENDS SharedTables, TLAPS

-----------------------------------------------------------------------------
(* The token cache. *)

(* What a call has in hand is as old as it should be: GitHub issued the    *)
(* token after the transaction began.                                      *)
IssuedAfterBegin ==
    \A c \in Callers :
      /\ began[c] <= now
      /\ at[c] = "upsert" => token[c] # None /\ began[c] <= token[c]

(* The row expires before its token does, by a margin: its expiry counts   *)
(* from the beginning of the transaction that stored it.                   *)
RowExpiresFirst == row # None => row.expires <= row.token + RowLife

(* A call that was served from the cache has returned and keeps its token. *)
ServedIsOver ==
    \A c \in Callers : handed[c] # None => at[c] = "have" /\ token[c] # None

IInv ==
    /\ TypeOK
    /\ IssuedAfterBegin
    /\ RowExpiresFirst
    /\ ServedIsOver
    /\ CachedTokenLasts

USE TimesAssumption, LifeAssumption, NoTokenAssumption, EarlierAssumption

(* The inductive invariant holds at the start. *)
LEMMA InitIInv == Init => IInv
  BY DEF Init, IInv, TypeOK, IssuedAfterBegin, RowExpiresFirst, ServedIsOver,
     CachedTokenLasts

(* Reading the cached row preserves the invariant. *)
LEMMA SelectPreserves ==
  ASSUME IInv, NEW c \in Callers, Select(c)
  PROVE  IInv'
<1>. USE DEF IInv, Select
<1>1. TypeOK'
  BY DEF TypeOK, Cached
<1>2. IssuedAfterBegin'
  BY DEF TypeOK, IssuedAfterBegin
<1>3. RowExpiresFirst'
  BY DEF RowExpiresFirst
<1>4. ServedIsOver'
  BY DEF TypeOK, ServedIsOver, Cached
<1>5. CachedTokenLasts'
  <2>. SUFFICES ASSUME NEW d \in Callers, handed'[d] # None
                PROVE  token'[d] + TokenLife > handed'[d] + 2 * Margin
    BY DEF CachedTokenLasts
  <2>1. CASE d = c /\ Cached
    <3>1. /\ handed'[d] = now /\ token'[d] = row.token
          /\ row.token \in Nat /\ row.expires \in Nat /\ now \in Nat
      BY <2>1 DEF TypeOK, Cached
    <3>2. row.expires > now + Margin /\ row.expires <= row.token + RowLife
      BY <2>1 DEF Cached, RowExpiresFirst
    <3>. QED
      BY <3>1, <3>2
  <2>2. CASE ~(d = c /\ Cached)
    <3>1. handed'[d] = handed[d] /\ token'[d] = token[d]
      BY <2>2 DEF TypeOK
    <3>. QED
      BY <3>1 DEF CachedTokenLasts
  <2>. QED
    BY <2>1, <2>2
<1>. QED
  BY <1>1, <1>2, <1>3, <1>4, <1>5

(* Asking GitHub for a token preserves the invariant. *)
LEMMA PostPreserves ==
  ASSUME IInv, NEW c \in Callers, Post(c)
  PROVE  IInv'
<1>. USE DEF IInv, Post
<1>1. TypeOK'
  BY DEF TypeOK
<1>2. IssuedAfterBegin'
  BY DEF TypeOK, IssuedAfterBegin
<1>3. RowExpiresFirst'
  BY DEF RowExpiresFirst
<1>4. ServedIsOver'
  BY DEF TypeOK, ServedIsOver
<1>5. CachedTokenLasts'
  BY DEF TypeOK, CachedTokenLasts, ServedIsOver
<1>. QED
  BY <1>1, <1>2, <1>3, <1>4, <1>5

(* Writing the row preserves the invariant. *)
LEMMA UpsertPreserves ==
  ASSUME IInv, NEW c \in Callers, Upsert(c)
  PROVE  IInv'
<1>. USE DEF IInv, Upsert, ExpiryFromBegin
<1>1. /\ token[c] \in 0..MaxTime /\ began[c] \in 0..MaxTime
      /\ began[c] <= token[c]
  BY DEF TypeOK, IssuedAfterBegin
<1>2. TypeOK'
  <2>1. row' \in [token : 0..MaxTime, expires : 0..(MaxTime + RowLife)]
    BY <1>1
  <2>. QED
    BY <2>1 DEF TypeOK
<1>3. IssuedAfterBegin'
  BY DEF TypeOK, IssuedAfterBegin
<1>4. RowExpiresFirst'
  BY <1>1 DEF RowExpiresFirst
<1>5. ServedIsOver'
  BY DEF TypeOK, ServedIsOver
<1>6. CachedTokenLasts'
  BY DEF CachedTokenLasts
<1>. QED
  BY <1>2, <1>3, <1>4, <1>5, <1>6

(* Every step preserves the inductive invariant. *)
LEMMA NextPreserves == IInv /\ [Next]_tokenVars => IInv'
<1>. SUFFICES ASSUME IInv, [Next]_tokenVars
              PROVE  IInv'
  OBVIOUS
<1>1. CASE Tick
  BY <1>1 DEF Tick, IInv, TypeOK, IssuedAfterBegin, RowExpiresFirst,
     ServedIsOver, CachedTokenLasts
<1>2. CASE UNCHANGED tokenVars
  BY <1>2 DEF tokenVars, IInv, TypeOK, IssuedAfterBegin, RowExpiresFirst,
     ServedIsOver, CachedTokenLasts
<1>3. ASSUME NEW c \in Callers, GetToken(c)
      PROVE  IInv'
  BY <1>3, SelectPreserves, PostPreserves, UpsertPreserves DEF GetToken
<1>. QED
  BY <1>1, <1>2, <1>3 DEF Next

(* The inductive invariant holds in every reachable state. *)
THEOREM Invariance == Spec => []IInv
  BY InitIInv, NextPreserves, PTL DEF Spec

(* A token served from the cache lives for two margins more, for any       *)
(* number of callers that stall and overwrite each other's rows.           *)
THEOREM TokensLast == Spec => []CachedTokenLasts
<1>1. IInv => CachedTokenLasts
  BY DEF IInv
<1>. QED
  BY <1>1, Invariance, PTL

-----------------------------------------------------------------------------
(* The call graph. *)

(* The writers whose rows other transactions may have seen. *)
Visible == {Earlier} \cup {x \in Callers : ended[x] = "committed"}

(* The DELETE of table t by x has ended, in a transaction that stands. *)
Done(x, t) ==
    /\ ended[x] # "aborted"
    /\ \/ begun[x] = 2 /\ (t = "symbols" \/ x \notin waiting)
       \/ begun[x] = 1 /\ t = "symbols" /\ x \notin waiting

(* A transaction waits in one of its DELETEs only, and commits after both. *)
StagesInOrder ==
    \A x \in Callers :
      /\ x \in waiting => ended[x] = "open" /\ begun[x] # 0
      /\ ended[x] = "committed" => begun[x] = 2 /\ x \notin waiting
      /\ begun[x] = 0 => snapshot[x]["symbols"] = {}
      /\ begun[x] # 2 => snapshot[x]["references"] = {}

(* Nobody sees rows before their COMMIT, and no transaction sees its own.  *)
RowsCommitted ==
    \A t \in G!Tables :
      /\ G!Rows(t) \subseteq Visible
      /\ \A x \in Callers : /\ snapshot[x][t] \subseteq Visible \ {x}
                            /\ deleted[x][t] \subseteq Visible

(* What a DELETE saw is deleted by it or by somebody else, when it ends. *)
SeenIsDeleted ==
    \A x \in Callers, t \in G!Tables :
      Done(x, t) => snapshot[x][t] \cap G!Rows(t) \subseteq deleted[x][t]

(* The second DELETE sees the references of all symbols that the first one *)
(* has deleted, as far as they still exist.                                *)
ReferencesFollow ==
    \A x \in Callers :
      begun[x] = 2 =>
        deleted[x]["symbols"] \cap references \subseteq snapshot[x]["references"]

GraphInv ==
    /\ G!TypeOK
    /\ StagesInOrder
    /\ RowsCommitted
    /\ SeenIsDeleted
    /\ ReferencesFollow
    /\ NoSupersededRows
    /\ ReferencesHaveSymbols

-----------------------------------------------------------------------------
(* The invariant of the graph tables holds at the start. *)
LEMMA GraphInitInv == G!Init => GraphInv
  BY DEF G!Init, GraphInv, G!TypeOK, G!Writers, G!Tables, G!Rows, Visible, Done,
     StagesInOrder, RowsCommitted, SeenIsDeleted, ReferencesFollow,
     NoSupersededRows, G!NoSupersededRows, ReferencesHaveSymbols,
     G!ReferencesHaveSymbols

(* A DELETE begins: what it sees is what is committed. *)
LEMMA BeginPreserves ==
  ASSUME GraphInv, NEW x \in Callers, G!BeginDelete(x)
  PROVE  GraphInv'
<1>. USE DEF GraphInv, G!BeginDelete, G!DeleteOrder, G!Tables
<1>. DEFINE t == IF begun[x] = 0 THEN "symbols" ELSE "references"
<1>1. /\ begun[x] \in {0, 1} /\ ended[x] = "open" /\ x \notin waiting
      /\ t = G!DeleteOrder[begun[x] + 1]
  BY DEF G!TypeOK
<1>2. /\ snapshot' = [snapshot EXCEPT ![x][t] = G!Rows(t)]
      /\ begun' = [begun EXCEPT ![x] = begun[x] + 1]
      /\ waiting' = waiting \cup {x}
      /\ UNCHANGED <<symbols, references, ended, deleted, wrote>>
  BY <1>1
<1>. HIDE DEF G!BeginDelete, t
<1>3. G!Rows(t) \subseteq G!Writers /\ t \in G!Tables
  BY DEF G!TypeOK, G!Rows, t
<1>4. G!TypeOK'
  BY <1>1, <1>2, <1>3 DEF G!TypeOK, G!Writers
<1>5. /\ \A y \in Callers, u \in G!Tables :
           snapshot'[y][u] = IF y = x /\ u = t THEN G!Rows(t) ELSE snapshot[y][u]
      /\ \A y \in Callers : begun'[y] = IF y = x THEN begun[x] + 1 ELSE begun[y]
      /\ \A u : G!Rows(u)' = G!Rows(u)
      /\ Visible' = Visible
  BY <1>2, <1>3 DEF G!TypeOK, G!Rows, Visible
<1>6. StagesInOrder'
  BY <1>1, <1>2, <1>5 DEF StagesInOrder, t
<1>7. RowsCommitted'
  BY <1>1, <1>2, <1>3, <1>5 DEF RowsCommitted, Visible
<1>8. SeenIsDeleted'
  BY <1>1, <1>2, <1>3, <1>5 DEF SeenIsDeleted, Done, t
<1>9. ReferencesFollow'
  BY <1>1, <1>2, <1>5 DEF ReferencesFollow, G!Rows, t
<1>10. NoSupersededRows'
  BY <1>1, <1>2, <1>5 DEF NoSupersededRows, G!NoSupersededRows
<1>11. ReferencesHaveSymbols'
  BY <1>2 DEF ReferencesHaveSymbols, G!ReferencesHaveSymbols
<1>. QED
  BY <1>4, <1>6, <1>7, <1>8, <1>9, <1>10, <1>11

(* A DELETE ends: it deletes what it saw and nobody else has deleted. *)
LEMMA EndPreserves ==
  ASSUME GraphInv, NEW x \in Callers, G!EndDelete(x)
  PROVE  GraphInv'
<1>. USE DEF GraphInv, G!EndDelete, G!DeleteOrder, G!Tables
<1>. DEFINE t == IF begun[x] = 1 THEN "symbols" ELSE "references"
<1>1. /\ begun[x] \in {1, 2} /\ ended[x] = "open" /\ x \in waiting
      /\ t = G!DeleteOrder[begun[x]]
  BY DEF G!TypeOK, StagesInOrder
<1>2. /\ deleted' = [deleted EXCEPT ![x][t] = snapshot[x][t] \cap G!Rows(t)]
      /\ waiting' = waiting \ {x}
      /\ UNCHANGED <<symbols, references, begun, ended, snapshot, wrote>>
  BY <1>1
<1>. HIDE DEF G!EndDelete, t
<1>3. G!Rows(t) \subseteq G!Writers /\ t \in G!Tables
  BY DEF G!TypeOK, G!Rows, t
<1>4. G!TypeOK'
  BY <1>1, <1>2, <1>3 DEF G!TypeOK, G!Writers
<1>5. /\ \A y \in Callers, u \in G!Tables :
           deleted'[y][u] = IF y = x /\ u = t THEN snapshot[x][t] \cap G!Rows(t)
                                             ELSE deleted[y][u]
      /\ \A u : G!Rows(u)' = G!Rows(u)
      /\ Visible' = Visible
  BY <1>2, <1>3 DEF G!TypeOK, G!Rows, Visible
<1>6. StagesInOrder'
  BY <1>1, <1>2 DEF StagesInOrder
<1>7. RowsCommitted'
  BY <1>1, <1>2, <1>3, <1>5 DEF RowsCommitted
<1>8. SeenIsDeleted'
  BY <1>1, <1>2, <1>3, <1>5 DEF SeenIsDeleted, Done, t
<1>9. ReferencesFollow'
  BY <1>1, <1>2, <1>5 DEF ReferencesFollow, t
<1>10. NoSupersededRows'
  BY <1>2, <1>5 DEF NoSupersededRows, G!NoSupersededRows
<1>11. ReferencesHaveSymbols'
  BY <1>2 DEF ReferencesHaveSymbols, G!ReferencesHaveSymbols
<1>. QED
  BY <1>4, <1>6, <1>7, <1>8, <1>9, <1>10, <1>11

(* COMMIT: the deleted rows go and the new ones, which nobody has seen,    *)
(* appear.                                                                 *)
LEMMA CommitPreserves ==
  ASSUME GraphInv, NEW x \in Callers, G!CopyAndCommit(x)
  PROVE  GraphInv'
<1>. USE DEF GraphInv, G!Tables
<1>1. PICK W \in SUBSET G!Tables :
        /\ symbols' = (symbols \ deleted[x]["symbols"])
                        \cup {y \in {x} : "symbols" \in W}
        /\ references' = (references \ deleted[x]["references"])
                           \cup {y \in {x} : "references" \in W}
        /\ wrote' = [wrote EXCEPT ![x] = W]
  BY DEF G!CopyAndCommit, G!Rows
<1>2. /\ ended[x] = "open" /\ x \notin waiting /\ begun[x] = 2
      /\ ended' = [ended EXCEPT ![x] = "committed"]
      /\ UNCHANGED <<begun, waiting, snapshot, deleted>>
  BY DEF G!CopyAndCommit
<1>3. /\ Visible' = Visible \cup {x} /\ x \notin Visible
      /\ \A y \in Callers : ended'[y] = IF y = x THEN "committed" ELSE ended[y]
  BY <1>2 DEF G!TypeOK, Visible
<1>4. \A t \in G!Tables : /\ G!Rows(t)' \subseteq G!Rows(t) \cup {x}
                          /\ G!Rows(t)' \cap deleted[x][t] = {}
  BY <1>1, <1>3 DEF G!Rows, RowsCommitted
<1>5. G!TypeOK'
  BY <1>1, <1>2 DEF G!TypeOK, G!Writers
<1>6. StagesInOrder'
  BY <1>2, <1>3 DEF StagesInOrder
<1>7. RowsCommitted'
  BY <1>2, <1>3, <1>4 DEF RowsCommitted
<1>8. SeenIsDeleted'
  <2>. SUFFICES ASSUME NEW y \in Callers, NEW t \in G!Tables, Done(y, t)'
                PROVE  snapshot[y][t] \cap G!Rows(t)' \subseteq deleted[y][t]
    BY <1>2 DEF SeenIsDeleted
  <2>1. Done(y, t)
    BY <1>2, <1>3 DEF Done
  <2>2. x \notin snapshot[y][t]
    BY <1>3 DEF RowsCommitted
  <2>. QED
    BY <1>4, <2>1, <2>2 DEF SeenIsDeleted
<1>9. ReferencesFollow'
  BY <1>1, <1>2, <1>3 DEF ReferencesFollow, RowsCommitted
<1>10. NoSupersededRows'
  <2>. SUFFICES ASSUME NEW y \in Callers, NEW t \in G!Tables, ended'[y] = "committed"
                PROVE  snapshot[y][t] \cap G!Rows(t)' = {}
    BY <1>2 DEF NoSupersededRows, G!NoSupersededRows
  <2>1. x \notin snapshot[y][t]
    BY <1>3 DEF RowsCommitted
  <2>2. CASE y = x
    <3>1. snapshot[x][t] \cap G!Rows(t) \subseteq deleted[x][t]
      BY <1>2 DEF SeenIsDeleted, Done
    <3>. QED
      BY <1>4, <2>1, <2>2, <3>1
  <2>3. CASE y # x
    BY <1>3, <1>4, <2>1, <2>3 DEF NoSupersededRows, G!NoSupersededRows
  <2>. QED
    BY <2>2, <2>3
<1>11. ReferencesHaveSymbols'
  <2>. SUFFICES ASSUME NEW y \in references', "symbols" \in wrote'[y]
                PROVE  y \in symbols'
    BY DEF ReferencesHaveSymbols, G!ReferencesHaveSymbols
  <2>1. CASE y = x
    BY <1>1, <2>1 DEF G!TypeOK, G!Writers
  <2>2. CASE y # x
    <3>1. y \in references /\ y \notin deleted[x]["references"]
      BY <1>1, <2>2
    <3>2. wrote'[y] = wrote[y]
      BY <1>1, <2>2, <3>1 DEF G!TypeOK
    <3>3. y \in symbols
      BY <3>1, <3>2 DEF ReferencesHaveSymbols, G!ReferencesHaveSymbols
    <3>4. y \notin deleted[x]["symbols"]
      BY <1>2, <3>1 DEF ReferencesFollow, SeenIsDeleted, Done, G!Rows
    <3>. QED
      BY <1>1, <3>3, <3>4
  <2>. QED
    BY <2>1, <2>2
<1>. QED
  BY <1>5, <1>6, <1>7, <1>8, <1>9, <1>10, <1>11

(* An aborted transaction leaves the tables as they are. *)
LEMMA AbortPreserves ==
  ASSUME GraphInv, NEW x \in Callers, G!Abort(x)
  PROVE  GraphInv'
<1>. USE DEF GraphInv, G!Abort, G!Tables
<1>1. /\ \A y \in Callers : ended'[y] = IF y = x THEN "aborted" ELSE ended[y]
      /\ \A u : G!Rows(u)' = G!Rows(u)
      /\ Visible' = Visible
  BY DEF G!TypeOK, G!Rows, Visible
<1>2. G!TypeOK'
  BY DEF G!TypeOK, G!Writers
<1>3. StagesInOrder'
  BY <1>1 DEF StagesInOrder
<1>4. RowsCommitted' /\ ReferencesFollow'
  BY <1>1 DEF RowsCommitted, ReferencesFollow
<1>5. SeenIsDeleted'
  BY <1>1 DEF SeenIsDeleted, Done
<1>6. NoSupersededRows' /\ ReferencesHaveSymbols'
  BY <1>1 DEF NoSupersededRows, G!NoSupersededRows, ReferencesHaveSymbols,
     G!ReferencesHaveSymbols
<1>. QED
  BY <1>2, <1>3, <1>4, <1>5, <1>6

(* Every step of a transaction on the graph tables preserves their         *)
(* invariant.                                                              *)
LEMMA GraphStepPreserves ==
  ASSUME GraphInv, [\E x \in Callers : G!Persist(x)]_graphVars
  PROVE  GraphInv'
<1>1. ASSUME NEW x \in Callers, G!Persist(x)
      PROVE  GraphInv'
  BY <1>1, BeginPreserves, EndPreserves, CommitPreserves, AbortPreserves
     DEF G!Persist
<1>2. CASE UNCHANGED graphVars
  BY <1>2 DEF graphVars, GraphInv, G!TypeOK, G!Writers, G!Tables, G!Rows, Visible,
     Done, StagesInOrder, RowsCommitted, SeenIsDeleted, ReferencesFollow,
     NoSupersededRows, G!NoSupersededRows, ReferencesHaveSymbols,
     G!ReferencesHaveSymbols
<1>. QED
  BY <1>1, <1>2

-----------------------------------------------------------------------------
(* Each step is one of the token cache or one of a graph transaction.      *)
LEMMA StepOfOne ==
  ASSUME [SharedNext]_<<tokenVars, graphVars>>
  PROVE  [Next]_tokenVars /\ [\E x \in Callers : G!Persist(x)]_graphVars
BY DEF SharedNext

(* Reviews that share the tables use the token cache as TokenCache says.   *)
THEOREM ImplementsTokenCache == SharedSpec => Spec
<1>1. SharedInit => Init
  BY DEF SharedInit
<1>2. [SharedNext]_<<tokenVars, graphVars>> => [Next]_tokenVars
  BY StepOfOne
<1>. QED
  BY <1>1, <1>2, PTL DEF SharedSpec, Spec

(* Reviews that share the tables replace the graph as RepoGraph says, each *)
(* of them once it has its token.                                          *)
THEOREM ImplementsGraph == SharedSpec => G!Spec
<1>1. SharedInit => G!Init
  BY DEF SharedInit
<1>2. [SharedNext]_<<tokenVars, graphVars>>
        => [\E x \in Callers : G!Persist(x)]_G!graphVars
  BY StepOfOne DEF graphVars, G!graphVars
<1>. QED
  BY <1>1, <1>2, PTL DEF SharedSpec, G!Spec

(* Both inductive invariants hold in every reachable state. *)
THEOREM SharedInvariance == SharedSpec => [](IInv /\ GraphInv)
<1>1. SharedInit => GraphInv
  BY GraphInitInv DEF SharedInit
<1>2. GraphInv /\ [SharedNext]_<<tokenVars, graphVars>> => GraphInv'
  BY StepOfOne, GraphStepPreserves
<1>. QED
  BY <1>1, <1>2, ImplementsTokenCache, Invariance, PTL DEF SharedSpec

(* A token served from the cache lives for two margins more, also while    *)
(* the reviews that got theirs replace the call graph.                     *)
THEOREM SharedTokensLast == SharedSpec => []CachedTokenLasts
<1>1. IInv => CachedTokenLasts
  BY DEF IInv
<1>. QED
  BY <1>1, SharedInvariance, PTL

(* The state of the cache and of the graph transactions stays well formed. *)
THEOREM SharedTypeCorrect == SharedSpec => []SharedTypeOK
<1>1. IInv /\ GraphInv => SharedTypeOK
  BY DEF IInv, GraphInv, SharedTypeOK
<1>. QED
  BY <1>1, SharedInvariance, PTL

(* A review that has committed has left nothing of the index that it saw,  *)
(* also when others were deleting the same rows and aborted.               *)
THEOREM SupersededRowsGo == SharedSpec => []NoSupersededRows
<1>1. GraphInv => NoSupersededRows
  BY DEF GraphInv
<1>. QED
  BY <1>1, SharedInvariance, PTL

(* Because the symbols are deleted first, the references of an index never *)
(* outlive its symbols, whoever deletes them and in whatever interleaving. *)
THEOREM ReferencesGo == SharedSpec => []ReferencesHaveSymbols
<1>1. GraphInv => ReferencesHaveSymbols
  BY DEF GraphInv
<1>. QED
  BY <1>1, SharedInvariance, PTL
=============================================================================
