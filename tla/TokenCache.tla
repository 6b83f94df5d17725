----------------------------- MODULE TokenCache -----------------------------
(***************************************************************************)
(* get_token of app/services/github.py: installation tokens cached in the  *)
(* table installation_tokens.  The SELECT, the POST to GitHub and the      *)
(* upsert run on one connection that is not in autocommit mode, so NOW()   *)
(* is in both statements the time at which the SELECT began.               *)
(*                                                                         *)
(* Time may pass between any two steps of a caller.  A token is identified *)
(* by the time of its issue.                                               *)
(***************************************************************************)
EXTENDS Naturals

CONSTANTS
    Callers,    \* concurrent calls of get_token for one installation
    TokenLife,  \* how long GitHub's installation tokens live: an hour
    RowLife,    \* INTERVAL '55 minutes' of the upsert
    Margin,     \* INTERVAL '5 minutes' of the SELECT
    MaxTime,    \* bound: the last moment considered
    None        \* no row, or no token

ASSUME TimesAssumption == {TokenLife, RowLife, Margin, MaxTime} \subseteq Nat
ASSUME LifeAssumption == RowLife + Margin <= TokenLife
ASSUME NoTokenAssumption == None \notin Nat

VARIABLES
    now,
    row,        \* the row of installation_tokens: token and expires_at
    at,         \* where each call is; "have" when it has returned a token
    began,      \* NOW() of each call's transaction
    token,      \* the token that each call holds
    handed      \* the time at which a call got its token from the cache

tokenVars == <<now, row, at, began, token, handed>>

TypeOK ==
    /\ now \in 0..MaxTime
    /\ row \in {None} \cup [token : 0..MaxTime, expires : 0..(MaxTime + RowLife)]
    /\ at \in [Callers -> {"select", "post", "upsert", "have", "failed"}]
    /\ began \in [Callers -> 0..MaxTime]
    /\ token \in [Callers -> {None} \cup 0..MaxTime]
    /\ handed \in [Callers -> {None} \cup 0..MaxTime]

Init ==
    /\ now = 0
    /\ row = None
    /\ at = [c \in Callers |-> "select"]
    /\ began = [c \in Callers |-> 0]
    /\ token = [c \in Callers |-> None]
    /\ handed = [c \in Callers |-> None]

(* The SELECT, which begins the transaction: a row that has more than the  *)
(* margin left is returned.                                                *)
Cached == row # None /\ row.expires > now + Margin

Select(c) ==
    /\ at[c] = "select"
    /\ IF Cached
         THEN /\ at' = [at EXCEPT ![c] = "have"]
              /\ token' = [token EXCEPT ![c] = row.token]
              /\ handed' = [handed EXCEPT ![c] = now]
         ELSE /\ at' = [at EXCEPT ![c] = "post"]
              /\ UNCHANGED <<token, handed>>
    /\ began' = [began EXCEPT ![c] = now]
    /\ UNCHANGED <<now, row>>

(* The POST that has GitHub issue a token; an error ends the call and the  *)
(* transaction.                                                            *)
PostUnchecked(c) ==
    /\ at[c] = "post"
    /\ at' = [at EXCEPT ![c] = "upsert"]
    /\ token' = [token EXCEPT ![c] = now] \/ UNCHANGED token
    /\ UNCHANGED <<now, row, began, handed>>
Post(c) ==
    /\ at[c] = "post"
    /\ \/ /\ at' = [at EXCEPT ![c] = "upsert"]
          /\ token' = [token EXCEPT ![c] = now]
       \/ /\ at' = [at EXCEPT ![c] = "failed"]
          /\ UNCHANGED token
    /\ UNCHANGED <<now, row, began, handed>>

(* INSERT ... ON CONFLICT DO UPDATE with NOW() + RowLife, and COMMIT.      *)
(* The last caller wins, also if its token is the older one.               *)
ExpiryFromNow(c) == now + RowLife
ExpiryFromBegin(c) == began[c] + RowLife

Upsert(c) ==
    /\ at[c] = "upsert"
    /\ row' = [token |-> token[c], expires |-> ExpiryFromBegin(c)]
    /\ at' = [at EXCEPT ![c] = "have"]
    /\ UNCHANGED <<now, began, token, handed>>

GetToken(c) == Select(c) \/ Post(c) \/ Upsert(c)

Tick ==
    /\ now < MaxTime
    /\ now' = now + 1
    /\ UNCHANGED <<row, at, began, token, handed>>

Next == Tick \/ \E c \in Callers : GetToken(c)

Spec == Init /\ [][Next]_tokenVars

-----------------------------------------------------------------------------
(* A token that get_token takes from the cache is good for another two     *)
(* margins (ten minutes) at least, however long the callers that stored it *)
(* stalled between asking GitHub and writing the row, and in whatever      *)
(* order they overwrote each other's rows.                                 *)
CachedTokenLasts ==
    \A c \in Callers :
      handed[c] # None => token[c] + TokenLife > handed[c] + 2 * Margin
=============================================================================
