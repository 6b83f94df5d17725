---------------------------- MODULE SharedTables ----------------------------
(***************************************************************************)
(* Concurrent reviews of one repository, in one worker or several, before  *)
(* their analysis starts: process_job takes an installation token from the *)
(* cache or from GitHub and then replaces the repository's call graph.     *)
(***************************************************************************)
EXTENDS TokenCache

CONSTANT Earlier

ASSUME EarlierAssumption == Earlier \notin Callers

VARIABLES symbols, references, begun, waiting, ended, snapshot, deleted, wrote

graphVars == <<symbols, references, begun, waiting, ended, snapshot, deleted,
               wrote>>

G == INSTANCE RepoGraph WITH Reviews <- Callers

SharedInit == Init /\ G!Init

SharedNext ==
    \/ Next /\ UNCHANGED graphVars
    \/ \E x \in Callers :
         at[x] = "have" /\ G!Persist(x) /\ UNCHANGED tokenVars

SharedSpec == SharedInit /\ [][SharedNext]_<<tokenVars, graphVars>>

-----------------------------------------------------------------------------
(* The state of the token cache and of the graph is well formed. *)
SharedTypeOK == TypeOK /\ G!TypeOK

(* Rows that a committed review saw and replaced never remain (RepoGraph). *)
NoSupersededRows == G!NoSupersededRows

(* References do not outlive the symbols of their index (RepoGraph). *)
ReferencesHaveSymbols == G!ReferencesHaveSymbols
=============================================================================
