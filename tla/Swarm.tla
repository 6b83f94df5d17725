------------------------------- MODULE Swarm --------------------------------
(***************************************************************************)
(* One review from the list of changed files to the comments it posts:     *)
(* fetch_pull_files, analyze_diff and its agents (app/services/ai.py) and  *)
(* the selection of inline comments.                                       *)
(*                                                                         *)
(* analyze_diff gathers three kinds of model calls, one kind after the     *)
(* other: the coordinator's for each chunk, the agents', the reducer's.    *)
(* Within a kind the calls run concurrently, each under a permit of the    *)
(* semaphore that is held for the call and not for the sandbox.  Whatever  *)
(* a model answers is chosen from small sets; a call that raises and an    *)
(* answer that cannot be used have the same effect.                        *)
(***************************************************************************)
EXTENDS ReviewInput, InlineSelection

CONSTANTS
    FileLists,      \* the lists of changed files that GitHub may send
    Answers,        \* lists of agent ids that the coordinator may answer
    Reports,        \* lists of comments that an agent may submit
    MaxToolCalls,   \* bound on the sandbox calls in an agent's message
    AI_CONCURRENCY,
    REVIEW_MAX_AGENTS_PER_CHUNK,
    REVIEW_PROFILE,
    None            \* no answer, no report, no message yet

ASSUME SwarmAssumption ==
    /\ {AI_CONCURRENCY, REVIEW_MAX_AGENTS_PER_CHUNK, MaxToolCalls}
         \subseteq Nat \ {0}
    /\ FileLists \subseteq Seq(File)
    /\ \A files \in FileLists : \A i \in DOMAIN files : ~files[i].content
    /\ Answers \subseteq Seq(STRING) /\ Reports \subseteq Seq(Comment)

VARIABLES
    phase,      \* "files", "chunks", "route", "agents", "reduce", "text",
                \* "analyzed"
    files,      \* pr_files, until the chunks are cut
    fetched,    \* how many files _attach_source has passed
    budget,     \* how many it may still fetch
    chunks,     \* the chunks, until they are handed out
    width,      \* their number
    pc,         \* the calls being gathered: "wait", "call", "sandbox", "done"
    answers,    \* the coordinator's answer for each chunk
    routes,     \* _coordinate_routing's result for each chunk
    todo,       \* the sandbox calls left in each agent's first message
    reports,    \* the comments each agent returned; None if it failed
    permits,    \* the value of self.semaphore
    result      \* analyze_diff's result: whether its score is at least 80,
                \* its comments and where the score came from

inputVars == <<files, fetched, budget, chunks>>
callVars == <<pc, answers, routes, todo, reports, permits>>
vars == <<phase, inputVars, width, callVars, result>>

-----------------------------------------------------------------------------
(***************************************************************************)
(* Routing: normalize_agent_ids and cap_agent_ids.                         *)
(***************************************************************************)
AgentPriority ==
    [SecurityAgent |-> 0, ReviewAgent |-> 1, PlanningAgent |-> 2,
     PerformanceAgent |-> 3, VerificationAgent |-> 4]
VALID_AGENT_IDS == DOMAIN AgentPriority

(* list(dict.fromkeys(agents)), of the valid ones. *)
WithAgent(seen, a) ==
    IF a \in VALID_AGENT_IDS /\ ~Contains(seen, a) THEN Append(seen, a) ELSE seen
ValidAgents(agents) == FoldLeft(WithAgent, <<>>, agents)

NormalizeUnchecked(agents, code) == agents

(* code: the chunk contains "import " or "def ". *)
NormalizeAgentIds(agents, code) ==
    LET valid == ValidAgents(agents)
        chosen == IF valid = <<>> THEN <<"ReviewAgent">> ELSE valid
        forced == REVIEW_PROFILE # "chill" /\ code
    IN  IF forced THEN WithAgent(chosen, "VerificationAgent") ELSE chosen

CapInOrder(agents) ==
    SubSeq(agents, 1, Min({Len(agents), REVIEW_MAX_AGENTS_PER_CHUNK}))
HigherPriority(agents) ==
    {p \in Pairs(agents) :
       AgentPriority[agents[p[1]]] < AgentPriority[agents[p[2]]]}
CapAgentIds(agents) ==
    IF Len(agents) <= REVIEW_MAX_AGENTS_PER_CHUNK
      THEN agents
      ELSE CapInOrder(StableSort(agents, HigherPriority(agents)))

(* _coordinate_routing: any failure is answered with two agents. *)
RouteFailed == <<>>
RouteFallback == <<"ReviewAgent", "SecurityAgent">>

-----------------------------------------------------------------------------
Init ==
    /\ phase = "files"
    /\ files \in FileLists
    /\ fetched = 0
    /\ budget = MAX_SOURCE_FETCHES
    /\ chunks = <<>> /\ width = 0
    /\ pc = <<>> /\ answers = <<>> /\ routes = <<>> /\ todo = <<>>
    /\ reports = <<>>
    /\ permits = AI_CONCURRENCY
    /\ result = None

(* _attach_source passes one file: it is skipped, or fetched under the     *)
(* budget; a fetch that fails, or finds a binary or too large a file,      *)
(* leaves it without content.                                              *)
AttachSource ==
    /\ phase = "files" /\ fetched < Len(files) /\ budget > 0
    /\ fetched' = fetched + 1
    /\ \/ /\ ~Fetchable(files[fetched'])
          /\ UNCHANGED <<files, budget>>
       \/ /\ Fetchable(files[fetched'])
          /\ budget' = budget - 1
          /\ \E got \in BOOLEAN :
               files' = [files EXCEPT ![fetched'].content = got]
    /\ UNCHANGED <<phase, chunks, width, callVars, result>>

BuildChunks ==
    /\ phase = "files" /\ (fetched = Len(files) \/ budget = 0)
    /\ chunks' = BuildReviewChunks(files)
    /\ phase' = "chunks"
    /\ UNCHANGED <<files, fetched, budget, width, callVars, result>>

(* The calls of the next kind, gathered together. *)
Gather(p, n) ==
    /\ phase' = p
    /\ pc' = [i \in 1..n |-> "wait"]
Gathered == \A i \in DOMAIN pc : pc[i] = "done"
Empty(n) == [i \in 1..n |-> None]

(* What the files and chunks contain plays no part from here on. *)
StartRouting ==
    /\ phase = "chunks"
    /\ width' = Len(chunks)
    /\ Gather("route", Len(chunks))
    /\ answers' = Empty(Len(chunks)) /\ routes' = Empty(Len(chunks))
    /\ files' = <<>> /\ fetched' = 0 /\ budget' = 0 /\ chunks' = <<>>
    /\ UNCHANGED <<todo, reports, permits,
                   result>>

(* async with self.semaphore, around every model call. *)
Acquire(i) ==
    /\ pc[i] = "wait" /\ permits > 0
    /\ pc' = [pc EXCEPT ![i] = "call"]
    /\ permits' = permits - 1
    /\ UNCHANGED <<phase, inputVars, width, answers, routes, todo, reports,
                   result>>

Returns(i, p) ==
    /\ pc[i] = "call"
    /\ pc' = [pc EXCEPT ![i] = p]
    /\ permits' = permits + 1

RouteReturns(i) ==
    /\ phase = "route" /\ Returns(i, "done")
    /\ \E a \in Answers \cup {None}, code \in BOOLEAN :
         /\ answers' = [answers EXCEPT ![i] = a]
         /\ routes' = [routes EXCEPT ![i] =
                         IF a = None THEN RouteFallback
                           ELSE CapAgentIds(NormalizeAgentIds(a, code))]
    /\ UNCHANGED <<phase, inputVars, width, todo, reports,
                   result>>

(* The agents of all chunks start, or there is nothing to do. *)
StartAgents ==
    LET tasks == FlattenSeq([i \in DOMAIN routes |-> CapAgentIds(routes[i])])
    IN  /\ phase = "route" /\ Gathered
        /\ \/ /\ tasks # <<>>
              /\ Gather("agents", Len(tasks))
              /\ todo' = Empty(Len(tasks)) /\ reports' = Empty(Len(tasks))
              /\ UNCHANGED result
           \/ /\ tasks = <<>>
              /\ phase' = "analyzed" /\ pc' = <<>>
              /\ result' = [approved |-> TRUE, comments |-> <<>>, by |-> "nobody"]
              /\ UNCHANGED <<todo, reports>>
        /\ answers' = <<>> /\ routes' = <<>>
        /\ UNCHANGED <<inputVars, width, permits>>

(* _analyze_chunk_with_agent: a model call ends.  Only the first message   *)
(* may ask for the sandbox, once or several times, whatever the agent; the *)
(* last message is the review.                                             *)
AgentLeaksPermit(i) ==
    /\ pc[i] = "call" /\ pc' = [pc EXCEPT ![i] = "done"]
    /\ UNCHANGED <<permits, todo, reports>>
AgentFails(i) == Returns(i, "done") /\ UNCHANGED <<todo, reports>>

AgentSubmits(i) ==
    /\ todo[i] \in {None, 0}
    /\ Returns(i, "done")
    /\ \E r \in Reports : reports' = [reports EXCEPT ![i] = r]
    /\ UNCHANGED todo

AgentHoldsPermit(i) ==
    /\ todo[i] # 0
    /\ pc[i] = "call" /\ pc' = [pc EXCEPT ![i] = "sandbox"]
    /\ \E n \in 1..MaxToolCalls : todo' = [todo EXCEPT ![i] = n]
    /\ UNCHANGED <<permits, reports>>
AgentAsksSandbox(i) ==
    /\ todo[i] # 0
    /\ Returns(i, "sandbox")
    /\ IF todo[i] = None
         THEN \E n \in 1..MaxToolCalls : todo' = [todo EXCEPT ![i] = n]
         ELSE UNCHANGED todo
    /\ UNCHANGED reports

AgentReturns(i) ==
    /\ phase = "agents"
    /\ AgentFails(i) \/ AgentSubmits(i) \/ AgentAsksSandbox(i)
    /\ UNCHANGED <<phase, inputVars, width, answers, routes, result>>

(* _run_in_sandbox, with gVisor or without, returns what the script did or *)
(* the error that starting it raised; the agent fails if the script cannot *)
(* even be written to a file.                                              *)
SandboxEnds(i) ==
    /\ pc[i] = "sandbox"
    /\ \E next \in {"wait", "done"} : pc' = [pc EXCEPT ![i] = next]
    /\ todo' = [todo EXCEPT ![i] = @ - 1]
    /\ UNCHANGED <<phase, inputVars, width, answers, routes, reports, permits,
                   result>>

StartReduce ==
    /\ phase = "agents" /\ Gathered
    /\ Gather("reduce", 1)
    /\ UNCHANGED <<inputVars, width, answers, routes, todo, reports, permits,
                   result>>

(* [c for res in results if res for c in res.comments] *)
AllComments ==
    FlattenSeq([i \in DOMAIN reports |->
                  IF reports[i] = None THEN <<>> ELSE reports[i]])

Analyzed(approved, comments, by) ==
    /\ phase' = "analyzed"
    /\ result' = [approved |-> approved, comments |-> comments, by |-> by]

(* _reduce_summaries: the structured call, then a plain one, then a score  *)
(* of 0.  The comments are the agents' in every case.                      *)
SynthesisFailed == Analyzed(FALSE, AllComments, "failure")

ReduceReturns ==
    /\ phase \in {"reduce", "text"}
    /\ permits' = permits + 1
    /\ pc[1] = "call"
    /\ \/ /\ \E approved \in BOOLEAN : Analyzed(approved, AllComments, "reducer")
          /\ pc' = <<"done">>
       \/ /\ phase = "reduce"
          /\ Gather("text", 1)
          /\ UNCHANGED result
       \/ /\ phase = "text"
          /\ SynthesisFailed
          /\ pc' = <<"done">>
    /\ UNCHANGED <<inputVars, width, answers, routes, todo, reports>>

(* process_job selects what it posts inline, a function of the result. *)
Inline == SelectInlineComments(result.comments)

Call(i) == Acquire(i) \/ RouteReturns(i) \/ AgentReturns(i) \/ SandboxEnds(i)

Next ==
    \/ AttachSource \/ BuildChunks \/ StartRouting \/ StartAgents
    \/ StartReduce \/ ReduceReturns
    \/ \E i \in DOMAIN pc : Call(i)

(* Every model call and sandbox run ends, and the event loop goes on. *)
Spec == Init /\ [][Next]_vars /\ WF_vars(Next)

-----------------------------------------------------------------------------
(***************************************************************************)
(* Properties.                                                             *)
(***************************************************************************)

(* The variables have their types. *)
TypeOK ==
    /\ phase \in {"files", "chunks", "route", "agents", "reduce", "text",
                  "analyzed"}
    /\ \A i \in DOMAIN files : files[i] \in File
    /\ fetched \in 0..Len(files) /\ budget \in 0..MAX_SOURCE_FETCHES
    /\ Len(chunks) \in 0..MaxChunks /\ width \in 0..MaxChunks
    /\ \A i \in DOMAIN pc : pc[i] \in {"wait", "call", "sandbox", "done"}
    /\ \A i \in DOMAIN routes :
         routes[i] # None => ToSet(routes[i]) \subseteq VALID_AGENT_IDS
    /\ \A i \in DOMAIN todo : todo[i] \in {None} \cup 0..MaxToolCalls
    /\ \A i \in DOMAIN reports : reports[i] \in {None} \cup Reports
    /\ permits \in 0..AI_CONCURRENCY

(* The chunk budget is spent on the riskiest files: what _build_review_    *)
(* chunks leaves out of a reviewable file that has a patch is never of     *)
(* higher priority than something it sends, whichever sources could be     *)
(* fetched; and a file is left out only when the budget is spent.  Not so  *)
(* a file whose source was fetched and gave no chunk: it has no fallback   *)
(* to its patch and is left out with budget to spare.                      *)
BestFilesFirst ==
    phase = "chunks" =>
      \A i \in DOMAIN files :
        LET f == files[i]
            sent == {k \in DOMAIN chunks : chunks[k].priority = f.priority}
        IN  f.reviewable /\ f.patch /\ (f.content => f.parts > 0) /\ sent = {} =>
              /\ Len(chunks) = MaxChunks
              /\ \A k \in DOMAIN chunks : chunks[k].priority > f.priority

(* Every chunk is looked at by at least one and at most                    *)
(* REVIEW_MAX_AGENTS_PER_CHUNK different agents, whatever the coordinator  *)
(* answered, and an agent it asked for gives way only to agents of higher  *)
(* priority.                                                               *)
RoutedWell ==
    phase = "route" =>
      \A i \in DOMAIN routes :
        routes[i] # None =>
          LET agents == CapAgentIds(routes[i])
          IN  /\ Len(agents) \in 1..REVIEW_MAX_AGENTS_PER_CHUNK
              /\ Cardinality(ToSet(agents)) = Len(agents)
              /\ answers[i] # None =>
                   \A a \in (ToSet(answers[i]) \cap VALID_AGENT_IDS) \ ToSet(agents) :
                     \A b \in ToSet(agents) : AgentPriority[b] < AgentPriority[a]

(* Model calls in flight and free permits add up to AI_CONCURRENCY: no     *)
(* path through routing, agents, sandbox and reduction, failed or not,     *)
(* keeps a permit or returns one twice.                                    *)
CallsWithinLimit ==
    permits + Cardinality({i \in DOMAIN pc : pc[i] = "call"}) = AI_CONCURRENCY

(* A pull request with something to review is approved only by an answer   *)
(* of the reducer, and only after at least as many agents as chunks were   *)
(* asked: neither a coordinator that fails or names nobody nor a reduction *)
(* that fails leads to the approval meant for an empty review.  That the   *)
(* agents succeed is not required: when all of them fail, the reducer      *)
(* scores an empty list of findings, and may approve.                      *)
ApprovedAfterReview ==
    phase = "analyzed" /\ result.approved /\ width > 0 =>
      /\ Len(reports) >= width
      /\ result.by = "reducer"

(* The comments posted inline are at least six lines apart in a file and   *)
(* no more than the limit (one, if the limit is 0), and a serious comment  *)
(* is left out only for one nearby that is not less serious, or because    *)
(* the limit is exhausted by comments that are not less serious.  Which of *)
(* two equally serious ones is kept, by length, is left open.              *)
SelectionSound ==
    phase = "analyzed" =>
      LET inline == Inline
          posted == ToSet(inline)
      IN  /\ Len(inline) <= Max({REVIEW_MAX_INLINE_COMMENTS, 1})
          /\ \A i, j \in DOMAIN inline : i # j => ~Near(inline[i], inline[j])
          /\ \A c \in ToSet(result.comments) :
               Candidate(c) /\ c \notin posted =>
                 \/ \E d \in posted : Near(c, d) /\ ~MoreSerious(c, d)
                 \/ /\ Len(inline) >= REVIEW_MAX_INLINE_COMMENTS
                    /\ \A d \in posted : ~MoreSerious(c, d)

(* The analysis ends, whichever calls fail and however the agents share    *)
(* the permits: none waits for ever while others are in the sandbox.       *)
AnalysisEnds == <>(phase = "analyzed")
=============================================================================
