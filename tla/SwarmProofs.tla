---------------------------- MODULE SwarmProofs -----------------------------
(***************************************************************************)
(* Proofs about one review, for every list of files, every answer of the   *)
(* models and every report of the agents, in any order.                    *)
(*                                                                         *)
(* The three loops of the review (the valid agents of an answer, the       *)
(* chunks of the ranked files, the comments taken) are folds.  For each, a *)
(* lemma ...Steps gives the list of its partial results, and induction     *)
(* along that list (NatSetInduction of ListProofs) what the loop           *)
(* returns.  The invariant SwarmInv carries these facts through the steps  *)
(* of the calls.                                                           *)
(***************************************************************************)
EXTENDS Swarm, ListProofs

(* The partial results of ValidAgents. *)
LEMMA ValidAgentsSteps ==
  ASSUME NEW agents \in Seq(STRING)
  PROVE  \E kept :
           /\ kept[0] = <<>>
           /\ \A k \in 1..Len(agents) : kept[k] = WithAgent(kept[k - 1], agents[k])
           /\ ValidAgents(agents) = kept[Len(agents)]
<1>. DEFINE n == Len(agents)
            Is(h, k) == h = [s \in SUBSET (1..k) |->
                               IF s = {} THEN <<>>
                               ELSE WithAgent(h[s \ {Max(s)}], agents[Max(s)])]
            S == {k \in Nat : \E h : Is(h, k)}
<1>0. n \in Nat /\ DOMAIN agents = 1..n
  OBVIOUS
<1>1. 0 \in S
  <2>1. Is([s \in SUBSET (1..0) |-> <<>>], 0)
    OBVIOUS
  <2>. QED
    BY <2>1
<1>2. ASSUME NEW k \in S
      PROVE  k + 1 \in S
  <2>0. k \in Nat /\ k + 1 \in Nat
    OBVIOUS
  <2>1. PICK h : Is(h, k)
    OBVIOUS
  <2>. DEFINE g == [s \in SUBSET (1..(k + 1)) |->
                      IF k + 1 \in s
                        THEN WithAgent(h[s \ {k + 1}], agents[k + 1])
                        ELSE h[s]]
  <2>2. Is(g, k + 1)
    <3>. SUFFICES ASSUME NEW s \in SUBSET (1..(k + 1))
                  PROVE  g[s] = IF s = {} THEN <<>>
                                ELSE WithAgent(g[s \ {Max(s)}], agents[Max(s)])
      OBVIOUS
    <3>1. CASE k + 1 \in s
      <4>1. Max(s) = k + 1
        BY <2>0, <3>1, MaxIsTop
      <4>. QED
        BY <3>1, <4>1
    <3>2. CASE k + 1 \notin s
      <4>1. s \in SUBSET (1..k)
        BY <2>0, <3>2, BelowTop
      <4>. QED
        BY <2>1, <3>2, <4>1
    <3>. QED
      BY <3>1, <3>2
  <2>. QED
    BY <2>0, <2>2
<1>. HIDE DEF Is
<1>3. S = Nat
  BY <1>1, <1>2, NatSetInduction
<1>4. PICK h : Is(h, n)
  BY <1>0, <1>3
<1>. DEFINE iter[s \in SUBSET (DOMAIN agents)] ==
              IF s = {} THEN <<>>
              ELSE WithAgent(iter[s \ {Max(s)}], agents[Max(s)])
<1>5. iter = [s \in SUBSET (DOMAIN agents) |->
                IF s = {} THEN <<>>
                ELSE WithAgent(iter[s \ {Max(s)}], agents[Max(s)])]
  BY <1>0, <1>4 DEF Is
<1>6. ValidAgents(agents) = iter[DOMAIN agents]
  BY DEF ValidAgents, FoldLeft, MapThenFoldSet
<1>. HIDE DEF iter
<1>. DEFINE kept == [k \in 0..n |-> iter[1..k]]
<1>7. kept[0] = <<>>
  <2>1. 1..0 = {} /\ 1..0 \in SUBSET (DOMAIN agents) /\ 0 \in 0..n
    BY <1>0
  <2>. QED
    BY <1>5, <2>1
<1>8. ASSUME NEW k \in 1..n
      PROVE  kept[k] = WithAgent(kept[k - 1], agents[k])
  <2>1. /\ 1..k \in SUBSET (1..n) /\ 1..k # {} /\ k \in 0..n /\ k - 1 \in 0..n
        /\ (1..k) \ {k} = 1..(k - 1)
    BY <1>0, FirstPositions, Zenon
  <2>2. Max(1..k) = k
    BY <1>0, MaxIsTop
  <2>3. iter[1..k] = WithAgent(iter[(1..k) \ {Max(1..k)}], agents[Max(1..k)])
    BY <1>0, <1>5, <2>1
  <2>. QED
    BY <2>1, <2>2, <2>3
<1>9. ValidAgents(agents) = kept[n]
  BY <1>0, <1>6
<1>. QED
  BY <1>7, <1>8, <1>9

(* ValidAgents keeps the valid agents, each once. *)
LEMMA ValidAgentsRight ==
  ASSUME NEW agents \in Seq(STRING)
  PROVE  LET v == ValidAgents(agents)
         IN  /\ v \in Seq(VALID_AGENT_IDS) /\ Distinct(v)
             /\ ToSet(v) = ToSet(agents) \cap VALID_AGENT_IDS
<1>1. PICK kept :
        /\ kept[0] = <<>>
        /\ \A k \in 1..Len(agents) : kept[k] = WithAgent(kept[k - 1], agents[k])
        /\ ValidAgents(agents) = kept[Len(agents)]
  BY ValidAgentsSteps
<1>. DEFINE n == Len(agents)
            Good(v, k) ==
              /\ v \in Seq(VALID_AGENT_IDS) /\ Distinct(v)
              /\ ToSet(v) = {agents[j] : j \in 1..k} \cap VALID_AGENT_IDS
            S == {k \in Nat : k <= n => Good(kept[k], k)}
<1>2. n \in Nat /\ DOMAIN agents = 1..n
  OBVIOUS
<1>3. 0 \in S
  <2>1. Good(<<>>, 0)
    BY DEF Distinct, ToSet
  <2>. QED
    BY <1>1, <2>1
<1>4. ASSUME NEW k \in S
      PROVE  k + 1 \in S
  <2>. SUFFICES ASSUME k + 1 <= n
                PROVE  Good(kept[k + 1], k + 1)
    OBVIOUS
  <2>. DEFINE v == kept[k]
              a == agents[k + 1]
  <2>1. k \in Nat /\ k + 1 \in 1..n /\ Good(v, k)
    BY <1>2
  <2>2. kept[k + 1] = WithAgent(v, a)
    BY <1>1, <2>1
  <2>. HIDE DEF v
  <2>3. {agents[j] : j \in 1..(k + 1)} = {agents[j] : j \in 1..k} \cup {a}
    BY <2>1
  <2>. HIDE DEF a
  <2>4. ToSet(v) = {v[i] : i \in 1..Len(v)} /\ DOMAIN v = 1..Len(v) /\ Len(v) \in Nat
    BY <2>1 DEF ToSet
  <2>5. Contains(v, a) <=> a \in ToSet(v)
    BY <2>4 DEF Contains
  <2>6. CASE a \in VALID_AGENT_IDS /\ ~Contains(v, a)
    <3>1. kept[k + 1] = Append(v, a)
      BY <2>2, <2>6 DEF WithAgent
    <3>2. /\ Append(v, a) \in Seq(VALID_AGENT_IDS)
          /\ DOMAIN Append(v, a) = 1..(Len(v) + 1)
          /\ \A i \in 1..Len(v) : Append(v, a)[i] = v[i]
          /\ Append(v, a)[Len(v) + 1] = a
      BY <2>1, <2>6
    <3>3. Distinct(Append(v, a))
      BY <2>1, <2>4, <2>5, <2>6, <3>2 DEF Distinct
    <3>4. ToSet(Append(v, a)) = ToSet(v) \cup {a}
      <4>. DEFINE w == Append(v, a)
      <4>1. ToSet(w) = {w[i] : i \in 1..(Len(v) + 1)}
        BY <3>2 DEF ToSet
      <4>. HIDE DEF w
      <4>2. /\ \A i \in 1..Len(v) : w[i] = v[i] /\ i \in 1..(Len(v) + 1)
            /\ w[Len(v) + 1] = a /\ Len(v) + 1 \in 1..(Len(v) + 1)
            /\ \A i \in 1..(Len(v) + 1) : i = Len(v) + 1 \/ i \in 1..Len(v)
        BY <2>4, <3>2 DEF w
      <4>. QED
        BY <2>4, <4>1, <4>2 DEF w
    <3>. QED
      BY <2>1, <2>3, <2>6, <3>1, <3>2, <3>3, <3>4
  <2>7. CASE ~(a \in VALID_AGENT_IDS /\ ~Contains(v, a))
    <3>1. kept[k + 1] = v
      BY <2>2, <2>7 DEF WithAgent
    <3>. QED
      BY <2>1, <2>3, <2>5, <2>7, <3>1
  <2>. QED
    BY <2>6, <2>7
<1>. HIDE DEF Good
<1>5. S = Nat
  BY <1>3, <1>4, NatSetInduction
<1>6. Good(ValidAgents(agents), n)
  BY <1>1, <1>2, <1>5
<1>. QED
  BY <1>2, <1>6 DEF Good, ToSet

(* A list of agents that _coordinate_routing may return. *)
Routable(s) == s \in Seq(VALID_AGENT_IDS) /\ s # <<>> /\ Distinct(s)

(* normalize_agent_ids returns a list of agents without repeats that is    *)
(* not empty and has every valid agent of the answer.                      *)
LEMMA NormalizeRight ==
  ASSUME NEW agents \in Seq(STRING), NEW code \in BOOLEAN
  PROVE  LET r == NormalizeAgentIds(agents, code)
         IN  /\ Routable(r)
             /\ ToSet(agents) \cap VALID_AGENT_IDS \subseteq ToSet(r)
<1>. DEFINE v == ValidAgents(agents)
            c == IF v = <<>> THEN <<"ReviewAgent">> ELSE v
            w == WithAgent(c, "VerificationAgent")
<1>1. /\ v \in Seq(VALID_AGENT_IDS) /\ Distinct(v)
      /\ ToSet(v) = ToSet(agents) \cap VALID_AGENT_IDS
  BY ValidAgentsRight
<1>2. NormalizeAgentIds(agents, code) \in {c, w}
  BY DEF NormalizeAgentIds
<1>. HIDE DEF v
<1>3. {"ReviewAgent", "VerificationAgent"} \subseteq VALID_AGENT_IDS
  BY DEF VALID_AGENT_IDS, AgentPriority
<1>4. Routable(c) /\ ToSet(v) \subseteq ToSet(c)
  <2>1. CASE v = <<>>
    <3>1. c = <<"ReviewAgent">> /\ ToSet(v) = {}
      BY <2>1 DEF ToSet
    <3>. HIDE DEF c
    <3>2. c \in Seq(VALID_AGENT_IDS)
      BY <1>3, <3>1
    <3>3. c # <<>> /\ Len(c) = 1 /\ DOMAIN c = 1..1
      BY <3>1
    <3>. QED
      BY <3>1, <3>2, <3>3 DEF Routable, Distinct
  <2>2. CASE v # <<>>
    BY <1>1, <2>2 DEF Routable
  <2>. QED
    BY <2>1, <2>2
<1>. HIDE DEF c
<1>5. Routable(w) /\ ToSet(c) \subseteq ToSet(w)
  <2>. DEFINE a == "VerificationAgent"
              d == Append(c, a)
  <2>1. c \in Seq(VALID_AGENT_IDS) /\ DOMAIN c = 1..Len(c) /\ Len(c) \in Nat
    BY <1>4 DEF Routable
  <2>2. CASE w = c
    BY <1>4, <2>2
  <2>3. CASE w = d /\ ~Contains(c, a)
    <3>1. /\ d \in Seq(VALID_AGENT_IDS) /\ d # <<>>
          /\ DOMAIN d = 1..(Len(c) + 1)
          /\ \A i \in 1..Len(c) : d[i] = c[i] /\ i \in 1..(Len(c) + 1)
          /\ d[Len(c) + 1] = a
          /\ \A i \in 1..(Len(c) + 1) : i = Len(c) + 1 \/ i \in 1..Len(c)
      BY <1>3, <2>1
    <3>. HIDE DEF d
    <3>2. \A i \in 1..Len(c) : c[i] # a
      BY <2>3 DEF Contains
    <3>3. Distinct(d)
      BY <1>4, <2>1, <3>1, <3>2 DEF Distinct, Routable
    <3>4. ToSet(c) \subseteq ToSet(d)
      BY <2>1, <3>1 DEF ToSet
    <3>. QED
      BY <2>3, <3>1, <3>3, <3>4 DEF Routable
  <2>. QED
    BY <2>2, <2>3 DEF WithAgent
<1>. QED
  BY <1>1, <1>2, <1>4, <1>5

(* The cap on the agents of a chunk leaves at least one. *)
LEMMA CapIsPositive == REVIEW_MAX_AGENTS_PER_CHUNK \in Nat \ {0}
  BY SwarmAssumption

(* cap_agent_ids keeps the agents of the highest priorities. *)
LEMMA CapRight ==
  ASSUME NEW s, Routable(s)
  PROVE  LET c == CapAgentIds(s)
         IN  /\ Routable(c) /\ Len(c) <= REVIEW_MAX_AGENTS_PER_CHUNK
             /\ \A a \in ToSet(s) \ ToSet(c) : \A b \in ToSet(c) :
                  AgentPriority[b] < AgentPriority[a]
<1>. DEFINE n == Len(s)
            m == REVIEW_MAX_AGENTS_PER_CHUNK
            key == [i \in 1..n |-> AgentPriority[s[i]]]
            c == CapAgentIds(s)
<1>1. /\ n \in Nat \ {0} /\ DOMAIN s = 1..n /\ m \in Nat \ {0}
      /\ \A i \in 1..n : s[i] \in VALID_AGENT_IDS
      /\ \A i, j \in 1..n : s[i] = s[j] => i = j
  BY CapIsPositive DEF Routable, Distinct
<1>2. CASE n <= m
  BY <1>1, <1>2 DEF CapAgentIds
<1>3. CASE ~(n <= m)
  <2>. DEFINE R == HigherPriority(s)
              t == StableSort(s, R)
  <2>1. /\ \A a \in VALID_AGENT_IDS : AgentPriority[a] \in Nat
        /\ \A a, b \in VALID_AGENT_IDS :
             AgentPriority[a] = AgentPriority[b] => a = b
    BY DEF VALID_AGENT_IDS, AgentPriority
  <2>2. key \in [1..n -> Nat] /\ \A i, j \in 1..n : key[i] = key[j] => i = j
    BY <1>1, <2>1
  <2>3. \A i, j \in 1..n : <<i, j>> \in R <=> key[i] < key[j]
    BY <1>1 DEF HigherPriority, Pairs
  <2>. HIDE DEF R, key
  <2>4. StrictWeakOrder(R, 1..n)
    BY <2>2, <2>3, KeyOrder
  <2>5. PICK pos \in [1..n -> 1..n] :
          /\ t = [i \in 1..n |-> s[pos[i]]]
          /\ \A i, j \in 1..n : pos[i] = pos[j] => i = j
          /\ \A j \in 1..n : \E i \in 1..n : pos[i] = j
          /\ \A i, j \in 1..n : i < j => <<pos[j], pos[i]>> \notin R
    BY <1>1, <2>4, StableSortSorts
  <2>. HIDE DEF t
  <2>6. /\ t \in Seq(VALID_AGENT_IDS) /\ Len(t) = n
        /\ \A i \in 1..n : t[i] = s[pos[i]] /\ pos[i] \in 1..n
    <3>1. \A i \in 1..n : t[i] = s[pos[i]] /\ pos[i] \in 1..n
      BY <2>5
    <3>2. t \in [1..n -> VALID_AGENT_IDS]
      BY <1>1, <2>5
    <3>. QED
      BY <1>1, <3>1, <3>2
  <2>7. ASSUME NEW i \in 1..n, NEW j \in 1..n, i < j
        PROVE  AgentPriority[t[i]] < AgentPriority[t[j]]
    <3>1. ~(key[pos[j]] < key[pos[i]])
      BY <2>3, <2>5, <2>7
    <3>2. pos[i] # pos[j]
      BY <2>5, <2>7
    <3>3. key[pos[i]] < key[pos[j]]
      BY <2>2, <3>1, <3>2
    <3>. QED
      BY <2>6, <3>3 DEF key
  <2>8. \A i, j \in 1..n : t[i] = t[j] => i = j
    BY <1>1, <2>5, <2>6
  <2>9. Min({n, m}) = m
    BY <1>1, <1>3 DEF Min
  <2>10. c = SubSeq(t, 1, m)
    BY <1>3, <2>6, <2>9 DEF CapAgentIds, CapInOrder, t, R
  <2>11. /\ c \in Seq(VALID_AGENT_IDS) /\ Len(c) = m /\ DOMAIN c = 1..m
         /\ \A i \in 1..m : c[i] = t[i] /\ i \in 1..n
    BY <1>1, <1>3, <2>6, <2>10
  <2>. HIDE DEF c
  <2>12. Routable(c)
    BY <1>1, <2>8, <2>11 DEF Routable, Distinct
  <2>13. ASSUME NEW a \in ToSet(s) \ ToSet(c), NEW b \in ToSet(c)
         PROVE  AgentPriority[b] < AgentPriority[a]
    <3>1. PICK k \in 1..n : s[k] = a
      BY <1>1 DEF ToSet
    <3>2. PICK j \in 1..n : pos[j] = k
      BY <2>5
    <3>3. PICK i \in 1..m : t[i] = b
      BY <2>11 DEF ToSet
    <3>4. t[j] = a
      BY <2>6, <3>1, <3>2
    <3>5. ~(j \in 1..m)
      BY <2>11, <3>4 DEF ToSet
    <3>6. i \in 1..n /\ i < j
      BY <1>1, <2>11, <3>5
    <3>. QED
      BY <2>7, <3>3, <3>4, <3>6
  <2>. QED
    BY <1>1, <2>11, <2>12, <2>13 DEF c
<1>. QED
  BY <1>2, <1>3

-----------------------------------------------------------------------------
(* The partial results of the loop of _build_review_chunks. *)
LEMMA ChunksSteps ==
  ASSUME NEW ranked \in Seq(File)
  PROVE  \E acc :
           /\ acc[0] = <<>>
           /\ \A k \in 1..Len(ranked) : acc[k] = Extend(acc[k - 1], ranked[k])
           /\ AllChunks(ranked) = acc[Len(ranked)]
<1>. DEFINE n == Len(ranked)
            Is(h, k) == h = [s \in SUBSET (1..k) |->
                               IF s = {} THEN <<>>
                               ELSE Extend(h[s \ {Max(s)}], ranked[Max(s)])]
            S == {k \in Nat : \E h : Is(h, k)}
<1>0. n \in Nat /\ DOMAIN ranked = 1..n
  OBVIOUS
<1>1. 0 \in S
  <2>1. Is([s \in SUBSET (1..0) |-> <<>>], 0)
    OBVIOUS
  <2>. QED
    BY <2>1
<1>2. ASSUME NEW k \in S
      PROVE  k + 1 \in S
  <2>0. k \in Nat /\ k + 1 \in Nat
    OBVIOUS
  <2>1. PICK h : Is(h, k)
    OBVIOUS
  <2>. DEFINE g == [s \in SUBSET (1..(k + 1)) |->
                      IF k + 1 \in s
                        THEN Extend(h[s \ {k + 1}], ranked[k + 1])
                        ELSE h[s]]
  <2>2. Is(g, k + 1)
    <3>. SUFFICES ASSUME NEW s \in SUBSET (1..(k + 1))
                  PROVE  g[s] = IF s = {} THEN <<>>
                                ELSE Extend(g[s \ {Max(s)}], ranked[Max(s)])
      OBVIOUS
    <3>1. CASE k + 1 \in s
      <4>1. Max(s) = k + 1
        BY <2>0, <3>1, MaxIsTop
      <4>. QED
        BY <3>1, <4>1
    <3>2. CASE k + 1 \notin s
      <4>1. s \in SUBSET (1..k)
        BY <2>0, <3>2, BelowTop
      <4>. QED
        BY <2>1, <3>2, <4>1
    <3>. QED
      BY <3>1, <3>2
  <2>. QED
    BY <2>0, <2>2
<1>. HIDE DEF Is
<1>3. S = Nat
  BY <1>1, <1>2, NatSetInduction
<1>4. PICK h : Is(h, n)
  BY <1>0, <1>3
<1>. DEFINE iter[s \in SUBSET (DOMAIN ranked)] ==
              IF s = {} THEN <<>>
              ELSE Extend(iter[s \ {Max(s)}], ranked[Max(s)])
<1>5. iter = [s \in SUBSET (DOMAIN ranked) |->
                IF s = {} THEN <<>>
                ELSE Extend(iter[s \ {Max(s)}], ranked[Max(s)])]
  BY <1>0, <1>4 DEF Is
<1>6. AllChunks(ranked) = iter[DOMAIN ranked]
  BY DEF AllChunks, FoldLeft, MapThenFoldSet
<1>. HIDE DEF iter
<1>. DEFINE acc == [k \in 0..n |-> iter[1..k]]
<1>7. acc[0] = <<>>
  <2>1. 1..0 = {} /\ 1..0 \in SUBSET (DOMAIN ranked) /\ 0 \in 0..n
    BY <1>0
  <2>. QED
    BY <1>5, <2>1
<1>8. ASSUME NEW k \in 1..n
      PROVE  acc[k] = Extend(acc[k - 1], ranked[k])
  <2>1. /\ 1..k \in SUBSET (1..n) /\ 1..k # {} /\ k \in 0..n /\ k - 1 \in 0..n
        /\ (1..k) \ {k} = 1..(k - 1)
    BY <1>0, FirstPositions, Zenon
  <2>2. Max(1..k) = k
    BY <1>0, MaxIsTop
  <2>3. iter[1..k] = Extend(iter[(1..k) \ {Max(1..k)}], ranked[Max(1..k)])
    BY <1>0, <1>5, <2>1
  <2>. QED
    BY <2>1, <2>2, <2>3
<1>9. AllChunks(ranked) = acc[n]
  BY <1>0, <1>6
<1>. QED
  BY <1>7, <1>8, <1>9

Chunk == [priority : Nat, scoped : BOOLEAN]

(* max(settings.REVIEW_MAX_CHUNKS, 1) leaves at least one chunk. *)
LEMMA BudgetIsPositive == MaxChunks \in Nat \ {0}
<1>1. \E m \in {REVIEW_MAX_CHUNKS, 1} : \A k \in {REVIEW_MAX_CHUNKS, 1} : m >= k
  BY BudgetsAssumption
<1>2. /\ MaxChunks \in {REVIEW_MAX_CHUNKS, 1}
      /\ \A k \in {REVIEW_MAX_CHUNKS, 1} : MaxChunks >= k
  BY <1>1, Zenon DEF MaxChunks, Max
<1>. QED
  BY <1>2, BudgetsAssumption

(* A file with something to show: a patch and, if its source was fetched,  *)
(* a source that gives chunks.                                             *)
Shows(f) == f.patch /\ (f.content => f.parts > 0)

(* A file's chunks are of its priority, and there are some if it shows     *)
(* anything.                                                               *)
LEMMA ProducedRight ==
  ASSUME NEW f \in File
  PROVE  /\ Produced(f) \in Seq(Chunk)
         /\ \A i \in 1..Len(Produced(f)) : Produced(f)[i].priority = f.priority
         /\ Shows(f) => Len(Produced(f)) >= 1
<1>. DEFINE chunk == [priority |-> f.priority, scoped |-> f.content]
<1>0. /\ chunk \in Chunk /\ chunk.priority = f.priority /\ f.parts \in Nat
      /\ f.content \in BOOLEAN /\ f.patch \in BOOLEAN
  BY DEF Chunk, File
<1>1. CASE f.content
  <2>1. Produced(f) = [i \in 1..f.parts |-> chunk]
    BY <1>1 DEF Produced
  <2>. HIDE DEF chunk
  <2>2. /\ [i \in 1..f.parts |-> chunk] \in Seq(Chunk)
        /\ Len([i \in 1..f.parts |-> chunk]) = f.parts
    BY <1>0
  <2>. QED
    BY <1>0, <1>1, <2>1, <2>2 DEF Shows
<1>2. CASE ~f.content /\ f.patch
  <2>1. Produced(f) = <<chunk>>
    BY <1>2 DEF Produced
  <2>. HIDE DEF chunk
  <2>2. <<chunk>> \in Seq(Chunk) /\ Len(<<chunk>>) = 1 /\ <<chunk>>[1] = chunk
    BY <1>0
  <2>. QED
    BY <1>0, <2>1, <2>2
<1>3. CASE ~f.content /\ ~f.patch
  <2>1. Produced(f) = <<>>
    BY <1>3 DEF Produced
  <2>. QED
    BY <1>3, <2>1 DEF Shows
<1>. QED
  BY <1>0, <1>1, <1>2, <1>3

(* The ranking is a rearrangement of the files by falling priority. *)
LEMMA RankedRight ==
  ASSUME NEW fs \in Seq(File)
  PROVE  LET g == Ranked(fs)
         IN  /\ g \in Seq(File) /\ Len(g) = Len(fs)
             /\ \A i, j \in 1..Len(fs) : i < j => g[i].priority >= g[j].priority
             /\ \A j \in 1..Len(fs) : \E i \in 1..Len(fs) : g[i] = fs[j]
<1>. DEFINE n == Len(fs)
            R == Riskier(fs)
            key == [i \in 1..n |-> 0 - fs[i].priority]
            g == Ranked(fs)
<1>1. n \in Nat /\ DOMAIN fs = 1..n /\ \A i \in 1..n : fs[i] \in File
  OBVIOUS
<1>2. \A i \in 1..n : fs[i].priority \in Nat
  BY <1>1 DEF File
<1>3. \A i \in 1..n : key[i] \in Int
  BY <1>2
<1>4. \A i, j \in 1..n : <<i, j>> \in R <=> fs[i].priority > fs[j].priority
  BY <1>1 DEF Riskier, Pairs
<1>5. ASSUME NEW i \in 1..n, NEW j \in 1..n
      PROVE  <<i, j>> \in R <=> key[i] < key[j]
  <2>1. <<i, j>> \in R <=> fs[i].priority > fs[j].priority
    BY <1>4
  <2>2. key[i] = 0 - fs[i].priority /\ key[j] = 0 - fs[j].priority
    OBVIOUS
  <2>. QED
    BY <1>2, <2>1, <2>2
<1>. HIDE DEF R, key
<1>6. StrictWeakOrder(R, 1..n)
  BY <1>3, <1>5, KeyOrder
<1>7. PICK pos \in [1..n -> 1..n] :
        /\ StableSort(fs, R) = [i \in 1..n |-> fs[pos[i]]]
        /\ \A i, j \in 1..n : pos[i] = pos[j] => i = j
        /\ \A j \in 1..n : \E i \in 1..n : pos[i] = j
        /\ \A i, j \in 1..n : i < j => <<pos[j], pos[i]>> \notin R
  BY <1>1, <1>6, StableSortSorts
<1>8. g = [i \in 1..n |-> fs[pos[i]]]
  BY <1>7 DEF Ranked, R
<1>. HIDE DEF g
<1>9. \A i \in 1..n : g[i] = fs[pos[i]] /\ pos[i] \in 1..n
  BY <1>7, <1>8
<1>10. g \in [1..n -> File]
  BY <1>1, <1>8, <1>9
<1>11. g \in Seq(File) /\ Len(g) = n
  BY <1>1, <1>10
<1>12. ASSUME NEW i \in 1..n, NEW j \in 1..n, i < j
       PROVE  g[i].priority >= g[j].priority
  <2>1. ~(fs[pos[j]].priority > fs[pos[i]].priority)
    <3>1. pos[i] \in 1..n /\ pos[j] \in 1..n
      BY <1>9
    <3>2. <<pos[j], pos[i]>> \notin R
      BY <1>7, <1>12, Zenon
    <3>. QED
      BY <1>4, <3>1, <3>2, Zenon
  <2>2. /\ g[i] = fs[pos[i]] /\ fs[pos[i]].priority \in Nat
        /\ g[j] = fs[pos[j]] /\ fs[pos[j]].priority \in Nat
    BY <1>2, <1>9, Zenon
  <2>3. \A x, y \in Nat : ~(y > x) => x >= y
    OBVIOUS
  <2>. QED
    BY <2>1, <2>2, <2>3, Zenon
<1>13. ASSUME NEW j \in 1..n
       PROVE  \E i \in 1..n : g[i] = fs[j]
  <2>1. PICK i \in 1..n : pos[i] = j
    BY <1>7
  <2>. QED
    BY <1>9, <2>1
<1>. QED
  BY <1>11, <1>12, <1>13 DEF g

(* What the budget is for: g[l] is among the first chunks, or these are    *)
(* all of higher priority.                                                 *)
Served(c, f) ==
    \/ \E p \in 1..Len(c) : p <= MaxChunks /\ c[p].priority = f.priority
    \/ /\ Len(c) >= MaxChunks
       /\ \A p \in 1..MaxChunks : c[p].priority > f.priority

(* One round of the loop of _build_review_chunks, for a file of no higher  *)
(* priority than those before it: the file is served if it is to be        *)
(* reviewed.                                                               *)
LEMMA ExtendRight ==
  ASSUME NEW c \in Seq(Chunk), NEW f \in File,
         \A p \in 1..Len(c) : c[p].priority >= f.priority
  PROVE  LET d == Extend(c, f)
         IN  /\ d \in Seq(Chunk) /\ Len(d) >= Len(c)
             /\ \A p \in 1..Len(c) : d[p] = c[p]
             /\ \A p \in 1..Len(d) : p \in 1..Len(c) \/ d[p].priority = f.priority
             /\ Len(c) >= MaxChunks => d = c
             /\ f.reviewable /\ Shows(f) => Served(d, f)
<1>. DEFINE d == Extend(c, f)
            m == MaxChunks
<1>0. m \in Nat \ {0} /\ Len(c) \in Nat /\ f.priority \in Nat
  BY BudgetIsPositive DEF File
<1>1. CASE Len(c) >= m \/ ~f.reviewable
  <2>1. d = c
    BY <1>1 DEF Extend
  <2>2. ASSUME f.reviewable
        PROVE  Served(c, f)
    <3>1. Len(c) >= m /\ \A p \in 1..m : p \in 1..Len(c) /\ c[p].priority \in Nat
      <4>1. \A p \in 1..Len(c) : c[p] \in Chunk
        OBVIOUS
      <4>2. \A p \in 1..Len(c) : c[p].priority \in Nat
        BY <4>1 DEF Chunk
      <4>3. Len(c) >= m /\ \A p \in 1..m : p \in 1..Len(c)
        BY <1>0, <1>1, <2>2
      <4>. QED
        BY <4>2, <4>3
    <3>2. CASE \E p \in 1..m : c[p].priority = f.priority
      BY <1>0, <3>1, <3>2 DEF Served
    <3>3. CASE \A p \in 1..m : c[p].priority # f.priority
      <4>1. \A p \in 1..m : c[p].priority > f.priority
        BY <1>0, <3>1, <3>3
      <4>. QED
        BY <3>1, <4>1 DEF Served
    <3>. QED
      BY <3>2, <3>3
  <2>. QED
    BY <1>0, <2>1, <2>2
<1>2. CASE ~(Len(c) >= m) /\ f.reviewable
  <2>. DEFINE e == Produced(f)
  <2>1. d = c \o e
    BY <1>2 DEF Extend
  <2>2. /\ e \in Seq(Chunk)
        /\ \A i \in 1..Len(e) : e[i].priority = f.priority
        /\ Shows(f) => Len(e) >= 1
    BY ProducedRight
  <2>. HIDE DEF e, d
  <2>3. /\ d \in Seq(Chunk) /\ Len(d) = Len(c) + Len(e) /\ Len(e) \in Nat
        /\ \A p \in 1..Len(c) : d[p] = c[p]
        /\ \A p \in 1..Len(d) : p \notin 1..Len(c) =>
             d[p] = e[p - Len(c)] /\ p - Len(c) \in 1..Len(e)
    BY <1>0, <2>1, <2>2
  <2>4. \A p \in 1..Len(d) : p \in 1..Len(c) \/ d[p].priority = f.priority
    BY <2>2, <2>3
  <2>5. ASSUME Shows(f)
        PROVE  Served(d, f)
    <3>. DEFINE q == Len(c) + 1
    <3>1. q \in 1..Len(d) /\ q <= m /\ q \notin 1..Len(c)
      BY <1>0, <1>2, <2>2, <2>3, <2>5
    <3>. QED
      BY <2>4, <3>1 DEF Served
  <2>. QED
    BY <1>0, <1>2, <2>3, <2>4, <2>5 DEF d
<1>. QED
  BY <1>1, <1>2

(* A file that is served stays so as chunks are added. *)
LEMMA ServedStays ==
  ASSUME NEW c \in Seq(Chunk), NEW d \in Seq(Chunk), NEW f, Served(c, f),
         Len(d) >= Len(c), \A p \in 1..Len(c) : d[p] = c[p]
  PROVE  Served(d, f)
<1>. MaxChunks \in Nat /\ Len(c) \in Nat /\ Len(d) \in Nat
  BY BudgetIsPositive
<1>1. CASE \E p \in 1..Len(c) : p <= MaxChunks /\ c[p].priority = f.priority
  BY <1>1 DEF Served
<1>2. CASE Len(c) >= MaxChunks /\ \A p \in 1..MaxChunks : c[p].priority > f.priority
  BY <1>2 DEF Served
<1>. QED
  BY <1>1, <1>2 DEF Served

(* What _build_review_chunks returns: at most the budget, and every file   *)
(* that was to be reviewed is served.                                      *)
LEMMA BuildRight ==
  ASSUME NEW fs \in Seq(File)
  PROVE  LET c == BuildReviewChunks(fs)
         IN  /\ c \in Seq(Chunk) /\ Len(c) <= MaxChunks
             /\ \A j \in 1..Len(fs) :
                  fs[j].reviewable /\ Shows(fs[j]) => Served(c, fs[j])
<1>. DEFINE n == Len(fs)
            g == Ranked(fs)
            m == MaxChunks
<1>1. /\ g \in Seq(File) /\ Len(g) = n
      /\ \A i, j \in 1..n : i < j => g[i].priority >= g[j].priority
      /\ \A j \in 1..n : \E i \in 1..n : g[i] = fs[j]
  BY RankedRight
<1>. HIDE DEF g
<1>2. PICK acc :
        /\ acc[0] = <<>>
        /\ \A k \in 1..n : acc[k] = Extend(acc[k - 1], g[k])
        /\ AllChunks(g) = acc[n]
  BY <1>1, ChunksSteps
<1>3. /\ n \in Nat /\ m \in Nat \ {0}
      /\ \A i \in 1..n : g[i] \in File /\ g[i].priority \in Nat
  <2>1. \A i \in 1..n : g[i] \in File
    BY <1>1
  <2>. QED
    BY <2>1, BudgetIsPositive DEF File
<1>. DEFINE Good(c, k) ==
              /\ c \in Seq(Chunk)
              /\ \A p \in 1..Len(c), l \in (k + 1)..n :
                   c[p].priority >= g[l].priority
              /\ \A l \in 1..k : g[l].reviewable /\ Shows(g[l]) => Served(c, g[l])
            S == {k \in Nat : k <= n => Good(acc[k], k)}
<1>4. 0 \in S
  <2>1. Good(<<>>, 0)
    OBVIOUS
  <2>. QED
    BY <1>2, <2>1
<1>5. ASSUME NEW k \in S
      PROVE  k + 1 \in S
  <2>. SUFFICES ASSUME k + 1 <= n
                PROVE  Good(acc[k + 1], k + 1)
    OBVIOUS
  <2>. DEFINE c == acc[k]
              f == g[k + 1]
              d == Extend(c, f)
  <2>1. k \in Nat /\ k + 1 \in 1..n /\ k + 1 \in (k + 1)..n /\ Good(c, k)
    BY <1>3
  <2>2. acc[k + 1] = d
    BY <1>2, <2>1
  <2>3. f \in File /\ f.priority \in Nat
    BY <1>3, <2>1
  <2>. HIDE DEF c, d, Good
  <2>4. c \in Seq(Chunk) /\ \A p \in 1..Len(c) : c[p].priority >= f.priority
    BY <2>1 DEF Good
  <2>5. /\ d \in Seq(Chunk) /\ Len(d) >= Len(c)
        /\ \A p \in 1..Len(c) : d[p] = c[p]
        /\ \A p \in 1..Len(d) : p \in 1..Len(c) \/ d[p].priority = f.priority
        /\ f.reviewable /\ Shows(f) => Served(d, f)
    BY <2>3, <2>4, ExtendRight DEF d
  <2>6. ASSUME NEW p \in 1..Len(d), NEW l \in (k + 2)..n
        PROVE  d[p].priority >= g[l].priority
    <3>1. l \in 1..n /\ l \in (k + 1)..n /\ k + 1 < l
      BY <2>1, <1>3
    <3>2. CASE p \in 1..Len(c)
      BY <2>1, <2>5, <3>1, <3>2 DEF Good
    <3>3. CASE d[p].priority = f.priority
      BY <1>1, <2>1, <3>1, <3>3
    <3>. QED
      BY <2>5, <3>2, <3>3
  <2>7. ASSUME NEW l \in 1..(k + 1), g[l].reviewable, Shows(g[l])
        PROVE  Served(d, g[l])
    <3>1. CASE l = k + 1
      BY <2>5, <2>7, <3>1
    <3>2. CASE l \in 1..k
      <4>1. Served(c, g[l])
        BY <2>1, <2>7, <3>2 DEF Good
      <4>. QED
        BY <2>4, <2>5, <4>1, ServedStays
    <3>. QED
      BY <2>1, <3>1, <3>2
  <2>8. (k + 1) + 1 = k + 2
    BY <2>1
  <2>. QED
    BY <2>2, <2>5, <2>6, <2>7, <2>8 DEF Good
<1>. HIDE DEF Good
<1>6. S = Nat
  BY <1>4, <1>5, NatSetInduction
<1>. DEFINE all == AllChunks(g)
            q == Min({Len(all), m})
            c == BuildReviewChunks(fs)
<1>7. Good(all, n)
  BY <1>2, <1>3, <1>6
<1>8. all \in Seq(Chunk) /\ Len(all) \in Nat
  BY <1>7 DEF Good
<1>9. c = SubSeq(all, 1, q)
  BY DEF BuildReviewChunks, g
<1>. HIDE DEF all, c
<1>10. q \in {Len(all), m} /\ q <= Len(all) /\ q <= m
  <2>1. \E x \in {Len(all), m} : \A y \in {Len(all), m} : y >= x
    BY <1>3, <1>8
  <2>2. q \in {Len(all), m} /\ \A y \in {Len(all), m} : y >= q
    BY <2>1, Zenon DEF Min
  <2>. QED
    BY <1>3, <1>8, <2>2
<1>. HIDE DEF q
<1>11. /\ c \in Seq(Chunk) /\ Len(c) = q
       /\ \A p \in 1..q : c[p] = all[p]
  BY <1>3, <1>8, <1>9, <1>10
<1>12. ASSUME NEW j \in 1..n, fs[j].reviewable, Shows(fs[j])
       PROVE  Served(c, fs[j])
  <2>1. PICK l \in 1..n : g[l] = fs[j]
    BY <1>1
  <2>2. Served(all, fs[j])
    BY <1>7, <1>12, <2>1 DEF Good
  <2>3. CASE \E p \in 1..Len(all) : p <= m /\ all[p].priority = fs[j].priority
    BY <1>3, <1>8, <1>10, <1>11, <2>3 DEF Served
  <2>4. CASE Len(all) >= m /\ \A p \in 1..m : all[p].priority > fs[j].priority
    <3>1. q = m
      BY <1>3, <1>8, <1>10, <2>4
    <3>. QED
      BY <1>3, <1>11, <2>4, <3>1 DEF Served
  <2>. QED
    BY <2>2, <2>3, <2>4 DEF Served
<1>. QED
  BY <1>10, <1>11, <1>12 DEF c

-----------------------------------------------------------------------------
(* The partial results of the loop of _select_inline_comments. *)
LEMMA TakenSteps ==
  ASSUME NEW sorted \in Seq(Comment)
  PROVE  \E acc :
           /\ acc[0] = <<>>
           /\ \A k \in 1..Len(sorted) : acc[k] = Take(acc[k - 1], sorted[k])
           /\ Taken(sorted) = acc[Len(sorted)]
<1>. DEFINE n == Len(sorted)
            Is(h, k) == h = [s \in SUBSET (1..k) |->
                               IF s = {} THEN <<>>
                               ELSE Take(h[s \ {Max(s)}], sorted[Max(s)])]
            S == {k \in Nat : \E h : Is(h, k)}
<1>0. n \in Nat /\ DOMAIN sorted = 1..n
  OBVIOUS
<1>1. 0 \in S
  <2>1. Is([s \in SUBSET (1..0) |-> <<>>], 0)
    OBVIOUS
  <2>. QED
    BY <2>1
<1>2. ASSUME NEW k \in S
      PROVE  k + 1 \in S
  <2>0. k \in Nat /\ k + 1 \in Nat
    OBVIOUS
  <2>1. PICK h : Is(h, k)
    OBVIOUS
  <2>. DEFINE g == [s \in SUBSET (1..(k + 1)) |->
                      IF k + 1 \in s
                        THEN Take(h[s \ {k + 1}], sorted[k + 1])
                        ELSE h[s]]
  <2>2. Is(g, k + 1)
    <3>. SUFFICES ASSUME NEW s \in SUBSET (1..(k + 1))
                  PROVE  g[s] = IF s = {} THEN <<>>
                                ELSE Take(g[s \ {Max(s)}], sorted[Max(s)])
      OBVIOUS
    <3>1. CASE k + 1 \in s
      <4>1. Max(s) = k + 1
        BY <2>0, <3>1, MaxIsTop
      <4>. QED
        BY <3>1, <4>1
    <3>2. CASE k + 1 \notin s
      <4>1. s \in SUBSET (1..k)
        BY <2>0, <3>2, BelowTop
      <4>. QED
        BY <2>1, <3>2, <4>1
    <3>. QED
      BY <3>1, <3>2
  <2>. QED
    BY <2>0, <2>2
<1>. HIDE DEF Is
<1>3. S = Nat
  BY <1>1, <1>2, NatSetInduction
<1>4. PICK h : Is(h, n)
  BY <1>0, <1>3
<1>. DEFINE iter[s \in SUBSET (DOMAIN sorted)] ==
              IF s = {} THEN <<>>
              ELSE Take(iter[s \ {Max(s)}], sorted[Max(s)])
<1>5. iter = [s \in SUBSET (DOMAIN sorted) |->
                IF s = {} THEN <<>>
                ELSE Take(iter[s \ {Max(s)}], sorted[Max(s)])]
  BY <1>0, <1>4 DEF Is
<1>6. Taken(sorted) = iter[DOMAIN sorted]
  BY DEF Taken, FoldLeft, MapThenFoldSet
<1>. HIDE DEF iter
<1>. DEFINE acc == [k \in 0..n |-> iter[1..k]]
<1>7. acc[0] = <<>>
  <2>1. 1..0 = {} /\ 1..0 \in SUBSET (DOMAIN sorted) /\ 0 \in 0..n
    BY <1>0
  <2>. QED
    BY <1>5, <2>1
<1>8. ASSUME NEW k \in 1..n
      PROVE  acc[k] = Take(acc[k - 1], sorted[k])
  <2>1. /\ 1..k \in SUBSET (1..n) /\ 1..k # {} /\ k \in 0..n /\ k - 1 \in 0..n
        /\ (1..k) \ {k} = 1..(k - 1)
    BY <1>0, FirstPositions, Zenon
  <2>2. Max(1..k) = k
    BY <1>0, MaxIsTop
  <2>3. iter[1..k] = Take(iter[(1..k) \ {Max(1..k)}], sorted[Max(1..k)])
    BY <1>0, <1>5, <2>1
  <2>. QED
    BY <2>1, <2>2, <2>3
<1>9. Taken(sorted) = acc[n]
  BY <1>0, <1>6
<1>. QED
  BY <1>7, <1>8, <1>9

(* The sort key of the comments is a strict weak order. *)
LEMMA OutranksOrders ==
  /\ \A c \in Comment : ~Outranks(c, c)
  /\ \A c, d, e \in Comment : Outranks(c, d) /\ Outranks(d, e) => Outranks(c, e)
  /\ \A c, d, e \in Comment :
       ~Outranks(c, d) /\ ~Outranks(d, e) => ~Outranks(c, e)
BY DEF Outranks, Comment

(* Being within five lines in one file is symmetric. *)
LEMMA NearIsSymmetric ==
  ASSUME NEW c \in Comment, NEW d \in Comment, Near(c, d)
  PROVE  Near(d, c)
BY DEF Near, Comment

(* The comments are sorted by importance. *)
LEMMA SortedRight ==
  ASSUME NEW cs \in Seq(Comment)
  PROVE  LET g == Sorted(cs)
         IN  /\ g \in Seq(Comment) /\ Len(g) = Len(cs)
             /\ \A i, j \in 1..Len(cs) : i < j => ~Outranks(g[j], g[i])
             /\ \A j \in 1..Len(cs) : \E i \in 1..Len(cs) : g[i] = cs[j]
<1>. DEFINE n == Len(cs)
            R == {p \in Pairs(cs) : Outranks(cs[p[1]], cs[p[2]])}
            g == Sorted(cs)
<1>1. n \in Nat /\ DOMAIN cs = 1..n /\ \A i \in 1..n : cs[i] \in Comment
  OBVIOUS
<1>2. \A i, j \in 1..n : <<i, j>> \in R <=> Outranks(cs[i], cs[j])
  BY <1>1 DEF Pairs
<1>3. g = StableSort(cs, R)
  BY DEF Sorted
<1>. HIDE DEF R, g
<1>4. StrictWeakOrder(R, 1..n)
  BY <1>1, <1>2, OutranksOrders, Zenon DEF StrictWeakOrder
<1>5. PICK pos \in [1..n -> 1..n] :
        /\ g = [i \in 1..n |-> cs[pos[i]]]
        /\ \A i, j \in 1..n : pos[i] = pos[j] => i = j
        /\ \A j \in 1..n : \E i \in 1..n : pos[i] = j
        /\ \A i, j \in 1..n : i < j => <<pos[j], pos[i]>> \notin R
  BY <1>1, <1>3, <1>4, StableSortSorts
<1>6. \A i \in 1..n : g[i] = cs[pos[i]] /\ pos[i] \in 1..n
  BY <1>5
<1>7. g \in [1..n -> Comment]
  BY <1>1, <1>5, <1>6
<1>8. g \in Seq(Comment) /\ Len(g) = n
  BY <1>1, <1>7
<1>9. ASSUME NEW i \in 1..n, NEW j \in 1..n, i < j
      PROVE  ~Outranks(g[j], g[i])
  BY <1>2, <1>5, <1>6, <1>9
<1>10. ASSUME NEW j \in 1..n
       PROVE  \E i \in 1..n : g[i] = cs[j]
  <2>1. PICK i \in 1..n : pos[i] = j
    BY <1>5
  <2>. QED
    BY <1>6, <2>1
<1>. QED
  BY <1>8, <1>9, <1>10 DEF g

(* A candidate is posted, or gives way to a comment nearby or to a full    *)
(* list that is at least as important.                                     *)
GivesWay(sel, c) ==
    \/ \E p \in 1..Len(sel) : sel[p] = c
    \/ \E p \in 1..Len(sel) : Near(c, sel[p]) /\ ~Outranks(c, sel[p])
    \/ Full(sel) /\ \A p \in 1..Len(sel) : ~Outranks(c, sel[p])

Spaced(sel) == \A i, j \in 1..Len(sel) : i # j => ~Near(sel[i], sel[j])

(* One round of the loop of _select_inline_comments, for a comment that    *)
(* outranks none of those selected.                                        *)
LEMMA TakeRight ==
  ASSUME NEW sel \in Seq(Comment), NEW c \in Comment, Spaced(sel),
         \A p \in 1..Len(sel) : ~Outranks(c, sel[p])
  PROVE  LET d == Take(sel, c)
         IN  /\ d \in Seq(Comment) /\ Spaced(d)
             /\ \A p \in 1..Len(d) : \/ p \in 1..Len(sel) /\ d[p] = sel[p]
                                     \/ d[p] = c
             /\ \A p \in 1..Len(sel) : p \in 1..Len(d) /\ d[p] = sel[p]
             /\ Candidate(c) => GivesWay(d, c)
             /\ d # sel => ~Full(sel) /\ Len(d) = Len(sel) + 1
<1>. DEFINE d == Take(sel, c)
<1>0. Len(sel) \in Nat /\ DOMAIN sel = 1..Len(sel)
      /\ \A i \in 1..Len(sel) : sel[i] \in Comment
  OBVIOUS
<1>1. CASE Full(sel) \/ ~Candidate(c) \/ \E i \in DOMAIN sel : Near(sel[i], c)
  <2>1. d = sel
    BY <1>1 DEF Take
  <2>2. Candidate(c) => GivesWay(sel, c)
    <3>1. CASE Full(sel)
      BY <3>1 DEF GivesWay
    <3>2. CASE \E i \in DOMAIN sel : Near(sel[i], c)
      BY <1>0, <3>2, NearIsSymmetric DEF GivesWay
    <3>. QED
      BY <1>1, <3>1, <3>2
  <2>. QED
    BY <2>1, <2>2
<1>2. CASE ~(Full(sel) \/ ~Candidate(c) \/ \E i \in DOMAIN sel : Near(sel[i], c))
  <2>1. d = Append(sel, c)
    BY <1>2 DEF Take
  <2>. HIDE DEF d
  <2>2. /\ d \in Seq(Comment) /\ Len(d) = Len(sel) + 1
        /\ \A p \in 1..Len(sel) : p \in 1..Len(d) /\ d[p] = sel[p]
        /\ Len(d) \in 1..Len(d) /\ d[Len(d)] = c
        /\ \A p \in 1..Len(d) : p \in 1..Len(sel) \/ p = Len(d)
    BY <1>0, <2>1
  <2>3. \A i \in 1..Len(sel) : ~Near(sel[i], c) /\ ~Near(c, sel[i])
    BY <1>0, <1>2, NearIsSymmetric
  <2>4. Spaced(d)
    BY <2>2, <2>3 DEF Spaced
  <2>5. GivesWay(d, c)
    BY <2>2 DEF GivesWay
  <2>. QED
    BY <1>2, <2>2, <2>4, <2>5 DEF d
<1>. QED
  BY <1>1, <1>2

(* At least one comment may be posted inline. *)
LEMMA LimitRight ==
  LET m == Max({REVIEW_MAX_INLINE_COMMENTS, 1})
  IN  m \in Nat /\ m >= 1 /\ m >= REVIEW_MAX_INLINE_COMMENTS
<1>. DEFINE L == REVIEW_MAX_INLINE_COMMENTS
<1>1. L \in Nat
  BY InlineAssumption
<1>2. \E x \in {L, 1} : \A y \in {L, 1} : x >= y
  BY <1>1
<1>3. Max({L, 1}) \in {L, 1} /\ \A y \in {L, 1} : Max({L, 1}) >= y
  BY <1>2, Zenon DEF Max
<1>. QED
  BY <1>1, <1>3

(* What _select_inline_comments returns, for every list of comments. *)
LEMMA SelectRight ==
  ASSUME NEW cs \in Seq(Comment)
  PROVE  LET sel == SelectInlineComments(cs)
         IN  /\ sel \in Seq(Comment) /\ Spaced(sel)
             /\ Len(sel) <= Max({REVIEW_MAX_INLINE_COMMENTS, 1})
             /\ \A j \in 1..Len(cs) : Candidate(cs[j]) => GivesWay(sel, cs[j])
<1>. DEFINE n == Len(cs)
            g == Sorted(cs)
            m == Max({REVIEW_MAX_INLINE_COMMENTS, 1})
<1>1. /\ g \in Seq(Comment) /\ Len(g) = n
      /\ \A i, j \in 1..n : i < j => ~Outranks(g[j], g[i])
      /\ \A j \in 1..n : \E i \in 1..n : g[i] = cs[j]
  BY SortedRight
<1>2. PICK acc :
        /\ acc[0] = <<>>
        /\ \A k \in 1..n : acc[k] = Take(acc[k - 1], g[k])
        /\ Taken(g) = acc[n]
  BY <1>1, TakenSteps
<1>3. SelectInlineComments(cs) = acc[n]
  BY <1>2 DEF SelectInlineComments
<1>. HIDE DEF g
<1>4. n \in Nat /\ \A i \in 1..n : g[i] \in Comment
  BY <1>1
<1>5. m \in Nat /\ m >= 1 /\ m >= REVIEW_MAX_INLINE_COMMENTS
  BY LimitRight
<1>. HIDE DEF m
<1>. DEFINE Good(sel, k) ==
              /\ sel \in Seq(Comment) /\ Spaced(sel) /\ Len(sel) <= m
              /\ \A p \in 1..Len(sel), l \in (k + 1)..n : ~Outranks(g[l], sel[p])
              /\ \A l \in 1..k : Candidate(g[l]) => GivesWay(sel, g[l])
            S == {k \in Nat : k <= n => Good(acc[k], k)}
<1>6. 0 \in S
  <2>1. Good(<<>>, 0)
    BY <1>5 DEF Spaced
  <2>. QED
    BY <1>2, <2>1
<1>7. ASSUME NEW k \in S
      PROVE  k + 1 \in S
  <2>. SUFFICES ASSUME k + 1 <= n
                PROVE  Good(acc[k + 1], k + 1)
    OBVIOUS
  <2>. DEFINE sel == acc[k]
              c == g[k + 1]
              d == Take(sel, c)
  <2>1. k \in Nat /\ k + 1 \in 1..n /\ k + 1 \in (k + 1)..n /\ Good(sel, k)
    BY <1>4
  <2>2. acc[k + 1] = d
    BY <1>2, <2>1
  <2>3. c \in Comment
    BY <1>4, <2>1
  <2>. HIDE DEF sel, d, Good
  <2>4. /\ sel \in Seq(Comment) /\ Spaced(sel) /\ Len(sel) <= m
        /\ \A p \in 1..Len(sel) : ~Outranks(c, sel[p])
        /\ \A l \in 1..k : Candidate(g[l]) => GivesWay(sel, g[l])
    BY <2>1 DEF Good
  <2>5. /\ d \in Seq(Comment) /\ Spaced(d)
        /\ \A p \in 1..Len(d) : \/ p \in 1..Len(sel) /\ d[p] = sel[p]
                                \/ d[p] = c
        /\ \A p \in 1..Len(sel) : p \in 1..Len(d) /\ d[p] = sel[p]
        /\ Candidate(c) => GivesWay(d, c)
        /\ d # sel => ~Full(sel) /\ Len(d) = Len(sel) + 1
    BY <2>3, <2>4, TakeRight DEF d
  <2>6. Len(d) <= m
    <3>1. CASE d = sel
      BY <2>4, <3>1
    <3>2. CASE d # sel
      <4>1. /\ Len(d) = Len(sel) + 1 /\ Len(sel) \in Nat
            /\ Len(sel) = 0 \/ ~(Len(sel) >= REVIEW_MAX_INLINE_COMMENTS)
        BY <2>4, <2>5, <3>2 DEF Full
      <4>. QED
        BY <1>5, <4>1, InlineAssumption
    <3>. QED
      BY <3>1, <3>2
  <2>7. ASSUME NEW p \in 1..Len(d), NEW l \in (k + 2)..n
        PROVE  ~Outranks(g[l], d[p])
    <3>1. l \in 1..n /\ l \in (k + 1)..n /\ k + 1 < l
      BY <1>4, <2>1
    <3>2. CASE p \in 1..Len(sel) /\ d[p] = sel[p]
      BY <2>1, <3>1, <3>2 DEF Good
    <3>3. CASE d[p] = c
      BY <1>1, <2>1, <3>1, <3>3
    <3>. QED
      BY <2>5, <3>2, <3>3
  <2>8. ASSUME NEW l \in 1..(k + 1), Candidate(g[l])
        PROVE  GivesWay(d, g[l])
    <3>1. CASE l = k + 1
      BY <2>5, <2>8, <3>1
    <3>2. CASE l \in 1..k
      <4>1. GivesWay(sel, g[l])
        BY <2>4, <2>8, <3>2
      <4>2. CASE d = sel
        BY <4>1, <4>2
      <4>3. CASE d # sel
        BY <2>5, <4>1, <4>3 DEF GivesWay
      <4>. QED
        BY <4>2, <4>3
    <3>. QED
      BY <2>1, <3>1, <3>2
  <2>9. (k + 1) + 1 = k + 2
    BY <2>1
  <2>. QED
    BY <2>2, <2>5, <2>6, <2>7, <2>8, <2>9 DEF Good
<1>. HIDE DEF Good
<1>8. S = Nat
  BY <1>6, <1>7, NatSetInduction
<1>9. Good(acc[n], n)
  BY <1>4, <1>8
<1>10. ASSUME NEW j \in 1..n, Candidate(cs[j])
       PROVE  GivesWay(acc[n], cs[j])
  <2>1. PICK l \in 1..n : g[l] = cs[j]
    BY <1>1
  <2>. QED
    BY <1>9, <1>10, <2>1 DEF Good
<1>. QED
  BY <1>3, <1>9, <1>10 DEF Good, m

-----------------------------------------------------------------------------
InCall == {i \in DOMAIN pc : pc[i] = "call"}

(* A permit is taken for each call in flight. *)
CallInv ==
    /\ IsFiniteSet(InCall) /\ permits \in Nat
    /\ permits + Cardinality(InCall) = AI_CONCURRENCY

(* A chunk has been routed well. *)
RouteGood(i) ==
    LET agents == CapAgentIds(routes[i])
    IN  /\ Routable(routes[i])
        /\ answers[i] # None =>
             \A a \in (ToSet(answers[i]) \cap VALID_AGENT_IDS) \ ToSet(agents) :
               \A b \in ToSet(agents) : AgentPriority[b] < AgentPriority[a]

PhaseInv ==
    /\ phase \in {"files", "chunks"} => files \in Seq(File) /\ pc = <<>>
    /\ phase = "chunks" => chunks = BuildReviewChunks(files)
    /\ phase \in {"files", "chunks", "route"} => reports = <<>> /\ todo = <<>>
    /\ phase # "route" => routes = <<>>
    /\ phase = "route" =>
         /\ width \in Nat
         /\ DOMAIN pc = 1..width /\ DOMAIN routes = 1..width
         /\ DOMAIN answers = 1..width
         /\ \A i \in 1..width : /\ pc[i] # "sandbox"
                                /\ routes[i] # None => RouteGood(i)
                                /\ pc[i] = "done" => RouteGood(i)
    /\ phase = "agents" =>
         /\ DOMAIN todo = DOMAIN pc /\ DOMAIN reports = DOMAIN pc
         /\ \A i \in DOMAIN pc : pc[i] = "sandbox" => todo[i] \in 1..MaxToolCalls
    /\ phase \in {"agents", "reduce", "text", "analyzed"} =>
         reports \in Seq({None} \cup Reports) /\ Len(reports) >= width
    /\ phase \in {"reduce", "text"} => DOMAIN pc = 1..1 /\ pc[1] # "sandbox"
    /\ phase = "analyzed" => \A i \in DOMAIN pc : pc[i] = "done"

(* The comments are those of all agents that answered; where the score of  *)
(* an approval came from.                                                  *)
ResultInv ==
    phase = "analyzed" =>
      /\ result.comments = AllComments
      /\ result.approved /\ width > 0 => result.by = "reducer"

SwarmInv == TypeOK /\ CallInv /\ PhaseInv /\ ResultInv

(* There is a permit, and a message may ask for the sandbox. *)
LEMMA ConcurrencyIsPositive == {AI_CONCURRENCY, MaxToolCalls} \subseteq Nat \ {0}
  BY SwarmAssumption

(* The free permits are at most AI_CONCURRENCY. *)
LEMMA PermitsBounded == CallInv => permits \in 0..AI_CONCURRENCY
<1>. SUFFICES ASSUME CallInv
              PROVE  permits \in 0..AI_CONCURRENCY
  OBVIOUS
<1>1. Cardinality(InCall) \in Nat
  BY FS_CardinalityType DEF CallInv
<1>. QED
  BY <1>1, ConcurrencyIsPositive DEF CallInv

(* The same in the next state. *)
LEMMA PermitsAfter == CallInv' => permits' \in 0..AI_CONCURRENCY
<1>. SUFFICES ASSUME CallInv'
              PROVE  permits' \in 0..AI_CONCURRENCY
  OBVIOUS
<1>1. Cardinality(InCall)' \in Nat
  BY FS_CardinalityType DEF CallInv
<1>. QED
  BY <1>1, ConcurrencyIsPositive DEF CallInv

(* Entering the semaphore keeps permits and calls in balance. *)
LEMMA CallTaken ==
  ASSUME CallInv, NEW i \in DOMAIN pc, Acquire(i)
  PROVE  CallInv'
<1>1. InCall' = InCall \cup {i} /\ i \notin InCall
  BY DEF Acquire, InCall
<1>2. /\ IsFiniteSet(InCall \cup {i})
      /\ Cardinality(InCall \cup {i}) = Cardinality(InCall) + 1
  BY <1>1, FS_AddElement DEF CallInv
<1>3. Cardinality(InCall) \in Nat
  BY FS_CardinalityType DEF CallInv
<1>. QED
  BY <1>1, <1>2, <1>3, ConcurrencyIsPositive DEF CallInv, Acquire

(* So does leaving it when a call ends, however it ended. *)
LEMMA CallReturned ==
  ASSUME CallInv, NEW i \in DOMAIN pc, NEW p, p # "call", Returns(i, p)
  PROVE  CallInv'
<1>1. InCall' = InCall \ {i} /\ i \in InCall
  BY DEF Returns, InCall
<1>2. /\ IsFiniteSet(InCall \ {i})
      /\ Cardinality(InCall \ {i}) = Cardinality(InCall) - 1
  BY <1>1, FS_RemoveElement DEF CallInv
<1>3. Cardinality(InCall) \in Nat
  BY FS_CardinalityType DEF CallInv
<1>. QED
  BY <1>1, <1>2, <1>3, ConcurrencyIsPositive DEF CallInv, Returns

(* So does a step that starts and ends no call. *)
LEMMA CallsKept ==
  ASSUME CallInv, InCall' = InCall, UNCHANGED permits
  PROVE  CallInv'
BY DEF CallInv

(* The invariant holds at the start. *)
LEMMA InitRight == Init => SwarmInv
<1>. SUFFICES ASSUME Init
              PROVE  SwarmInv
  OBVIOUS
<1>1. files \in Seq(File)
  BY SwarmAssumption DEF Init
<1>2. CallInv
  <2>1. InCall = {}
    BY DEF Init, InCall
  <2>. QED
    BY <2>1, FS_EmptySet, ConcurrencyIsPositive DEF CallInv, Init
<1>3. PhaseInv
  BY <1>1 DEF Init, PhaseInv
<1>4. TypeOK
  <2>1. \A i \in DOMAIN files : files[i] \in File
    BY <1>1
  <2>2. fetched \in 0..Len(files) /\ budget \in 0..MAX_SOURCE_FETCHES
    BY <1>1, BudgetsAssumption DEF Init
  <2>3. Len(chunks) \in 0..MaxChunks /\ width \in 0..MaxChunks
    BY BudgetIsPositive DEF Init
  <2>. QED
    BY <1>2, <2>1, <2>2, <2>3, PermitsBounded DEF Init, TypeOK
<1>5. ResultInv
  BY DEF Init, ResultInv
<1>. QED
  BY <1>2, <1>3, <1>4, <1>5 DEF SwarmInv

(* Passing a file in _attach_source preserves the invariant. *)
LEMMA AttachSourceKeeps ==
  ASSUME SwarmInv, AttachSource
  PROVE  SwarmInv'
<1>. DEFINE i == fetched + 1
<1>1. /\ phase = "files" /\ files \in Seq(File) /\ pc = <<>>
      /\ fetched \in Nat /\ fetched < Len(files) /\ budget \in 0..MAX_SOURCE_FETCHES
      /\ budget > 0 /\ MAX_SOURCE_FETCHES \in Nat
  BY BudgetsAssumption DEF SwarmInv, PhaseInv, TypeOK, AttachSource
<1>2. i \in 1..Len(files) /\ fetched' = i
  BY <1>1 DEF AttachSource
<1>3. files' \in Seq(File) /\ Len(files') = Len(files)
  <2>1. CASE UNCHANGED files
    BY <1>1, <2>1
  <2>2. ASSUME NEW got \in BOOLEAN, files' = [files EXCEPT ![i].content = got]
        PROVE  files' \in Seq(File) /\ Len(files') = Len(files)
    <3>1. files[i] \in File
      BY <1>1, <1>2
    <3>2. [files[i] EXCEPT !.content = got] \in File
      BY <3>1 DEF File
    <3>3. files' = [files EXCEPT ![i] = [files[i] EXCEPT !.content = got]]
      BY <2>2
    <3>. QED
      BY <1>1, <1>2, <3>2, <3>3
  <2>. QED
    BY <1>2, <2>1, <2>2 DEF AttachSource
<1>4. fetched' \in 0..Len(files') /\ budget' \in 0..MAX_SOURCE_FETCHES
  BY <1>1, <1>2, <1>3 DEF AttachSource
<1>5. UNCHANGED <<phase, chunks, width, callVars, result>>
  BY DEF AttachSource
<1>6. CallInv'
  BY <1>5, CallsKept DEF SwarmInv, InCall, callVars
<1>7. PhaseInv'
  BY <1>1, <1>3, <1>5 DEF SwarmInv, PhaseInv, callVars
<1>8. TypeOK'
  <2>1. \A j \in DOMAIN files' : files'[j] \in File
    BY <1>3
  <2>. QED
    BY <1>4, <1>5, <2>1 DEF SwarmInv, TypeOK, callVars
<1>9. ResultInv'
  BY <1>1, <1>5 DEF ResultInv
<1>. QED
  BY <1>6, <1>7, <1>8, <1>9 DEF SwarmInv

(* Cutting the chunks preserves the invariant. *)
LEMMA BuildChunksKeeps ==
  ASSUME SwarmInv, BuildChunks
  PROVE  SwarmInv'
<1>1. /\ files \in Seq(File) /\ pc = <<>> /\ phase' = "chunks"
      /\ chunks' = BuildReviewChunks(files)
      /\ reports = <<>> /\ todo = <<>> /\ routes = <<>>
      /\ UNCHANGED <<files, fetched, budget, width, callVars, result>>
  BY DEF SwarmInv, PhaseInv, BuildChunks
<1>2. Len(chunks') \in 0..MaxChunks
  BY <1>1, BuildRight, BudgetIsPositive
<1>3. CallInv'
  BY <1>1, CallsKept DEF SwarmInv, InCall, callVars
<1>4. PhaseInv'
  BY <1>1 DEF PhaseInv, callVars
<1>5. TypeOK'
  BY <1>1, <1>2 DEF SwarmInv, TypeOK, callVars
<1>6. ResultInv'
  BY <1>1 DEF ResultInv
<1>. QED
  BY <1>3, <1>4, <1>5, <1>6 DEF SwarmInv

(* Gathering the coordinator's calls preserves the invariant. *)
LEMMA StartRoutingKeeps ==
  ASSUME SwarmInv, StartRouting
  PROVE  SwarmInv'
<1>. DEFINE n == Len(chunks)
<1>1. /\ pc = <<>> /\ reports = <<>> /\ todo = <<>>
      /\ n \in 0..MaxChunks /\ MaxChunks \in Nat
  BY BudgetIsPositive DEF SwarmInv, PhaseInv, TypeOK, StartRouting
<1>2. /\ phase' = "route" /\ width' = n
      /\ pc' = [i \in 1..n |-> "wait"]
      /\ answers' = [i \in 1..n |-> None] /\ routes' = [i \in 1..n |-> None]
      /\ files' = <<>> /\ fetched' = 0 /\ budget' = 0 /\ chunks' = <<>>
      /\ UNCHANGED <<todo, reports, permits, result>>
  BY DEF StartRouting, Gather, Empty
<1>. HIDE DEF n
<1>3. CallInv'
  <2>1. InCall = {} /\ InCall' = {}
    BY <1>1, <1>2 DEF InCall
  <2>. QED
    BY <1>2, <2>1, CallsKept DEF SwarmInv
<1>4. PhaseInv'
  BY <1>1, <1>2 DEF PhaseInv
<1>5. TypeOK'
  <2>1. fetched' \in 0..Len(files') /\ budget' \in 0..MAX_SOURCE_FETCHES
    BY <1>2, BudgetsAssumption
  <2>2. Len(chunks') \in 0..MaxChunks /\ width' \in 0..MaxChunks
    BY <1>1, <1>2
  <2>. QED
    BY <1>1, <1>2, <2>1, <2>2 DEF SwarmInv, TypeOK
<1>6. ResultInv'
  BY <1>2 DEF ResultInv
<1>. QED
  BY <1>3, <1>4, <1>5, <1>6 DEF SwarmInv

(* Entering the semaphore preserves the invariant. *)
LEMMA AcquireKeeps ==
  ASSUME SwarmInv, NEW i \in DOMAIN pc, Acquire(i)
  PROVE  SwarmInv'
<1>1. /\ pc[i] = "wait" /\ DOMAIN pc' = DOMAIN pc
      /\ \A j \in DOMAIN pc : pc'[j] = IF j = i THEN "call" ELSE pc[j]
      /\ UNCHANGED <<phase, inputVars, width, answers, routes, todo, reports,
                     result>>
  BY DEF Acquire
<1>2. phase \notin {"files", "chunks", "analyzed"}
  BY <1>1 DEF SwarmInv, PhaseInv
<1>3. CallInv'
  BY CallTaken DEF SwarmInv
<1>4. \A j : RouteGood(j)' <=> RouteGood(j)
  BY <1>1 DEF RouteGood
<1>5. PhaseInv'
  BY <1>1, <1>2, <1>4 DEF SwarmInv, PhaseInv, inputVars
<1>6. permits' \in 0..AI_CONCURRENCY
  BY <1>3, PermitsAfter
<1>7. TypeOK'
  BY <1>1, <1>6 DEF SwarmInv, TypeOK, inputVars
<1>8. ResultInv'
  BY <1>1, <1>2 DEF ResultInv
<1>. QED
  BY <1>3, <1>5, <1>7, <1>8 DEF SwarmInv

(* The fallback of a failed routing is a list that may be routed to. *)
LEMMA FallbackRight == Routable(RouteFallback)
<1>1. {"ReviewAgent", "SecurityAgent"} \subseteq VALID_AGENT_IDS
  BY DEF VALID_AGENT_IDS, AgentPriority
<1>2. /\ RouteFallback \in Seq(VALID_AGENT_IDS) /\ DOMAIN RouteFallback = 1..2
      /\ RouteFallback[1] # RouteFallback[2] /\ RouteFallback # <<>>
  BY <1>1 DEF RouteFallback
<1>. QED
  BY <1>2 DEF Routable, Distinct

(* A coordinator's call that ends, in whatever way, preserves the          *)
(* invariant.                                                              *)
LEMMA RouteReturnsKeeps ==
  ASSUME SwarmInv, NEW i \in DOMAIN pc, RouteReturns(i)
  PROVE  SwarmInv'
<1>1. /\ phase = "route" /\ pc[i] = "call" /\ DOMAIN pc' = DOMAIN pc
      /\ \A j \in DOMAIN pc : pc'[j] = IF j = i THEN "done" ELSE pc[j]
      /\ UNCHANGED <<phase, inputVars, width, todo, reports, result>>
  BY DEF RouteReturns, Returns
<1>2. PICK a \in Answers \cup {None}, code \in BOOLEAN :
        /\ answers' = [answers EXCEPT ![i] = a]
        /\ routes' = [routes EXCEPT ![i] =
                        IF a = None THEN RouteFallback
                          ELSE CapAgentIds(NormalizeAgentIds(a, code))]
  BY DEF RouteReturns
<1>3. /\ width \in Nat /\ DOMAIN pc = 1..width /\ DOMAIN routes = 1..width
      /\ DOMAIN answers = 1..width /\ routes # <<>>
      /\ \A j \in 1..width : /\ pc[j] # "sandbox"
                             /\ routes[j] # None => RouteGood(j)
                             /\ pc[j] = "done" => RouteGood(j)
      /\ reports = <<>> /\ todo = <<>>
  BY <1>1 DEF SwarmInv, PhaseInv
<1>4. CallInv'
  BY CallReturned DEF SwarmInv, RouteReturns
<1>5. RouteGood(i)'
  <2>1. answers'[i] = a
    BY <1>2, <1>3
  <2>2. CASE a = None
    <3>1. routes'[i] = RouteFallback
      BY <1>2, <1>3, <2>2
    <3>. QED
      BY <2>1, <2>2, <3>1, FallbackRight DEF RouteGood
  <2>3. CASE a # None
    <3>. DEFINE N == NormalizeAgentIds(a, code)
                r == CapAgentIds(N)
    <3>1. routes'[i] = r
      BY <1>2, <1>3, <2>3
    <3>2. a \in Seq(STRING)
      BY <2>3, SwarmAssumption
    <3>3. Routable(N) /\ ToSet(a) \cap VALID_AGENT_IDS \subseteq ToSet(N)
      BY <3>2, NormalizeRight
    <3>. HIDE DEF N
    <3>4. /\ Routable(r) /\ Len(r) <= REVIEW_MAX_AGENTS_PER_CHUNK
          /\ \A x \in ToSet(N) \ ToSet(r) : \A b \in ToSet(r) :
               AgentPriority[b] < AgentPriority[x]
      BY <3>3, CapRight
    <3>. HIDE DEF r
    <3>5. CapAgentIds(r) = r
      BY <3>4 DEF CapAgentIds
    <3>. QED
      BY <2>1, <3>1, <3>3, <3>4, <3>5 DEF RouteGood
  <2>. QED
    BY <2>2, <2>3
<1>6. ASSUME NEW j \in 1..width, j # i
      PROVE  RouteGood(j)' <=> RouteGood(j)
  <2>1. routes'[j] = routes[j] /\ answers'[j] = answers[j]
    BY <1>2, <1>3, <1>6
  <2>. QED
    BY <2>1 DEF RouteGood
<1>7. /\ DOMAIN routes' = 1..width /\ DOMAIN answers' = 1..width
      /\ \A j \in 1..width : j # i => routes'[j] = routes[j]
  BY <1>2, <1>3
<1>8. PhaseInv'
  BY <1>1, <1>3, <1>5, <1>6, <1>7 DEF PhaseInv
<1>9. permits' \in 0..AI_CONCURRENCY
  BY <1>4, PermitsAfter
<1>10. \A j \in 1..width : routes'[j] # None => RouteGood(j)'
  BY <1>3, <1>5, <1>6, <1>7
<1>11. \A j \in DOMAIN routes' :
         routes'[j] # None => ToSet(routes'[j]) \subseteq VALID_AGENT_IDS
  <2>. SUFFICES ASSUME NEW j \in 1..width, routes'[j] # None
                PROVE  ToSet(routes'[j]) \subseteq VALID_AGENT_IDS
    BY <1>7
  <2>1. routes'[j] \in Seq(VALID_AGENT_IDS)
    BY <1>10 DEF RouteGood, Routable
  <2>. QED
    BY <2>1 DEF ToSet
<1>12. TypeOK'
  BY <1>1, <1>3, <1>9, <1>11 DEF SwarmInv, TypeOK, inputVars
<1>13. ResultInv'
  BY <1>1 DEF ResultInv
<1>. QED
  BY <1>4, <1>8, <1>12, <1>13 DEF SwarmInv

(* Once every chunk is routed, there are agents for each. *)
LEMMA TasksRight ==
  ASSUME SwarmInv, phase = "route", Gathered
  PROVE  LET tasks == FlattenSeq([i \in DOMAIN routes |-> CapAgentIds(routes[i])])
         IN  /\ tasks \in Seq(VALID_AGENT_IDS)
             /\ Len(tasks) >= width
<1>. DEFINE ss == [i \in DOMAIN routes |-> CapAgentIds(routes[i])]
<1>1. /\ width \in Nat /\ DOMAIN routes = 1..width
      /\ \A i \in 1..width : Routable(routes[i])
  BY DEF SwarmInv, PhaseInv, Gathered, RouteGood
<1>2. \A i \in 1..width : Routable(CapAgentIds(routes[i]))
  BY <1>1, CapRight
<1>3. \A i \in 1..width : ss[i] \in Seq(VALID_AGENT_IDS) /\ ss[i] # <<>>
  BY <1>1, <1>2 DEF Routable
<1>4. ss \in Seq(Seq(VALID_AGENT_IDS)) /\ Len(ss) = width
  <2>1. DOMAIN ss = 1..width /\ ss = [i \in 1..width |-> ss[i]]
    BY <1>1
  <2>. HIDE DEF ss
  <2>2. ss \in [1..width -> Seq(VALID_AGENT_IDS)]
    BY <1>3, <2>1
  <2>. QED
    BY <1>1, <2>2
<1>5. /\ FlattenSeq(ss) \in Seq(VALID_AGENT_IDS)
      /\ (\A i \in 1..Len(ss) : ss[i] # <<>>)
           => Len(FlattenSeq(ss)) >= Len(ss)
  <2>. HIDE DEF ss
  <2>. QED
    BY <1>4, FlattenRight
<1>. QED
  BY <1>3, <1>4, <1>5

(* Gathering the agents' calls preserves the invariant, also when there    *)
(* are none.                                                               *)
LEMMA StartAgentsKeeps ==
  ASSUME SwarmInv, StartAgents
  PROVE  SwarmInv'
<1>. DEFINE tasks == FlattenSeq([i \in DOMAIN routes |-> CapAgentIds(routes[i])])
            n == Len(tasks)
<1>1. phase = "route" /\ Gathered /\ UNCHANGED <<inputVars, width, permits>>
      /\ answers' = <<>> /\ routes' = <<>>
  BY DEF StartAgents
<1>2. /\ tasks \in Seq(VALID_AGENT_IDS) /\ Len(tasks) >= width
      /\ width \in Nat
  BY <1>1, TasksRight DEF SwarmInv, PhaseInv
<1>3. \/ /\ phase' = "agents" /\ pc' = [i \in 1..n |-> "wait"]
         /\ todo' = [i \in 1..n |-> None] /\ reports' = [i \in 1..n |-> None]
         /\ UNCHANGED result
      \/ /\ tasks = <<>> /\ phase' = "analyzed" /\ pc' = <<>>
         /\ result' = [approved |-> TRUE, comments |-> <<>>, by |-> "nobody"]
         /\ UNCHANGED <<todo, reports>>
  BY DEF StartAgents, Gather, Empty
<1>. HIDE DEF tasks
<1>4. n \in Nat /\ n >= width /\ (tasks = <<>> => width = 0)
  BY <1>2
<1>. HIDE DEF n
<1>5. reports = <<>> /\ todo = <<>>
  BY <1>1 DEF SwarmInv, PhaseInv
<1>6. CallInv'
  <2>1. InCall = {}
    BY <1>1 DEF Gathered, InCall
  <2>2. \A i \in DOMAIN pc' : pc'[i] = "wait"
    <3>1. CASE pc' = <<>>
      BY <3>1
    <3>2. CASE pc' = [i \in 1..n |-> "wait"]
      BY <3>2
    <3>. QED
      BY <1>3, <3>1, <3>2
  <2>3. InCall' = {}
    BY <2>2 DEF InCall
  <2>. QED
    BY <1>1, <2>1, <2>3, CallsKept DEF SwarmInv
<1>7. CASE phase' = "agents"
  <2>1. /\ pc' = [i \in 1..n |-> "wait"]
        /\ todo' = [i \in 1..n |-> None] /\ reports' = [i \in 1..n |-> None]
    BY <1>3, <1>7
  <2>2. reports' \in Seq({None} \cup Reports) /\ Len(reports') >= width'
    BY <1>1, <1>4, <2>1
  <2>3. PhaseInv'
    BY <1>1, <1>7, <2>1, <2>2 DEF PhaseInv
  <2>4. TypeOK'
    BY <1>1, <1>7, <2>1 DEF SwarmInv, TypeOK, inputVars
  <2>5. ResultInv'
    BY <1>7 DEF ResultInv
  <2>. QED
    BY <1>6, <2>3, <2>4, <2>5 DEF SwarmInv
<1>8. CASE phase' = "analyzed"
  <2>1. /\ pc' = <<>> /\ reports' = <<>> /\ todo' = <<>>
        /\ result' = [approved |-> TRUE, comments |-> <<>>, by |-> "nobody"]
        /\ width' = 0
    BY <1>1, <1>3, <1>4, <1>5, <1>8
  <2>2. PhaseInv'
    <3>1. <<>> \in Seq({None} \cup Reports) /\ Len(<<>>) = 0
      OBVIOUS
    <3>. QED
      BY <1>1, <1>8, <2>1, <3>1 DEF PhaseInv
  <2>3. TypeOK'
    BY <1>1, <1>8, <2>1 DEF SwarmInv, TypeOK, inputVars
  <2>4. AllComments' = <<>>
    <3>1. <<>> \in Seq(Seq({}))
      OBVIOUS
    <3>2. FlattenSeq(<<>>) = <<>>
      BY <3>1, FlattenRight
    <3>3. [i \in DOMAIN reports' |->
             IF reports'[i] = None THEN <<>> ELSE reports'[i]] = <<>>
      BY <2>1
    <3>. QED
      BY <3>2, <3>3 DEF AllComments
  <2>5. ResultInv'
    BY <2>1, <2>4 DEF ResultInv
  <2>. QED
    BY <1>6, <2>2, <2>3, <2>5 DEF SwarmInv
<1>. QED
  BY <1>3, <1>7, <1>8

(* An agent's call that ends, in whatever way, preserves the invariant. *)
LEMMA AgentReturnsKeeps ==
  ASSUME SwarmInv, NEW i \in DOMAIN pc, AgentReturns(i)
  PROVE  SwarmInv'
<1>1. /\ phase = "agents"
      /\ UNCHANGED <<phase, inputVars, width, answers, routes, result>>
      /\ AgentFails(i) \/ AgentSubmits(i) \/ AgentAsksSandbox(i)
  BY DEF AgentReturns
<1>2. /\ DOMAIN todo = DOMAIN pc /\ DOMAIN reports = DOMAIN pc
      /\ reports \in Seq({None} \cup Reports) /\ Len(reports) >= width
      /\ \A j \in DOMAIN pc : pc[j] = "sandbox" => todo[j] \in 1..MaxToolCalls
      /\ \A j \in DOMAIN pc : todo[j] \in {None} \cup 0..MaxToolCalls
      /\ routes = <<>>
  BY <1>1 DEF SwarmInv, PhaseInv, TypeOK
<1>. MaxToolCalls \in Nat \ {0}
  BY ConcurrencyIsPositive
<1>3. PICK p \in {"done", "sandbox"} : Returns(i, p)
  BY <1>1 DEF AgentFails, AgentSubmits, AgentAsksSandbox
<1>4. CallInv'
  <2>1. p # "call"
    OBVIOUS
  <2>. QED
    BY <1>3, <2>1, CallReturned DEF SwarmInv
<1>5. pc[i] = "call" /\ pc' = [pc EXCEPT ![i] = p]
  BY <1>3 DEF Returns
<1>6. /\ reports' \in Seq({None} \cup Reports) /\ DOMAIN reports' = DOMAIN pc
      /\ Len(reports') >= width'
  BY <1>1, <1>2 DEF AgentFails, AgentSubmits, AgentAsksSandbox
<1>7. /\ DOMAIN todo' = DOMAIN pc
      /\ \A j \in DOMAIN pc : todo'[j] \in {None} \cup 0..MaxToolCalls
      /\ \A j \in DOMAIN pc : j # i => todo'[j] = todo[j]
      /\ p = "sandbox" => todo'[i] \in 1..MaxToolCalls
  <2>1. CASE AgentFails(i) \/ AgentSubmits(i)
    <3>1. todo' = todo /\ pc'[i] = "done"
      BY <2>1 DEF AgentFails, AgentSubmits, Returns
    <3>. QED
      BY <1>2, <1>5, <3>1
  <2>2. CASE AgentAsksSandbox(i)
    <3>1. CASE todo[i] = None
      <4>1. PICK n \in 1..MaxToolCalls : todo' = [todo EXCEPT ![i] = n]
        BY <2>2, <3>1 DEF AgentAsksSandbox
      <4>. QED
        BY <1>2, <4>1
    <3>2. CASE todo[i] # None
      <4>1. todo' = todo /\ todo[i] # 0
        BY <2>2, <3>2 DEF AgentAsksSandbox
      <4>. QED
        BY <1>2, <3>2, <4>1
    <3>. QED
      BY <3>1, <3>2
  <2>. QED
    BY <1>1, <2>1, <2>2
<1>8. PhaseInv'
  BY <1>1, <1>2, <1>5, <1>6, <1>7 DEF PhaseInv
<1>9. permits' \in 0..AI_CONCURRENCY
  BY <1>4, PermitsAfter
<1>10. \A j \in DOMAIN reports' : reports'[j] \in {None} \cup Reports
  BY <1>6
<1>11. TypeOK'
  BY <1>1, <1>5, <1>7, <1>9, <1>10 DEF SwarmInv, TypeOK, inputVars
<1>12. ResultInv'
  BY <1>1 DEF ResultInv
<1>. QED
  BY <1>4, <1>8, <1>11, <1>12 DEF SwarmInv

(* A sandbox run that ends preserves the invariant. *)
LEMMA SandboxEndsKeeps ==
  ASSUME SwarmInv, NEW i \in DOMAIN pc, SandboxEnds(i)
  PROVE  SwarmInv'
<1>1. /\ pc[i] = "sandbox" /\ todo' = [todo EXCEPT ![i] = todo[i] - 1]
      /\ UNCHANGED <<phase, inputVars, width, answers, routes, reports,
                     permits, result>>
  BY DEF SandboxEnds
<1>2. phase = "agents"
  BY <1>1 DEF SwarmInv, PhaseInv, TypeOK
<1>3. /\ DOMAIN todo = DOMAIN pc /\ DOMAIN reports = DOMAIN pc
      /\ reports \in Seq({None} \cup Reports) /\ Len(reports) >= width
      /\ \A j \in DOMAIN pc : pc[j] = "sandbox" => todo[j] \in 1..MaxToolCalls
      /\ \A j \in DOMAIN pc : todo[j] \in {None} \cup 0..MaxToolCalls
      /\ routes = <<>>
  BY <1>2 DEF SwarmInv, PhaseInv, TypeOK
<1>. MaxToolCalls \in Nat \ {0}
  BY ConcurrencyIsPositive
<1>4. PICK next \in {"wait", "done"} : pc' = [pc EXCEPT ![i] = next]
  BY DEF SandboxEnds
<1>5. CallInv'
  <2>1. InCall' = InCall
    BY <1>1, <1>4 DEF InCall
  <2>. QED
    BY <1>1, <2>1, CallsKept DEF SwarmInv
<1>6. /\ DOMAIN todo' = DOMAIN pc
      /\ \A j \in DOMAIN pc : todo'[j] \in {None} \cup 0..MaxToolCalls
      /\ \A j \in DOMAIN pc : j # i => todo'[j] = todo[j]
  BY <1>1, <1>3
<1>7. PhaseInv'
  BY <1>1, <1>2, <1>3, <1>4, <1>6 DEF PhaseInv
<1>8. TypeOK'
  BY <1>1, <1>4, <1>6 DEF SwarmInv, TypeOK, inputVars
<1>9. ResultInv'
  BY <1>1, <1>2 DEF ResultInv
<1>. QED
  BY <1>5, <1>7, <1>8, <1>9 DEF SwarmInv

(* Starting the reduction preserves the invariant. *)
LEMMA StartReduceKeeps ==
  ASSUME SwarmInv, StartReduce
  PROVE  SwarmInv'
<1>1. /\ phase = "agents" /\ Gathered /\ phase' = "reduce"
      /\ pc' = [i \in 1..1 |-> "wait"]
      /\ UNCHANGED <<inputVars, width, answers, routes, todo, reports, permits,
                     result>>
  BY DEF StartReduce, Gather
<1>2. /\ reports \in Seq({None} \cup Reports) /\ Len(reports) >= width
      /\ routes = <<>>
  BY <1>1 DEF SwarmInv, PhaseInv
<1>3. CallInv'
  <2>1. InCall = {}
    BY <1>1 DEF Gathered, InCall
  <2>2. InCall' = {}
    BY <1>1 DEF InCall
  <2>. QED
    BY <1>1, <2>1, <2>2, CallsKept DEF SwarmInv
<1>4. PhaseInv'
  BY <1>1, <1>2 DEF PhaseInv
<1>5. TypeOK'
  BY <1>1 DEF SwarmInv, TypeOK, inputVars
<1>6. ResultInv'
  BY <1>1 DEF ResultInv
<1>. QED
  BY <1>3, <1>4, <1>5, <1>6 DEF SwarmInv

(* A call of the reduction that ends, in whatever way, preserves the       *)
(* invariant.                                                              *)
LEMMA ReduceReturnsKeeps ==
  ASSUME SwarmInv, ReduceReturns
  PROVE  SwarmInv'
<1>1. /\ phase \in {"reduce", "text"} /\ pc[1] = "call"
      /\ permits' = permits + 1
      /\ UNCHANGED <<inputVars, width, answers, routes, todo, reports>>
  BY DEF ReduceReturns
<1>2. /\ DOMAIN pc = 1..1 /\ routes = <<>>
      /\ reports \in Seq({None} \cup Reports) /\ Len(reports) >= width
  BY <1>1 DEF SwarmInv, PhaseInv
<1>3. \/ /\ phase' = "text" /\ pc' = [i \in 1..1 |-> "wait"]
      \/ /\ phase' = "analyzed" /\ pc' = <<"done">>
         /\ \E approved \in BOOLEAN, by \in {"reducer", "failure"} :
              /\ result' = [approved |-> approved, comments |-> AllComments,
                            by |-> by]
              /\ approved => by = "reducer"
  BY DEF ReduceReturns, Gather, Analyzed, SynthesisFailed
<1>4. CallInv'
  <2>1. InCall = {1} /\ InCall' = {}
    BY <1>1, <1>2, <1>3 DEF InCall
  <2>2. Cardinality({1}) = 1 /\ Cardinality({}) = 0 /\ IsFiniteSet({})
    BY FS_Singleton, FS_EmptySet
  <2>. QED
    BY <1>1, <2>1, <2>2 DEF SwarmInv, CallInv
<1>5. /\ DOMAIN pc' = 1..1
      /\ phase' = "text" => pc'[1] = "wait"
      /\ phase' = "analyzed" => pc'[1] = "done"
  BY <1>3
<1>6. PhaseInv'
  BY <1>1, <1>2, <1>3, <1>5 DEF PhaseInv
<1>7. permits' \in 0..AI_CONCURRENCY
  BY <1>4, PermitsAfter
<1>8. TypeOK'
  BY <1>1, <1>3, <1>5, <1>7 DEF SwarmInv, TypeOK, inputVars
<1>9. ResultInv'
  <2>1. AllComments' = AllComments
    BY <1>1 DEF AllComments
  <2>. QED
    BY <1>3, <2>1 DEF ResultInv
<1>. QED
  BY <1>4, <1>6, <1>8, <1>9 DEF SwarmInv

-----------------------------------------------------------------------------
(* The inductive invariant holds in every reachable state. *)
THEOREM SwarmInvariance == Spec => []SwarmInv
<1>1. ASSUME SwarmInv, [Next]_vars
      PROVE  SwarmInv'
  <2>1. ASSUME NEW i \in DOMAIN pc, Call(i)
        PROVE  SwarmInv'
    BY <1>1, <2>1, AcquireKeeps, RouteReturnsKeeps, AgentReturnsKeeps,
       SandboxEndsKeeps DEF Call
  <2>2. CASE UNCHANGED vars
    <3>1. CallInv' /\ TypeOK' /\ ResultInv'
      BY <1>1, <2>2 DEF vars, inputVars, callVars, SwarmInv, CallInv, InCall,
         TypeOK, ResultInv, AllComments
    <3>2. PhaseInv'
      BY <1>1, <2>2 DEF vars, inputVars, callVars, SwarmInv, PhaseInv, RouteGood
    <3>. QED
      BY <3>1, <3>2 DEF SwarmInv
  <2>. QED
    BY <1>1, <2>1, <2>2, AttachSourceKeeps, BuildChunksKeeps,
       StartRoutingKeeps, StartAgentsKeeps, StartReduceKeeps,
       ReduceReturnsKeeps DEF Next
<1>. QED
  BY <1>1, InitRight, PTL DEF Spec

(* The variables keep their types: in particular the number of chunks, the *)
(* fetch budget and the sandbox calls stay within their bounds.            *)
THEOREM TypeCorrect == Spec => []TypeOK
<1>1. SwarmInv => TypeOK
  BY DEF SwarmInv
<1>. QED
  BY <1>1, SwarmInvariance, PTL

(* Model calls in flight and free permits add up to AI_CONCURRENCY, for    *)
(* any number of chunks, agents and sandbox calls.                         *)
THEOREM CallsLimited == Spec => []CallsWithinLimit
<1>1. SwarmInv => CallsWithinLimit
  BY DEF SwarmInv, CallInv, InCall, CallsWithinLimit
<1>. QED
  BY <1>1, SwarmInvariance, PTL

(* Whatever fails, a pull request with something to review is approved     *)
(* only by the reducer's answer, and only after as many agents were asked  *)
(* as there are chunks; they may all have failed.                          *)
THEOREM ApprovalsReviewed == Spec => []ApprovedAfterReview
<1>1. SwarmInv => ApprovedAfterReview
  BY DEF SwarmInv, PhaseInv, ResultInv, ApprovedAfterReview
<1>. QED
  BY <1>1, SwarmInvariance, PTL

(* Whatever the coordinator answers, every chunk is routed to between one  *)
(* and REVIEW_MAX_AGENTS_PER_CHUNK different agents, and the agents asked  *)
(* for give way only to agents of higher priority.                         *)
THEOREM RoutesRight == Spec => []RoutedWell
<1>1. SwarmInv => RoutedWell
  <2>. SUFFICES ASSUME SwarmInv, phase = "route", NEW i \in DOMAIN routes,
                       routes[i] # None
                PROVE  LET agents == CapAgentIds(routes[i])
                       IN  /\ Len(agents) \in 1..REVIEW_MAX_AGENTS_PER_CHUNK
                           /\ Cardinality(ToSet(agents)) = Len(agents)
                           /\ answers[i] # None =>
                                \A a \in (ToSet(answers[i]) \cap VALID_AGENT_IDS)
                                           \ ToSet(agents) :
                                  \A b \in ToSet(agents) :
                                    AgentPriority[b] < AgentPriority[a]
    BY DEF RoutedWell
  <2>. DEFINE agents == CapAgentIds(routes[i])
  <2>1. RouteGood(i)
    BY DEF SwarmInv, PhaseInv
  <2>2. Routable(agents) /\ Len(agents) <= REVIEW_MAX_AGENTS_PER_CHUNK
    BY <2>1, CapRight DEF RouteGood
  <2>3. /\ agents \in Seq(VALID_AGENT_IDS) /\ agents # <<>>
        /\ Cardinality(ToSet(agents)) = Len(agents)
    <3>. HIDE DEF agents
    <3>. QED
      BY <2>2, DistinctCounts DEF Routable
  <2>4. Len(agents) \in 1..REVIEW_MAX_AGENTS_PER_CHUNK
    <3>. HIDE DEF agents
    <3>. QED
      BY <2>2, <2>3, CapIsPositive
  <2>. QED
    BY <2>1, <2>3, <2>4 DEF RouteGood
<1>. QED
  BY <1>1, SwarmInvariance, PTL

(* For every list of files, whatever could be fetched, the chunk budget is *)
(* spent on the files of the highest priorities.                           *)
THEOREM BestFirst == Spec => []BestFilesFirst
<1>1. SwarmInv => BestFilesFirst
  <2>. SUFFICES ASSUME SwarmInv, phase = "chunks", NEW i \in DOMAIN files,
                       files[i].reviewable, Shows(files[i]),
                       {k \in DOMAIN chunks :
                          chunks[k].priority = files[i].priority} = {}
                PROVE  /\ Len(chunks) = MaxChunks
                       /\ \A k \in DOMAIN chunks :
                            chunks[k].priority > files[i].priority
    BY DEF BestFilesFirst, Shows
  <2>1. files \in Seq(File) /\ chunks = BuildReviewChunks(files)
    BY DEF SwarmInv, PhaseInv
  <2>2. /\ chunks \in Seq(Chunk) /\ Len(chunks) <= MaxChunks
        /\ Served(chunks, files[i])
    BY <2>1, BuildRight
  <2>3. MaxChunks \in Nat
    BY BudgetIsPositive
  <2>4. DOMAIN chunks = 1..Len(chunks) /\ Len(chunks) \in Nat
    BY <2>2
  <2>5. ~ \E p \in 1..Len(chunks) : chunks[p].priority = files[i].priority
    BY <2>4
  <2>6. /\ Len(chunks) >= MaxChunks /\ Len(chunks) <= MaxChunks
        /\ \A p \in 1..MaxChunks : chunks[p].priority > files[i].priority
    BY <2>2, <2>5 DEF Served
  <2>7. Len(chunks) = MaxChunks
    <3>1. \A a, b \in Nat : a >= b /\ a <= b => a = b
      OBVIOUS
    <3>. QED
      BY <2>3, <2>4, <2>6, <3>1, Zenon
  <2>. QED
    BY <2>4, <2>6, <2>7
<1>. QED
  BY <1>1, SwarmInvariance, PTL

(* For every list of comments the agents may report, those posted inline   *)
(* are spaced and limited, and a serious comment gives way only to one     *)
(* that is not less serious.  The proof shows more, the whole sort key;    *)
(* the length in it is left out of the claim.                              *)
THEOREM SelectionRight == Spec => []SelectionSound
<1>1. SwarmInv => SelectionSound
  <2>. SUFFICES ASSUME SwarmInv, phase = "analyzed"
                PROVE  SelectionSound
    BY DEF SelectionSound
  <2>. DEFINE cs == result.comments
              sel == SelectInlineComments(cs)
              ss == [i \in DOMAIN reports |->
                       IF reports[i] = None THEN <<>> ELSE reports[i]]
  <2>1. cs \in Seq(Comment)
    <3>1. reports \in Seq({None} \cup Reports) /\ cs = AllComments
      BY DEF SwarmInv, PhaseInv, ResultInv
    <3>2. DOMAIN reports = 1..Len(reports) /\ Len(reports) \in Nat
      BY <3>1
    <3>3. ASSUME NEW i \in 1..Len(reports)
          PROVE  ss[i] \in Seq(Comment)
      <4>1. reports[i] \in {None} \cup Reports
        BY <3>1
      <4>2. <<>> \in Seq(Comment)
        OBVIOUS
      <4>. QED
        BY <3>2, <4>1, <4>2, SwarmAssumption
    <3>4. ss \in Seq(Seq(Comment))
      <4>1. DOMAIN ss = 1..Len(reports) /\ ss = [i \in 1..Len(reports) |-> ss[i]]
        BY <3>2
      <4>. HIDE DEF ss
      <4>2. ss \in [1..Len(reports) -> Seq(Comment)]
        BY <3>3, <4>1
      <4>. QED
        BY <3>2, <4>2
    <3>. HIDE DEF ss
    <3>5. FlattenSeq(ss) \in Seq(Comment)
      BY <3>4, FlattenRight
    <3>. QED
      BY <3>1, <3>5 DEF AllComments, ss
  <2>. HIDE DEF cs
  <2>2. /\ sel \in Seq(Comment) /\ Spaced(sel)
        /\ Len(sel) <= Max({REVIEW_MAX_INLINE_COMMENTS, 1})
        /\ \A j \in 1..Len(cs) : Candidate(cs[j]) => GivesWay(sel, cs[j])
    BY <2>1, SelectRight
  <2>3. Inline = sel
    BY DEF Inline, cs
  <2>. HIDE DEF sel
  <2>4. DOMAIN sel = 1..Len(sel) /\ DOMAIN cs = 1..Len(cs)
    BY <2>1, <2>2
  <2>5. \A i, j \in DOMAIN sel : i # j => ~Near(sel[i], sel[j])
    BY <2>2, <2>4 DEF Spaced
  <2>6. ASSUME NEW c \in ToSet(cs), Candidate(c), c \notin ToSet(sel)
        PROVE  \/ \E d \in ToSet(sel) : Near(c, d) /\ ~MoreSerious(c, d)
               \/ /\ Len(sel) >= REVIEW_MAX_INLINE_COMMENTS
                  /\ \A d \in ToSet(sel) : ~MoreSerious(c, d)
    <3>1. PICK j \in 1..Len(cs) : cs[j] = c
      BY <2>4 DEF ToSet
    <3>2. GivesWay(sel, c)
      BY <2>2, <2>6, <3>1
    <3>3. \A p \in 1..Len(sel) : sel[p] \in ToSet(sel) /\ sel[p] # c
      BY <2>4, <2>6 DEF ToSet
    <3>4. \A d \in ToSet(sel) : \E p \in 1..Len(sel) : sel[p] = d
      BY <2>4 DEF ToSet
    <3>5. \A d : MoreSerious(c, d) => Outranks(c, d)
      BY DEF MoreSerious, Outranks
    <3>. QED
      BY <3>2, <3>3, <3>4, <3>5 DEF GivesWay, Full
  <2>. QED
    BY <2>2, <2>3, <2>5, <2>6 DEF SelectionSound, cs
<1>. QED
  BY <1>1, SwarmInvariance, PTL
=============================================================================
