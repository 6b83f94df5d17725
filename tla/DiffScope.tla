----------------------------- MODULE DiffScope ------------------------------
(***************************************************************************)
(* Which code of a changed file the agents get to see: parse_changed_lines *)
(* and _chunk_by_ast with _chunk_changed_nodes of app/services/ai.py.      *)
(*                                                                         *)
(* An edit is written down line by line, as a sequence of marks (kept,     *)
(* added, removed) and of what each line is in the syntax of the file.     *)
(* From it come the new file's syntax tree (Tree-sitter, external) and its *)
(* patch (git, external); the code under test only gets these two.  Code   *)
(* is named by the positions of its lines in the edit, and a line counts   *)
(* for one token.                                                          *)
(***************************************************************************)
EXTENDS Naturals, FiniteSets, Sequences, SequencesExt, FiniteSetsExt

CONSTANTS
    MaxLines,         \* bound on the length of the edit
    MaxChanges,       \* bound on its added and removed lines
    ContextLines,     \* lines of context around a change (3 on GitHub)
    MAX_CHUNK_TOKENS

ASSUME ContextAssumption == ContextLines \in Nat \ {0}
ASSUME BudgetAssumption == {MaxLines, MaxChanges, MAX_CHUNK_TOKENS} \subseteq Nat \ {0}

(* The first line of a top-level node: a function (or any other boundary   *)
(* type that is not a class), a class, or a statement.                     *)
TopKinds == {"function", "class", "statement"}
(* The first line of a node in the body of a class. *)
PartKinds == {"method", "attribute"}
Kinds == TopKinds \cup PartKinds \cup
         {"more",     \* a further line of the node before it
          "blank"}    \* between two top-level nodes

VARIABLES
    edit,       \* the sequence of lines, [mark, kind] each
    phase,      \* "edit", "scoped" or "whole" while chunking, and
                \* "scoped_sent" or "whole_sent"
    changed,    \* parse_changed_lines(patch)
    todo,       \* the top-level nodes still to visit
    chunks,     \* the list being returned
    pending     \* texts of the chunk being filled (pending, current_chunk)

vars == <<edit, phase, changed, todo, chunks, pending>>

-----------------------------------------------------------------------------
(***************************************************************************)
(* The two versions of the file.                                           *)
(***************************************************************************)
OldSide == {i \in DOMAIN edit : edit[i].mark # "+"}
NewSide == {i \in DOMAIN edit : edit[i].mark # "-"}
Edited == {i \in DOMAIN edit : edit[i].mark # " "}

(* The number, in the new file, of the line at position i; for a removed   *)
(* line, of the line that comes after it.                                  *)
NewLine(i) == 1 + Cardinality({j \in NewSide : j < i})

(* Where the latest top-level node or blank line of a side starts. *)
Starts(side) == {j \in side : edit[j].kind \in TopKinds \cup {"blank"}}
InClass(side) ==
    Starts(side) # {} /\ edit[Max(Starts(side))].kind = "class"

(* Whether a line of kind k may come next in a version of the file. *)
Fits(side, k) ==
    \/ k \in TopKinds \cup {"blank"}
    \/ k \in PartKinds /\ InClass(side)
    \/ k = "more" /\ side # {} /\ edit[Max(side)].kind \notin {"class", "blank"}

(* The new file's tree: the lines of a top-level node, and of a part of a  *)
(* class.  The header of a class is its first line.                        *)
Heads == {h \in NewSide : edit[h].kind \in TopKinds}
Node(h) == {i \in NewSide : i >= h /\ ~\E j \in Starts(NewSide) : h < j /\ j <= i}
Part(p) ==
    {i \in NewSide : i >= p /\ ~\E j \in NewSide : /\ p < j /\ j <= i
                                                   /\ edit[j].kind # "more"}
Methods(h) == {p \in Node(h) : edit[p].kind = "method"}

(* The patch: the lines within ContextLines of a change, a header before   *)
(* each run of them, and the remark that ends a file without a newline.    *)
InPatch(i) == \E j \in Edited : i <= j + ContextLines /\ j <= i + ContextLines
HunkFrom(i) ==
    {k \in DOMAIN edit : k >= i /\ \A j \in i..k : InPatch(j)}
HunkStart(i) ==
    IF HunkFrom(i) \cap NewSide = {} THEN NewLine(i) - 1 ELSE NewLine(i)
PatchAt(i) ==
    IF ~InPatch(i) THEN <<>>
    ELSE (IF i > 1 /\ InPatch(i - 1) THEN <<>>
            ELSE << [mark |-> "@@", start |-> HunkStart(i)] >>)
         \o << [mark |-> edit[i].mark, start |-> 0] >>
         \o (IF i = Len(edit) THEN << [mark |-> "\\", start |-> 0] >> ELSE <<>>)
Patch == FlattenSeq([i \in DOMAIN edit |-> PatchAt(i)])

-----------------------------------------------------------------------------
(***************************************************************************)
(* The code.                                                               *)
(***************************************************************************)

(* The loop of parse_changed_lines over the lines of the patch. *)
ParseLineIgnoringHeader(acc, raw) ==
    CASE raw.mark = "+"  -> [line_no |-> acc.line_no + 1,
                             changed |-> acc.changed \cup {acc.line_no}]
      [] raw.mark = "-"  -> [acc EXCEPT !.changed = @ \cup {acc.line_no}]
      [] raw.mark = " "  -> [acc EXCEPT !.line_no = @ + 1]
      [] OTHER -> acc
ParseLineFirstHeaderOnly(acc, raw) ==
    CASE raw.mark = "@@" /\ acc.line_no = 0 -> [acc EXCEPT !.line_no = raw.start]
      [] raw.mark = "+"  -> [line_no |-> acc.line_no + 1,
                             changed |-> acc.changed \cup {acc.line_no}]
      [] raw.mark = "-"  -> [acc EXCEPT !.changed = @ \cup {acc.line_no}]
      [] raw.mark = " "  -> [acc EXCEPT !.line_no = @ + 1]
      [] OTHER -> acc
ParseLine(acc, raw) ==
    CASE raw.mark = "@@" -> [acc EXCEPT !.line_no = raw.start]
      [] raw.mark = "+"  -> [line_no |-> acc.line_no + 1,
                             changed |-> acc.changed \cup {acc.line_no}]
      [] raw.mark = "-"  -> [acc EXCEPT !.changed = @ \cup {acc.line_no}]
      [] raw.mark = " "  -> [acc EXCEPT !.line_no = @ + 1]
      [] OTHER -> acc
parse_changed_lines(patch) ==
    FoldLeft(ParseLine, [line_no |-> 0, changed |-> {}], patch).changed

(* touched, for a node with these lines: a changed line lies between its   *)
(* first and its last.                                                     *)
TouchedBeforeEnd(lines) ==
    \E n \in changed : NewLine(Min(lines)) <= n /\ n < NewLine(Max(lines))
Touched(lines) ==
    \E n \in changed : NewLine(Min(lines)) <= n /\ n <= NewLine(Max(lines))

(* estimate_tokens, of a text and of a list of texts. *)
Tokens(text) == Cardinality(text)
AddTokens(sum, text) == sum + Tokens(text)
TotalTokens(texts) == FoldLeft(AddTokens, 0, texts)

(* A chunk is a list of texts, or the marker of a unit that is skipped. *)
Code(texts) == [texts |-> texts, skipped |-> {}]
Skip(h) == [texts |-> <<>>, skipped |-> {h}]

Oversized(h) == Tokens(Node(h)) > MAX_CHUNK_TOKENS

(* flush and add of _chunk_changed_nodes, on the pair chunks, pending. *)
FlushKeepingTexts(out) ==
    IF out.pending = <<>> THEN out
    ELSE [out EXCEPT !.chunks = Append(@, Code(out.pending))]
Flush(out) ==
    IF out.pending = <<>> THEN out
    ELSE [chunks |-> Append(out.chunks, Code(out.pending)), pending |-> <<>>]
AddUnlimited(out, text) == [out EXCEPT !.pending = Append(@, text)]
Add(out, text) ==
    LET fits == TotalTokens(out.pending) + Tokens(text) <= MAX_CHUNK_TOKENS
        room == IF fits THEN out ELSE Flush(out)
    IN  [room EXCEPT !.pending = Append(@, text)]

Emit(out) == chunks' = out.chunks /\ pending' = out.pending
Out == [chunks |-> chunks, pending |-> pending]

(* Every node is visited in the order of the file. *)
Visit(h) == todo # {} /\ h = Min(todo) /\ todo' = todo \ {h}

(* The order of the file. *)
Ascending(S) ==
    [k \in 1..Cardinality(S) |->
       CHOOSE p \in S : Cardinality({q \in S : q < p}) = k - 1]

(* What is sent of a class of which a part is sent instead of the whole:   *)
(* the touched methods, each below the header of the class.                *)
MethodTexts(h) ==
    LET subs == Ascending({p \in Methods(h) : Touched(Part(p))})
    IN  [k \in DOMAIN subs |-> {h} \cup Part(subs[k])]

(* _chunk_changed_nodes, its loop over the top-level nodes: a touched node *)
(* is sent whole; of a class over the budget the touched methods are sent, *)
(* with the header; another unit over the budget is flagged.               *)
VisitScoped(h) ==
    /\ phase = "scoped"
    /\ Visit(h)
    /\ \/ /\ ~Touched(Node(h))
          /\ Emit(Out)
       \/ /\ Touched(Node(h)) /\ ~Oversized(h)
          /\ Emit(Add(Out, Node(h)))
       \/ /\ Touched(Node(h)) /\ Oversized(h) /\ MethodTexts(h) # <<>>
          /\ Emit(FoldLeft(Add, Out, MethodTexts(h)))
       \/ /\ Touched(Node(h)) /\ Oversized(h) /\ MethodTexts(h) = <<>>
          /\ Emit([chunks |-> Append(Flush(Out).chunks, Skip(h)),
                   pending |-> <<>>])
    /\ UNCHANGED <<edit, phase, changed>>

(* The last flush; an empty result makes _chunk_by_ast chunk the file as   *)
(* if there were no patch.                                                 *)
EndScoped ==
    /\ phase = "scoped"
    /\ todo = {}
    /\ Emit(Flush(Out))
    /\ IF Flush(Out).chunks = <<>>
         THEN phase' = "whole" /\ todo' = Heads
         ELSE phase' = "scoped_sent" /\ UNCHANGED todo
    /\ UNCHANGED <<edit, changed>>

(* _chunk_by_ast without a patch: units over the budget are split into     *)
(* methods or flagged, the others are packed in the order of the file;     *)
(* only a boundary node can close the chunk being filled.                  *)
VisitWhole(h) ==
    /\ phase = "whole"
    /\ Visit(h)
    /\ LET boundary == edit[h].kind # "statement"
           methods == Ascending(Methods(h))
           full == TotalTokens(pending) + Tokens(Node(h)) > MAX_CHUNK_TOKENS
       IN  \/ /\ boundary /\ Oversized(h) /\ methods # <<>>
              /\ chunks' = chunks \o [k \in DOMAIN methods |->
                                        Code(<< Part(methods[k]) >>)]
              /\ UNCHANGED pending
           \/ /\ boundary /\ Oversized(h) /\ methods = <<>>
              /\ chunks' = Append(chunks, Skip(h))
              /\ UNCHANGED pending
           \/ /\ boundary /\ ~Oversized(h) /\ full
              /\ chunks' = Append(chunks, Code(pending))
              /\ pending' = << Node(h) >>
           \/ /\ ~boundary \/ (~Oversized(h) /\ ~full)
              /\ pending' = Append(pending, Node(h))
              /\ UNCHANGED chunks
    /\ UNCHANGED <<edit, phase, changed>>

EndWhole ==
    /\ phase = "whole"
    /\ todo = {}
    /\ Emit(Flush(Out))
    /\ phase' = "whole_sent"
    /\ UNCHANGED <<edit, changed, todo>>

(* A tree with syntax errors is not scoped. *)
Scopable(lines, has_error) == lines # {} /\ ~has_error

(* _chunk_by_ast gets the new file, which is not empty, and its patch. *)
ChunkByAst ==
    /\ phase = "edit"
    /\ Edited # {} /\ NewSide # {}
    /\ changed' = parse_changed_lines(Patch)
    /\ \E has_error \in BOOLEAN :
         phase' = IF Scopable(changed', has_error) THEN "scoped" ELSE "whole"
    /\ todo' = Heads
    /\ UNCHANGED <<edit, chunks, pending>>

-----------------------------------------------------------------------------
(* The author of the pull request. *)
Write(m, k) ==
    /\ phase = "edit"
    /\ Len(edit) < MaxLines
    /\ m # " " => Cardinality(Edited) < MaxChanges
    /\ m # "+" => Fits(OldSide, k)
    /\ m # "-" => Fits(NewSide, k)
    /\ edit' = Append(edit, [mark |-> m, kind |-> k])
    /\ UNCHANGED <<phase, changed, todo, chunks, pending>>

Init ==
    /\ edit = <<>>
    /\ phase = "edit"
    /\ changed = {}
    /\ todo = {}
    /\ chunks = <<>>
    /\ pending = <<>>

Next ==
    \/ \E m \in {" ", "+", "-"}, k \in Kinds : Write(m, k)
    \/ ChunkByAst
    \/ \E h \in todo : VisitScoped(h) \/ VisitWhole(h)
    \/ EndScoped \/ EndWhole

Spec == Init /\ [][Next]_vars

-----------------------------------------------------------------------------
(***************************************************************************)
(* Properties.                                                             *)
(***************************************************************************)
TypeOK ==
    /\ edit \in Seq([mark : {" ", "+", "-"}, kind : Kinds])
    /\ phase \in {"edit", "scoped", "whole", "scoped_sent", "whole_sent"}
    /\ changed \subseteq 1..MaxLines + 1
    /\ todo \subseteq Heads
    /\ chunks \in Seq([texts : Seq(SUBSET NewSide), skipped : SUBSET Heads])
    /\ pending \in Seq(SUBSET NewSide)

(* What the hunks of the patch tell parse_changed_lines is what the edit   *)
(* did: exactly the added lines and, for each removed line, the line that  *)
(* follows it in the new file, however the changes fall into hunks.  (An   *)
(* emptied file has no lines to speak of and is not chunked.)              *)
HunksPlaceEdits ==
    phase # "edit" => changed = {NewLine(i) : i \in Edited}

(* The texts that were sent, and the units flagged as too large. *)
Sent == FlattenSeq([k \in DOMAIN chunks |-> chunks[k].texts])
Shown == UNION {Sent[k] : k \in DOMAIN Sent}
Flagged == UNION {chunks[k].skipped : k \in DOMAIN chunks}

(* Scoping, told from the edit instead of the patch and without the loop:  *)
(* the agents get each top-level node in which the edit changed something, *)
(* or its changed methods if it is a class over the budget, once each, and *)
(* nothing else.                                                           *)
Meets(lines) ==
    \E i \in Edited : \E j \in lines : NewLine(i) = NewLine(j)
ScopeExact ==
    phase = "scoped_sent" =>
      LET met == {h \in Heads : Meets(Node(h))}
          split == {h \in met : Oversized(h) /\ \E p \in Methods(h) : Meets(Part(p))}
          whole == {h \in met : ~Oversized(h)}
          texts == {Node(h) : h \in whole} \cup
                   UNION {{{h} \cup Part(p) : p \in {q \in Methods(h) : Meets(Part(q))}} :
                            h \in split}
      IN  /\ {Sent[k] : k \in DOMAIN Sent} = texts
          /\ Len(Sent) = Cardinality(texts)
          /\ Flagged = met \ (whole \cup split)

(* Packing: a chunk of the scoped kind with more than one text is within   *)
(* the budget, and no chunk starts with a text for which the chunk before  *)
(* it had room, since every chunk costs a call with prompts of its own.    *)
PackedToBudget ==
    phase = "scoped_sent" =>
      \A k \in DOMAIN chunks :
        LET texts == chunks[k].texts
        IN  /\ Len(texts) <= 1 \/ TotalTokens(texts) <= MAX_CHUNK_TOKENS
            /\ k > 1 /\ texts # <<>> /\ chunks[k - 1].texts # <<>> =>
                 TotalTokens(chunks[k - 1].texts) + Tokens(texts[1])
                   > MAX_CHUNK_TOKENS

(* Whether scoped or not, an added line of a node is shown to the agents   *)
(* or its unit is flagged, with one exception: of a class over the budget  *)
(* that is split into methods, what lies outside the methods is lost.      *)
AddedIsSeen ==
    phase \in {"scoped_sent", "whole_sent"} =>
      \A h \in Heads : \A i \in Node(h) \cap Edited :
        \/ i \in Shown
        \/ h \in Flagged
        \/ /\ Oversized(h) /\ Methods(h) # {}
           /\ \A p \in Methods(h) : i \notin Part(p)

(* Removing a line selects the node that it was removed from, if the node  *)
(* is still there.                                                         *)
RemovalSelectsNode ==
    phase = "scoped_sent" =>
      \A i \in DOMAIN edit, h \in Heads \cap OldSide :
        /\ edit[i].mark = "-"
        /\ h < i /\ ~\E j \in Starts(OldSide) : h < j /\ j <= i
        => h \in Shown \cup Flagged
=============================================================================
