------------------------------ MODULE Thinking ------------------------------
(* One question put to the thinking engine (thinking/reasoning.go, think):   *)
(* the functional state of the question, the candidate interpretations, what *)
(* is preserved of them before one is selected, its projection for the HFCC  *)
(* consumer with the audit of both boundaries, and the verdict on the claim  *)
(* the question makes.  Maps are read in any order, as Go reads them.        *)
(* Activations and scores are reals in the code: here they leave open which  *)
(* weak seed is tried and which candidate wins.  Strengths are hundredths.   *)
EXTENDS Integers, Sequences, FiniteSets, SequencesExt

CONSTANTS
    TNode,       \* neurons
    TBrain,      \* synapse lists: functions from pairs of neurons to sequences
                 \* of [kind, inh], the oldest synapse first
    TQuestion,   \* questions: the neurons their words name, in order, and the
                 \* neurons of the conversation they are put in
    MaxPaths     \* maxEvidencePaths: 8

ASSUME TAssumption ==
    /\ IsFiniteSet(TNode) /\ MaxPaths \in Nat \ {0}
    /\ TQuestion \subseteq [words : Seq(TNode), context : SUBSET TNode]
    /\ \A brain \in TBrain : \A p \in TNode \X TNode :
          brain[p] \in Seq([kind : STRING, inh : BOOLEAN])

VARIABLES
    tBrain, tQuestion,
    tStage,        \* "asked", "stated", "preserved", "projected" or "decided"
    tState,        \* FunctionalState
    tCandidates,   \* the interpretations, ranked
    tPreserved,    \* the inventory kept when a candidate is selected
    tHFCC,         \* the candidate set of the consumer, with its mappings
    tForeign,      \* it was not built by the adapter from tPreserved
    tPass,         \* the reports of the two audits
    tClaim, tVerdict

tVars == <<tBrain, tQuestion, tStage, tState, tCandidates, tPreserved, tHFCC,
           tForeign, tPass, tClaim, tVerdict>>

(* Strengths of a stored relation, of a derived capability, of a capability  *)
(* only other knowledge suggests and of one nothing suggests, and the margin *)
(* within which two strengths are the same.                                  *)
Stored == 81
Derived == 90
Suggested == 35
Bare == 25
Margin == 5

NoState == [requested |-> <<>>, facts |-> <<>>, describe |-> FALSE,
            paths |-> {}, constraints |-> {}]
NoHFCC  == [structure |-> <<>>, evidence |-> <<>>, mappings |-> <<>>]
NoClaim == [from |-> 0, kind |-> "none", to |-> 0, strength |-> 0, requested |-> FALSE]

TInit ==
    /\ tBrain \in TBrain /\ tQuestion \in TQuestion /\ tStage = "asked"
    /\ tState = NoState /\ tCandidates = <<>> /\ tPreserved = {} /\ tHFCC = NoHFCC
    /\ tForeign = FALSE /\ tPass = <<TRUE, TRUE>>
    /\ tClaim = NoClaim /\ tVerdict = "none"
-----------------------------------------------------------------------------
(* Synapses                                                                  *)
Typed(s) == s.kind \notin {"association", "affix"}
Edge(n, m, s) == [from |-> n, to |-> m, kind |-> s.kind, inh |-> s.inh]
Outbound(n) ==
    UNION {{Edge(n, m, s) : s \in ToSet(tBrain[<<n, m>>])} : m \in TNode}
Excited(n) == {e \in Outbound(n) : ~e.inh}

Asked == ToSet(tQuestion.words)

(* The context anchors the neighbourhood and the focus like the words do, and *)
(* is no part of what is asked.                                              *)
Seeds == Asked \cup tQuestion.context

(* Two hops from the anchors in either direction; between two neurons only   *)
(* the oldest synapse is seen (BuildSemanticNeighborhood).                   *)
Touching(S) ==
    S \cup {n \in TNode : \E m \in S : tBrain[<<n, m>>] # <<>> \/ tBrain[<<m, n>>] # <<>>}
Nearby == Touching(Touching(Seeds))
Active ==
    {Edge(p[1], p[2], Head(tBrain[p])) :
        p \in {q \in Nearby \X Nearby : tBrain[q] # <<>>}}

(* hasInboundCapabilityRole *)
Capability(n) ==
    \E m \in TNode : /\ tBrain[<<m, n>>] # <<>>
                     /\ Head(tBrain[<<m, n>>]).kind \in {"function", "can_do"}

TypedOut(n) == Cardinality({e \in Outbound(n) : Typed(e)})
LooseOut(n) == Cardinality({e \in Excited(n) : ~Typed(e)})
Endpoint(n) ==
    \E e \in Active : /\ ~e.inh /\ Typed(e) /\ n \in {e.from, e.to}
                      /\ {e.from, e.to} \cap Asked # {}

(* Words with a structural role; the others frame the question.              *)
Content ==
    {n \in Asked : TypedOut(n) > 0 \/ Endpoint(n) \/ (LooseOut(n) = 0 /\ Capability(n))}
-----------------------------------------------------------------------------
(* BuildFunctionalState                                                      *)
Proposition(a, kind, b, strength, requested) ==
    [from |-> a, kind |-> kind, to |-> b, strength |-> strength, requested |-> requested]
SameClaim(p, q) == p.from = q.from /\ p.kind = q.kind /\ p.to = q.to

(* addReq *)
AddRequest(ps, p) ==
    IF ~Typed(p) \/ \E i \in DOMAIN ps : SameClaim(ps[i], p) THEN ps ELSE Append(ps, p)

PartWithFunction(a, b) ==
    \E m \in TNode : /\ [kind |-> "has", inh |-> FALSE] \in ToSet(tBrain[<<a, m>>])
                     /\ [kind |-> "function", inh |-> FALSE] \in ToSet(tBrain[<<m, b>>])

(* The relation a question about a and b asks for; none or one. *)
InferRequestedRelation(a, b) ==
    LET stored == SelectSeq(tBrain[<<a, b>>], LAMBDA s : ~s.inh /\ Typed(s)) IN
    IF stored # <<>> THEN <<Proposition(a, Head(stored).kind, b, Stored, TRUE)>>
    ELSE IF PartWithFunction(a, b) THEN <<Proposition(a, "can_do", b, Derived, TRUE)>>
    ELSE IF Capability(b) /\ \E e \in Excited(a) : Typed(e)
         THEN <<Proposition(a, "can_do", b, Suggested, TRUE)>>
    ELSE <<>>

(* The claims of an agent about the remaining words. *)
Evaluated(primary, n) ==
    IF n = primary \/ LooseOut(n) >= 2
       \/ Cardinality({e \in Excited(n) : Typed(e)}) > TypedOut(primary)
    THEN <<>>
    ELSE LET inferred == InferRequestedRelation(primary, n) IN
         IF inferred = <<>> /\ Excited(n) = {}
         THEN <<Proposition(primary, "can_do", n, Bare, TRUE)>> ELSE inferred

LinksAmong(S, T) == UNION {{e \in Excited(n) : e.to \in T} : n \in S}
Claims(edges) ==
    [i \in DOMAIN edges |->
        Proposition(edges[i].from, edges[i].kind, edges[i].to, Stored, TRUE)]

(* Stored relations between the words, active ones first; then pairs of      *)
(* content words; then the primary word against the rest of the question.    *)
Requested(seen, other, content, framing, primary) ==
    LET pairs == FlattenSeq([i \in DOMAIN content |->
                    FlattenSeq([j \in DOMAIN content |->
                        IF i # j /\ TypedOut(content[i]) >= TypedOut(content[j])
                        THEN InferRequestedRelation(content[i], content[j]) ELSE <<>>])])
        rest == framing \o content
        evaluated == IF primary = 0 \/ framing = <<>> THEN <<>>
                     ELSE FlattenSeq([i \in DOMAIN rest |-> Evaluated(primary, rest[i])])
    IN FoldLeft(AddRequest, <<>>, Claims(seen) \o Claims(other) \o pairs \o evaluated)

(* primaryContent: the richest word; activations break ties.                 *)
Primary ==
    IF Content = {} THEN {0}
    ELSE {n \in Content : \A m \in Content : TypedOut(n) >= TypedOut(m)}

Facts(primary, requested) ==
    IF primary = 0 THEN {}
    ELSE {Proposition(primary, e.kind, e.to, Stored, FALSE) :
            e \in {x \in Excited(primary) :
                    /\ Typed(x)
                    /\ \A i \in DOMAIN requested : ~SameClaim(requested[i], x)}}

(* The paths of evidence: excitatory edges, and typed pairs of them.         *)
Direct(a, b, edges) ==
    {[nodes |-> <<a, b>>, kinds |-> <<e.kind>>] :
        e \in {x \in edges : ~x.inh /\ x.from = a /\ x.to = b}}
TwoSteps(a, b, edges) ==
    LET near == {e \in edges : ~e.inh /\ Typed(e)} IN
    {[nodes |-> <<a, p[1].to, b>>, kinds |-> <<p[1].kind, p[2].kind>>] :
        p \in {q \in near \X near :
                /\ q[1].from = a /\ q[1].to # b
                /\ q[2].from = q[1].to /\ q[2].to = b}}

(* findEvidencePathsFromActive: the search stops at the derived path that    *)
(* makes MaxPaths, and which ones come before it is left open.               *)
EvidencePaths(a, b, edges) ==
    LET direct == Direct(a, b, edges)
        ways   == TwoSteps(a, b, edges)
        room   == IF Cardinality(direct) < MaxPaths THEN MaxPaths - Cardinality(direct) ELSE 1
        size   == IF Cardinality(ways) < room THEN Cardinality(ways) ELSE room
    IN {direct \cup kept : kept \in kSubset(size, ways)}

(* What is gathered for the state: no further request is searched once there *)
(* are MaxPaths paths, and every capability among the facts is.              *)
WaysOf(a, b, paths) == {p \in paths : Head(p.nodes) = a /\ Last(p.nodes) = b}
Gathered(requested, facts, found) ==
    LET of(p)   == WaysOf(p.from, p.to, found)
        open(i) == Cardinality({q \in (1 .. i - 1) \X found : q[2] \in of(requested[q[1]])})
                       < MaxPaths
    IN UNION ({of(requested[i]) : i \in {j \in DOMAIN requested : open(j)}} \cup
              {of(f) : f \in facts})

(* constraintsFromFunctionalStructure *)
Constraints ==
    {e.to : e \in {x \in UNION {Outbound(n) : n \in Asked} :
                    x.to \in Asked /\ x.kind \in {"contrast", "condition"}}}

BuildFunctionalState ==
    /\ tStage = "asked" /\ tStage' = "stated"
    /\ LET links == LinksAmong(Content, Asked) IN
       \E seen \in SetToSeqs(links \cap Active), other \in SetToSeqs(links \ Active),
          content \in SetToSeqs(Content), framing \in SetToSeqs(Asked \ Content),
          primary \in Primary :
          LET requested == Requested(seen, other, content, framing, primary) IN
          \E facts \in SetToSeqs(Facts(primary, requested)) :
             LET able == {f \in ToSet(facts) : f.kind = "can_do"}
                 searched == ToSet(requested) \cup able
             IN
             \E found \in SUBSET UNION {UNION EvidencePaths(p.from, p.to, Active) : p \in searched} :
                /\ \A p \in searched :
                      WaysOf(p.from, p.to, found) \in EvidencePaths(p.from, p.to, Active)
                /\ tState' =
                     [requested   |-> requested, facts |-> facts,
                      describe    |-> Len(content) = 1 /\ requested = <<>>,
                      paths       |-> Gathered(requested, able, found),
                      constraints |-> Constraints]
    /\ UNCHANGED <<tBrain, tQuestion, tCandidates, tPreserved, tHFCC, tForeign, tPass,
                   tClaim, tVerdict>>
-----------------------------------------------------------------------------
(* BuildInterpretations                                                      *)
(* selectFocusSeeds, without the activation that adds up to ten hundredths.  *)
SeedScore(n) ==
    LET typed   == {e \in Active : e.from = n /\ ~e.inh /\ Typed(e)}
        between == {e \in Active : ~e.inh /\ Typed(e) /\ {e.from, e.to} \subseteq Seeds}
        source  == \E e \in between : e.from = n
        target  == \E e \in between : e.to = n
        kinds   == 20 * Cardinality({e.kind : e \in typed})
        hub     == Cardinality({e \in Active : e.from = n /\ ~e.inh /\ ~Typed(e)}) >= 3
    IN (IF n \notin Seeds THEN (2 * kinds) \div 5
        ELSE IF ~source /\ ~target
        THEN kinds + 5 - (IF Cardinality({e \in typed : e.to \notin Seeds}) >= 2 THEN 35 ELSE 0)
        ELSE kinds + (IF source THEN 120 ELSE 0) + (IF target THEN 60 ELSE 0))
       - (IF hub /\ typed = {} THEN 40 ELSE 0)

SeedSets ==
    LET sure == {n \in Nearby : SeedScore(n) > 0}
        weak == {n \in Nearby : SeedScore(n) \in -9 .. 0}
        sets == {sure \cup w : w \in SUBSET weak}
    IN IF {} \in sets THEN (sets \ {{}}) \cup {{n} : n \in Nearby} ELSE sets

(* buildFocusAnchored, one of its three rounds; a bridge back is looked for  *)
(* once the round has reached all its nodes.                                 *)
Grow(c, reverse) ==
    LET out  == {e \in Active : e.from \in c.frontier}
        seen == c.nodes \cup {e.to : e \in {x \in out : ~x.inh}}
        back == {e \in Active :
                    /\ reverse /\ e.to \in c.frontier
                    /\ \/ e.from \in seen
                       \/ \E f \in Active : f.from = e.from /\ f.to \in seen \ {e.to}}
        all  == seen \cup {e.from : e \in back}
    IN [nodes |-> all, relations |-> c.relations \cup out \cup back,
        frontier |-> all \ c.nodes]
Seeded(n) == [nodes |-> {n}, relations |-> {}, frontier |-> {n}]
Anchored(n, reverse) == Grow(Grow(Grow(Seeded(n), reverse), reverse), reverse)

Interpretation(c) == [nodes |-> c.nodes, relations |-> c.relations]
BuildInterpretations(seeds) ==
    {Interpretation(Anchored(n, r)) : n \in seeds, r \in BOOLEAN} \cup
    {[nodes |-> Nearby, relations |-> Active]}

Ranked(candidates) == FoldSet(LAMBDA c, ranked : Append(ranked, c), <<>>, candidates)

(* preferredRequestedProps *)
Preferred(ps) ==
    LET able   == SelectSeq(ps, LAMBDA p : p.kind = "can_do")
        best   == {p.strength : p \in ToSet(able)}
        strong == SelectSeq(able, LAMBDA p : \/ p.strength >= 50
                                             \/ \A s \in best : p.strength >= s - Margin)
    IN IF able = <<>> THEN ps
       ELSE strong \o SelectSeq(ps, LAMBDA p : p.kind # "can_do")

(* ApplyFunctionalStateToInterpretation *)
Propositions ==
    IF tState.requested # <<>> THEN Preferred(tState.requested)
    ELSE IF tState.describe THEN tState.facts ELSE Preferred(tState.facts)
-----------------------------------------------------------------------------
(* The inventory of what was formed.  An item belongs to a candidate, or to  *)
(* the whole observation (0); words and neurons name participants.           *)
Word(n) == <<"word", n>>
Node(n) == <<"node", n>>
Item(kind, cand, rel, parts, inh) ==
    [kind |-> kind, cand |-> cand, rel |-> rel, parts |-> parts, inh |-> inh]

NoRelation == ""

(* BuildCandidateFormationState *)
Formation(candidates) ==
    {Item(k, 0, NoRelation, <<Word(n)>>, FALSE) : k \in {"evidence", "entity"}, n \in Asked} \cup
    UNION {{Item("relation", i, p.kind, <<Word(p.from), Word(p.to)>>, FALSE) :
                p \in ToSet(Propositions)} \cup
           {Item("relation", i, e.kind, <<Node(e.from), Node(e.to)>>, e.inh) :
                e \in candidates[i].relations} \cup
           {Item("structural", i, NoRelation, <<Word(n)>>, FALSE) : n \in tState.constraints} \cup
           {Item("runtime", i, NoRelation, <<>>, FALSE)} : i \in DOMAIN candidates}

(* PreserveCandidateState *)
Preserve(inventory) == {it \in inventory : it.kind # "runtime"}

(* AuditPreservationIID; nothing is relocated. *)
AuditPreservation(before, after) ==
    \A it \in before : it.kind = "runtime" \/ it \in after

Interpret ==
    /\ tStage = "stated" /\ tStage' = "preserved"
    /\ \E seeds \in SeedSets :
          LET candidates == Ranked(BuildInterpretations(seeds)) IN
          /\ tCandidates' = candidates
          /\ tPreserved' = Preserve(Formation(candidates))
          /\ tPass' = <<AuditPreservation(Formation(candidates),
                                          Preserve(Formation(candidates))), TRUE>>
    /\ UNCHANGED <<tBrain, tQuestion, tState, tHFCC, tForeign, tClaim, tVerdict>>
-----------------------------------------------------------------------------
(* The projection for HFCC: per candidate a structure of children and its    *)
(* evidence, and for every digest the address of the child it became; an     *)
(* address is here the item the child was built from.                        *)
(* fingerprintIID *)
Digest(it) == it

TargetKind(it) ==
    CASE it.kind = "relation" -> "RELATION_NODE" [] it.kind = "entity" -> "ENTITY_NODE"
      [] it.kind = "structural" -> "STRUCTURAL_NODE" [] it.kind = "evidence" -> "EVIDENCE_REF"
Child(it) ==
    [kind |-> CASE it.kind = "relation" -> it.rel [] it.kind = "entity" -> "ENTITY"
                [] it.kind = "structural" -> "constraint_attachment",
     parts |-> it.parts, inh |-> it.inh]

Children(i) == {it \in tPreserved : it.kind # "evidence" /\ it.cand \in {0, i}}

(* BuildHFCCFromPreservedWithMappings: a later mapping of a digest wins.     *)
Project ==
    LET n    == Len(tCandidates)
        last(d) == CHOOSE it \in tPreserved :
                       /\ Digest(it) = d
                       /\ \A x \in tPreserved : Digest(x) = d => x.cand <= it.cand
        home(it) == IF it.cand = 0 THEN n ELSE it.cand
    IN [structure |-> [i \in 1 .. n |-> [it \in Children(i) |-> Child(it)]],
        evidence  |-> [i \in 1 .. n |->
                          {Digest(it) : it \in {x \in tPreserved : x.kind = "evidence"}}],
        mappings  |-> [d \in {Digest(it) : it \in tPreserved} |->
            [cand |-> home(last(d)), kind |-> TargetKind(last(d)),
             at   |-> last(d)]]]

(* Mutant: the participants are not compared. *)
RepresentsKind(it, child) ==
    /\ child.kind = Child(it).kind
    /\ it.inh => child.inh

(* A child says what the item says; only a lost polarity is looked for.      *)
Represents(it, child) ==
    /\ child.kind = Child(it).kind
    /\ child.parts = it.parts
    /\ it.inh => child.inh

(* VerifyProjection *)
VerifyProjection(it, m, hfcc) ==
    /\ it.cand # 0 => it.cand = m.cand
    /\ m.cand \in DOMAIN hfcc.structure
    /\ m.kind = TargetKind(it)
    /\ IF it.kind = "evidence" THEN Digest(it) \in hfcc.evidence[m.cand]
       ELSE /\ m.at \in DOMAIN hfcc.structure[m.cand]
            /\ Represents(it, hfcc.structure[m.cand][m.at])

(* AuditHFCCConsumerWithMappings *)
AuditConsumer(hfcc) ==
    /\ DOMAIN tCandidates \subseteq DOMAIN hfcc.structure
    /\ \A it \in tPreserved :
          /\ Digest(it) \in DOMAIN hfcc.mappings
          /\ VerifyProjection(it, hfcc.mappings[Digest(it)], hfcc)

ProjectAndAudit ==
    /\ tStage = "preserved" /\ tStage' = "projected"
    /\ tHFCC' = Project /\ tForeign' = FALSE
    /\ tPass' = <<tPass[1], AuditConsumer(tHFCC')>>
    /\ UNCHANGED <<tBrain, tQuestion, tState, tCandidates, tPreserved, tClaim, tVerdict>>

(* The consumer may also be given a candidate set it did not build: one with *)
(* a child lost, turned round, renamed or stripped of its polarity, with an  *)
(* address lost or moved, with evidence lost or without a candidate.         *)
Faulty(h, i, k) ==
    {[h EXCEPT !.structure[i] = [x \in DOMAIN @ \ {k} |-> @[x]]],
     [h EXCEPT !.structure[i][k].parts = Reverse(@)],
     [h EXCEPT !.structure[i][k].kind = "ENTITY"],
     [h EXCEPT !.structure[i][k].inh = FALSE],
     [h EXCEPT !.structure = [j \in DOMAIN @ \ {i} |-> @[j]]],
     [h EXCEPT !.evidence[i] = {}]}
Misled(h, d) ==
    {[h EXCEPT !.mappings = [x \in DOMAIN @ \ {d} |-> @[x]]],
     [h EXCEPT !.mappings[d].at = CHOOSE x \in DOMAIN h.mappings : x # @]} \cup
    {[h EXCEPT !.mappings[d].cand = i] : i \in DOMAIN h.structure}

AuditForeign ==
    /\ tStage = "projected" /\ ~tForeign
    /\ \E i \in DOMAIN tHFCC.structure :
          \/ \E k \in DOMAIN tHFCC.structure[i] : tHFCC' \in Faulty(tHFCC, i, k)
          \/ \E d \in DOMAIN tHFCC.mappings : tHFCC' \in Misled(tHFCC, d)
    /\ tForeign' = TRUE
    /\ tPass' = <<tPass[1], AuditConsumer(tHFCC')>>
    /\ UNCHANGED <<tBrain, tQuestion, tStage, tState, tCandidates, tPreserved, tClaim,
                   tVerdict>>
-----------------------------------------------------------------------------
(* DecideEvaluation                                                          *)
Position(n) == IF n \in Asked THEN CHOOSE i \in DOMAIN tQuestion.words :
                   /\ tQuestion.words[i] = n /\ \A j \in 1 .. i - 1 : tQuestion.words[j] # n
               ELSE 1

(* One comparison of selectPrimaryRequested: capabilities first, then        *)
(* strength beyond the margin, then the object named later.                  *)
Prefer(best, p) ==
    IF (p.kind = "can_do") # (best.kind = "can_do")
    THEN IF p.kind = "can_do" THEN p ELSE best
    ELSE IF p.strength > best.strength + Margin THEN p
    ELSE IF best.strength > p.strength + Margin THEN best
    ELSE IF Position(p.to) > Position(best.to) THEN p ELSE best

SelectPrimaryRequested ==
    LET asked == SelectSeq(Propositions, LAMBDA p : p.requested) \o tState.requested IN
    IF asked # <<>> THEN FoldLeft(Prefer, Head(asked), Tail(asked))
    ELSE IF Propositions # <<>> THEN Head(Propositions) ELSE NoClaim

(* judgePathAgainstProposition *)
Supports(claim, path) ==
    /\ Head(path.nodes) = claim.from /\ Last(path.nodes) = claim.to
    /\ IF Len(path.kinds) = 1 THEN path.kinds[1] = claim.kind ELSE claim.kind = "can_do"

(* A constraint on the way contradicts the claim the way leads to.           *)
Blocked(claim, path, constraints) ==
    /\ Len(path.nodes) = 3 /\ path.nodes[1] = claim.from /\ path.nodes[3] = claim.to
    /\ path.nodes[2] \in constraints

(* Mutant: an inhibitory synapse is not asked for. *)
IgnoreInhibition(claim) == FALSE

Inhibited(claim) == \E s \in ToSet(tBrain[<<claim.from, claim.to>>]) : s.inh

Stated(claim) == [kind |-> claim.kind, inh |-> FALSE] \in ToSet(tBrain[<<claim.from, claim.to>>])

(* EvaluateEvidenceForProposition and the verdict it leads to. *)
Verdict(claim, paths, constraints) ==
    LET support == Stated(claim) \/ \E p \in paths : Supports(claim, p)
        against == Inhibited(claim) \/ \E p \in paths : Blocked(claim, p, constraints)
    IN CASE support /\ ~against -> "SUPPORTED" [] against /\ ~support -> "CONTRADICTED"
         [] support /\ against -> "CONFLICTED" [] OTHER -> "UNKNOWN"

(* scoreInterpretation: the score is a real of structure and activation, so  *)
(* any candidate may be the one SelectBestInterpretation takes.              *)
Best == ToSet(tCandidates)

DecideEvaluation ==
    /\ tStage = "projected" /\ ~tForeign /\ tStage' = "decided"
    /\ \E best \in Best :
          LET claim == SelectPrimaryRequested IN
          \E found \in EvidencePaths(claim.from, claim.to, best.relations) :
             /\ tClaim' = claim
             /\ tVerdict' =
                   IF claim = NoClaim THEN "UNKNOWN"
                   ELSE Verdict(claim, tState.paths \cup found, tState.constraints)
    /\ UNCHANGED <<tBrain, tQuestion, tState, tCandidates, tPreserved, tHFCC, tForeign, tPass>>

TNext ==
    \/ BuildFunctionalState \/ Interpret \/ ProjectAndAudit \/ AuditForeign
    \/ DecideEvaluation

TSpec == TInit /\ [][TNext]_tVars
-----------------------------------------------------------------------------
(* What the audits accept is still there: nothing preserved is missing from  *)
(* a candidate set the audit passes, up to a polarity added to an excitatory *)
(* claim, whoever built the set; and the adapter's own always passes         *)
(* (VerifyProjection: the mapping is an address only, content must match).   *)
Represented(it) ==
    \E i \in DOMAIN tHFCC.structure :
        /\ it.cand \in {0, i}
        /\ IF it.kind = "evidence" THEN it \in tHFCC.evidence[i]
           ELSE \E k \in DOMAIN tHFCC.structure[i] :
                   LET child == tHFCC.structure[i][k] IN
                   /\ child.kind = Child(it).kind /\ child.parts = it.parts
                   /\ it.inh => child.inh
PreservationSound ==
    tStage = "projected" =>
        /\ ~tForeign => tPass = <<TRUE, TRUE>>
        /\ tPass[2] => \A it \in tPreserved : Represented(it)

(* The verdict is about the claim alone: it is SUPPORTED only if memory      *)
(* states the claim or leads to it in two typed steps no constraint of the   *)
(* question blocks, and never against an inhibitory synapse; what memory     *)
(* states of the claim is never UNKNOWN (the epistemic tests, "WALK must not *)
(* support FLY").                                                            *)
Leads(claim) ==
    {m \in TNode : \A p \in {<<claim.from, m>>, <<m, claim.to>>} :
                      \E s \in ToSet(tBrain[p]) : ~s.inh /\ Typed(s)}
VerdictGrounded ==
    tStage = "decided" /\ tClaim # NoClaim =>
        LET synapses == ToSet(tBrain[<<tClaim.from, tClaim.to>>])
            stated   == [kind |-> tClaim.kind, inh |-> FALSE] \in synapses
            denied   == \E s \in synapses : s.inh
        IN /\ tVerdict = "SUPPORTED" =>
                /\ ~denied
                /\ stated \/ (tClaim.kind = "can_do" /\ Leads(tClaim) \ tState.constraints # {})
           /\ tVerdict = "CONTRADICTED" => ~stated
           /\ tVerdict = "UNKNOWN" => ~stated /\ ~denied
=============================================================================
