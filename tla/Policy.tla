------------------------------- MODULE Policy -------------------------------
(***************************************************************************)
(* Which policy governs a change (control-plane, internal/policy): glob    *)
(* matching, scope selectors and Resolve, with the two compiled-in packs.  *)
(*                                                                         *)
(* A path, a repo or an actor is the tuple of its "/"-separated segments,  *)
(* and a segment a tuple of tokens, a literal or "*"; <<<<>>>> is the      *)
(* empty string.  The planner and the repair gate carry a copy of the same *)
(* matcher.                                                                *)
(***************************************************************************)
EXTENDS Naturals, Sequences, FiniteSets

RiskClasses == {"low", "medium", "high", "critical"}
Texts == Seq(Seq(STRING))
EmptyText == << <<>> >>
DoubleStar == <<"*", "*">>

\* Mutant: a failed match behind a star is not retried one token further on.
MatchOneSegmentGreedy(p, s) ==
    LET Walk[pi \in 1..(Len(p) + 1), si \in 1..(Len(s) + 1)] ==
            IF si > Len(s) THEN \A k \in pi..Len(p) : p[k] = "*"
            ELSE IF pi <= Len(p) /\ p[pi] = "*" THEN pi = Len(p) \/ Walk[pi + 1, si + 1]
            ELSE pi <= Len(p) /\ p[pi] = s[si] /\ Walk[pi + 1, si + 1]
    IN  Walk[1, 1]

\* matchOneSegment: two pointers, and the last star seen with the place it
\* was tried from.  A literal match is tried before the star.
MatchOneSegment(p, s) ==
    LET Walk[w \in Nat \X Nat \X Nat \X Nat] ==
            LET pi   == w[1]
                si   == w[2]
                star == w[3]
                mark == w[4]
            IN  IF si > Len(s) THEN \A k \in pi..Len(p) : p[k] = "*"
                ELSE IF pi <= Len(p) /\ p[pi] = s[si] THEN Walk[<<pi + 1, si + 1, star, mark>>]
                ELSE IF pi <= Len(p) /\ p[pi] = "*" THEN Walk[<<pi + 1, si, pi, si>>]
                ELSE star # 0 /\ Walk[<<star + 1, mark + 1, star, mark + 1>>]
    IN  Walk[<<1, 1, 0, 1>>]

\* matchSegments: a trailing "**" takes all that is left, an inner one is
\* tried with every suffix.  Rest[<<i, j>>] matches pat from i on with seg
\* from j on.
MatchSegments(pat, seg) ==
    LET Rest[w \in (1..(Len(pat) + 1)) \X (1..(Len(seg) + 1))] ==
            IF w[1] > Len(pat) THEN w[2] > Len(seg)
            ELSE IF pat[w[1]] = DoubleStar
                 THEN w[1] = Len(pat) \/ \E k \in w[2]..(Len(seg) + 1) : Rest[<<w[1] + 1, k>>]
            ELSE /\ w[2] <= Len(seg) /\ MatchOneSegment(pat[w[1]], seg[w[2]])
                 /\ Rest[<<w[1] + 1, w[2] + 1>>]
    IN  Rest[<<1, 1>>]

MatchGlob(pattern, name) ==
    IF pattern = EmptyText THEN name = EmptyText ELSE MatchSegments(pattern, name)

MatchAnyGlob(patterns, value) == \E p \in patterns : MatchGlob(p, value)

----------------------------------------------------------------------------
(***************************************************************************)
(* Resolution.  A pack is a PolicyRecord with the parts of its body that a *)
(* rule reads; its id is its place in the lexicographic order of ids, 0    *)
(* the empty id.  A subject is [repo, paths, risk, actor].                 *)
(***************************************************************************)

Patterns(sel) == sel.repos \cup sel.paths \cup sel.agents \cup sel.exclude

\* matchSpecificity: every selector that is present must match ...
Selects(sel, s) ==
    /\ sel.repos # {} => MatchAnyGlob(sel.repos, s.repo)
    /\ sel.paths # {} => \E p \in s.paths : MatchAnyGlob(sel.paths, p)
    /\ sel.risks # {} => s.risk \in sel.risks
    /\ sel.agents # {} => MatchAnyGlob(sel.agents, s.actor)
    /\ sel.exclude # {} => ~MatchAnyGlob(sel.exclude, s.actor)

\* ... and paths rank above repos, repos above the wildcard.
Specificity(sel) == IF sel.paths # {} THEN 4 ELSE IF sel.repos # {} THEN 2 ELSE 0

Better(a, b) ==
    IF Specificity(a.scope) # Specificity(b.scope)
    THEN Specificity(a.scope) > Specificity(b.scope)
    ELSE IF a.version # b.version THEN a.version > b.version
    ELSE a.id > b.id

\* The records the scan of Resolve does not skip.
Applies(rec, s) == rec.status = "active" /\ rec.id # 0 /\ rec.version > 0 /\ Selects(rec.scope, s)

\* Resolve: the index of the winning record, 0 for ErrNoActivePolicy.
Resolve(s, recs) ==
    LET Best[i \in 0..Len(recs)] ==
            IF i = 0 THEN 0
            ELSE IF Applies(recs[i], s) /\ (Best[i - 1] = 0 \/ Better(recs[i], recs[Best[i - 1]]))
                 THEN i ELSE Best[i - 1]
    IN  Best[Len(recs)]

----------------------------------------------------------------------------
(***************************************************************************)
(* The compiled-in packs.                                                  *)
(***************************************************************************)

RequiredEvidenceByRisk ==
    [low      |-> {"hermetic_build", "selected_unit"},
     medium   |-> {"hermetic_build", "selected_unit", "api_compat"},
     high     |-> {"hermetic_build", "api_compat", "payment_contract", "idempotency_race",
                   "sast_diff"},
     critical |-> {"hermetic_build", "api_compat", "full_integration", "human_approval"}]

AnyScope == [repos |-> {}, paths |-> {}, risks |-> {}, agents |-> {}, exclude |-> {}]

\* The wildcard pack.  Confidences are in hundredths.
CatchAllPolicyPack ==
    [id |-> 1, version |-> 1, status |-> "active", scope |-> AnyScope,
     required |-> RequiredEvidenceByRisk,
     tier3 |-> {"high", "critical"}, minConfidence |-> 98,
     protected |-> { << <<"auth">>, DoubleStar >>, << <<"migrations">>, DoubleStar >>,
                     << <<"infrastructure">>, <<"prod">>, DoubleStar >> },
     level |-> 3,
     repairClasses |-> {"compile_regression", "merge_conflict", "functional_regression"},
     repairAttempts |-> 2]

\* The payments pack of the domain draft.
DefaultPolicyPack ==
    [CatchAllPolicyPack EXCEPT
        !.id = 2, !.version = 4,
        !.scope = [repos   |-> { << <<"acme">>, <<"payments">> >> },
                   paths   |-> { << <<"services">>, <<"checkout">>, DoubleStar >>,
                                 << <<"libs">>, <<"idempotency">>, DoubleStar >> },
                   risks   |-> {"high", "critical"},
                   agents  |-> { << <<"agent:", "*">> >> },
                   exclude |-> { << <<"agent:", "docs-writer">> >> }]]

DefaultRegistry == << CatchAllPolicyPack, DefaultPolicyPack >>
=============================================================================
