-------------------------------- MODULE FindingRisk --------------------------------
(***************************************************************************)
(* What becomes of the findings of a review: those of the model below the     *)
(* wanted severity are left out, repeated reports of one defect are merged as  *)
(* they come, and the merged list is weighed, with the tests that are missing  *)
(* and what CI said of them, into a verdict.                                   *)
(***************************************************************************)
EXTENDS Integers, Sequences, FiniteSets, SequencesExt, FiniteSetsExt

CONSTANTS Lines,               \* of the one file; the first is an added line
          Issues, Length,      \* descriptions and how long they are
          Similar(_, _),       \* share most of their words
          Weights,             \* of the severities, most severe first: 30, 15, 6, 2, 0
          Categories,
          Window,              \* NEARBY_LINE_WINDOW
          None, MaxFindings

\* Lines are numbers, severities are counted from 1.
RiskConstants == Lines \subseteq Int /\ DOMAIN Weights \subseteq Nat \ {0}

VARIABLES policy,   \* min_severity of the model's findings; whether a secret blocks
          given,    \* the findings handed to the merge
          kept,     \* the merged findings, in order
          gap,      \* the missing test scenario a model named, or None
          ci        \* what CI said of it last, and what it asserted last

vars == <<policy, given, kept, gap, ci>>

Levels == DOMAIN Weights      \* 1 is CRITICAL
Probes     == {"SAST", "SECRETS", "DEPENDENCIES"}
Sources    == Probes \cup {"RULES", "LLM"}

SourceRank == [LLM |-> 1, RULES |-> 2, SAST |-> 3, DEPENDENCIES |-> 4, SECRETS |-> 5]

\* The order of the list: the model, the rules, the scanners in turn.
Turn == [LLM |-> 1, RULES |-> 2, SAST |-> 3, SECRETS |-> 4, DEPENDENCIES |-> 5]

\* A finding as its engine reports it; anchor: the line is an added one, and a model
\* cited it exactly.
Reports == [line : Lines, category : Categories, issue : Issues, severity : Levels,
            source : Sources, anchor : BOOLEAN]

Anchored(f) == (f.line = Min(Lines) /\ f.source # "LLM") => f.anchor

Valid(f) == Anchored(f) /\ (f.anchor => f.line = Min(Lines))

Init == /\ policy \in [least : Levels, secretBlocks : BOOLEAN]
        /\ given = {} /\ kept = <<>>
        /\ gap \in {None} \cup [line : Lines, issue : Issues, points : 0..2]
        /\ ci = [status |-> None, asserted |-> None]

-------------------------------------------------------------------------------
(* Merging *)

\* A cited line is only merged with the same line.
SameAnchor(k, f) == k.anchor \/ f.anchor => k.line = f.line

SameKind(k, f) == k.category = f.category

Near(k, f) == k.line - f.line <= Window /\ f.line - k.line <= Window

\* Mutant of Strongest: the severity reported first stays.
StrongestFirst(a, b) == a

Strongest(a, b) == IF a <= b THEN a ELSE b

Merge(k, f) ==
    [k EXCEPT !.line = IF @ <= f.line THEN @ ELSE f.line,
              !.issue = IF Length[@] >= Length[f.issue] THEN @ ELSE f.issue,
              !.severity = Strongest(@, f.severity),
              !.source = IF SourceRank[@] >= SourceRank[f.source] THEN @ ELSE f.source,
              !.anchor = @ \/ f.anchor,
              !.sources = @ \cup {f.source}]

\* Indexes of what is kept: the first that is an exact repeat; the last kept under
\* this description; the first near enough.
Exact(f) == {i \in DOMAIN kept : SameKind(kept[i], f) /\ kept[i].line = f.line /\ kept[i].issue = f.issue}

Loose(f) == LET these == {i \in DOMAIN kept : SameKind(kept[i], f) /\ kept[i].first = f.issue} IN
            {i \in these : (\A j \in these : j <= i) /\ SameAnchor(kept[i], f)}

Nearby(f) == LET these == {i \in DOMAIN kept : SameKind(kept[i], f) /\ SameAnchor(kept[i], f) /\ Near(kept[i], f)} IN
             {i \in these : (\A j \in these : i <= j) /\ Similar(kept[i].issue, f.issue)}

\* One turn of the loop: the finding joins the one it repeats, or is kept beside them.
Deduplicate(f) ==
    LET into == IF Exact(f) # {} THEN Exact(f) ELSE IF Loose(f) # {} THEN Loose(f) ELSE Nearby(f) IN
    kept' = IF into = {} THEN Append(kept, [line |-> f.line, category |-> f.category, issue |-> f.issue, severity |-> f.severity,
                                            source |-> f.source, anchor |-> f.anchor, sources |-> {f.source}, first |-> f.issue])
            ELSE [kept EXCEPT ![Min(into)] = Merge(@, f)]

\* The next finding; the wanted severity is asked of the model's alone.
Report(f) == /\ Valid(f) /\ f \notin given
             /\ \A g \in given : Turn[g.source] <= Turn[f.source]
             /\ f.source = "LLM" => f.severity <= policy.least
             /\ given' = given \cup {f} /\ Deduplicate(f)
             /\ UNCHANGED <<policy, gap, ci>>

\* CI runs the missing scenario: it fails or passes its assertion, or tells nothing.
Executed(says) == /\ gap # None
                  /\ ci' = [status |-> says, asserted |-> IF says = "error" THEN ci.asserted ELSE says]
                  /\ UNCHANGED <<policy, given, kept, gap>>

Next == \/ Cardinality(given) < MaxFindings /\ \E f \in Reports : Report(f)
        \/ \E says \in {"failed", "passed", "error"} : Executed(says)

Spec == Init /\ [][Next]_vars

-------------------------------------------------------------------------------
(* Weighing *)

Clamp(n) == IF n < 100 THEN n ELSE 100

\* Findings of the same defect weigh once, with the strongest severity.
Groups == {[line |-> kept[i].line, category |-> kept[i].category, issue |-> kept[i].issue] : i \in DOMAIN kept}
InGroup(g) == {i \in DOMAIN kept : kept[i].line = g.line /\ kept[i].category = g.category /\ kept[i].issue = g.issue}
Points(g) == Max({Weights[kept[i].severity] : i \in InGroup(g)})

GapFailed   == ci.asserted = "failed"
GapVerified == ci.status = "passed"

GapPoints == IF GapVerified THEN 0 ELSE IF GapFailed THEN 15 ELSE gap.points

\* The findings that describe the missing scenario itself; the first of them counts.
SameFinding == {g \in Groups : g.line = gap.line /\ g.issue = gap.issue}

Described(g) == gap # None /\ g \in SameFinding /\ \A h \in SameFinding : Min(InGroup(g)) <= Min(InGroup(h))

\* A described scenario counts once, at the finding: a failed assertion may raise it.
Factor(g) == IF Described(g) /\ GapFailed THEN Max({Points(g), GapPoints}) ELSE Points(g)

Score2 == Clamp(MapThenSumSet(Factor, Groups) + (IF gap = None \/ SameFinding # {} THEN 0 ELSE GapPoints))

\* Report one: the label that survived says what a finding is.
CriticalSecurity == \E i \in DOMAIN kept : /\ kept[i].severity = 1 /\ kept[i].source \in Probes
                                           /\ kept[i].source # "SECRETS" \/ policy.secretBlocks
HasSecret == policy.secretBlocks /\ \E i \in DOMAIN kept : kept[i].source = "SECRETS"
Score     == Clamp(FoldSeq(LAMBDA k, n : Weights[k.severity] + n, 0, kept))
Verdict   == IF CriticalSecurity \/ HasSecret \/ Score >= 75 THEN "BLOCK"
             ELSE IF Score >= 25 \/ \E i \in DOMAIN kept : kept[i].severity = 2 THEN "REVIEW" ELSE "SAFE"

\* Report two: every engine that reported it does.
CriticalSecurity2 == \E i \in DOMAIN kept : /\ kept[i].severity = 1
                                            /\ kept[i].sources \cap (Probes \ (IF policy.secretBlocks THEN {} ELSE {"SECRETS"})) # {}
HasSecret2 == policy.secretBlocks /\ \E i \in DOMAIN kept : "SECRETS" \in kept[i].sources
Verdict2   == IF CriticalSecurity2 \/ HasSecret2 \/ Score2 >= 75 THEN "BLOCK"
              ELSE IF Score2 >= 25 \/ (\E i \in DOMAIN kept : kept[i].severity <= 2) \/ (gap # None /\ GapFailed)
              THEN "REVIEW" ELSE "SAFE"

-------------------------------------------------------------------------------
(* Properties *)

CriticalDefect(f) == f.severity = 1 /\ f.source \in {"SAST", "DEPENDENCIES"}

\* Secrets do not block, and the finding was merged with the report of one.
TakenForSecret(f) == /\ ~policy.secretBlocks
                     /\ \E i \in DOMAIN kept : /\ SameKind(kept[i], f) /\ kept[i].severity = 1
                                               /\ kept[i].source = "SECRETS" /\ {f.source, "SECRETS"} \subseteq kept[i].sources

\* No defect is lost on the way to the verdict.  Merging hides none ("merging never hides
\* a CRITICAL behind a MEDIUM"): each finding lives on in one of its kind, no later in the
\* file, at least as severe, that names its engine.  So a critical one of SAST or of the
\* dependencies blocks in report two; in report one too, with one exception: merged into a
\* finding that bears the name of the secret probe, where secrets are not to block, it need
\* not, for assessRisk asks that name alone (risk-engine.ts:88-90).  A credential, where these are to block, blocks in both, and a high one is never
\* called safe.  And a scenario that failed its assertion in CI is a reason for review until
\* it passes ("A later missing/error run cannot erase that failure", risk-engine.ts).
MergeHidesNothing ==
    /\ \A f \in given : \E i \in DOMAIN kept :
          /\ SameKind(kept[i], f) /\ kept[i].line <= f.line
          /\ kept[i].severity <= f.severity /\ f.source \in kept[i].sources
    /\ \A f \in given : CriticalDefect(f) => Verdict2 = "BLOCK" /\ (Verdict = "BLOCK" \/ TakenForSecret(f))
    /\ (policy.secretBlocks /\ \E f \in given : f.source = "SECRETS") => Verdict = "BLOCK" /\ Verdict2 = "BLOCK"
    /\ (\E f \in given : f.severity = 2) => Verdict2 # "SAFE"
    /\ (gap # None /\ ci.asserted = "failed") => Verdict2 # "SAFE"
===============================================================================
