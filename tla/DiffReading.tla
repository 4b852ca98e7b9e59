------------------------------ MODULE DiffReading ------------------------------
(***************************************************************************)
(* How the diff of a review is read.  GitHub prints it; the worker cuts it    *)
(* to its limits and takes out the ignored files; the rules, the scanners     *)
(* and the dependency probe then tell from what is left which lines were      *)
(* added, in which file and at which number, and the findings are given the   *)
(* place of their inline comment.  A line of a diff carries where it really   *)
(* is, which the program does not see: it counts.                            *)
(***************************************************************************)
EXTENDS Naturals, Sequences, SequencesExt, FiniteSets, FiniteSetsExt

CONSTANTS Order,     \* the files of the change, as GitHub orders them
          Odd,       \* those whose name git puts in quotes
          Ignored,   \* those that .aipr.yml leaves out
          Code,      \* those that the SAST rules are about
          Manifests, \* those that list dependencies, in a section
          Unknown,   \* the file of a diff without headers
          MaxBody,   \* bound: lines of a diff beside headers
          Starts,    \* bound: the numbers at which a hunk may begin
          MaxHits    \* MAX_VIOLATIONS_PER_RULE, MAX_FINDINGS_PER_RULE

Paths == ToSet(Order)

\* What the constants stand for; an instance assumes it.
DiffConstants == /\ Odd \cup Ignored \cup Code \cup Manifests \subseteq Paths
                 /\ Unknown \notin Paths
                 /\ MaxBody \in Nat /\ Starts \subseteq Nat \ {0} /\ MaxHits \in Nat \ {0}

VARIABLES diff,    \* what GitHub printed
          at,      \* where it is: file, its next line, inside the section of dependencies
          phase,
          input,   \* of the diff, what is within the limits
          whole,   \* nothing had to be cut
          kept,    \* of it, what is not ignored
          found,   \* the findings
          check    \* the verdicts

vars == <<diff, at, phase, input, whole, kept, found, check>>

Checks == {"rule", "secrets", "sast", "dependencies"}

Init ==
    /\ diff = <<>> /\ at = [file |-> 0, next |-> 0, inside |-> FALSE] /\ phase = "print"
    /\ input = <<>> /\ whole = TRUE /\ kept = <<>>
    /\ found = {} /\ check = [c \in Checks |-> "none"]

-------------------------------------------------------------------------------
(* GitHub prints the diff *)

Line(kind, file, n, is) == [kind |-> kind, file |-> Order[file], at |-> n, is |-> is]
Body(d)    == SelectSeq(d, LAMBDA l : l.kind \in {"context", "added", "removed"})
Emit(ls)  == phase = "print" /\ diff' = diff \o ls /\ UNCHANGED <<phase, input, whole, kept, found, check>>

\* The lines `diff --git', `---' and `+++'.
PrintFile(f) ==
    /\ at.file < f /\ Emit(<<Line("git", f, 0, "plain"), Line("minus", f, 0, "plain"), Line("plus", f, 0, "plain")>>)
    /\ at' = [file |-> f, next |-> 0, inside |-> FALSE]

\* Hunks begin anywhere, also in the midst of a section.
PrintHunk(n) ==
    /\ at.file # 0 /\ at.next < n /\ Emit(<<Line("hunk", at.file, n, "plain")>>)
    /\ at' \in {[at EXCEPT !.next = n, !.inside = b] : b \in IF Order[at.file] \in Manifests THEN BOOLEAN ELSE {FALSE}}

\* Among the added: a line that a rule and a scanner match, one too long to be looked at,
\* a dependency.  Around them the head of their section and its end.
Contents(kind) ==
    LET manifest == Order[at.file] \in Manifests IN
    {"plain"} \cup CASE kind = "added" /\ ~manifest             -> {"hit", "long"}
                     [] kind = "added" /\ manifest /\ at.inside -> {"entry"}
                     [] kind = "context" /\ manifest            -> {"section"} \cup IF at.inside THEN {"end"} ELSE {}
                     [] OTHER                                   -> {}

PrintLine(kind) ==
    /\ at.next # 0 /\ Len(Body(diff)) < MaxBody
    /\ \E is \in Contents(kind) :
          /\ Emit(<<Line(kind, at.file, at.next, is)>>)
          /\ at' = [at EXCEPT !.next = @ + IF kind = "removed" THEN 0 ELSE 1,
                              !.inside = is = "section" \/ (@ /\ is # "end")]

\* `\ No newline at end of file'.
PrintMark ==
    /\ diff # <<>> /\ Last(diff).kind \in {"context", "added", "removed"}
    /\ Emit(<<Line("mark", at.file, 0, "plain")>>) /\ UNCHANGED at

-------------------------------------------------------------------------------
(* What the program takes the lines for *)

\* splitDiffByFile: a chunk begins at a header it can read and runs to the next.
Heads(d)    == {i \in DOMAIN d : d[i].kind = "git" /\ d[i].file \notin Odd}
Chunk(d, i) == LET before == {h \in Heads(d) : h <= i} IN IF before = {} THEN 0 ELSE Max(before)
Name(d, i)  == IF Heads(d) = {} THEN Unknown ELSE d[Chunk(d, i)].file
InChunk(d)  == {i \in DOMAIN d : Heads(d) = {} \/ Chunk(d, i) # 0}

\* The last hunk header of the chunk before a line, from which it is counted.
Hunk(d, i) == LET before == {h \in 1..(i - 1) : d[h].kind = "hunk" /\ h > Chunk(d, i)} IN
              IF before = {} THEN 0 ELSE Max(before)

\* A plausible bug: the mark of a missing newline counts as a line.
NumberWithMarks(d, i) == d[Hunk(d, i)].at + Cardinality({j \in (Hunk(d, i) + 1)..(i - 1) : d[j].kind \notin {"removed", "minus"}})
\* collectChangedLines: in a hunk, + and - are what they say, \ is nothing, the rest counts.
Number(d, i) == d[Hunk(d, i)].at + Cardinality({j \in (Hunk(d, i) + 1)..(i - 1) : d[j].kind \notin {"removed", "minus", "mark"}})
Added(d)     == {i \in InChunk(d) : d[i].kind \in {"added", "plus"} /\ Hunk(d, i) # 0}

\* A finding at a line; `real' is the line that was meant.
Finding(d, i, by) == [file |-> Name(d, i), line |-> Number(d, i), by |-> by, real |-> d[i]]

First(S, n) == {i \in S : Cardinality({j \in S : j < i}) < n}
Pick(d, S)  == [k \in 1..Cardinality(S) |-> d[CHOOSE i \in S : Cardinality({j \in S : j < i}) = k - 1]]

-------------------------------------------------------------------------------
(* The worker *)

\* boundScanInput keeps the place of a line that is too long.
Shorten(l) == IF l.is = "long" THEN [l EXCEPT !.is = "plain"] ELSE l

\* Beyond the number of lines or characters the diff is cut.
Bound(n) ==
    /\ phase = "print" /\ diff # <<>> /\ phase' = "filter"
    /\ input' = [i \in 1..n |-> Shorten(diff[i])]
    /\ whole' = (n = Len(diff) /\ \A i \in DOMAIN diff : diff[i].is # "long")
    /\ UNCHANGED <<diff, at, kept, found, check>>

\* When nothing is left there is no audit; when there was more, the review fails.
Filter ==
    /\ phase = "filter"
    /\ kept' = Pick(input, {i \in InChunk(input) : Name(input, i) \notin Ignored})
    /\ phase' = IF kept' # <<>> THEN "rules" ELSE IF whole THEN "unaudited" ELSE "failed"
    /\ UNCHANGED <<diff, at, input, whole, found, check>>

Hits(d) == {i \in Added(d) : d[i].is = "hit"}

RuleVerdict(hits, late) == IF ~whole \/ late THEN "SKIPPED" ELSE IF hits # {} THEN "FAIL" ELSE "PASS"

\* A rule looks at the lines in order, until it has enough or time is over.
EvaluateRules ==
    /\ phase = "rules" /\ phase' = "scan"
    /\ \E n \in 0..Cardinality(Added(kept)) :
          LET hits == First(Added(kept), n) \cap Hits(kept)
              late == n < Cardinality(Added(kept))
          IN /\ late => Cardinality(hits) <= MaxHits
             /\ found' = {Finding(kept, i, "rule") : i \in First(hits, MaxHits)}
             /\ check' = [check EXCEPT !["rule"] = RuleVerdict(hits, late)]
    /\ UNCHANGED <<diff, at, input, whole, kept>>

\* parsePackageJson: the section that the chunk last named, if it has not ended.
InSection(d, i) ==
    LET told == {j \in 1..(i - 1) : Chunk(d, j) = Chunk(d, i) /\ d[j].is \in {"section", "end"}} IN
    told # {} /\ d[Max(told)].is = "section"
Entries(d) == {i \in Added(d) : d[i].is = "entry" /\ Name(d, i) \in Manifests /\ InSection(d, i)}

Verdict(hits, none) == IF hits # {} THEN "FAIL" ELSE IF whole THEN none ELSE "DEGRADED"

\* The manifests are read from what is kept, lockfiles from before the ignored files are
\* taken out.  Every entry has a known vulnerability.
Introduced == {Finding(d, i, "dependencies") : d \in {kept}, i \in Entries(kept)}
                \cup {Finding(input, i, "dependencies") : i \in {j \in Entries(input) : Name(input, j) \in Ignored}}

Scan ==
    /\ phase = "scan" /\ phase' = "done"
    /\ LET sast == {i \in Hits(kept) : Name(kept, i) \in Code} IN
       /\ found' = found \cup {Finding(kept, i, "secrets") : i \in First(Hits(kept), MaxHits)}
                         \cup {Finding(kept, i, "sast") : i \in First(sast, MaxHits)} \cup Introduced
       /\ check' = [check EXCEPT !["secrets"] = Verdict(Hits(kept), "PASS"), !["sast"] = Verdict(sast, "PASS"),
                                 !["dependencies"] = Verdict(Introduced, "SKIPPED")]
    /\ UNCHANGED <<diff, at, input, whole, kept>>

\* reviewAnchors and bindFindingAnchors: the place of an inline comment is an added line
\* of a named file that no other line claims to be.
Anchors  == {p \in {<<Name(kept, i), Number(kept, i)>> : i \in Added(kept)} : p[1] # Unknown /\
                Cardinality({i \in Added(kept) : <<Name(kept, i), Number(kept, i)>> = p}) = 1}
Anchored == {f \in found : <<f.file, f.line>> \in Anchors}

-------------------------------------------------------------------------------

Next ==
    \/ \E f \in DOMAIN Order : PrintFile(f)
    \/ \E n \in Starts : PrintHunk(n)
    \/ \E kind \in {"context", "added", "removed"} : PrintLine(kind)
    \/ PrintMark
    \/ \E n \in DOMAIN diff : Bound(n)
    \/ Filter \/ EvaluateRules \/ Scan

Spec == Init /\ [][Next]_vars

-------------------------------------------------------------------------------
(* Properties *)

\* No file of the diff has a name in quotes.
Plain == \A i \in DOMAIN diff : diff[i].file \notin Odd

\* However the diff was cut and filtered, a finding names the file and the line that it is
\* about, and one that a comment is put at is an added line of the change.
FindingsInPlace ==
    Plain =>
        /\ \A f \in found : f.file = f.real.file /\ f.line = f.real.at
        /\ \A f \in Anchored : \E i \in DOMAIN diff :
               diff[i].kind = "added" /\ diff[i].file = f.file /\ diff[i].at = f.line

\* A verdict that says all is well was reached over every line that was added.
CleanIsWhole ==
    Plain => \A c \in {"rule", "secrets", "sast"} : check[c] = "PASS" =>
        LET about == (IF c = "sast" THEN Code ELSE Paths) \ Ignored IN
        ~\E i \in DOMAIN diff : diff[i].kind = "added" /\ diff[i].is \in {"hit", "long"} /\ diff[i].file \in about

\* Both.
ReadingSound == FindingsInPlace /\ CleanIsWhole

\* The dependency probe "checks every package that was actually introduced" (deps.ts:21-22)
\* and is skipped when no manifest changed: then no dependency was added.
IntroducedIsChecked ==
    phase = "done" /\ Plain /\ check["dependencies"] \in {"PASS", "SKIPPED"} =>
        ~\E i \in DOMAIN diff : diff[i].kind = "added" /\ diff[i].is = "entry"
===============================================================================
