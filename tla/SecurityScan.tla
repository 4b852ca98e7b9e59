-------------------------------- MODULE SecurityScan --------------------------------
(***************************************************************************)
(* The deterministic scanners of a review, and what the report says of their  *)
(* coverage.  The changed files are read for Semgrep, then static analysis,   *)
(* secrets and dependencies are scanned in turn; every scanner may fail, stop  *)
(* short or be missing.  `lost' remembers what was asked for and not scanned.  *)
(***************************************************************************)
EXTENDS Naturals, Sequences, FiniteSets

CONSTANTS Files,            \* the changed source files, as many as are read
          MaxCandidates     \* MAX_DEP_CANDIDATES

VARIABLES config,     \* .aipr.yml: the scanners that are on
          world,      \* the diff is cut; files too large; the packages it introduces
          contents,   \* the files read for Semgrep
          phase,      \* what runs next
          checks,     \* one row per scanner that ran
          findings,   \* how many each found
          lost        \* what each was asked to scan and did not

vars == <<config, world, contents, phase, checks, findings, lost>>

Probes == {"sast", "secrets", "dependencies"}

\* Each scanner is switched on its own, and what is not a Boolean leaves its default; the master
\* switch, when off, is as all of them off.
Settings == [Probes \cup {"semgrep", "osv"} -> BOOLEAN]

Init ==
    /\ config \in Settings
    /\ \E cut \in BOOLEAN, large \in SUBSET Files : world = [cut |-> cut, large |-> large, packages |-> <<>>, cleared |-> {}]
    /\ contents = {} /\ phase = "read"
    /\ checks = [p \in {} |-> "none"]
    /\ findings = [p \in Probes |-> 0] /\ lost = [p \in Probes |-> {}]

-------------------------------------------------------------------------------
(* Rows *)

CheckForProbe(count) == [status |-> IF count > 0 THEN "FAIL" ELSE "PASS", detail |-> FALSE]

CheckWithStatus(status, count, detail) == [status |-> IF count > 0 THEN "FAIL" ELSE status, detail |-> detail]

Result(check, count, missed) == [check |-> check, count |-> count, missed |-> missed]

Row(probe, result) ==
    /\ checks' = [p \in DOMAIN checks \cup {probe} |-> IF p = probe THEN result.check ELSE checks[p]]
    /\ findings' = [findings EXCEPT ![probe] = result.count]
    /\ lost' = [lost EXCEPT ![probe] = result.missed]

-------------------------------------------------------------------------------
(* The scanners *)

\* The files at the head; one that cannot be read is left out.
Read == /\ phase = "read" /\ phase' = "sast"
        /\ IF config["sast"] /\ config["semgrep"] THEN contents' \in SUBSET Files ELSE UNCHANGED contents
        /\ UNCHANGED <<config, world, checks, findings, lost>>

\* A built-in scanner in a worker thread, with a limit of time and memory.
Isolated == {Result(CheckForProbe(n), n, {}) : n \in 0..1}
            \cup {Result(CheckWithStatus("DEGRADED", 0, TRUE), 0, {"worker"})}

\* Semgrep: no binary, no usable output or a throw is a degraded pass.  Its exit code
\* and the errors in its output are not read, nor are files over the size limit.
RunSemgrep ==
    LET files == contents \ world.large IN
    {[degraded |-> TRUE, count |-> 0, missed |-> {"semgrep"}]}
    \cup {[degraded |-> FALSE, count |-> n, missed |-> errors \cup (IF files # contents THEN {"size"} ELSE {})] :
             n \in {k \in 0..1 : files # {}}, errors \in {e \in {{}, {"errors"}} : files # {}}}

\* Mutant of WithSemgrep: the detail of the built-in scanner is forgotten.
WithSemgrepOnly(builtIn, extra) ==
    LET count == builtIn.count + extra.count IN
    IF extra.degraded THEN Result(CheckWithStatus("DEGRADED", builtIn.count, TRUE), builtIn.count, builtIn.missed \cup extra.missed)
    ELSE Result(CheckForProbe(count), count, builtIn.missed \cup extra.missed)

\* One row for the built-in scanner and the extra pass.
WithSemgrep(builtIn, extra) ==
    LET count == builtIn.count + extra.count IN
    IF extra.degraded THEN Result(CheckWithStatus("DEGRADED", builtIn.count, TRUE), builtIn.count, builtIn.missed \cup extra.missed)
    ELSE Result(IF builtIn.check.detail THEN CheckWithStatus("DEGRADED", count, TRUE) ELSE CheckForProbe(count),
                count, builtIn.missed \cup extra.missed)

\* Semgrep runs when a file was read.
RunSast ==
    /\ phase = "sast" /\ phase' = "secrets"
    /\ IF ~config["sast"] THEN UNCHANGED <<checks, findings, lost>>
       ELSE \E builtIn \in Isolated :
              LET unread == IF config["semgrep"] /\ contents # Files THEN {"unread"} ELSE {} IN
              IF contents = {} THEN Row("sast", [builtIn EXCEPT !.missed = @ \cup unread])
              ELSE \E extra \in RunSemgrep :
                      LET both == WithSemgrep(builtIn, extra) IN Row("sast", [both EXCEPT !.missed = @ \cup unread])
    /\ UNCHANGED <<config, world, contents>>

RunSecrets ==
    /\ phase = "secrets" /\ phase' = "dependencies"
    /\ IF config["secrets"] THEN \E result \in Isolated : Row("secrets", result)
       ELSE UNCHANGED <<checks, findings, lost>>
    /\ UNCHANGED <<config, world, contents>>

-------------------------------------------------------------------------------
(* Dependencies *)

\* A package the diff introduces: by a manifest or a lockfile, with a version that can
\* be looked up or without; OSV has an advisory, the bundled registry has one.
Dependency == [lock : BOOLEAN, version : BOOLEAN, listed : BOOLEAN, bundled : BOOLEAN]

\* The first of the manifests and the first of the lockfiles.
Candidates(packages) ==
    {i \in DOMAIN packages : Cardinality({j \in 1..i : packages[j].lock = packages[i].lock}) <= MaxCandidates}

Asked(packages) == {i \in Candidates(packages) : config["osv"] /\ packages[i].version}

\* The bundled registry is asked of every package of a manifest and, of a lockfile, of the
\* first ones with a version.
Known(packages) ==
    {i \in DOMAIN packages :
        packages[i].bundled /\ (packages[i].lock => i \in Candidates(packages) /\ packages[i].version)}

\* Only a complete answer of OSV silences it.
Vulnerable(packages, complete, told) == told \cup (Known(packages) \ complete)

\* Nothing to scan is no pass; a finding wins over a lookup that is not complete.
DependencyCheck(packages, complete, count) ==
    LET degraded == complete # Asked(packages) IN
    IF packages = <<>> THEN CheckWithStatus("SKIPPED", 0, TRUE)
    ELSE IF count > 0 THEN CheckWithStatus(IF degraded THEN "DEGRADED" ELSE "SKIPPED", count, degraded)
    ELSE IF degraded THEN CheckWithStatus("DEGRADED", 0, TRUE)
    ELSE CheckForProbe(0)

ScanDependencies ==
    /\ phase = "dependencies" /\ phase' = "report"
    /\ IF ~config["dependencies"] THEN UNCHANGED <<world, checks, findings, lost>>
       ELSE \E packages \in UNION {[1..n -> Dependency] : n \in 0..2} :
            \E complete \in SUBSET Asked(packages) :
            \E told \in SUBSET {i \in Asked(packages) : packages[i].listed} :
              /\ {i \in complete : packages[i].listed} \subseteq told
              /\ LET count  == Cardinality(Vulnerable(packages, complete, told))
                     unsaid == {i \in DOMAIN packages : config["osv"] /\ i \notin Asked(packages)} IN
                 Row("dependencies", Result(DependencyCheck(packages, complete, count), count,
                        (IF complete # Asked(packages) THEN {"osv"} ELSE {}) \cup (IF unsaid # {} THEN {"unasked"} ELSE {})))
              /\ world' = [world EXCEPT !.packages = packages, !.cleared = complete]
    /\ UNCHANGED <<config, contents>>

-------------------------------------------------------------------------------

\* A diff that was cut short makes every row say so.
Report == /\ phase = "report" /\ phase' = "done"
          /\ checks' = [p \in DOMAIN checks |->
                          IF world.cut THEN [status |-> IF checks[p].status = "FAIL" THEN "FAIL" ELSE "DEGRADED", detail |-> TRUE]
                          ELSE checks[p]]
          /\ lost' = [p \in Probes |-> IF world.cut /\ p \in DOMAIN checks THEN lost[p] \cup {"cut"} ELSE lost[p]]
          /\ UNCHANGED <<config, world, contents, findings>>

Next == Read \/ RunSast \/ RunSecrets \/ ScanDependencies \/ Report

Spec == Init /\ [][Next]_vars

\* Mutant of Coverage: any row that passed or failed is full.
CoverageByStatus(probe) ==
    IF probe \notin DOMAIN checks THEN "NOT_RUN"
    ELSE IF checks[probe].status \in {"PASS", "FAIL"} THEN "FULL"
    ELSE IF checks[probe].status = "SKIPPED" THEN "NOT_RUN" ELSE "PARTIAL"

\* What the risk report says of a scanner.
Coverage(probe) ==
    IF probe \notin DOMAIN checks THEN "NOT_RUN"
    ELSE IF checks[probe].status \in {"PASS", "FAIL"} /\ ~checks[probe].detail THEN "FULL"
    ELSE IF checks[probe].status = "SKIPPED" THEN "NOT_RUN" ELSE "PARTIAL"

-------------------------------------------------------------------------------
(* Properties *)

\* What full coverage may still have missed.  Of the files Semgrep is to read it does not
\* count those that could not be fetched (with none, Semgrep does not even run), the large
\* ones, and the errors in its output; of the packages those OSV is not asked about.
Excused == [sast |-> {"unread", "size", "errors"}, secrets |-> {}, dependencies |-> {"unasked"}]

\* A scanner that timed out, a Semgrep that was given files and did not run, advisories
\* that were not confirmed and a diff that was cut never read as full coverage, even
\* beside findings; a row fails exactly when its scan found something; and a package the
\* bundled registry was asked about and knows fails the scan unless OSV answered completely
\* for it, so an outage hides no vulnerability that was looked up.
OutageIsSaid ==
    phase = "done" =>
        /\ \A p \in Probes : Coverage(p) = "FULL" => lost[p] \subseteq Excused[p]
        /\ \A p \in DOMAIN checks : checks[p].status = "FAIL" <=> findings[p] > 0
        /\ Known(world.packages) \ world.cleared # {} => checks["dependencies"].status = "FAIL"
===============================================================================
