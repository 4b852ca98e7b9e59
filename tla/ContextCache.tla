-------------------------------- MODULE ContextCache --------------------------------
(***************************************************************************)
(* The copies of a repository's code that make its reviews aware of their    *)
(* context: cached files and cached imports, each keyed by blob.  A review   *)
(* indexes the imports of the repository within a budget; its writes go on   *)
(* when it is aborted.  Disconnecting the repository deletes the copies.     *)
(***************************************************************************)
EXTENDS Naturals, FiniteSets, FiniteSetsExt, SequencesExt

CONSTANTS Listings,                     \* the eligible files of a commit, in their order of priority
          Blob(_), Size(_),             \* of a file; GitHub may report no size, 0
          MaxFileBytes,                 \* CONTEXT_MAX_FILE_BYTES
          MaxFiles, MaxDownloads, MaxBytes, Concurrency,      \* IndexLimits
          MaxBuilds, MaxLinks, MaxFaults

VARIABLES
    repo,      \* is it active; how often it was connected
    table,     \* the rows: table[kind][blob], kind "import" or "file"
    write,     \* the transactions of put, each [kind, blob, step]
    build,     \* the index being built: its step, its place, what it has and why it is partial
    op,        \* the operation for each blob: its step, its reservation, its size
    leave,     \* the disconnect under way: its step
    promised,  \* a disconnect was answered OK and the repository was not connected since (ghost)
    doomed,    \* the rows the sweep has selected
    finite,    \* is CONTEXT_RETENTION_HOURS positive
    builds, faults

\* What the proofs assume, and every instance fits.
CacheConstants == /\ IsFiniteSet({Blob(f) : f \in UNION {ToSet(files) : files \in Listings}})
                  /\ \A files \in Listings : files \in Seq(ToSet(files)) /\ \A f \in ToSet(files) : Size(f) \in Nat
                  /\ {MaxFileBytes, MaxFiles, MaxDownloads, MaxBytes, Concurrency} \subseteq Nat

cache == <<repo, table, write, build, op, leave, promised, doomed, finite, builds, faults>>

Blobs   == {Blob(f) : f \in UNION {ToSet(files) : files \in Listings}}
Kinds   == {"import", "file"}
Rows    == Kinds \X Blobs
NoOp    == [pc |-> "none", reserved |-> 0, bytes |-> 0]
NoBuild == [pc |-> "idle", files |-> <<>>, next |-> 1, hits |-> {}, reasons |-> {}, aborted |-> FALSE, downloads |-> 0, reserved |-> 0, counted |-> 0]

Init == /\ repo = [active |-> TRUE, links |-> 1]
        /\ table = [k \in Kinds |-> [b \in Blobs |-> "none"]]
        /\ write = {} /\ build = NoBuild /\ op = [b \in Blobs |-> NoOp]
        /\ leave = "none" /\ promised = FALSE /\ doomed = {} /\ finite \in BOOLEAN /\ builds = 0 /\ faults = 0

Usable(kind, b) == table[kind][b] \in {"kept", "dated"}
Row             == IF finite THEN "dated" ELSE "kept"
SumOf(f)        == FoldSet(LAMBDA b, sum : sum + f[b], 0, Blobs)

----------------------------------------------------------------------------
(* Transactions of put: they lock the repository's row *)

Locked == \E w \in write : w.step = "locked"

\* A plausible bug: the check without the lock.
LockNothing(w) ==
    write' = (write \ {w}) \cup IF repo.active THEN {[w EXCEPT !.step = "checked"]} ELSE {}
Lock(w) ==
    /\ ~Locked
    /\ write' = (write \ {w}) \cup IF repo.active THEN {[w EXCEPT !.step = "locked"]} ELSE {}

BeginWrite(w) ==
    /\ w \in write /\ w.step = "sealed" /\ Lock(w)
    /\ UNCHANGED <<repo, table, build, op, leave, promised, doomed, builds, faults, finite>>

Commit(w) ==
    /\ w \in write /\ w.step \in {"locked", "checked"}
    /\ write' = write \ {w} /\ table' = [table EXCEPT ![w.kind][w.blob] = Row]
    /\ UNCHANGED <<repo, build, op, leave, promised, doomed, builds, faults, finite>>

FailWrite(w) ==
    /\ w \in write /\ faults < MaxFaults /\ faults' = faults + 1
    /\ write' = write \ {w}
    /\ UNCHANGED <<repo, table, build, op, leave, promised, doomed, builds, finite>>

Writing(kind, b) == \E w \in write : w.kind = kind /\ w.blob = b
Sealed(kind, b)  == write' = write \cup {[kind |-> kind, blob |-> b, step |-> "sealed"]}

----------------------------------------------------------------------------
(* buildImportIndex *)

Considered == SubSeq(build.files, 1, IF Len(build.files) < MaxFiles THEN Len(build.files) ELSE MaxFiles)
Missing    == {i \in DOMAIN Considered : Blob(Considered[i]) \notin build.hits}
Batch      == LET Place(i) == Cardinality({j \in Missing : j <= i})
              IN {Considered[i] : i \in {j \in Missing : Place(j) \in build.next..(build.next + Concurrency - 1)}}
Finished   == {"done", "nothing"}

\* getMany: a row that cannot be read or decrypted is a miss.
Begin ==
    /\ build.pc = "idle" /\ repo.active /\ builds < MaxBuilds
    /\ \E files \in Listings, hits \in SUBSET {b \in Blobs : Usable("import", b)} :
          \E failed \in {{}, {"CACHE_UNAVAILABLE"}} :
             build' = [NoBuild EXCEPT !.pc = "batch", !.files = files, !.hits = hits,
                                      !.reasons = failed \cup IF Len(files) > MaxFiles THEN {"FILE_LIMIT"} ELSE {}]
    /\ op' = [b \in Blobs |-> NoOp] /\ builds' = builds + 1
    /\ UNCHANGED <<repo, table, write, leave, promised, doomed, faults, finite>>

\* The deadline, or the review is cancelled: what is in flight is no longer waited for.
Abort ==
    /\ build.pc = "batch" /\ ~build.aborted
    /\ build' = [build EXCEPT !.aborted = TRUE, !.reasons = @ \cup {"DEADLINE"}]
    /\ UNCHANGED <<repo, table, write, op, leave, promised, doomed, builds, faults, finite>>

At(b, pc)       == build.pc = "batch" /\ op[b].pc = pc
OpTo(b, pc)     == op' = [op EXCEPT ![b].pc = pc]
Nothing(b, why) == OpTo(b, "nothing") /\ build' = [build EXCEPT !.reasons = @ \cup why]

\* Two files of the same bytes share one operation.
StartRead(b) ==
    /\ At(b, "none") /\ \E f \in Batch : Blob(f) = b
    /\ OpTo(b, IF build.aborted THEN "nothing" ELSE "get")
    /\ UNCHANGED <<repo, table, write, build, leave, promised, doomed, builds, faults, finite>>

\* What a download may take: the size GitHub told, or the most.
Reservation(b) == LET size == Size(CHOOSE f \in ToSet(build.files) : Blob(f) = b)
                  IN IF size = 0 THEN MaxFileBytes ELSE size

\* A plausible bug: the reservation is made when the bytes are there.
SpendLater(b) ==
    /\ build.downloads < MaxDownloads /\ build.reserved + Reservation(b) <= MaxBytes
    /\ build' = [build EXCEPT !.downloads = @ + 1]
    /\ op' = [op EXCEPT ![b].pc = "download"]
Spend(b) ==
    /\ build.downloads < MaxDownloads /\ build.reserved + Reservation(b) <= MaxBytes
    /\ build' = [build EXCEPT !.downloads = @ + 1, !.reserved = @ + Reservation(b)]
    /\ op' = [op EXCEPT ![b].pc = "download", ![b].reserved = Reservation(b)]

\* sourceCache.get deletes what has expired or cannot be decrypted.  Up to the next await
\* it is one step: the request of the download, or the put of the import.
Get(b) ==
    /\ At(b, "get")
    /\ \/ build.aborted /\ OpTo(b, "nothing") /\ UNCHANGED <<table, write, build>>
       \/ /\ ~build.aborted /\ Usable("file", b)
          /\ OpTo(b, "store import") /\ Sealed("import", b) /\ UNCHANGED <<table, build>>
       \/ /\ ~build.aborted /\ table' = [table EXCEPT !["file"][b] = "none"] /\ UNCHANGED write
          /\ \/ Spend(b)
             \/ /\ build.downloads >= MaxDownloads \/ build.reserved + Reservation(b) > MaxBytes
                /\ Nothing(b, {"LIMIT"})
    /\ UNCHANGED <<repo, leave, promised, doomed, builds, faults, finite>>

\* The download fails, or takes at most its reservation; the rest of that is given back.
\* What is counted may be more than was read: invalid characters grow.
Downloaded(b) ==
    /\ At(b, "download")
    /\ \/ Nothing(b, IF build.aborted THEN {} ELSE {"FILE_UNAVAILABLE"}) /\ UNCHANGED write
       \/ \E bytes \in 1..Reservation(b), grown \in 0..1 :
             LET total == build.counted + bytes + grown
                 kept  == ~build.aborted /\ total <= MaxBytes
             IN /\ op' = [op EXCEPT ![b].pc = IF kept THEN "store import" ELSE "nothing", ![b].bytes = bytes]
                /\ build' = IF build.aborted THEN build
                            ELSE [build EXCEPT !.counted = total, !.reserved = @ + bytes + grown - op[b].reserved,
                                               !.reasons = @ \cup IF kept THEN {} ELSE {"LIMIT"}]
                /\ IF kept THEN Sealed("import", b) ELSE UNCHANGED write
    /\ UNCHANGED <<repo, table, leave, promised, doomed, builds, faults, finite>>

\* The import is stored, then the file; an operation that is aborted does not wait.
StoredImport(b) ==
    /\ At(b, "store import") /\ (build.aborted \/ ~Writing("import", b))
    /\ OpTo(b, IF build.aborted THEN "done" ELSE "store file")
    /\ IF build.aborted \/ Usable("file", b) THEN UNCHANGED write ELSE Sealed("file", b)
    /\ UNCHANGED <<repo, table, build, leave, promised, doomed, builds, faults, finite>>

StoredFile(b) ==
    /\ At(b, "store file") /\ (build.aborted \/ ~Writing("file", b))
    /\ OpTo(b, "done")
    /\ UNCHANGED <<repo, table, write, build, leave, promised, doomed, builds, faults, finite>>

NextBatch ==
    /\ build.pc = "batch" /\ build.next <= Cardinality(Missing) /\ ~build.aborted
    /\ \A f \in Batch : op[Blob(f)].pc \in Finished
    /\ build' = [build EXCEPT !.next = @ + Concurrency]
    /\ UNCHANGED <<repo, table, write, op, leave, promised, doomed, builds, faults, finite>>

Indexed  == {f \in ToSet(Considered) : Blob(f) \in build.hits \/ op[Blob(f)].pc = "done"}
Complete == build.reasons = {} /\ Cardinality(Indexed) = Len(build.files)

\* The coverage; an import that static resolution cannot follow makes it partial too.
End ==
    /\ build.pc = "batch"
    /\ build.aborted \/ build.next > Cardinality(Missing)
    /\ \A f \in Batch : op[Blob(f)].pc \in Finished \cup {"none"}
    /\ \E supported \in BOOLEAN : build' = [build EXCEPT !.pc = IF Complete /\ supported THEN "COMPLETE" ELSE "PARTIAL"]
    /\ UNCHANGED <<repo, table, write, op, leave, promised, doomed, builds, faults, finite>>

NextReview ==
    /\ build.pc \in {"COMPLETE", "PARTIAL"} /\ builds < MaxBuilds
    /\ build' = NoBuild /\ op' = [b \in Blobs |-> NoOp]
    /\ UNCHANGED <<repo, table, write, leave, promised, doomed, builds, faults, finite>>

----------------------------------------------------------------------------
(* Retention *)

Expire(kind, b) ==
    /\ table[kind][b] = "dated" /\ table' = [table EXCEPT ![kind][b] = "expired"]
    /\ UNCHANGED <<repo, write, build, op, leave, promised, doomed, builds, faults, finite>>

\* The deployment is given another retention.
Configure ==
    /\ finite' = ~finite
    /\ UNCHANGED <<repo, table, write, build, op, leave, promised, doomed, builds, faults>>

\* Rows that were to be kept get a date under a finite retention.  What has expired is
\* selected, then deleted: a row written in between goes too.
Select ==
    /\ doomed = {}
    /\ table' = IF finite THEN [k \in Kinds |-> [b \in Blobs |-> IF table[k][b] = "kept" THEN "dated" ELSE table[k][b]]]
                ELSE table
    /\ doomed' = {r \in Rows : table[r[1]][r[2]] = "expired"}
    /\ UNCHANGED <<repo, write, build, op, leave, promised, builds, faults, finite>>

Sweep ==
    /\ doomed # {} /\ doomed' = {}
    /\ table' = [k \in Kinds |-> [b \in Blobs |-> IF <<k, b>> \in doomed THEN "none" ELSE table[k][b]]]
    /\ UNCHANGED <<repo, write, build, op, leave, promised, builds, faults, finite>>

----------------------------------------------------------------------------
(* Disconnecting: from the dashboard, or when the App loses the repository *)

Deactivate ==
    /\ leave = "none" /\ ~Locked
    /\ repo' = [repo EXCEPT !.active = FALSE] /\ leave' = "deactivated"
    /\ UNCHANGED <<table, write, build, op, promised, doomed, builds, faults, finite>>

Clear(kind, from, to) ==
    /\ leave = from /\ leave' = to
    /\ table' = [table EXCEPT ![kind] = [b \in Blobs |-> "none"]]
    /\ UNCHANGED <<repo, write, build, op, promised, doomed, builds, faults, finite>>

\* OK, unless the repository was connected again meanwhile.
Answer ==
    /\ leave = "cleared" /\ leave' = "none" /\ promised' = ~repo.active
    /\ UNCHANGED <<repo, table, write, build, op, doomed, builds, faults, finite>>

\* An error is answered, or none: nothing was promised.
FailToLeave ==
    /\ leave # "none" /\ faults < MaxFaults /\ faults' = faults + 1 /\ leave' = "none"
    /\ UNCHANGED <<repo, table, write, build, op, promised, doomed, builds, finite>>

Connect ==
    /\ ~repo.active /\ ~Locked /\ repo.links < MaxLinks
    /\ repo' = [active |-> TRUE, links |-> repo.links + 1] /\ promised' = FALSE
    /\ UNCHANGED <<table, write, build, op, leave, doomed, builds, faults, finite>>

----------------------------------------------------------------------------

Next == \/ \E w \in write : BeginWrite(w) \/ Commit(w) \/ FailWrite(w)
        \/ Begin \/ Abort \/ NextBatch \/ End \/ NextReview
        \/ \E b \in Blobs : \/ StartRead(b) \/ Get(b) \/ Downloaded(b)
                            \/ StoredImport(b) \/ StoredFile(b)
                            \/ \E k \in Kinds : Expire(k, b)
        \/ Configure \/ Select \/ Sweep
        \/ Deactivate \/ Clear("import", "deactivated", "imports cleared")
        \/ Clear("file", "imports cleared", "cleared") \/ Answer \/ FailToLeave \/ Connect

Spec == Init /\ [][Next]_cache

----------------------------------------------------------------------------

\* Once a disconnect was answered OK no copy of the repository's code is there until it is
\* connected again, whatever reviews, aborted or not, were storing copies of it meanwhile.
CodeGoneAfterDisconnect ==
    promised => \A kind \in Kinds, b \in Blobs : table[kind][b] = "none"

\* The downloads of a review, finished or under way, stay within the budget however they
\* overlap; and its index is called complete only when every eligible file is in it.
BudgetKept ==
    /\ Cardinality({b \in Blobs : op[b].pc = "download" \/ op[b].bytes > 0}) <= MaxDownloads
    /\ SumOf([b \in Blobs |-> IF op[b].pc = "download" THEN Reservation(b) ELSE op[b].bytes]) <= MaxBytes
    /\ build.pc = "COMPLETE" => \A f \in ToSet(build.files) : Blob(f) \in build.hits \/ op[Blob(f)].pc = "done"

=================================================================================
