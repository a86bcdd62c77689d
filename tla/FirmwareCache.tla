--------------------------- MODULE FirmwareCache ---------------------------
(***************************************************************************)
(* The firmware cache (defib/firmware.py): one published image, its cached *)
(* copy and the sidecar with the release's validators, shared by the defib *)
(* processes of a host.  A process asks get_cached_path, downloads if the  *)
(* copy no longer matches the release, puts a replaced copy back when the  *)
(* download fails, and reads the path it was given later.                  *)
(*                                                                         *)
(* Releases are numbered; all have the same size, so size tells only a cut *)
(* file from a whole one.  Times are counted in releases: a file's mtime   *)
(* is the release that was current when it was written.                    *)
(***************************************************************************)
EXTENDS Naturals

CONSTANTS
    Fetchers,       \* the processes
    Concurrent,     \* whether they run at the same time or one after another
    MaxRelease,     \* bound on the releases published
    MaxNetFaults    \* bound on failed requests and writes, and on kills

ASSUME CacheAssumption ==
    Concurrent \in BOOLEAN /\ MaxRelease \in Nat /\ MaxNetFaults \in Nat

VARIABLES
    fpc,       \* where each process is
    told,      \* the release a process's HEAD request named, 0 if it failed
    kept,      \* the bytes and times of the copy about to be replaced
    fresh,     \* what the process downloaded
    via,       \* how the process came by the path it returns
    used,      \* what the process read from that path
    cached,    \* the cached file
    meta,      \* the release the sidecar names, 0 without a sidecar
    release,   \* the release published
    legacy,    \* whether an image of the retired build is cached; never changes
    nfaults    \* faults left

cacheVars == <<fpc, told, kept, fresh, via, used, cached, meta, release, legacy, nfaults>>

\* A file: its release, whether all of it, its mtime, and whether it was
\* written only after its successor had been published.
Copy(v, whole) == [ver |-> v, whole |-> whole, mtime |-> v, late |-> FALSE]
NoCopy == Copy(0, FALSE)

CacheInit ==
    /\ fpc = [f \in Fetchers |-> "look"] /\ told = [f \in Fetchers |-> 0]
    /\ kept = [f \in Fetchers |-> NoCopy] /\ fresh = [f \in Fetchers |-> NoCopy]
    /\ via = [f \in Fetchers |-> "none"] /\ used = [f \in Fetchers |-> NoCopy]
    /\ cached \in {NoCopy, Copy(1, TRUE)}
    /\ meta \in {0, cached.ver}
    /\ release = 1 /\ legacy \in BOOLEAN /\ nfaults = MaxNetFaults

NetFault == nfaults > 0 /\ nfaults' = nfaults - 1
Fetched == {"used", "failed", "killed"}

\* Process f takes a step from p to q; without concurrency the processes
\* before it have ended.
Step(f, p, q) ==
    /\ fpc[f] = p
    /\ Concurrent \/ \A g \in Fetchers \ {f} : fpc[g] \in Fetched \cup {"look"}
    /\ fpc' = [fpc EXCEPT ![f] = q]
    /\ UNCHANGED legacy

\* get_cached_path: without a copy there is nothing to check.
Look(f) ==
    /\ Step(f, "look", IF cached = NoCopy THEN "keep" ELSE "head")
    /\ UNCHANGED <<told, kept, fresh, via, used, cached, meta, release, nfaults>>

\* The HEAD request; offline nothing is known.
_remote_validators(f) ==
    /\ Step(f, "head", "judge")
    /\ \/ told' = [told EXCEPT ![f] = release] /\ UNCHANGED nfaults
       \/ NetFault /\ UNCHANGED told
    /\ UNCHANGED <<kept, fresh, via, used, cached, meta, release>>

\* The sidecar decides if there is one, else size and date.
_is_current(r) ==
    \/ r = 0
    \/ meta # 0 /\ r = meta
    \/ meta = 0 /\ cached.whole /\ r <= cached.mtime

Judge(f) ==
    /\ fpc[f] = "judge"
    /\ IF _is_current(told[f])
       THEN /\ Step(f, "judge", "use")
            /\ via' = [via EXCEPT ![f] = IF meta = 0 THEN "dated" ELSE "cached"]
       ELSE Step(f, "judge", "keep") /\ UNCHANGED via
    /\ UNCHANGED <<told, kept, fresh, used, cached, meta, release, nfaults>>

\* download_firmware keeps what _download may delete.
Keep(f) ==
    /\ Step(f, "keep", "get")
    /\ kept' = [kept EXCEPT ![f] = cached]
    /\ UNCHANGED <<told, fresh, via, used, cached, meta, release, nfaults>>

\* The GET request: data and validators of one release.  A connection that
\* closes early ends the data without an error.
Get(f) ==
    /\ \/ /\ Step(f, "get", "store")
          /\ \/ fresh' = [fresh EXCEPT ![f] = Copy(release, TRUE)] /\ UNCHANGED nfaults
             \/ fresh' = [fresh EXCEPT ![f] = Copy(release, FALSE)] /\ NetFault
       \/ Step(f, "get", "clean") /\ NetFault /\ UNCHANGED fresh
    /\ UNCHANGED <<told, kept, via, used, cached, meta, release>>

Now(c) == [c EXCEPT !.mtime = release, !.late = release > c.ver]

\* write_bytes, which may fail half-way.
StoreCopy(f) ==
    /\ \/ /\ Step(f, "store", "meta")
          /\ cached' = Now(fresh[f])
          /\ UNCHANGED nfaults
       \/ /\ Step(f, "store", "clean") /\ NetFault
          /\ cached' = Now([fresh[f] EXCEPT !.whole = FALSE])
    /\ UNCHANGED <<told, kept, fresh, via, used, meta, release>>

\* _write_meta: a sidecar that cannot be written is no error.
_write_meta(f) ==
    /\ Step(f, "meta", "use")
    /\ \/ meta' = fresh[f].ver /\ UNCHANGED nfaults
       \/ NetFault /\ UNCHANGED meta
    /\ via' = [via EXCEPT ![f] = "fetched"]
    /\ UNCHANGED <<told, kept, fresh, used, cached, release>>

\* _download fails: the file is deleted, whoever wrote it.
Clean(f) ==
    /\ Step(f, "clean", "restore")
    /\ cached' = NoCopy
    /\ UNCHANGED <<told, kept, fresh, via, used, meta, release, nfaults>>

\* As _restore below, but with the time of the restoring as mtime.
RestoreTouched(f) == [kept[f] EXCEPT !.mtime = release]

\* The copy put back, with its own times.
_restore(f) == kept[f]

\* The rollback of download_firmware: the copy that was there, else an image
\* of the retired build, else the error.
Rollback(f) ==
    /\ \/ /\ kept[f] # NoCopy /\ Step(f, "restore", "use")
          /\ cached' = _restore(f)
          /\ via' = [via EXCEPT ![f] = "kept"]
       \/ /\ kept[f] = NoCopy /\ legacy /\ Step(f, "restore", "used")
          /\ via' = [via EXCEPT ![f] = "legacy"] /\ UNCHANGED cached
       \/ /\ kept[f] = NoCopy /\ ~legacy /\ Step(f, "restore", "failed")
          /\ UNCHANGED <<via, cached>>
    /\ UNCHANGED <<told, kept, fresh, used, meta, release, nfaults>>

\* The caller reads the file; it may be gone by then.
Use(f) ==
    /\ Step(f, "use", IF cached = NoCopy THEN "failed" ELSE "used")
    /\ used' = [used EXCEPT ![f] = cached]
    /\ UNCHANGED <<told, kept, fresh, via, cached, meta, release, nfaults>>

Killed(f) ==
    /\ fpc[f] \notin Fetched \cup {"look"} /\ NetFault
    /\ Step(f, fpc[f], "killed")
    /\ UNCHANGED <<told, kept, fresh, via, used, cached, meta, release>>

\* OpenIPC publishes the next build.
Publish ==
    /\ release < MaxRelease /\ release' = release + 1
    /\ UNCHANGED <<fpc, told, kept, fresh, via, used, cached, meta, legacy, nfaults>>

CacheHost ==
    \E f \in Fetchers :
        \/ Look(f) \/ _remote_validators(f) \/ Judge(f) \/ Keep(f) \/ Get(f)
        \/ StoreCopy(f) \/ _write_meta(f) \/ Clean(f) \/ Rollback(f) \/ Use(f)

CacheNext == CacheHost \/ Publish \/ \E f \in Fetchers : Killed(f)

CacheSpec == CacheInit /\ [][CacheNext]_cacheVars

CacheEnded == \A f \in Fetchers : fpc[f] \in Fetched

\* "A cached copy of a published image that no longer matches the release
\* counts as not cached" (get_cached_path): what a process that could ask for
\* the release then reads is that release or a later one, unless its own
\* download failed.  A copy written without a sidecar after its successor was
\* published is the one that dates cannot tell.
CachedIsRelease ==
    \A f \in Fetchers :
        fpc[f] = "used" /\ via[f] \in {"cached", "dated", "fetched"} =>
            used[f].ver >= told[f] \/ (via[f] = "dated" /\ used[f].late)
=============================================================================
