---------------------------- MODULE KernelCache ----------------------------
(* The Xray builds the panel keeps (kernel/fetch.go, kernel/registry.go): archives it     *)
(* downloads once and relays to nodes, and the binaries unpacked from them, which judge   *)
(* the configs of nodes on that version (upgrade/upgrade.go: Prewarm, Order, relays).     *)
EXTENDS Integers, FiniteSets

CONSTANTS
    Builds,         \* versions upstream offers, other than the one Core ships with
    Platforms,      \* of Core and of its nodes
    CorePlatform,
    Fetchers,       \* calls in flight: prewarming, an order, a relay request
    Solo            \* whether versions are installed one at a time

ASSUME CacheAssumption ==
    CorePlatform \in Platforms /\ Solo \in BOOLEAN /\ "none" \notin Fetchers

VARIABLES
    archive,    \* <<build, platform>> -> file in .archives: "none", "bad" or "whole"
    part,       \* the .part file next to it
    flight,     \* inflight: the call that downloads, or "none"
    unpacked,   \* build -> its directory: "none" or "whole"
    scanned,    \* Registry.scanned
    fetcher     \* call -> where it is

hvars == <<archive, part, flight, unpacked, scanned, fetcher>>

Archives == Builds \X Platforms
Free == [step |-> "free", kind |-> "none", of |-> <<>>]
Call(kind, a) == [step |-> "verify", kind |-> kind, of |-> a]
Readable == {b \in Builds : unpacked[b] = "whole"}

CacheInit ==
    /\ archive = [a \in Archives |-> "none"] /\ part = [a \in Archives |-> "none"]
    /\ flight = [a \in Archives |-> "none"]
    /\ unpacked = [b \in Builds |-> "none"] /\ scanned = {}
    /\ fetcher = [w \in Fetchers |-> Free]

At(w, step) == fetcher[w].step = step
Goto(w, step) == fetcher' = [fetcher EXCEPT ![w].step = step]
Finish(w) == fetcher' = [fetcher EXCEPT ![w] = Free]

\* Has: on disk as far as the last scan knows.
Has(b) == b \in scanned

-----------------------------------------------------------------------------
(* Callers *)

Installing(b) ==
    {w \in Fetchers : fetcher[w].kind = "install" /\ fetcher[w].of[1] = b}

\* Prewarm and Order install the panel's own copy of a version it does not have.
Install(w, b) ==
    /\ At(w, "free") /\ ~ Has(b)
    /\ Solo => \A d \in Builds \ {b} : Installing(d) = {}
    /\ fetcher' = [fetcher EXCEPT ![w] = [Call("install", <<b, CorePlatform>>) EXCEPT !.step = "lock"]]
    /\ UNCHANGED <<archive, part, flight, unpacked, scanned>>

\* installLock, and Has once more under it.
installLock(w) ==
    /\ At(w, "lock") /\ \A v \in Installing(fetcher[w].of[1]) : At(v, "lock")
    /\ IF Has(fetcher[w].of[1]) THEN Finish(w) ELSE Goto(w, "verify")
    /\ UNCHANGED <<archive, part, flight, unpacked, scanned>>

\* A node asks for a slice of the archive of its own platform.
HandleRelayRequest(w, a) ==
    /\ At(w, "free")
    /\ fetcher' = [fetcher EXCEPT ![w] = Call("relay", a)]
    /\ UNCHANGED <<archive, part, flight, unpacked, scanned>>

-----------------------------------------------------------------------------
(* EnsureArchive *)

Ready(w) == IF fetcher[w].kind = "relay" THEN "read" ELSE "unpack"

\* A cached archive is verified rather than trusted by existence.
EnsureArchive(w) ==
    /\ At(w, "verify")
    /\ Goto(w, IF archive[fetcher[w].of] = "whole" THEN Ready(w) ELSE "join")
    /\ UNCHANGED <<archive, part, flight, unpacked, scanned>>

\* One download per archive: the first call starts it, the others wait for its result.
joinsAlone(w, a) == Goto(w, "download") /\ flight' = [flight EXCEPT ![a] = w]
joins(w, a) ==
    IF flight[a] # "none" THEN Goto(w, "wait") /\ UNCHANGED flight
    ELSE Goto(w, "download") /\ flight' = [flight EXCEPT ![a] = w]

Join(w) ==
    /\ At(w, "join") /\ joins(w, fetcher[w].of)
    /\ UNCHANGED <<archive, part, unpacked, scanned>>

\* os.Create truncates what a download cut off before left there.
fetch(w) ==
    /\ At(w, "download") /\ part' = [part EXCEPT ![fetcher[w].of] = "bad"]
    /\ Goto(w, "copy")
    /\ UNCHANGED <<archive, flight, unpacked, scanned>>

\* The body arrives; or less of it, or something else.
Copied(w, got) ==
    /\ At(w, "copy") /\ part' = [part EXCEPT ![fetcher[w].of] = got]
    /\ Goto(w, "check")
    /\ UNCHANGED <<archive, flight, unpacked, scanned>>

\* The result, for the call that downloaded and for those that wait.
Result(w, ok) ==
    LET a == fetcher[w].of
        told == {w} \cup {v \in Fetchers : At(v, "wait") /\ fetcher[v].of = a}
    IN  /\ flight' = [flight EXCEPT ![a] = "none"]
        /\ fetcher' = [v \in Fetchers |->
              IF v \notin told THEN fetcher[v]
              ELSE IF ok THEN [fetcher[v] EXCEPT !.step = Ready(v)] ELSE Free]

\* No answer or a status other than 200 leaves .part alone; a body cut short, a digest that
\* differs or a failed rename removes it.
DownloadFails(w) ==
    LET a == fetcher[w].of IN
    /\ \/ At(w, "download") /\ UNCHANGED part
       \/ /\ At(w, "copy") \/ (At(w, "check") /\ part[a] # "whole") \/ At(w, "rename")
          /\ part' = [part EXCEPT ![a] = "none"]
    /\ Result(w, FALSE)
    /\ UNCHANGED <<archive, unpacked, scanned>>

Verify(w) ==
    /\ At(w, "check") /\ part[fetcher[w].of] = "whole"
    /\ Goto(w, "rename")
    /\ UNCHANGED <<archive, part, flight, unpacked, scanned>>

Rename(w) ==
    LET a == fetcher[w].of IN
    /\ At(w, "rename")
    /\ archive' = [archive EXCEPT ![a] = IF part[a] = "none" THEN @ ELSE part[a]]
    /\ part' = [part EXCEPT ![a] = "none"]
    /\ Result(w, part[a] # "none")
    /\ UNCHANGED <<unpacked, scanned>>

\* A waiting caller's context ends.
GivesUp(w) ==
    /\ At(w, "wait") /\ Finish(w)
    /\ UNCHANGED <<archive, part, flight, unpacked, scanned>>

ReadChunk(w) ==
    /\ At(w, "read") /\ Finish(w)
    /\ UNCHANGED <<archive, part, flight, unpacked, scanned>>

-----------------------------------------------------------------------------
(* Unpacking, into a directory of its own, and the scan *)

\* The zip may not unpack, or the disk be full: staging is removed.
Unpack(w, ok) ==
    /\ At(w, "unpack")
    /\ IF ok THEN Goto(w, "remove") ELSE Finish(w)
    /\ UNCHANGED <<archive, part, flight, unpacked, scanned>>

RemoveFinal(w) ==
    /\ At(w, "remove") /\ unpacked' = [unpacked EXCEPT ![fetcher[w].of[1]] = "none"]
    /\ Goto(w, "swap")
    /\ UNCHANGED <<archive, part, flight, scanned>>

SwapIn(w) ==
    /\ At(w, "swap") /\ unpacked' = [unpacked EXCEPT ![fetcher[w].of[1]] = "whole"]
    /\ Goto(w, "scan")
    /\ UNCHANGED <<archive, part, flight, scanned>>

\* Rescan reads the directory without the lock, and replaces the map under it.
Rescan(w) ==
    /\ At(w, "scan") \/ At(w, "rescan")
    /\ fetcher' = [fetcher EXCEPT ![w] =
          [step |-> IF At(w, "scan") THEN "scanned" ELSE "rescanned",
           kind |-> "install", of |-> fetcher[w].of, found |-> Readable]]
    /\ UNCHANGED <<archive, part, flight, unpacked, scanned>>

Scanned(w) ==
    /\ At(w, "scanned") \/ At(w, "rescanned")
    /\ scanned' = fetcher[w].found
    /\ IF At(w, "scanned") THEN Goto(w, "ask") ELSE Finish(w)
    /\ UNCHANGED <<archive, part, flight, unpacked>>

\* For(version).Exact, by the name of the directory; else the version is taken out again.
For(w) ==
    LET b == fetcher[w].of[1] IN
    /\ At(w, "ask")
    /\ IF Has(b) THEN Finish(w) /\ UNCHANGED unpacked
       ELSE Goto(w, "rescan") /\ unpacked' = [unpacked EXCEPT ![b] = "none"]
    /\ UNCHANGED <<archive, part, flight, scanned>>

-----------------------------------------------------------------------------
\* Core stops and starts: New scans what is there.  An archive renamed just before a power
\* failure may be cut short.
CoreDies(torn) ==
    /\ fetcher' = [w \in Fetchers |-> Free] /\ flight' = [a \in Archives |-> "none"]
    /\ archive' = [a \in Archives |-> IF a \in torn THEN "bad" ELSE archive[a]]
    /\ scanned' = Readable
    /\ UNCHANGED <<part, unpacked>>

FetcherStep(w) ==
    \/ \E b \in Builds : Install(w, b)
    \/ \E a \in Archives : HandleRelayRequest(w, a)
    \/ installLock(w) \/ EnsureArchive(w) \/ Join(w) \/ fetch(w) \/ DownloadFails(w)
    \/ \E got \in {"bad", "whole"} : Copied(w, got)
    \/ Verify(w) \/ Rename(w) \/ GivesUp(w) \/ ReadChunk(w)
    \/ \E ok \in BOOLEAN : Unpack(w, ok)
    \/ RemoveFinal(w) \/ SwapIn(w) \/ Rescan(w) \/ Scanned(w) \/ For(w)

CacheNext ==
    \/ \E w \in Fetchers : FetcherStep(w)
    \/ \E torn \in SUBSET {a \in Archives : archive[a] = "whole"} : CoreDies(torn)

CacheSpec == CacheInit /\ [][CacheNext]_hvars

-----------------------------------------------------------------------------
\* "a reader never sees a partially written archive at the path it is about to relay"
\* (fetch): whatever downloads overlap, fail or are cut off by a crash, an archive that is
\* about to be relayed or unpacked is whole.
ArchivesWhole ==
    \A w \in Fetchers : At(w, "read") \/ At(w, "unpack") => archive[fetcher[w].of] = "whole"

\* "a version fetched for a node becomes validatable immediately" and "stay the same set by
\* construction" (Registry): with no install under way the registry offers what is on disk.
\* Two versions installed at once break it (Solo = FALSE): Rescan reads the directory outside
\* the lock, so the older of two scans can be the one that stays.
OffersWhatIsThere ==
    (\A w \in Fetchers : fetcher[w].kind # "install") => scanned = Readable

=============================================================================
