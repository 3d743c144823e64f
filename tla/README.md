# A TLA+ model of zabbix-nsx-t-exporter

The exporter is a Go process that polls an NSX-T manager in the background, keeps the
latest result in memory, and serves it to Prometheus scrapes. This directory holds TLA+
modules translated from its source (`src/`), configurations that check them with TLC, and
theorems about them with proofs that TLAPS checks. `PROJECT.json` maps every definition
that models code to the lines it stands for, and lists the runs, the mutants that show each
property can fail, the hazards the properties are for, the findings and the theorems.

Contents: 1 the system, 2 the modules and the code, 3 the runs, 4 fairness, 5 the findings,
6 the proofs, 7 outside assumptions, 8 what is not modelled, 9 the plan.

## 1. The system

### Components, their state and operations

| Component | State | Operations |
|---|---|---|
| Collector loop (`main.go`, `prometheus.go` `CollectAsync`) | `Exporter.Cache` | run a cycle, copy its data into the cache or keep the cache, sleep |
| Cycle (`gather.go`) | a fresh `Nsxv3Data`; per wave a buffered channel, one goroutine per endpoint, a decoded page each | `gather`, `gatherWave`, `updateData`, `handle`/`dispatch` and the endpoint handlers, `runExtendedCollectors` |
| Scrapes (`prometheus.go` `Collect`, `metrics.go` `processMetrics`) | none; reads `Exporter.Cache` | check `ExtractedActualValues`, emit |
| NSX-T client (`http.go`) | `cookie`, `token`; semaphore `sem`; rate limiter | `login`, `Get`, `updateEndpointStatus`, `executeRequest` |
| Edge nodes, tunnels, BGP, IP pools, certificates, backup, load balancers, node names (`collector_*.go`) | one section of `Nsxv3Data` each | list, fan out one goroutine per item, join, assign the section |
| BGP and IP pools in addition | one slice and the mutex its goroutines append under | lock, append, unlock |
| Load balancers in addition | `poolSeen`, a concurrent set of claimed pools | `collectLB`, `fetchLBService` |
| Configuration (`config/config.go`) | environment variables | read once |

### How they interact

`main` starts one goroutine that runs cycles one after the other. A cycle allocates
`Nsxv3Data`, runs **wave 1** (the core endpoints, at the login host), **wave 2** (two
firewall endpoints for each management node that wave 1 found), then the **extended
collectors** in sequence, and stamps the data. Goroutines of a wave write disjoint parts of
the data and report on a channel; the collector goroutine receives one message for each.
`CollectAsync` copies the data into `Exporter.Cache` by plain assignment. Scrapes run on
HTTP goroutines and read that cache. There is no lock between the two.

The extended collectors have one shape and three ways to put results together. Each walks a
paged listing, starts one goroutine per item, joins them with a `WaitGroup` and assigns its
section. Edge nodes and load balancer services are written into *slots* by index; tunnels
into slots that are *flattened and deduplicated* after the join; BGP sessions and policy IP
pools are *appended under a mutex*. Certificates and node names are a listing and nothing else.

All requests go through `executeRequest`: semaphore first, then rate limiter, then HTTP. A
wave's goroutines work on *copies* of a client, with a session each but the semaphore and
limiter shared; the extended collectors share one client, session included.

### What is hard

- **Concurrency**: scrapes against the copy into the cache; goroutines of a wave against its
  receive loop; workers of a fan-out on one session, one semaphore, one limiter; load
  balancer services that share pools; goroutines that append to one slice.
- **Failure**: a request can fail in the login, at the limiter, in transport, by status, in
  the body or in JSON; a handler can panic half-way; collectors fail one by one.
- **Ordering**: wave 2 depends on wave 1; pages follow cursors by recursion; histories come
  in any order; a pool is claimed before its statistics are read; answers of a fan-out come
  in any order; a listing may move between two of its pages, and an item be listed twice;
  names are joined to nodes that were listed earlier.
- **Timeouts**: the limiter refuses a goroutine whose token would come too late.

### What makes each part correct

- *Cycle*: a wave ends exactly when its goroutines have; only complete snapshots of one
  cycle are published; an abandoned cycle leaves the cache alone; every cycle ends.
- *Cache*: a scrape reports nothing older than what was complete when it began. (It should
  also report one snapshot, and does not.)
- *Client*: the limiter refuses nobody while the semaphore is sized to the rate; every
  fan-out is joined; no request runs beside a login of the same session.
- *Load balancers*: a shared pool is emitted once, with its own statistics. (Its members
  should not get lost either, and do.)
- *Backup*: the summary is right whatever attempts the history still has and in whatever order.
- *Edge nodes, tunnels, BGP, IP pools, certificates, names*: what was read is in the section,
  once, under its own name, whatever failed beside it and in whatever order the answers came;
  part of a listing is never shown as the whole; a pool that both IP pool listings name has
  series that can be told apart. (A node that was not read should not look measured, and does;
  the labels of a BGP session should identify it, and do not always.)

`PROJECT.json` "hazards" lists, at its line, what could go wrong in each and which property
would catch it.

## 2. The modules and the code

| Module | Models | Kind |
|---|---|---|
| `CollectorCycle` | what the collector promises the rest of the exporter | abstract specification |
| `Gather` | loop, cycle, waves, page walks, extended collectors | detailed; refines `CollectorCycle` |
| `SnapshotCache` | the copy into the cache and the scrapes, word by word | component |
| `Exporter` | waves, copy and scrapes over one memory | composition; refines `Gather` and `SnapshotCache` |
| `ApiClient` | session, semaphore, limiter, fan-out and join | component |
| `LBCollector` | claiming and filling of shared pools | component |
| `BackupHistory` | the backup collector and its summary of a history | component |
| `FanOut` | walk over the pages of a listing, goroutine per item, join | shared by the collectors below |
| `TransportNodeList` | the listing of transport nodes by type | shared by edge nodes, tunnels, names |
| `MutexAppend` | goroutines that append to one slice under a mutex | shared by BGP and IP pools |
| `EdgeCollector`, `TunnelCollector`, `BGPCollector`, `IPPoolCollector` | a collector each | components |
| `InventoryCollectors` | certificates and node names | components |
| `CollectorCall` | what a collector promises `runExtendedCollectors` | abstract specification |
| `ExtendedCollectors` | one call of any of these collectors or of `BackupHistory`'s | composition; refines `CollectorCall` |
| `MC*` | constants and symmetry for TLC | |
| `*_proofs` | theorems | |
| `LeastNumbers` | induction over the natural numbers, for the proofs about loops | lemmas |

**`Gather`.** `pc` is where the collector goroutine is, `go[e]` where the goroutine of
endpoint `e` is. A handler's figures are abstracted to *which page of which cycle* it wrote,
so that lost, repeated or mixed pages are visible: `data.pages[e]` is the sequence of pages
written. `Torn` is what a handler that panicked leaves. The channel is two counters, because
only `nil` and error can be told apart. `StartCycle` is the top of the loop with the start of
wave 1; `Receive` is `<-ch`; `Abandon`, `StartWave2` and `StartExtended` are the code after
`gatherWave`; `RunCollector` is one extended collector, which assigns its section or fails
before it does; `Stamp` and `Publish` end the cycle. For a goroutine, `FetchFails` and
`Fetch` are `updateEndpointStatus`, and `HandlePanics`, `HandleLast`, `HandleMore` are
`handle` with the rest of `updateData`. `updateData` is recursive: `HandleMore` sends
nothing, goes back to "fetch".

**`CollectorCycle`.** Cycles one at a time; each publishes a complete snapshot of its own or
leaves the old one. `Gather` maps `running` to `pc # "sleep"` and `snapshot` to `Shown(cache)`;
an incomplete snapshot in the cache maps to no legal value.

**`SnapshotCache`.** It takes the single step `Publish` of `Gather` apart. A word is known by
the publication that wrote it. `CopiedBefore` says which order the copy keeps: none, for a
copy about which nothing is assumed (Go promises nothing for racing accesses), or
declaration order. The reads of a scrape keep program order, because channel sends separate
them. A word is a machine word: a slice has three, a string two, and the copy writes, and a
scrape reads, each on its own. Torn reads *within* a machine word do not occur on the platforms
Go supports.

**`Exporter`.** `Gather` and `SnapshotCache` each leave out what the other has: `Gather` copies
the data in one step, and in `SnapshotCache` a word is only the number of the copy that wrote
it. `Exporter` has both over one memory. It extends `Gather` and takes `Publish` apart:
`BeginCopy`, a `CopyWord` for each word, `EndCopy`; `CopyWord` reads `data` as it is *at that
moment*, so a goroutine that outlived its wave would be seen. `Scrape`, `CheckFlag`,
`ReportWord` and `EndScrape` read values of the cache. `published` and `seen` are history
variables: what each copy was started with, and of which copy a scrape has read.

`Words` are machine words here too: `PartsOf` gives those of each kind of field, and a word is
known by the value of the field it is part of, so that two words of one field with different
values are a field that was torn, as the pointer and the length of a slice may be. A word refers
to an array without copying it; that is right only if nobody writes to the array later, when the
cache shares it, and `StampedIsFinal` says that nobody does. Seen through `Served`, the last
complete copy, the exporter is `Gather`; seen through `Origin`, the copy that wrote each word, it
is `SnapshotCache`. So what the two modules say holds of one program, and
`WordsReadWereGathered` joins them: each *word* a scrape reads is that of a complete snapshot of
a single cycle, in a window of cycles. It says nothing of two words together, not even of one
field: there `OneSnapshot` of `SnapshotCache` fails. A scrape during which nothing is published
does see one snapshot (`ScrapeInWindow`).

**`ApiClient`.** One caller is one goroutine and its call: `Call` is `login`'s test of the
session; `Acquire` the semaphore; `Allow`, `Reserve`, `Refuse`, `Proceed` the two limiter
calls; `DoFails`, `LoggedIn`, `Answered`, `ReadBody` what happens to the request, login and
GET alike. The slot goes back when the headers are in, so reading the body holds none. Time
is in token periods (`1/RequestsPerSecond` s) and passes in `Tick`. `FanOut`, `Return` and
`Join` are the shape that all extended collectors have; with `Lister = NoLister` the same
module is a wave.

**`LBCollector`.** `main` walks through `collectLB`, with `ListVirtualServers` and `ListPools`
its name tables; `DetailedStatus`, `Claim` (one `LoadOrStore` per pool) and `Statistics` are
`fetchLBService`. An entry of a result records whose statistics it was `given`, so that a
wrong match shows. Virtual servers are local to their goroutine and deduplicated by nobody,
pools are claimed. `Places` and `Shown` are what `emitLBMetrics` makes series of.

**`BackupHistory`.** `LatestIdx`, `Insert`, `Rounds` and `Ordered` (which sort indexes, not
attempts, as the code does), `FirstSuccess`, `ConsecutiveFailures` and `LastSuccessTimestamp`
are the loops of `summarizeBackupHistory`, and `CollectBackup` and `BackupFails` the two ends of
`collectBackup`. NSX-T keeps a bounded history (`collector_backup.go:86`), and an attempt that
one cycle saw may be gone in the next: a call gets *any* list, and nothing is stated across calls.
In particular the last success that is reported may go back, to 0 when the only success has
dropped out.

**`FanOut`.** `call` is where a collector is or how it returned, `listed` what its walk has
listed, `pending` the `WaitGroup`. `MidPage` and `LastPage` are a page with and without a
cursor; `BrokenWalk` is a lister that returns `nil` and an error whatever its pages held. A
page is any sequence of items up to `MaxPage`, so a moving listing and repeated items are
included. A behaviour is *one call*: nothing a call reads was left by an earlier one.

**`TransportNodeList`.** `OfType` is the loop of `listTransportNodes` over a page, `Keep` its
body.

**`EdgeCollector`.** `FetchEdge(i)` is goroutine `i`, its request and its write to slot `i`:
the figures of the node it was started for, or `Zeros` if they could not be read.

**`TunnelCollector`.** `FetchTunnels` fills a slot or leaves it nil; `KeepTunnel`,
`SkipTunnel`, `NextNode` are the two loops after the join, one tunnel at a time. The tables
of states are in `TunnelState`.

**`MutexAppend`.** An append is two steps, the read of the slice (`Lock`) and the write of
the longer one (`Store`). Without the mutex the second goroutine writes over the first; with
it the two steps are one to everybody else, which is proved and not assumed.

**`BGPCollector`.** A goroutine per tier-0 lists its locale services, then per service reads a
status and appends its sessions one by one. The mutex is taken for each session, as in the
code. A status is a list, known by its places, and may list a session twice or two that differ
in their source address only; `EdgeNodeIDFromPath` is what `edgeNodeIDFromPath` does, the empty
ID for the paths without its marker (`OddPaths`) and the edge's own for the others. `BGPLabels`
are the labels of a session's series, of which the source address is none. `answered` is a
history variable: all sessions that some status has listed.

**`IPPoolCollector`.** The listing of the management plane, whose entries have their usage
with them, then the policy listing and a goroutine for each pool that is no shadow pool.
`used` is a history variable, as `answered`. Most pools are in both listings; the source label
keeps their series apart (`PoolsApart`).

Nothing makes the series of edge nodes, file systems, BGP sessions, IP pools and certificates
unique if NSX-T lists an item twice: only tunnels are deduplicated, and only of tunnels does the
project claim it (`TunnelsOnce`).

**`InventoryCollectors`.** `NameByID` is the map `byID`, which keeps the last of equal keys.

**`ExtendedCollectors`.** `runExtendedCollectors` calls the collectors one after the other and
they share nothing but the client (which is in `ApiClient`), so a behaviour is one call of
`collector` while the variables of the others rest. That keeps the state space a sum and not
a product. The sequence of calls is `RunCollector` of `Gather`, which takes for granted that
a collector that fails has not touched the data and that one that has ended is really over.
`CollectorCall` says so, and `ExtendedCollectors` implements it: `outcome` is `call` as far as
a caller can see it, `sections` all that collectors assign, `Blank` what the waves leave.

## 3. The runs

| Run | Bounds | What it shows |
|---|---|---|
| `gather` | 2 nodes, the node list and 1 paged kind, 1 firewall kind, 2 collectors, 2 pages, 2 cycles | exact join, one message per goroutine, complete snapshots only, refinement of `CollectorCycle`; every cycle ends, a clean one is published |
| `gather_malformed` | as above, 1 node, 2 firewall kinds | *finding*: one malformed payload abandons the cycle |
| `cache_safety` | 4 words, any copy order, 2 scrapes, 3 publications | how stale a scrape may be: within its window, never back by more than one publication |
| `cache_one_snapshot` | declaration order, 1 scrape | *finding*: one scrape mixes two snapshots, during the first copy with zero values |
| `exporter` | 1 node, the node list (2 words) and 1 more core kind, 1 firewall kind, 1 collector, 1 page, 2 cycles, 1 scrape of the flag and 4 words, any copy order | each word a scrape reads is of a complete snapshot, of a cycle in its window; stamped data is final; refinement of `Gather` and of `SnapshotCache` |
| `client_shared` | lister, 3 workers, rate 2, timeout 1, 2 requests each, 2 rounds | no refusal, dense token queue, login alone, every fan-out joined |
| `client_wave` | 3 goroutines with a session and login each, rate 2, timeout 0 | a wave ends also when the limiter refuses: the error path gives its slot back |
| `lb_safety` | 2 services, 2 pools, 2 virtual servers | each reported pool once; pools and virtual servers with their own statistics |
| `lb_members_once` | the same | *finding*: a shared pool loses its members |
| `collectors` | listings of 2 items in pages of up to 2; 3 transport nodes, 2 of them edges; up to 2 tunnels per node, 2 local addresses; 2 tier-0s, 2 locale services each, 2 sessions per status; 2 IP pools, 1 of them a shadow pool; 2 certificates; backup histories of up to 4 attempts at 3 start times | what was read is in the section, once, in its place, under its own name; a pool of both listings has two series; the backup summary matches a declarative reading of the help texts; every call returns, one that fails has touched nothing (refinement of `CollectorCall`) |
| `edge_absence` | as above, edge nodes only | *finding*: an edge node that was not read has series of zeros |
| `bgp_labels` | 1 tier-0, 1 locale service, 1 neighbour, 1 edge path with the marker and 2 without | *finding*: sessions of two edge nodes have the same labels |

**Why the bounds are enough.** *Gather*: a second cycle is the first that can meet left-overs of
an earlier one; two pages distinguish first, middle-with-cursor and last; two nodes make a wave
whose goroutines differ in the host. *SnapshotCache*: four words are a flag, a word before it,
and words after it, two of one slice; with three publications a scrape can start between any
two. *Exporter*: two cycles are one that is published before a scrape and one that is copied, or
abandoned, during it, each with a wave of two goroutines and one that depends on it; the words
read are the stamp, pointer and length of the node list, through which the figures of the second
wave are reached, and a collector's section. *ApiClient*: three workers and two slots make one
wait at the semaphore while another waits at the limiter, and two requests each let a fast
worker overtake. The lister's two requests include one that fails before one that succeeds.
*LBCollector*: two services are one that claims a pool and one that finds it claimed; two pools
and two virtual servers allow a wrong match, also between two that are in no list. *Collectors*:
a listing of two items has one or two pages, the second of which can fail, and an item that is
repeated, on one page or across two; two goroutines are enough to interleave two appends and to
answer in the wrong order; two reports of a node can agree or contradict each other, as can
those of a node listed twice; two services make a status that fails come before one that does
not. `MaxListed` bounds the walk: NSX-T could name cursors for ever, and the code would follow.
*BackupHistory*: up to four equal start times among four attempts, with a success anywhere
between failures, and a time 0, which is also what no success is reported as. `NobodyRefused`,
`EachPoolOnce`, `TunnelsHold` and the other theorems cover the unbounded case, of every safety
property.

`CHECK_DEADLOCK FALSE` is set where behaviours are meant to stop: after the last cycle, the
last publication, the last join, or when a collector returns.

Symmetry is used in runs without liveness only: over scrapes, services, pools and virtual
servers, none of which any definition tells apart.

Every property of a passing run has a mutant: an operator `Mutant_...` next to the definition
it replaces, the bug someone could write there (a check apart from its store, a join that
waits for success, an error counter that survives the wave). `PROJECT.json` says which run
finds it.

## 4. Fairness

`Gather!FairSpec`: weak fairness of the collector goroutine and of each goroutine. The Go
scheduler is preemptive and runs what can run. A goroutine's fetch ending is *more* than
that: it holds when `NSXV3_REQUEST_TIMEOUT_SECONDS` is set. With the **default of 0** the
`http.Client` has no limit and one unanswered connection stops this cycle and every later
one, so `CycleEnds` and `AllJoin` are claims about a configured exporter. No fairness picks
which message comes first or that a request succeeds.

`ApiClient!FairSpec`: weak fairness per caller, of time, and of the goroutine that fans out
and joins. `WF` for a caller that waits at the semaphore suffices here because every caller
makes finitely many requests, so a slot that comes free in the end stays free; Go's
channels are first-in first-out, which is stronger.

`ExtendedCollectors!FairSpec`: weak fairness of the collector as a whole, which says that
some goroutine of it that can run does. That is weaker than fairness for each, and enough:
every step uses up something finite, so no goroutine can be passed over for ever. It includes
that a request ends, as above.

## 5. The findings

1. **One malformed payload drops the cycle** (`gather_malformed`). The comment at
   `gather.go:446` says it fails only its endpoint; the error it becomes fails the wave and
   `gather` returns.
2. **A scrape mixes snapshots** (`cache_one_snapshot`). `e.Cache = data` races with `Collect`.
   The guard `ExtractedActualValues` is copied by the same unsynchronised assignment as what it
   guards, so that at start-up a scrape can pass it and report zeros. What holds
   nevertheless is in `cache_safety` and `exporter`.
3. **An edge node that was not read has series of zeros** (`edge_absence`). `collectEdgeNodes`
   keeps an entry with the ID and name only, and `emitEdgeNodeMetrics` makes every series of
   it. `docs/ZABBIX-TRIGGERS.md:22` detects such a node by the *absence* of its series.
4. **A shared pool loses its members** (`lb_members_once`). The service that claimed it fails
   its statistics request; the others, whose statistics had them, have skipped the pool.
5. **Labels do not identify a BGP session** (`bgp_labels`). The comment at
   `collector_bgp.go:219-221` says that tier-0, locale service, neighbour and edge node are
   sufficient "to uniquely identify any BGP session in the fabric". `edgeNodeIDFromPath` gives the
   empty ID for a path without its marker, so that the sessions of one neighbour with two such
   edge nodes have equal labels. Whether NSX-T answers such a path the repository does not say;
   the function allows for it.

2 needs a lock or an atomic pointer, 3 an entry left out or a series that says it was
read; for 1, 4 and 5 the code may be right and the comment too strong.

Not a finding but a limit: `AlwaysDrainable` needs `RequestsPerSecond` and the timeout to be at
least 1, as `NobodyRefused` assumes. With the rate 0 the semaphore falls back to ten slots
while the limiter refuses every request after the first; with the timeout 0 (run
`client_wave`) it refuses whoever would have to wait. Nothing in the repository promises
more for those settings.

## 6. The proofs

All for every value of the constants that meets the module's named assumption. Each
component has its proofs in `<module>_proofs.tla`.

**`Gather_proofs`** — `TypeCorrect`, `ChannelCounts` (`OneMessageEach`), `WavesJoin`
(`NoStraggler`), `Publication` (`PublishedComplete`), `Refinement` (`ImplementsCollectorCycle`).
`OneMessageEach` is not inductive: the receive loop has to be tied to the goroutines of *this*
wave. `CountInv` says that goroutines run only in their own wave, that messages received and
waiting count those that have returned, and errors those that failed. When all messages are in,
all have returned (`WaveDrained`), and no error means none failed. `WalkInv` then follows the
pages: a goroutine that is alive has walked up to its cursor, one that is done has walked to the
end. `Publication` and the refinement follow from both.

**`SnapshotCache_proofs`** — `TypeCorrect` (`TypeOK`, which no run checks), `CacheRecent`
(`CacheIsRecent`), `Window` (`ScrapeInWindow`), `BoundedFallBack` (`FallsBackAtMostOne`).
`CopyInv`: copies do not overlap, so a word is of the last complete publication or of the one
under way. `ScrapeInv` bounds what was read by what was complete at the start and begun by now.

**`ApiClient_proofs`** — `TypeCorrect`, `QueueIsDense` (`DenseQueue`), `NobodyRefused`
(`AlwaysDrainable`, for a rate and a timeout of at least 1), `LoginsAlone` (`LoginAlone`).
The heart is `NextToken`: when `n` tokens are owed, the map from waiting goroutines to the
periods they wait is onto `1..n`, so `n` goroutines besides the one that asks hold slots, and
`n + 1` is at most the number of slots. That is why a slot holder waits at most one second
however many goroutines queue for a slot, and why a timeout of one second suffices. For
logins, `PhaseInv` says that workers are idle while the lister lists and that a fan-out
follows a successful request of the lister; `SessionInv` that such a request leaves the
session open for good.

**`LBCollector_proofs`** — `TypeCorrect`, `EachPoolOnce` (`PoolsOnce`),
`StatisticsOfItsOwn` (`OwnStatistics`). `ClaimInv` says that claimed pools and entries of
results are in one-to-one correspondence and that a reported pool is claimed or still to be
looked at; `EntryInv` and `ServerInv` that an entry has the ID of its pool or virtual server
and, if that is listed, was given nothing of another's.

**`ExtendedCollectors_proofs`**, first the collectors alone:

- *Tunnels*: `EachTunnelOnce` (`TunnelsOnce`), `NoTunnelLost` (`TunnelsComplete`). The
  invariant ties the two loops to their result: `seen` holds the keys of what has been kept,
  and every place before the loops' position is either kept or comes after a place with the
  same key.
- *BGP*: `AppendsExclude`, `NoSessionLost` (`BGPNothingLost`). A goroutine between the two
  steps of an append has the mutex, and what it has read is still the slice; so the slice
  holds exactly the sessions `answered` less those in some goroutine's `entries`. When all have
  joined there are none of these. What `answered` holds of a service that its goroutine has
  not reached is nothing, so that no session is appended twice.
- *IP pools*: `NoPoolLost` (`PoolsNothingLost`), along the same lines, with `MPEntries` in front.

Then their composition: `EdgesKeepTheirPlace` (`EdgesInOrder`), `TunnelsHold` (`TunnelsOnce`,
`TunnelsComplete`), `AppendsHold` (`BGPNothingLost`, `PoolsNothingLost`), `NamesAreOwn`
(`NamesOfTheirOwn`), `SectionsWhole` (`WholeListings`), `PoolsStayApart` (`PoolsApart`),
`BackupHolds` (`SummaryCorrect`, `LoopsAgree`), `PromiseKept` (`ImplementsCollectorCall`),
`TypeCorrect` (`TypeOK`). One invariant for the composition: the collector that is called keeps
its own (the lemmas above carry over, as they are stated for a step and not for a
specification), and the variables of the others are as they were at the start. `PoolsStayApart`
follows: as `NoPoolLost` says that the section has each entry once, two of one source are of two
places of its listing. `PromiseKept` adds that a collector can only fail while it lists, when by
the invariant it has assigned nothing, and that no step of any is enabled once it has ended.
`TypeCorrect` needs what the loop over a page keeps: `OfTypeIs` shows that it keeps members of
the page, and only of the type asked for.

**`BackupHistory_proofs`** — `BackupTypesCorrect` (`BackupTypeOK`), `SummaryRight`
(`SummaryCorrect`), `LoopsAgreeAlways` (`LoopsAgree`), for histories of any length;
`ExtendedCollectors_proofs` takes its lemmas over. The machine is small (`BackupInv`: `Backup`
is the summary of `history`, or nothing is collected yet); the proof is about the algorithm.
`IsOrdering(h, o, n)` is the loop invariant of the insertion sort: `o` has each of the first `n`
indexes once, newest first, and of attempts with equal times the one listed first is first.
`InsertOrders` shows that a round keeps it, `RoundsOrder` that it holds after every round. So
the first of the sorted list is `LatestIdx` (`LatestIsFirst`), which is why the two loops agree
on ties, and the attempts before `FirstSuccess` are failures and later than the success, which
gives the last success and, by a bijection, the number of failures.

**`LeastNumbers`** — the induction used there. The theorem `NatInduction` of the library takes a
predicate as a parameter, which none of the installed provers can instantiate.
`StepByStep` says the same of a *set* of natural numbers, from `WFMin` of the library: a set that
has 0 and the successor of each of its members has them all. What a loop has computed after
`n` rounds is stated as `n` being in a set.

**`Exporter_proofs`** — `TypeCorrect` (`ExporterTypeOK`), `ReadsWereGathered`
(`WordsReadWereGathered`), `StampedStays` (`StampedIsFinal`), `CopyIsOneStep` (`ImplementsGather`),
`WordsAreOfCopies` (`ImplementsSnapshotCache`). It instantiates the proofs of both parts, so that
their invariants and theorems are used and not proved again. `PhaseInv` says where the collector
is while a copy runs; with `CountInv` of `Gather`, seen through `Served`, no goroutine of a wave
is alive then (`NobodyAlive`), so the data stays what the copy was started with. `MemInv`
follows: each word of the cache is that word of the copy `Origin` names, and all copies were
started with complete snapshots (`WalkInv`). `ReadInv` says the same of the words that scrapes
have read. From `MemInv` the flag is set exactly if a copy has written it, which makes
`CheckFlag` a step of `SnapshotCache`; and the refinement carries its `Window` over, which with
`ReadInv` is `ReadsWereGathered`.

Only model-checked:
- liveness (`CycleEnds`, `CleanCyclePublishes`, `AllJoin`, `CollectorReturns`), which the
  prover does not do under fairness;
- the findings, which are counterexamples.

## 7. Outside assumptions

- `golang.org/x/time/rate` with burst 1: `Allow` takes a token if there is one; `Wait`
  reserves the next and refuses at once if it would be due after the deadline. Time is
  discretised to token periods; a token due exactly at the deadline is granted. Real waits
  are shorter than the model's by the fraction of a period that has already passed.
- NSX-T answers a GET without a session with an error status. `LoginAlone` depends on it.
- A session may expire; the model lets any GET with a session fail.
- Management nodes have distinct, non-empty addresses, and the listing of a core endpoint does
  not change while its pages are read (`Gather`; the listings of `FanOut` may).
- An answer of NSX-T lists a pool or virtual server at most once per service, and they have
  distinct IDs (`LBCollector`).
- A status lists BGP sessions in any order, repeated or not, or none (`BGPCollector`).
- The answer for a locale-service list is modelled as one, of which a failure leaves nothing.

## 8. Not modelled

- The figures themselves, label texts, descriptors, JSON and URL syntax, logging.
- `url.ParseQuery` failing in `updateData` (`gather.go:648`): it would send twice, but the
  query it parses comes from `getEndpointStatus` and is constant.
- The requests of the extended collectors are the callers of `ApiClient`, their sequence is
  `RunCollector` of `Gather`, and what they do with the answers is `ExtendedCollectors`,
  `LBCollector` and `BackupHistory`. A session that expires between two collectors is in
  `ApiClient` as a GET that fails; that no later collector logs in again (`http.go:126`) breaks
  no promise of the code and is no property here.
- TLS, connection pool, HTTP server, Docker, Zabbix templates.
- Configuration: what matters of it are constants and the fairness assumption.

## 9. The plan

Done, in order of importance: cycle, cache, client, load balancers, backup, then the listings
and fan-outs of the other collectors, each with its run and, where it joins results of several
goroutines, its theorem.

The composition of cycle, cache and scrapes (`Exporter`) came last; with it every invariant and
every action or refinement property of the passing runs has a theorem.

Left:

1. `CollectorCall` for the load balancer collector too, which fails before it assigns in the
   same way.
2. Certificate and inventory collectors have no goroutines; what is left of them, as of
   `metrics.go`, is the copying of fields.
