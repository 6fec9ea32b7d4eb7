# A verification project for rdap-lookup

TLA+ models of [rdap-lookup](../src/README.md), a service (and a Go library) that answers
domain, IP, AS number and entity lookups from RDAP servers found through the IANA bootstrap
files, with WHOIS as a fallback, a two-tier cache, and a rate limiter per client.  TLC checks
the models on small instances; TLAPS proves the invariants that matter most for every value of
the constants.  Every definition is translated from the source: `PROJECT.json` maps each one to
its lines.  Paths below are relative to the repository.

## 1. Inventory

| Component | State it keeps | Operations | Hard behaviour |
|---|---|---|---|
| Memory cache, `internal/cache/memory.go` | LRU map, `sizeBytes`, RW mutex | Get, Set, Delete, Clear | Get drops its read lock before the expiry step; every removal runs an eviction callback that adjusts the counter too |
| Redis cache, `internal/cache/redis.go` | keys in Redis, shared, surviving restarts | Get, Set, Delete, Clear | failures, corrupt values, other writers |
| Tiered cache, `internal/cache/tiered.go` | the two tiers, a singleflight group | GetOrFetch(WithNegative), Get, Set, promotion | joined flights, contexts detached from the callers, writes to two tiers, promotion of what is already old |
| Rate limiter, `internal/api/ratelimit.go` | two `sync.Map`s with atomic counters | getLimiter, cleanupLoop, Stop | no common lock: check, store and count are separate steps |
| Bootstrap service, `internal/bootstrap/service.go` | resolver, validator, `stopCh`, `doneCh`, `running` | Start, Stop, refresh, Resolver | background goroutine, failing loads, stop during a refresh |
| Loader and resolver, `internal/bootstrap/{loader,resolver,types}.go` | tables of TLDs, prefixes, AS ranges | LoadAll, Resolve* | all or nothing over four files; longest match; nested ranges |
| RDAP client, `internal/rdap/client.go` | `resolver` (no lock) | Query*, queryWithRetry | retries, backoff, several servers, deadlines |
| Validator, `internal/validate/url.go` | allowlist of hosts | IsAllowed, UpdateAllowlist | must follow the bootstrap data |
| Lookup handlers, `internal/api/lookup.go` | none of their own | Lookup*, batch | deadlines, bounded concurrency, WHOIS fallback |
| WHOIS, `internal/whois` | discovery cache, `closed` | Query, DiscoverServer, Close | close against queries in flight |
| Standalone client, `pkg/rdaplookup/standalone.go` | cache, two references to a resolver, `sync.Once`, `closed` | Lookup*, BatchLookup, refresh, Close | one-time load against refresh, batch and Close |
| REST client, `pkg/rdaplookup/client.go` | none | doRequest | retries, pauses, the caller's context |
| Command-line tools, `cmd/rdap-client`, `cmd/phishstats-analyzer` | none that outlives a run | run | what an error becomes on its way to the user; a signal between two lookups |

How they interact: a request passes the rate limiter, then a lookup handler, which asks the
tiered cache for a key; on a miss the cache runs the handler's fetch function inside a
singleflight call, under a context of its own.  The fetch reads the bootstrap service's
resolver, sets it in the one RDAP client, queries, and names the server from the resolver of
that later moment.  Entity lookups first ask the validator.  The bootstrap service refreshes
the resolver in the background.

What makes each correct: the memory cache keeps index, order and counter in step and keeps to
its limits; the tiered cache asks the upstream once per key at a time and serves only fresh
enough answers of that key, to every caller, in bounded time; the rate limiter has one bucket
per name, stays near its limit and recovers; the bootstrap service publishes whole loads,
lookups follow it, and it stops for good.  `PROJECT.json` lists the hazards at their lines.

## 2. Plan

Written, most important first, each with its module of proofs:

1. `MemoryCache`, with `MemoryCacheProofs`
2. `TieredCache`, which implements `AnswerService`, with `TieredCacheProofs`
3. `RateLimiter`, with `RateLimiterProofs`
4. `BootstrapService`: service, RDAP client resolver, allowlist, lifecycle, with
   `BootstrapServiceProofs`
5. `LookupPipeline`: the handlers, composed of `ResolverTables`, `RdapClient` and `WhoisClient`
   over `FetchContext`, with `ResolverTablesProofs` (what the tables answer),
   `LookupPipelineProofs` (what the clients do and what is kept) and `LookupResultsProofs`
   (what is read, whose it is and when it comes)
6. `ClientTool`: the library's clients and what runs them, composed of `StandaloneClient`,
   `RestClient` and `Analyzer`, with `ClientToolProofs` about the standalone client and about
   what the tools end with

With that the plan is done: every invariant and every action property that a run checks is also
a theorem, and the liveness properties stay with TLC.

## 3. The modules

**MemoryCache** (`internal/cache/memory.go`).  `items` and `recency` are the golang-lru map
and its list, the list as the relation "older than" between keys; `mu` is the writer of the
mutex.  Get is `GetLookup`, which ends under the read lock, then `GetCheck` or, for an entry
seen expired, `GetExpire`, which removes *whatever* the key holds by then and debits the counter
a second time beside the eviction callback (`RemoveItem`).  Set is `SetCall`, `SetLock`, as
many `SetEvict` as the loop takes, and `SetStore` or `SetStoreFull` (the LRU evicts for its
entry limit), with `MustEvict` for the loop's condition.  `resident` is a history variable: the
bytes really held.  A Clear by Close is the same action.

**TieredCache** (`internal/cache/tiered.go`) models `GetOrFetchWithNegative` by all its steps:
L1 probe, L2 probe, promotion, `Do` (lead or join), the second check inside the flight, the
fetch, the write to each tier, the end of the flight.  The probe and the second check are the
same code (`Get`) and the same actions; `Leads(c)` tells which of them runs.  A cached value is
the upstream answer it came from (`found`, when, which in order).  The environment is
`PeerStore` (another process writes to Redis), `L1Drop` (evictions on account of other keys and
the race of MemoryCache's expiry), `Restart` (only L2 survives) and `Tick`.  `StoreL1` keeps
the entry that `MemoryCache` would keep; that a value is stored in L1 at all, which holds of a
cache with room for one entry, is the interface between the two modules.

**AnswerService** is what the tiered cache promises, without tiers: a caller gets a failure, or
an answer that the upstream gave for *that* key and whose age is within a bound.  TieredCache
implements it (`ServiceImplemented`) with the bound TTL + promotion TTL with Redis and TTL
without: promotion renews the lease of what may be at the end of its life, and a "not found" is
served for at most NegativeTTL + min(NegativeTTL, promotion TTL).

**RateLimiter** (`internal/api/ratelimit.go`).  `limiters` and `size` are indexed by map ("ip",
"subnet").  A request reads the counter first (`GetLimiter`), then `Load`s; it may turn to its
subnet, read that counter (`SubnetCapacity`), `Store` (LoadOrStore) and `Count`.  The cleanup is
`SweepStart`, `SweepVisit` in any order, `SweepDelete`, `SweepUncount` and `SweepNext`.  A
bucket is its number and its lastAccess; tokens are golang.org/x/time/rate's.

**BootstrapService** (`internal/bootstrap/service.go`, `cmd/rdap-lookup/main.go`,
`fetchDomainData`).  A bootstrap file is the number of its edition, its servers are named by
it.  `load` is the refresh under way, of `main` or of the background `loop`: `LoadFile` four
times, `Swap` under the mutex, `EndRefresh` with the allowlist outside it; `LoadFails` at any
file.  `main` follows run(): Start, NewClient, NewLookupHandler, serve, and the deferred Stop.
A lookup reads the service's resolver, sets the shared client's, asks with what the client
holds *by then*, and names the server from what the service holds at the end.  The validator is
attached (`SetServerValidator`) only where the constant `Attaching` allows it: the program
itself never does.

**FetchContext, RdapClient, WhoisClient, ResolverTables, LookupPipeline** are the lookup
handlers (`internal/api/lookup.go`) down to the sockets.  A flight is the fetch of one cache
key; each has at most one query in `call` (RDAP) and one in `whois`.

* `RdapClient` is `queryWithRetry` and `doQuery`.  An attempt ends in `Reply`, or in `Expire` by
  the earlier of the client's timeout and the context's; a failed one leads to a pause, the next
  server or the end (`Failed`).  An error is the set of sentinels that `errors.Is` finds in it,
  because callers ask for them in different orders.  A deadline that became ErrRequestTimeout is
  not final, and the loop goes on to a pause, which the context ends, or to the next server.
* `WhoisClient` is Query, the discovery at IANA (`Connect`, `Discover`, `DiscoverFails`) with
  its cache and its timeout, which counts again once the connection stands, the exchange, and
  Close.
* `ResolverTables` has loader and resolver as operators: a file is a sequence of services with
  malformed members, `LoadDNS` to `LoadASN` build the tables, `ResolveDomain`, `ResolveIP` and
  `ResolveASN` search them.  The reference definitions (`DomainAgrees`, `AddressAgrees`,
  `NumberAgrees`) say of the file itself what the answer must be.
* `LookupPipeline` has lookup 0, the single request (`LookupDomain`, `LookupIP`, `LookupASN`,
  `LookupEntity`), and the batch: `ProcessBatchQuery` when the semaphore has room, `GiveUp` at
  the deadline, `Respond` when all are done.  `Begin` is a refusal or the cache;
  `FlightStarts` leads or joins; `Fetched` and `FlightEnds` are the end of the fetch and what
  it leaves in the cache.  `HandleError` and `SanitizeBatchError` are the two orders of
  naming an error.  `told` is a history variable: what the upstreams said.

**StandaloneClient** (`pkg/rdaplookup/standalone.go`).  `place` is where each goroutine is; the
first to find `once` idle runs `LoadBrings`, `Publish`, `SetResolver` or `LoadFails`, the others
stay in `EnsureBootstrap`.  `loop` is backgroundRefresh with the same two publications.  The
RDAP client's resolver is the variable of its own that the code has.  A batch's goroutines are
callers that queue for a slot (`TakeSlot`).  `closing` is each Close: the one that swapped
`closed` cancels, joins and clears, a later one returns at once.

**RestClient** (`pkg/rdaplookup/client.go`): doRequest as attempts (`SingleRequest`) and pauses
(`Backoff`), with `heard` the replies so far.

**Analyzer** (`cmd/phishstats-analyzer`): Run as fetch, client, one lookup after the other,
Close, report.  The domains come in the order of a Go map, that is in any, and all of them
before the addresses.  `ClassifyError` goes by the words of an error, so the service's own
"Too many requests" and "No RDAP server found" may end under OTHER.

**ClientTool** (`cmd/rdap-client`, and the composition): the main goroutine of either tool, or
of a program that shares a standalone client.  `ParseConfig` is the loop over the arguments as a
recursive function; `Decide` is run up to the client; then `CallClient`, `RestEnds` or
`StandaloneEnds`, and `CloseClient`.

`MC*` modules hold model values and what TLC alone needs (symmetry, the files of a run).
Definitions preceded by "Mutant" are deliberately wrong variants, one per property, that TLC
was seen to refute; they are not part of any specification.

## 4. The runs

| Run | What it shows | Bounds |
|---|---|---|
| `memory_cache` | map and list of the LRU stay in step, the bytes held are what the map holds, the counter never over-reports, a Set leaves it within the limit, an expiring Get drops another's fresh entry only of its own key, Set's loop ends | 2 goroutines, 3 keys, sizes 1, 2 and 4 (more than the limit), 2 entries or 3 bytes, 3 writes, TTL 0, 1 unit of time |
| `memory_cache_size_limit` | *violation*: what is held exceeds MaxSize | the same, but every value fits in the cache by itself |
| `tiered_cache` | one flight per key, no upstream query for what L1 holds, no early timeout, AnswerService | 3 callers, 1 key, 3 calls, TTL 2, negative TTL 1, promotion 2, fetch timeout 1, time 4, 1 restart or foreign write |
| `tiered_cache_l1_only` | answers never go back, every call returns | the same, without Redis |
| `tiered_cache_handler` | *violation*: a fetch outlives its handler's deadline | handler timeout 1, fetch timeout 2 |
| `rate_limiter` | counters follow maps, bounded overshoot, one bucket per name, the cleanup removes what it saw, the capacity recovers | 2 requests at a time, 4 in all, 2 IPs of 1 subnet, both limits 1, age limit 0, time 2 |
| `bootstrap_service` | whole loads, lookups follow refreshes, allowlist of an attached validator, Stop is final and ends | 2 lookups, 2 editions of two of the four files, any number of refreshes, TLD listed in editions 0 and 2 only |
| `bootstrap_allowlist` | *violation*: the allowlist does not follow the resolver | the same, 1 edition, nothing attached |
| `lookup_pipeline` | the word a client reads is what an upstream said of that key; only that is cached; results are of the right object and server; attempts are exact; the batch is answered, in time; nothing is sent to a domain's WHOIS server after Close; the tables agree with the files | 6 mixes of a single lookup and a batch of up to 5 through 1 slot, 2 servers of 2 attempts, request, WHOIS and batch timeout 2, fetch timeout 3, time 6; files of up to 3 services, 2-bit addresses |
| `whois_not_found` | *violation*: a free domain is not "not found" | the same |
| `rdap_server_reported` | *violation*: rdap_server is not the server that answered | the same |
| `client_tool` | whoever uses the client finds a resolver; the first load decides for all; a Close is final; calls return and tools end; what a tool says is what was heard, nothing refused is asked again, and a report is complete | 1 lookup beside a batch of 2 through 1 slot, 1 tick, 2 loads, 2 Closes; 18 command lines; 3 attempts of a request; 2 feeds of up to 2 domains and addresses |

Why these bounds are enough: each is the least at which the cases meet.  A cache of two entries
and three keys evicts by both limits, and an eviction of the very key that is being replaced
needs no more; the value of 4 bytes makes the loop empty the cache; with
TTL 0 an entry written at time 0 expires with the one tick and one written later does not.
Three callers are a leader, one that joins and one that comes too late; the
keys of the tiered cache do not interact except through L1's evictions, which `L1Drop` stands
for, so one key does.  A limit of one entry makes a second request at once overshoot.  The time
bounds let a TTL, a promotion and a timeout pass one after the other; calls start only where
their deadline lies inside the bound, so that the bound never cuts a call off.  In the passing
tiered runs the handler's timeout is 0: the caller's own deadline is always past, the worst case
for the properties there.  With MaxAge 0 a bucket is stale as soon as the clock has moved.
In the pipeline the batch's queries wait for one slot, so that its deadline finds some before
and some behind the semaphore; two servers with two attempts each make a retry, a change of
server and a deadline in the middle of both possible; the fetch timeout lies between one and
two request timeouts, and WHOIS may use the rest of it.  The time bound is past every deadline
of the run: the batch's, and that of a fetch that starts just before.  Three services suffice
for the tables: a lookup is decided by two entries (a pair that collides, nests or overlaps),
and the third is what comes between them in the search.  Among the clients, a lookup and a
batch with one slot are one that loads, one that waits for it and one that waits for the slot;
two loads let the refresh and the first load bring different resolvers in either order; of two
Closes one waits and one does not.

Deadlock is checked in the runs of the caches, the limiter and the bootstrap service: there a
run that has used up its bounds ends in an explicit `Rest`, `Exited` or a state where time can
pass.  A pipeline whose requests are answered, a tool that has exited and a client nobody uses
any more do stop, so those runs leave it off and state `BatchResponds` and `EveryoneReturns`,
which a process stuck half-way would violate.

## 5. Fairness

`MemoryCache`: a goroutine inside Set's critical section takes its next step.
`TieredCache`: goroutines are scheduled and the clock runs; nothing is assumed of the upstream,
whose answers are not fair actions, so what ends a call is the deadline of the fetch context,
which the clients of `internal/rdap` and `internal/whois` obey (`Tick` does not pass it).
`RateLimiter`: requests and the cleanup goroutine run on, and the clock runs.
`BootstrapService`: a load ends (every fetch has a time limit, a refresh 60 s), run goes on, and
strong fairness of the branch `<-stopCh`: a Go `select` picks among the ready branches at random,
so a closed channel is not passed over for ever although a tick may win each single time.
Nothing makes main stop, IANA publish or a lookup come.
`LookupPipeline`: goroutines run, timers that are due fire, the clock runs; no server owes an
answer and nobody need close the handler.
`ClientTool`: a load, a query and an attempt end, as each has a time limit in its HTTP client;
a call that has begun, the main goroutine of a tool and a Close go on.  Nobody need call, and
no tick or signal need come.

## 6. Findings

* `memory_cache_size_limit`: Set debits the entry it replaces, and the eviction loop may then
  remove that entry, whose callback debits it again.  The counter falls below what is held, and
  the cache exceeds "Maximum size in bytes".  The counterexample is sequential.
* `tiered_cache_handler`: `doc/concurrent-map-writes-fix.md` says that the upstream I/O is
  cancelled when the handler's timeout fires; the detached fetch context only knows
  FetchTimeout (30 s, as cmd/rdap-lookup leaves it out).
* `bootstrap_allowlist`: `UpdateAllowlist` "should be called whenever bootstrap data is
  refreshed"; neither SetServerValidator nor LookupHandler.SetResolver is ever called by the
  program, so the allowlist for entity lookups stays that of the start.
* `whois_not_found`: nothing returns `whois.ErrDomainNotFound`, which the handler turns into a
  denial; parsers answer a "not found" text with a result of low confidence, and the transformer
  makes an object of it.  A free domain is answered with 200 and cached as positive.
* `rdap_server_reported`: the API document calls rdap_server the "RDAP server URL that provided
  this data"; it is the first URL of the TLD, also when the second one answered.

Read in the code, modelled as it is and not made a run:

* `rdap-client -S domain google.com`, an order the help gives, is "unknown command: -S"; the
  server option of `entity` and the `-` of `batch` (queries from standard input) are rejected as
  unknown options before the code that handles them, so `entity` never gets past its checks.
* An error of the first load, a cancelled context of its caller included, stays with a
  standalone client for good, while IsReady turns true at the next refresh (`FirstLoadDecides`).
* A first load and a refresh that overlap may leave the allowlist and the RDAP client of a
  standalone client on different resolvers until the next load (`overlapped` in
  `ResolversServe`).
* A discovery may take twice its timeout, and a flight outlast its FetchTimeout by that
  (`BatchBounded` measures it).
* A discovery in flight fills the cache again that Close has emptied; its query goes no further
  (`NoWhoisAfterClose`).
* A standalone client hands on the RDAP client's own rate-limit error, which
  `IsRateLimitedError` does not know: the tool says "error".
* The analyzer exits with 0 and a complete report of failures when it is interrupted, and takes
  a host of hex digits and dots alone ("abc.de") for an address.

## 7. Proofs

Constants are arbitrary: any number of goroutines, keys, clients, servers and queries, any
sizes, limits and timeouts that satisfy the `ASSUME`s of the modules.  Every theorem below says
of `Spec`, the specification that the runs check, what a run checks on a small instance.  A
"Helper" or "Inductive" in a comment marks what the theorems rest on.

### MemoryCacheProofs

* `TypeCorrect`: `TypeOK` is inductive as it stands; its clause that a goroutine is inside Set
  exactly when it holds the lock is what the others rest on.
* `CounterNeverOverReports`: `sizeBytes` plus the pending replacement is at most the bytes held.
  It is inductive together with `TypeOK`; every removal debits at least what leaves, and the
  second debits of Get and Delete err on the same side.
* `CounterWithinLimit`: from the loop's exit condition; the steps between only lower the counter.
* `ListIsCoherent`: the list is a total order of the keys held, and stays one when any key is
  dropped (`DropKeepsOrder`) or moved, or put, at its young end (`PushKeepsOrder`).
* `ExpiryIsExact`, an action property, from `VersionsInv`: a version names one entry, be it in
  the map or in a goroutine's hand, and what is in Get's hand for removal was expired.
* `LedgerFollowsMap`: the bytes that the other properties compare the counter with are the sum of
  the entries held.  The sum is a fold over the keys; `TotalSize` changes by what one key's
  entry changes, whatever order the fold takes, which is shown of the fold's own recursion.

### TieredCacheProofs

One inductive invariant, `IInv`, over `TypeOK`:

* `FlightInv`: whoever is past the second check leads the flight of its key, and whoever waits
  has a leader.  `FlightsAreSingle` is read off it.
* `ColdInv`: a live entry that appears in L1 under a flight was promoted.  It speaks of the
  flight from its second check on, where L2 is still to be asked, and not only of the fetch.
* `DeadlineInv`: a flight's deadline is a whole timeout after its leader called.
* `AgeInv`: what each tier and each caller holds came from the upstream for that key, and how
  old it may be there: one TTL in L2 and before a promotion, a promotion lease more in L1.

From it come `TypeCorrect`, `FlightsAreSingle`, `FlightsFetchCold`, `TimeoutsAreWhole` and the
refinement, `CacheImplementsService`: the initial states are the service's; a call is its
`Ask`, a new answer, of this process or written by another, its `Obtain`, the end of a call or
of a flight its `Reply` to all it serves, a restart its `Abandon`, a tick its `Pass`, and every
other step a stutter.  `AnswersNeverGoBack` holds
where `HasL2` is false (with Redis it does not, see the hazards) and needs `OrderInv`: what L1
holds, and what a flight is about to deliver, is no older than what was delivered.

### RateLimiterProofs

* `TypeCorrect`, with the clause that the bucket the cleanup is about to delete is in the map
  (only the cleanup deletes).  Without it the ledger below would not balance.
* `CountersFollowMaps`: the counter is the cardinality of its map, less the requests between
  Store and Count, plus one while the cleanup is between delete and decrement.  `Ledger` adds
  that the maps stay finite, which the laws of Cardinality need.
* `OvershootHolds`: what a map holds and the requests admitted to it stay within the limit plus
  the number of request goroutines less one.  A request is admitted when it saw the counter
  below the limit; by the ledger the map then lacks at most the requests that still count, and
  these are not among the admitted (`RoomBelowLimit`).  `TurnedHolds` is the small invariant that
  only requests about subnets stand before the second capacity check.
* `BucketsAreShared`: `BucketsKnown` adds the buckets in the hands of requests that have found
  or stored one and not yet returned it.
* `SweepIsExact`, an action property: `VictimInv` says that between the cleanup's look at a
  bucket and its delete by name the name keeps that bucket, though lastAccess may change.

### BootstrapServiceProofs

* `TypeCorrect`, `ResolverIsWholeLoad`, `LookupsNeverGoBack`, `AllowlistIsCurrent` from `IInv`.
  `LoadInv`: a load under way has editions between the one at its beginning and the current, and
  the resolver that it is to replace is no younger than its beginning.  `LookupInv` bounds what
  is in the shared client and in every lookup's hand by the floors of all lookups that may still
  put back or ask, on one side, and the service's resolver, on the other; without the clause on
  *pairs* of lookups, a lookup's floor would not survive another's late SetResolver.
* `StoppedForGood`, an action property, from `ExitInv`: Stop returns after the loop is gone.

### ResolverTablesProofs

About files of any length, any number of keys and addresses of any width.  The loader's loops
are recursive functions; what they compute is shown of the first place where it would be wrong,
with `<` on the naturals well-founded (`LeastPlace`, `EveryPlace`).

* `OnlyKeeps` and `FlattenJoins`: a loop that skips, and one loop inside another, keep the order.
  Both give the map from a place of the result to the place that it comes from.
* `PairsCome` puts these maps together: the pairs of a file are exactly those that its services
  speak for, in the order of the services; so are those of one family (`FamilySays`), and the
  ranges that parse (`RangesCome`).  `TableSays` reads off that a table, filled in that order,
  has the URLs of the last service that speaks for a key.
* `DomainsAgree`, and `AddressesAgree`, which needs that two networks of one length that share an
  address are the same (`SameNetwork`, from the alignment in `Networks`).
* `NumbersAgree`: an order that the sort may leave is a permutation of the ranges
  (`SortingKeepsAll`), sorted, so those that start by a number come first
  (`StartingAreFirst`) and the last of them is the only one that may hold it when no
  two overlap.

`TablesAreRight` in `LookupPipelineProofs` is `TablesAgree` from these three.

### LookupPipelineProofs and LookupResultsProofs

The invariants build on each other; each is inductive given those before.

* `Settled`: tables and requests do not change.  `LookupsResolve` says that a resolver's answer
  to any query asked is a list of servers with an error of its own; it rests on `TablesTyped`,
  the types of what the loader makes of any file.
* `CallsInv`: every RDAP query is none, at work or over.  One at work has spent as many attempts
  as its place says (`Asking`: all for the servers before, none for those behind, and none of
  those asked has settled the query); `RetriesAreExact` follows.
* `WhoisInv`: the shape of the WHOIS queries; with it `ClosedSendsNothing`, an action property:
  a step that leads to a query in a closed client started from one.
* `CacheInv`: `CacheFollowsUpstream` for functions on the keys; `CacheIsTrue` needs that the
  outcome of a fetch shows what was told (`OutcomeIsTold`).
* `FlightsInv`: a flight's queries are for its leader's query, whose key is the flight's, at
  the servers that resolver or IANA name; the discovery cache holds what IANA says.  (Close
  empties it, and a late discovery fills it with the truth again.)
* `OutcomeInv` for `OutcomesFollow`: what is read is a refusal, what was kept, or a flight's end,
  and both orders of naming an error name one that was told (`WordIsTold`).
* `OwnInv` for `ResultsAreOwn`: what is kept under a key is owned by *every* query of that key
  (`KeysOwn`), not only by the one that led its flight.
* `TimeInv` for `BatchesAreBounded`: a flight is over `FetchBound` after it began, which takes
  the deadlines of each stage (a discovery's second timeout starts at most one after the
  first); queries of a batch wait only for flights that began before its timeout, while others'
  flights may begin later; and time passes only while every flight and queue has some left.

* `TypeCorrect` from `TypedInv` and those before: a lookup's result has the words of its kind,
  and only a query that was not refused is ever looked up, by whoever leads its flight.

### ClientToolProofs

First the standalone client under anyone that uses it.  `StepsAreTheClients` shows that
every step of `ClientTool` is one of the client's or leaves it alone, which takes `ToolInv` (a
tool calls for keys there are, one at a time); `ClientInv` is inductive under the former.

* `LookupsHaveResolver`: `ResolverInv` follows the two assignments of a publication and needs to
  know that, while nothing overlapped, a first load and a refresh are not both on their way.
* `FirstLoadIsFinal`: `OnceInv` (who loads has the once) and `ServedInv`.
* `ClosedForGood`, an action property: the first Close returns only after the refresh.

Then `ToolsTellTruth`, which is `ToolTellsTruth` from the inductive `TruthInv`:

* `ClientSpace`, `RestInv`, `StepInv` and `UseInv` say what is where: a request is that of the
  command or of the analyzer that waits for it, has one reply per attempt, and only its last may
  be final; a lookup by the tool's caller is one that the tool waits for; nobody but the tool
  closes its client.  `ParsedTyped` types what `ParseConfig` returns for any command line, by the
  first argument at which it would be wrong.
* `LogInv` and `StandaloneVerdict` tie the verdict to the requests of the log, and to the lookup
  of the standalone client, which is down by then.
* `ReportInv` follows the analysis: what was asked is what is no longer to be asked, domains in
  the first places and addresses behind them (`ReportProgress`).  No item is there twice,
  because there are as many places as items (`AllIsReported`).

### What the proofs assume

The assumptions give the constants their types, with a few that say more and why the code
justifies it: a null is not one of the values beside it; a goroutine set is finite where
cardinalities count; times, retries and limits are what `Validate` of `config.go` accepts or a
constructor's default makes of them.  `FilesAssumption` gives the files of IANA the shape in
which `json.Unmarshal` leaves any of them, services of keys and URLs with anything Malformed
among them, and says that a network is named by its first address: IANA's are, and what the trie
does with another, which `netip.ParsePrefix` accepts, is not modelled.  `SmallFilesAssumption`
says the same of the files that `TablesAgree` looks at, and that the names and numbers it looks
up are proper ones, since the answer to a malformed query or to number 0 is an error of input.
A command line is a list of strings, and a feed a finite set of entries.  `FlightsAssumption`
says that the sets of keys and TLDs hold those of the requests: both are Go maps that grow as
needed.  `KeysAssumption` says the same of the keys of command lines.

### What is only model-checked

* Liveness (`SetReleasesLock`, `EveryCallReturns`, `CapacityRecovers`, `StopEnds`,
  `BatchResponds`, `EveryoneReturns`): fairness and ENABLED are out of the prover's reach.
* That the five findings are violations, which is a matter of one behaviour each.

## 8. Not modelled

* Parsing of WHOIS texts, of RDAP JSON and of the strings that validation looks at: text without
  state, covered by the repository's table tests.  What they decide is an input of the models
  (Malformed, Barred, "free", "otherClass").
* The schema of answers, metrics, logging, configuration, health and metadata endpoints: pure
  mapping, or reports that no component reads back.
* The echo server with its middleware and Shutdown: a library, called in the order that
  `BootstrapService` has.
* Plain `GetOrFetch`, `Delete` and `Clear` of the tiered cache, which have no caller in the
  server, and the SCAN loop of the Redis cache's Clear.
* Of the tools: the environment, reading a batch file, printing, and the layout, percentiles and
  distributions of a report.
* Where a composed model simplifies: `LookupPipeline` has a one-tier cache that does not expire
  and tables that do not change, as `TieredCache` and `BootstrapService` have those; a query of
  `StandaloneClient` is one exchange, as `RdapClient` has the retries, and its context, done or
  not, may fail a load or a query at any moment.

Go's memory model is taken as sequentially consistent: the unsynchronised write of
`rdap.Client.resolver`, in the server and in the standalone client, is one word and is modelled
as an atomic step of its own.
