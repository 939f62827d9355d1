# A verification project for ccdl

TLA+ models of `ccdl`, the Common Crawl client library (`src/crates/ccdl`) and
its command line (`src/crates/ccdl-cli`), the TLC runs that check them, and
proofs about all of it: the request path, the caches, the index stream, the
enumerations, the commands, the choice of captures, the templates, the table search and
the query's three compilers. Paths below are relative to
`src/crates/ccdl/src/` unless they start with `src/`.

## 1. The system

A `Ccdl` (client.rs) wires the parts together: a registry of crawls and an
index client ask one transport for documents; the transport goes through one
filesystem cache and one `Politeness`; the WARC client uses the same two. All of
it is shared by as many async tasks as the program has, and the cache directory
by as many processes as the user runs.

| component | state | operations | what is hard | what makes it correct |
|---|---|---|---|---|
| Politeness (polite.rs) | a rate limiter per bucket, one semaphore | `admit`, `backoff` | many callers; a token first, then a permit; futures dropped while waiting | permits conserved; no hold-and-wait; first come, first served; the rate |
| HTTP transport (http.rs) | locals of each call | `send_with_retry`, `get_text`, `get_json`, `get_range` | retries, early returns, no timeout; the body outlives the permit | attempts and backoff as configured; every call returns |
| Filesystem cache (cache/fs.rs) | a data file and a sidecar per key, temporary files per process | `get`, `put`, `gc`, `stats` | several file system calls per operation; crashes and other processes between any two | whole bodies only; expiry neither late nor early |
| Layered, memory, no-op cache (cache/layered.rs, memory.rs) | two tiers; a map | `get` with back-fill, `put`, `gc` | back-fill against put; one tier failing; a tier that forgets | no read goes back behind the last put that succeeded |
| CDX index client (index/) | locals of a generator | `search`, `count`, `num_pages` | a lazy stream suspended anywhere, errors and 404s in the middle | every line once, in order; the page guard; termination |
| Enumeration, budgets (client.rs, budget.rs) | a set of urlkeys; two counters and a resume token | `run`, `Budget::apply` | streams inside streams; errors that do not end the stream | limits hold; tokens resume without loss |
| Crawl registry (registry.rs) | the list in memory | `all`, `refresh`, `resolve` | concurrent loads, stale answers | only parsed lists; refresh is fresh |
| Selection, sampling (model/sampling.rs, client.rs, CLI) | one capture; a buffer | `text_in`, `fetch_url`, `sample`, `write_stream` | stream order is not time order; rounding | the newest is the newest; samples keep what they promise |
| Table backend (table/, surt.rs) | a buffer | `search`, `compile_predicates` | half-open key ranges; predicates lost on the way | the answer is the query's |
| WARC client (warc/) | the cache | `fetch_raw`, parsing | a key that does not name the request | the record is the capture's |
| Crawl selectors (registry.rs, model/crawl.rs) | none | `resolve_in` | instants against years; coverage the list leaves out | a query spans the crawls it names |
| Query compilers (index/cdx_compile.rs, table/compile.rs) | none | filters as request parameters, filters as predicates | one query, two readings | both backends answer alike |
| Templates (model/template.rs, client.rs) | a buffer | `parse`, `bind`, `enumerate_template` | where a variable ends | a bound URL is the template with its values |
| Athena adapter (athena/) | none | `compile_sql` | a third reading of the query | the SQL selects what the query wants |
| Sitemap seeds (client.rs, discover.rs) | a buffer | `sitemap_seeds` | a chain of requests, each of which may fail unnoticed | the seeds are what the documents that were read contain |
| Commands (src/crates/ccdl-cli/src/main.rs) | the output, files | `search`, `enumerate`, `fetch @list`, `text`, `manifest`, ... | errors after half of the output; interruption and a second call | exit codes tell what the output is worth; what is behind is on disk |
| Dates, selectors as text, output formats | none | string handling | | not modelled, see 9 |

How they interact: calls only, down the list client → registry / index / WARC →
transport → cache, politeness → server. Shared state is the semaphore, the
limiters, the registry's list and the cache directory. Streams are pulled: a
generator runs while its consumer awaits an item, and dropping the consumer
drops everything inside it at its current await.

`PROJECT.json` lists each component, and under `hazards` every place we found
where this code is hard to test, with the properties that watch it.

## 2. The modules

| module | of what | state and actions |
|---|---|---|
| `Transport` | polite.rs, http.rs | `pc` is the await a call of `send_with_retry` is suspended at (`token`: until_ready; `queued`: acquire_owned; `sending`: execute; `sleeping`: sleep; `body`: bytes). `tokens` are the limiters, `permits` the semaphore, `holding` the live permits, `ahead` its queue. One action per branch of the match, `Cancel` for a dropped future, `Tick` for time |
| `TransportTiming` | the same, observed | history variables: requests sent, time, attempts, time since a failure. They guard nothing except the bound on time (and, in `TSpecPrompt`, that no time passes while a free permit waits to be taken) |
| `TransportProofs` | | theorems of the two |
| `FsCacheProofs`, `LayeredCacheProofs`, `CommandsProofs`, `EnumerateProofs`, `SelectionProofs`, `BulkSearchProofs` | | theorems of the module each is named for, and of those it extends: `LayeredCacheProofs` of `FsCacheExpiry`, `CommandsProofs` of `CachedGet` and `Registry`, `EnumerateProofs` of `CdxSearch` and `EnumerateCommand`, `SelectionProofs` of `Template`, `BulkSearchProofs` of `CrawlSelection`, `CdxCompile` and `AthenaCompile` |
| `ListFacts` | | lemmas about numbers, sums, sorting and flattening, cited by the others |
| `AtomicCache` | cache/mod.rs | what a cache promises about one key: each put and get is one step |
| `FsCache` | cache/fs.rs | one action per file system call of `get`, `put`, `gc`. Files are inodes with names, so an open file outlives its name. `Cancel` is a dropped future: tokio has handed the operation under way to a blocking thread that nothing stops, so a write, a rename or a removal may still end (`dropped`, `GoOn`), beside the next calls of the process, and only what would come after it is gone. `Crash` of a process at any point, even inside a write |
| `FsCacheExpiry` | the same, observed | when and with what TTL each body was put, and whether its put came as far as the sidecar, apart from what the sidecar says |
| `LayeredCache` | cache/layered.rs, memory.rs | extends `FsCacheExpiry` by a fast tier with one body, `fast`: `GetFast`, `GetSlow`, `Backfill`; `PutFast`, `PutEnds`, `PutFails`; `Evict`; `LDrop`, a dropped call, and `LKill`, the process with its fast tier; the slow tier works in between with the actions of `FsCache` |
| `CdxSearch` | index/pagination.rs | the generator of `search`: `stage`, `crawl`, `page`, `line` are where its three loops stand; `Poll` is the consumer, `Probe`, `PageArrives`, `PageNotFound`, `YieldLine`, `BadLine`, `PageDone`, `CrawlDone` the body, `RequestFails`, `Drop` the ends |
| `Enumerate` | client.rs, budget.rs | extends `CdxSearch` by the two wrappers; `Dedupe` and `Deliver` are what happens to one capture on its way out. `order` is the enumeration that runs: with or without `distinct_urls`, and its limits |
| `EnumerateCommand` | src/crates/ccdl-cli/src/main.rs | extends `Enumerate` by who reads it, `use`: a command (`ReadCapture`, `ReadExhausted`, `ReadError`, `ReadEnd` are the branches of `write_stream`, `written` and `exit` its effect), or a consumer of the library, which awaits on and drops the stream when it likes |
| `CachedGet` | http.rs, warc/fetch.rs | `Lookup` (hit, miss or an error of the cache), `Receive` the answer, which opens the put's temporary file, `Rename`, `Store`; keyed by URL (get_text) or digest (fetch_raw). The cache is the `FsCache` that `Ccdl`'s builder gives to both (client.rs:91-98): nothing removes entries without a TTL, but all puts of a key share a temporary file (`tmp`), with what dropped ones have left running (`left`, `LeftoverEnds`). Of two under way at once anything may come, a mix of the bodies included (`Mixed`; `Overwrite` after the rename, too), and `crossed` remembers the key. `Drop`, `CallFails`, `Restart` |
| `Registry` | registry.rs | extends `CachedGet` with `all` and `refresh`; one task may load while another stores, and either may be dropped (`Dropped`) or the process end (`RRestart`) |
| `Commands` | main.rs, client.rs, discover.rs | extends `Registry` by operations made of many requests, run by the task `Main` beside the others: `ccdl fetch @list` (`at` is the line, `files` what is on disk) and `sitemap_seeds` (`agenda` is what is left to read); both may be killed at any point (`Killed`) and called again, and the seeds, which the library collects, may be dropped (`SeedsDropped`) |
| `Sorting` | `slice::sort`, filtered iterators | operators: a set in the order of a relation, and the elements of a list at given places. Used wherever the code sorts or filters; written out, because the library's `SetToSortSeq` and `SelectSeq` rest on definitions the provers cannot open |
| `Template` | model/template.rs | operators: a template is its parts, binding a recursive function on them |
| `Selection` | sampling.rs, client.rs, main.rs | extends `Template`. The loop over a stream and what is made of it at its end: one capture, samples, bindings; the reducers are operators |
| `CrawlSelection` | registry.rs, model/crawl.rs | operators: a crawl is its id, the year in it and the end of its coverage, as listed and in fact |
| `CdxCompile` | index/cdx_compile.rs | operators: filters as request parameters, and the server that reads them |
| `BulkSearch` | client.rs, table/, surt.rs | extends the two. Resolution; key ranges over keys as sequences of bytes, in lower case and without the port (`Surt`, `Lowered`); the loops over crawls, files and batches |
| `AthenaCompile` | athena/sql.rs | extends `BulkSearch`: operators, the SQL conditions evaluated on the rows of its table. `form` is how an address is written: scheme, www, and of a pattern also a port or no scheme |

An `MC...` module gives each of these its constants. Operators headed `Fault:`
are slips this code could have (an increment left out, a swapped comparison);
no action uses them. Each stands for a plausible change of the definition next
to it, and the property it is listed with in `PROJECT.json` ("mutants") fails
when it takes that definition's place: the properties do tell the code from a
broken one.

What is abstract everywhere: URLs, hosts, keys and bodies are values without
inside, except where a property is about the inside (`BulkSearch`). The server
answers as it likes.

## 3. The runs

Runs that pass:

| run | question | instance, and why it is enough |
|---|---|---|
| `transport_calls` | permits, hold-and-wait, the queue; does every call return | 3 tasks fight for 1 rate token and 2 permits, so that one waits in front of another that may be dropped; 2 retries: first attempt, retry and giving up all happen. No symmetry, since it checks liveness |
| `timing_safety` | rate, attempts, backoff | 2 tasks, 2 buckets; 3 retries over base 1 and maximum 2, so that the clamp of the backoff is reached; 8 ticks are more than one call needs for its 4 attempts. Tasks are symmetric |
| `cache_processes` | is the cache atomic between processes, and beside what dropped calls have left running | 2 processes, one with 2 calls at a time, of which either can be a leftover of a dropped one; bodies of 1 and 2 blocks, so that a prefix and a mix of two can be seen; expiry within the clock's 2 ticks, so that removals are among the leftovers; crashes and drops anywhere. States that no name, reader or writer tells apart are one (`View` of `MCFsCache`) |
| `cache_ttl` | expiry to the second; do two tiers go back | one caller, since calls do not overlap, two bodies, calls dropped and the process killed at every step; a clock of half seconds; no TTL and one of one second, with time for the entry to be put, expire and be put again; a fast tier that forgets at any moment, puts that fail in the slow one. `View` of `MCLayeredCache` does the same |
| `enumerate_all` | the index stream's order, completeness, laziness, guard and end; budgets, duplicates, resume tokens; what a command's exit code means | a crawl of two pages, one without pages, one of three of which the second is empty (as many as the guard lets through), one of four, above the guard; a page longer than the limit; duplicates inside and across crawls; captures of different length, so that one is refused and a later one would fit. Five enumerations: deduplicated or not, without a limit, with a record limit, with both limits, and with a byte limit alone; each read by the library's consumer, and, if it has no byte limit, by the command that writes everything or keeps the newest or the oldest, whose captures come in an order that is not that of their six times |
| `registry_loads` | cached requests, the list in memory; a list of captures fetched, seeds collected | 2 tasks, calls dropped and the process killed at any point, one dropped put of a key left at work. Five jobs of the first: none, beside loads of the crawl list or beside two captures of one digest, whose puts cross; a list of three captures of which the first and last share a digest, a list with a line that is no capture, and the seeds of a host whose robots.txt names two sitemaps with a URL in common. 3 versions of an answer, the second of which does not parse, published meanwhile: of the crawl list, or of one capture's record. `beside` and `changing` of a job bound what the other task asks for and which answers change |
| `select_all` | choosers, samplers, templates | every index of up to 4 captures of 2 URLs, 4 instants in 2 crawls, 2 contents; adaptive limits 1 to 3. A group of 4 is the smallest that a limit of 3 cuts with rounding. 8 templates on every pair of 41 URLs of up to 6 characters, the shortest in which separators overlap with values on both sides |
| `bulk_keys` | key ranges, filters, selectors, the two backends and the SQL | 240 exact and prefix queries (each of 15 patterns, with and without capitals, with each of 8 filter lists), 32 of domains and hosts with the same filters, 20 with filters by language and top-level domain, 24 with patterns written without a scheme, with www or with a port, over 2 crawls with rows at, before and behind each bound and rows that differ in case alone, several files and batches; 19 selectors over 5 crawls, two of them listed without an end, two that ran on into the next year, with Since on, before and behind each end |

Runs that find a violation. Each checks one sentence of the repository's own
documentation against what the code does; `PROJECT.json` quotes the sentence
under `findings`.

| run | what it shows |
|---|---|
| `timing_rate_cap` | callers that wait while every permit is busy already hold their rate tokens, and spend them together: more than `max_rps` in a second. The run is of an executor that keeps up (`TSpecPrompt`), so no free permit lies idle |
| `cache_two_tasks` | two tasks of one process share the temporary file of a key: a torn entry |
| `registry_refresh` | refresh is answered from the cache |
| `select_fetch` | `fetch_url` takes the oldest capture of the newest crawl for the newest |

Deadlock is checked except in the two `timing_*` runs, where time ends at
`Horizon` by our choice. Bounds are named: `MaxCalls` (calls of a task),
`Horizon` (time, in `TransportTiming`), `MaxNow` (time, in `FsCache`),
`MaxLeft` (dropped puts of a key still at work, in `CachedGet`), `MaxVersion`
(answers of the server), `MaxCaptures` (length of an index), and the small sets of the
MC modules.

Two runs of the cache give TLC a view of the state. Each leaves out only what no step
and no property looks at any more: which number a free inode has, what is in a file
without a name and without a reader, which of two calls of a process is which, the
history of what has been replaced, and, in `cache_processes`, the answer of a call that
is over, which has been checked while it was at `checkttl`, and how far a stamp that
cannot run out before `MaxNow` lies from it.

## 4. Fairness

`Transport!Scheduling` is the executor and the clock: a task whose token, permit
or timer is ready is polled, and time passes. `Transport!ServerAnswers` is an
assumption on the other side, that a request is answered and a body ends. The
code does not give it, since the reqwest client is built without a timeout
(http.rs:41): a server that holds the connection holds a permit, and
`EveryCallReturns` would be false. Weak fairness of a permit suffices because the
semaphore is first come, first served; a task can still be overtaken for a rate
token (the limiter has no queue), and that every call returns nevertheless
depends on callers making finitely many calls (`MaxCalls`).

`EnumerateCommand!CommandFairSpec` says that the consumer keeps awaiting items
(`AwaitItem`), that the wrappers await the stream inside (`AwaitInner`), that the
generator, once awaited, goes on, because the server answers its requests, well or
badly, and the executor polls it (`InnerYields \/ InnerWorks`), and that a command
sees to the item it has got, which is straight-line code in the loop of
`write_stream`. Calling, cancelling and dropping are never fair: they may not happen.

## 5. Divergences seen while modelling

The four runs of section 3 that find a violation each show one disagreement between code and
documentation. These are further ones, which the models contain as the code has
them, and which no run of its own demonstrates:

- A put that is dropped leaves its write running on a blocking thread, which goes on in
  the temporary file of the process's next put (cache/fs.rs:86-87; fs.rs:14 "Writes are
  atomic (temp file + rename)."), even when calls come one after the other: what that
  put then renames is a mix. `PutsApart` excludes it, and two tasks at once
  (`cache_two_tasks`).
- The body is renamed in before its sidecar is written (fs.rs:88), and `get` takes a
  missing sidecar for no expiry: an entry whose put is killed or dropped in between never
  expires (cache/mod.rs:91 "Fetch an entry, if present and unexpired."), or expires when
  its predecessor would have. The same happens to an entry whose sidecar is removed because
  of an older one (fs.rs:72), and to one whose TTL is below a second (fs.rs:89).
  `ExpiredNotServed` and `LiveEntryKept` are therefore stated of entries whose put came to
  its sidecar (`said`), with calls one at a time and TTLs of whole seconds.
- `gc`, and `get` likewise, decides on the sidecar and removes the data file by its name
  (fs.rs:70, 138; mod.rs:97 "Garbage-collect expired entries"): a body that another
  process has renamed in meanwhile goes in its place, although it has not expired.
- After a refusal the stream goes on (budget.rs:50): a shorter capture behind the refused
  one passes and becomes the token of the next error (error.rs:67 "A token identifying
  where to resume (last emitted capture key)."), so a consumer that resumes there misses
  the refused one. `FirstErrorResumes` is about the first token alone.
- Over the table a domain query misses its subdomains: the range compiled for
  `com,example)/` ends at `com,example)0`, before every `com,example,sub)/`
  (table/compile.rs:33; compile.rs:31-32 "Domain covers host + subdomains", model/query.rs:16
  "All URLs on a host and its subdomains"). `BulkAnswers` and `BackendsAgree` leave
  domains out; `OnlyWanted` asks that what is handed out is wanted.
- Over the table a host query answers with every host: it compiles to a predicate
  (table/compile.rs:29) that `collect_batch` never looks at (read.rs:104; query.rs:14
  "All URLs on a single host"). No property of `BulkSearch` holds host queries to their host.
- Retry-After is never read (http.rs:65; src/README.md:284 says "honoring
  `Retry-After`"): every retry waits for its backoff alone.
- The permit ends with the response head (http.rs:63; polite.rs:129 "must be held
  for the duration of the request"): bodies are read without one (`ReadBody`).
- The index compares the declared media type alone (index/cdx_compile.rs:40; model/query.rs:49
  "Filter on declared or detected MIME"), so the table may answer more; of several
  filters of one kind the table keeps the last (table/compile.rs:49) and the index
  wants all; a choice of no status is everything to the index (index/cdx_compile.rs:36, the
  expression is empty) and nothing to the table; a language filter is dropped by the
  table (table/compile.rs:53). `BackendsAgree` and `BulkAnswers` are about the queries
  left, named in `Plain`.
- To Athena a host query asks for the pattern's host without its www
  (athena/sql.rs:14), while the column has it, so hosts that begin with www match
  nothing; an exact query compares the URL with the pattern as it was written,
  scheme included (sql.rs:57); only the detected media type counts (sql.rs:80); an
  empty list of crawls reads every crawl (sql.rs:24), where CDX and table read none,
  and an empty choice of statuses is no SQL (sql.rs:70). `SqlAgrees` names what it
  leaves out.
- The index's filter by top-level domain is a regular expression sent as a plain word
  (index/cdx_compile.rs:41, without the `~`), which no key equals; the table does not look
  at the top-level domain, nor at the regular expression of a query (table/read.rs:104):
  `CdxFilter`, and the queries `Plain` leaves out.
- With `--template` the command line ignores the pattern, the crawls, the dates and the
  limits (src/crates/ccdl-cli/src/main.rs:366), with `--bulk` the status, `--distinct` and
  the budget (main.rs:375, of the same file); `bind` accepts a URL that goes on behind a
  literal at the template's end, and never matches a template that itself begins with `www.`
  (client.rs:242).
- A query's `limit` cuts each page (index/cdx_compile.rs:72; model/query.rs:138
  "Optional row limit"), not the stream: `Lines`.
- `max_pages` of a budget is enforced by nobody (budget.rs:18).
- The cache holds WARC records under the payload's digest (warc/fetch.rs:30;
  client.rs:250), so captures that share it share a record: `AnswersTheRequest`
  promises no more than the digest.
- `max_per_url = 1` divides by zero (model/sampling.rs:89): `CapLenPanics`, and the
  second part of `PerUrlBound`.
- Over the table a domain misses not only its subdomains but of the host itself what does
  not begin with the pattern's path (table/compile.rs:33): `SurtRange`. A time range is
  dropped by the table and by the SQL (query.rs:136); no query of the models has one.
- A SURT key has the path and the query in lower case and no port (surt.rs:24, 31, 36,
  where a test asks for it). An exact query over the table therefore hands out the rows
  of every URL that differs in case alone, and a prefix query, over the table or as SQL,
  those of every path that begins with the prefix in some case. `BulkAnswers`,
  `OnlyWanted`, `BackendsAgree` and `SqlAgrees` say what is wanted up to the case of
  letters (`SamePath`, `PathBegins`), which is all that a key can tell.
- The fast tier of a `LayeredCache` keeps bodies without their TTL, those it
  back-fills (cache/layered.rs:36) and those that are put (memory.rs:59): an expired
  entry is served from it until it is evicted. `LayeredReads` says nothing of TTLs.
- `write_payload` truncates the file it writes (src/crates/ccdl-cli/src/main.rs:510),
  and captures of one digest share the file: a write that fails destroys the payload
  an earlier line, or an earlier call, had written. `ListFetched` excepts it.
- What the server sends is cached before it is parsed (warc/fetch.rs:38): bytes that
  are no record stay the answer for their digest, and a list that holds such a
  capture ends at that line in every call.
- Every error of a document is taken for its absence by `sitemap_seeds`
  (client.rs:178), that of the crawl list or the network included: an empty answer
  may mean anything. `SeedsAreWhatWasRead` is about the documents that were read.
- `--newest` and `--oldest` print nothing when the budget ends the stream
  (main.rs:541): `ReadExhausted`. Errors of the output itself are ignored
  (main.rs:533), so a command whose output is cut off exits with 0; the model's
  output cannot fail.
- A query with a projection that leaves out the timestamp makes every line an error
  (index/cdx_parse.rs:25); lines without a digest or a urlkey get an empty one
  (cdx_parse.rs:44), and share a cache entry or count as duplicates. `BadLine` may happen at
  any line; digests and keys are data.
- Relative dates: an amount of months beyond 32 bits counts as 0, that is as now,
  one of years overflows in its product by 12 (model/timespec.rs:65-69).
- `CcdlBuilder::registry_ttl` is kept and never used (client.rs:67).
- Two callers that miss on one key both ask the server and both put (http.rs:101-107,
  warc/fetch.rs:31-38), and of their puts a mix may stay (`cache_two_tasks`). Entries have
  no TTL, so a mix is the answer to every later caller, in later processes, too.
  `AnswersTheRequest` and `MemoryHoldsAList` except the keys whose puts have crossed.

## 6. What is proved

Assumed are only the named assumptions of the constants, beside each theorem's own
hypotheses, which are named here. The invariants come first: those of the runs are
seldom inductive as they stand.

`TransportProofs`, for any numbers of tasks, hosts, buckets, tokens, permits, retries
and ticks (limits at least 1, which `Politeness::new` forces; finitely many tasks):

- `TypeCorrect`, `PermitsAreConserved`, `NoHoldAndWait`, `WaitersFormALine`.
  `PermitsConserved` alone is not inductive: that a release adds one permit needs
  `holding` to be the tasks that are `sending`, and that a step of a task not
  sending leaves both alone. The invariant is therefore the conjunction of
  the four, proved action by action in `NextInv`. The lemmas
  `ReleaseKeepsPermits` and `TakeKeepsPermits` carry the counting, and
  `LeavingKeepsLine` shows once for grants and cancellations that a line
  without one of its members is a line.
- `LongRunRateHolds`. What a bucket has sent, what its waiters are about to send
  and the tokens it still has are together at most the burst plus the ticks
  (`TokensAccounted`): taking a token moves one from the tokens to the waiters,
  a permit moves one from the waiters to the requests, dropping a waiter loses one.
- `RetryBudgetHolds`: the number of requests of a call is the attempt it is at, or
  one more once the request has gone (`TriesFollowAttempt`).
- `BackoffIsObserved`: while a call sleeps, the time since its failure and the time
  left make up its backoff (`SleepCoversBackoff`).
- `TimingRefinesTransport` makes each theorem of `Transport` one of
  `TransportTiming`.

`FsCacheProofs`, for any numbers of processes and calls and bodies of any length:

- `FsCacheTypes` (`TypeOK`), whoever calls. A type that is not obvious is the stamp of
  the sidecar being written, which is bounded because the clock is.
- `ReadsAreWhole` (`NoTornRead`), of `SpecApart`: a process has its temporary file open for
  one put at a time, what dropped puts have left running included (`PutsApart`). Calls that
  do not overlap are not enough, for the sake of those leftovers; `cache_two_tasks` shows
  what happens without it. Gets, removals and their leftovers may overlap as they like, and
  so may processes. The invariant says where each body is whole: no two names have one inode
  (`NamesApart`), a writer's file holds as many blocks as it has written, and is the
  process's temporary file until the rename (`Writing`), and a file that is the entry, or is
  being read, is whole and is no process's temporary file (`Reading`). `WriteIsApart` is the
  argument shared by the two steps that write: they touch one inode, which is none of those.
  `FreshIsFree` counts the inodes: names and workers are fewer than they, so a put finds one
  free; it needs `NoneOpen`, since the putting worker has none open. A drop (`StopInv`)
  leaves such a writer or removal at its place.
- `DirectoryIsAtomic` (`ImplementsAtomicCache`), under the same hypothesis: every
  step of the directory is a step of `AtomicCache` or a stutter. The invariant of
  `ReadsAreWhole` carries it (`FsCacheInvariant`); `StepIsAtomic` has one case per file
  system call, and `ForgetIsAtomic` is what all the steps share that end a call or take
  an answer back.

`LayeredCacheProofs`, assuming `OneCaller` (calls do not overlap, leftovers included: one
worker) and, for the first two, `WholeSeconds` (what `Duration::from_secs` makes; a
sidecar keeps nothing less). Calls may be dropped and the process killed at any step.
Without the assumptions the statements are false in ways that section 5 names:

- `NothingStaleIsServed`, `LiveEntriesStay`, of entries whose put came as far as the sidecar
  (`Dated`). Of such an entry the sidecar says what the history variables say, in whole
  seconds rounded down (`Age`): a put that is in the middle, or was stopped there, has an
  entry that is not `Dated`. `StopAge` is the case of the drops and kills; `ExpiredRunsOut`
  and `LateIsExpired` are the arithmetic of the rounding: an entry the code takes for
  expired has run out, and one that ran out a second ago is taken for expired.
- `NoGetGoesBack` (`LayeredReads`): whichever puts fail, whatever the
  fast tier forgets, and at whichever step a call is dropped or the process killed. Both
  tiers hold bodies a get may still return, that is the last put that succeeded or a
  later one (`Recent`); while a put is under way the fast tier holds its body or nothing
  (`Tiers`), as it would otherwise answer with an older one after the slow tier has
  changed. `DisturbedTiers` is the case of the drops and kills.

`CommandsProofs`, for any tasks, requests, keys, versions, jobs, lists and interruptions;
assumed are that no request shares the key of the crawl list (keys are URLs or
digests), that the versions that do not parse are versions, that lists are sequences
of requests, and that robots.txt and sitemaps name finitely many URLs, in a sequence:

- `AnswersAreTheRequests`, `AnswersAreCached`. The first speaks of answers and says
  nothing of where they come from, so the invariant says the same of each entry, of what
  each temporary file may hold when it is renamed, and of each body in hand
  (`EntriesAllowed`, `TmpAllowed`, `InHandAllowed`): it was given under its key, or it is
  a mix and puts of the key have crossed (`AllowedFor`). The second is that a put stands
  between the answer and the caller (`RenamedIsCached`).
- `CommandsAreCached`: every step is one of `CachedGet` or leaves its variables
  alone. The two theorems above so hold of the commands.
- `RegistryHoldsAList`: what a loading task has in hand is an answer to the list's
  own request, or parts of several (`LoadsTheList`), which needs the invariant of
  `CachedGet`.
- `ListsAreFetched`: the invariant adds where a fetch stands between its steps
  (`FetchPlace`). A write empties a file and only the file of the digest in hand;
  that a payload being written is one that parses is what keeps the lines behind it.
- `SeedsAreFound` (`SeedsAreWhatWasRead`). At any point the documents read name exactly
  what has been found together with what is on the agenda because robots.txt named it
  (`SeedPlace`); at the end the agenda is empty, and sorting keeps what it sorts
  (`AscendingSorts`).

`EnumerateProofs`, for any list of crawls, index, guard, limit and answers:

- `SearchIsInOrder`, `SearchIsGuarded`, `SearchSkipsNothing`, `SearchIsLazy`. The
  invariant is the loops' own, with the server's counts remembered (`counts`): where
  pages are read the crawl has been counted, within the guard, and `total` is its count,
  or 1 where that is 0 (`Place`); the pages asked for of a crawl behind are as many as
  counted (`AllAsked`), and of the current one those before the generator's place
  (`PagesInTurn`); all of them were yielded but the one in hand, of which the lines
  before the current one were (`AskedIsYielded`); all that was yielded lies behind
  (`Behind`), and at the end every crawl does (`EndedBehind`). A new count leaves the
  older ones as they are (`CountAdded`).

and for any enumeration and reader of it:

- `CommandsAreSearches`: the wrappers and the commands add to `CdxSearch` and take
  nothing away, so its theorems hold inside them.
- `UrlsAreGivenOnce`, `FirstTokenResumes`: the set of urlkeys is that of all that
  was yielded (`SeenIsYielded`), and until the first error everything new has been
  given and the token names the last of it (`UntilError`). After it this is no longer
  so, which is why only the first token is right (section 5).
- `BudgetIsKept` (`WithinBudget`): the two counters of `apply` are the number and the
  bytes of what was given (`BInv`). `BytesOf`, the sum over the items, is a recursive
  function on the numbers; that it is one that adds up is `SumExists`.
- `ExitCodeTells` (`ExitTells`): a command has met no error in what it has read, and
  has written all of it, or keeps one of the captures that is as good as every other
  (`SoFar`); it ends when the stream has (`InStep`); and a refusal means that the limit
  was reached and exceeded by one (`RefusedAtLimit`), so that the exit code 3 tells
  that something was left out.

`SelectionProofs`, for any stream of captures in the index's order. Assumed are that URLs and
crawls can be told apart by numbers, instants are integers, a limit is a natural number,
and templates are what `parse` makes: no literal is empty, and between two stands a
variable (`Parsed`):

- `ExtremeIsChosen`. The capture kept is as good as every one read (`ChosenSoFar`). It is
  about the choosers that compare times; `fetch_url`, which takes the first, is in
  `select_fetch`.
- `ContentsAreKept`, `HistoryIsKept`, `SpanIsKept`, `BoundPerUrl`. The invariant says only
  that what is handed over is the sample of the index (`HandedOver`); the rest is what a
  sample is. `GroupIs`: a URL's group is its captures in the order of time, each once.
  `UniqueDigestMeans`, `ChangesMean`, `ChangesKeep` and `CapLenKeeps` say what a reducer
  keeps of a group; the last rests on `Spaced`, that evenly spaced places begin at 1, end
  at the length and are all inside. `SamplePart` finds a reduced group again in the
  flattened sample, as one run of it that holds all the captures of its URL.
- `BindingsAreFaithful` (`BindingsAreReadings`), for texts over any characters and templates
  whose names mark one place and whose variables do not touch (`Readable`; otherwise a URL
  has several readings, or none that the values determine). `RenderFollows` lays the parts
  of a rendered template along its text, `BindSteps` and `BindPartIs` say what binding does at
  each part. A reading is bound (`ReadingIsBound`) because a separator that first begins
  behind a value begins nowhere earlier in the URL (`SeparatorFirst`), so that binding
  stops where the reading does. What is bound renders back (`BoundRenders`) because each
  value stands where its part was matched, and a later part does not change it
  (`NamesApartIn`).

`BulkSearchProofs`, for any tables, batches, rows, lists of crawls and queries. The
assumptions are what the types and the server give: hosts and paths are not empty (the
`url` crate gives a path of at least "/"), statuses have three digits, the crawls are
listed newest first and end in the year of their id or later:

- Keys. `PrefixRange` and `ExactRange` are about sequences of bytes: the half-open range
  from a key to the key with its last byte one higher holds exactly the keys it
  begins, and that to the key followed by a NUL the key alone. `PrefixMeans` and
  `KeyMeans` say what that is of URLs: a key begins another when the hosts are the same
  and the path begins the other path, both in lower case (`LoweredType`), and so never for
  a subdomain. `InTable` says of each kind of query what its range holds. The argument is in
  `KeyTellsHost`: labels and separators alternate (a label is one value here), and
  the parenthesis where the labels end is no comma.
- `BulkAnswersExactly` (exact and prefix queries), `RowsHandedOutAreWanted` (those and domain
  queries), both up to the case of letters. The buffer is what the earlier crawls
  answer, joined with what the batches read so far of the present one answer (`Progress`);
  the steps of the loops are `BatchRead`, `FileRead` and `AllRead`, equations on
  flattened prefixes, and `PassesMeans` turns predicates over columns into
  the query's filters for queries both backends can take whole (`Plain`).
- `TableAnswersTheIndex` (`BackendsAgree`), of exact and prefix queries: in addition what
  each filter is to the index, `CdxStatusMeans` and `CdxFiltersMean`.
- `SelectorsAreKept`: what `resolve_in` keeps is what the selector names, in the list's
  order (`Resolved`), with the year of a Since as the exception (`SinceMeans`).
- `SqlAnswersTheQuery` (`SqlAgrees`): scope and filters column by column
  (`SqlScopeMeans`, `SqlFilterMeans`).

`ListFacts` holds what these proofs share. Induction is there as a statement about a set of
numbers (`NatInduct`), got from a least element of a well-founded order: the library's
induction theorems are about an operator, which the provers cannot instantiate. Sums
(`SumExists`), flattening (`FlattenStep`, `FlattenAppend`, `FlattenPart`) and sorting
(`SortedByRank`) follow from it.

Model-checked only is liveness (`EveryCallReturns`, `EnumerationEnds`), which is outside
what the prover handles. Every other property of the passing runs is a theorem. The
counterexamples of the violating runs need no proof.

## 7. Implementation of an abstraction

`FsCache!ImplementsAtomicCache` is checked in `cache_processes` and proved for any number of
processes (`DirectoryIsAtomic`): the stored bytes are the content of the data file; a put
takes effect in its rename, also one that was dropped, a get in its open. The theorem's
hypothesis is `PutsApart`, that a process has its temporary file open for one put at a time;
`cache_two_tasks` shows that the code does not see to it. `CachedGet` therefore does not
build on the abstract cache: it has puts that cross in its own, coarser steps.

## 8. The plan

In order of what matters most to the system; what is there is marked.

New questions are put to the existing runs where they share an instance with one,
so that the number of runs stays small.

1. Request path: safety, liveness, timing, proofs (done).
2. Filesystem cache, expiry, its abstraction, what dropped calls leave running, proofs of
   all of it (done).
3. Index stream, enumeration and budgets, the commands that read them, proofs of
   all safety properties (done).
4. Cached requests with puts that cross, registry, their proofs (done).
5. Table backend and its proofs (done). Selection and its proofs (done).
6. Two tiers of cache and their proofs (done, for calls that do not overlap, with drops
   and kills); a back-fill racing a put.
7. Crawl selectors, query compilers and Athena, and their proofs (done); templates
   and their proofs (done); time ranges.
8. `sitemap_seeds` and `fetch @list` and their proofs (done).

## 9. Not modelled

What functions of one string without state compute: the parsing of gzip, WARC, HTTP
and character sets (warc/record.rs, warc/http.rs; that it may fail is in
`Commands`), of dates and selectors (model/timespec.rs, model/crawl.rs), of templates,
sitemaps and robots.txt (discover.rs; what they contain is data), and the quoting
and column list of the SQL. Regular expressions over URLs, time ranges, `collapse`
and projections, which are handed to a server, and `LIMIT`. Of the command line its
arguments, output formats, `--dry-run`, `fetch` of a single URL or to the standard
output, `text`, `stats` and `crawls`, which print what the library returns.
`stats` of the caches, which only reads. Collisions of the key hash: two keys with
one hash would share an entry, which `get` cannot notice (cache/fs.rs:28). Of SURT keys
hosts that are IP addresses, which are not reversed (surt.rs:42), and that Common Crawl's
own keys keep a port: the rows of `BulkSearch` have none, and their keys are taken to be
those `surt` makes. Errors of
the file system in `FsCache` other than those that come from the races above and a
write that fails (`LayeredCache!PutFails`, `Commands!PayloadFails`).
