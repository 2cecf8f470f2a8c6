# HighloadCup2018 in TLA+

The program is an HTTP server written for a contest: it loads a file of dating
accounts into one array, builds indexes over it, and answers queries
(`/accounts/filter/`, `group`, `suggest`, `recommend`) and POST requests from
memory. Nothing is persisted, and nothing is deleted. Names and line numbers
below refer to files of the repository.

## The system

| component | state | operations | what makes it correct |
|---|---|---|---|
| **Account index** (`index.cpp`, `index.h`) | per indexed attribute the links `nxt_*`, `nxt_*_nonempty` in each account, the heads `first_*_map`; local `prev_*` | `makeIndex` | every chain joins all accounts of its value, highest id first, and keeps doing so when the index is made again over stale links |
| **Filter** (`get_filter.cpp`) | the candidate `id`, `prefix_set`, `limit`, the function that finds the next candidate | `getFilter`, `nxt_*` | every account that passes the filters is a result, each once, the highest id first; the walk ends |
| **Chunked bit vectors** (`chunked_bm_vec.h`) | four chunks a vector; a thread-local aggregator: its steps, the current chunk and the enumerator | `SetBit`, `add`, `addAggStep`, `findFirst`, `getNextBit` | the ids enumerated are those in the intersection, in order, over all chunks, whatever the query before left |
| **Group counters** (`get_group.cpp`, `get_group.h`, `ngvs_map.h`) | `groups`: per year and per sex a few counting maps | `ngvs_map::operator[]`, `sort`, `inc`, `dec`; counting in `makeIndex`; `getGroup` | no count is lost or put to another key; an answer lists the largest (smallest) groups, in order |
| **Workers** (`worker.cpp`, `post_new.cpp`, `post_id.cpp`, `post_likes.cpp`) | `accounts`, `max_id`, `post_cnt`, and per thread an epoll set and a buffer | receive, dispatch, `postNew`, `postId`, `postLikes`, `makeIndex` at two thresholds | what was answered 201 is known afterwards and gets into the next index; the index is made once at each threshold |
| **Dispatch** (`req_handler.cpp`) | none | `reqGet`, `reqPost` | unknown ids get a 404, known ones do not |
| **Loader** (`load_data.cpp`) | the dictionaries `dic_*`, `accounts`, the vectors, the lists of likers | `loadData` | codes are dense and stable; every account has its bits |
| **Suggest, recommend** (`get_suggest.cpp`, `get_recommend.cpp`) | none that lasts | `getSuggest`, `getRecommend` | a pure computation over likes |
| **Start** (`main.cpp`) | the epoll sets of the threads | load, index, start the workers, accept | the index is complete before the first request |
| Parsing and formatting (`util.*`, `resp_templates.*`), timing (`ntb_util.h`) | thread-local buffers | - | - |
| `rapidjson`, `bm`, `tsl`, `flat_hash_map-master` | vendored libraries | - | - |

How they interact: `main` calls `loadData` (which fills `accounts` and sets the
bits), then `makeIndex` (which builds the chains and counts the groups), then
starts `NUM_THREADS` workers: one in the committed build, three with `MT`
defined. A worker reads a request, hands it to a handler, sends the answer (in
the case of `postNew` and `postLikes` in the middle of the handler), and after a
POST counts it in `post_cnt`; at the 10000th (in the short test mode) and the
90000th it calls `makeIndex` itself before it reads on. Handlers share
`accounts`, `max_id`, the chains and the counters by plain global variables; no
lock exists, and only `post_cnt` is atomic.

### What is hard here

* **The index is made over itself.** `makeIndex` resets its local `prev_*` but
  neither links nor heads. Correctness after the second run depends on which
  stale links are overwritten, which depends on what was posted in between.
* **Links are distances, and narrow**: 16 bits on a value chain, 8 on a nonempty
  chain. A distance that does not fit is cut off silently.
* **Merged chains** (`sname_starts`): a set of candidates, one a chain, which
  gives way to its successor; the result order and termination hang on it.
* **Chunk arithmetic**, and an aggregator that is reused without being cleared.
* **Answer before store**: 201 is sent before the account exists for others.
* **Double read of `post_cnt`**, and an unlocked read-compare-write of `max_id`,
  once there are several threads.
* **Which filter chooses the walk** depends on the order of an enum, and that
  filter is then not checked again; the walk may be over accounts loaded, over
  accounts indexed, or over all, and the checks are against accounts as they are.
* **One buffer and one list of events for all connections**, requests that arrive
  in pieces, and a loop inside the loop that waits for one client only.
* **Dictionaries looked up with `operator[]`**, which inserts what it misses.
* **Counters that are never cleared**, and a start position of the sorted map
  that is only ever increased.

`PROJECT.json` lists these hazards at their lines with the property that watches
each, and those nothing watches yet, with the reason.

## The modules

```
GetFilter               from the filters of a query to its answer
 |   its walks are those of
 |   DescendingWalk     what a walk over candidates promises        (abstract)
 |    |-- AccountIndex  makeIndex and the walks along its chains    (implements it)
 |    |    `-- AccountIndex_proofs
 |    `-- CombinedWalk  chunked vectors and the walk over them      (implements it)
 |         `-- CombinedWalk_proofs
 |-- GetFilter_proofs
 `-- MCGetFilter        accounts, filters and queries for TLC
Worker                  epoll, receiving, the body of a POST        (with MCWorker)
 `-- Worker_proofs
PostServer              the workers, POST, and when the index is made
 `-- PostServer_proofs
Loader                  dictionaries, likers, suggestions           (with MCLoader)
 `-- Loader_proofs      the names
      `-- Likers_proofs the likers and suggestions
NgvsMap                 the counting map, as operators
 `-- NgvsMapUse         one map under any sequence of operations    (abstract)
      `-- Groups        makeIndex's counters and getGroup           (implements it; with MCGroups)
           `-- Groups_proofs   of all three
```

**DescendingWalk** is the specification of a query: a set of accounts, taken
from the highest id down, each once, until the set is used up or the limit cuts
the walk short.

**AccountIndex** has the variables of the index and of the walk under their
names in the code (`first`, `nxt`, `nxtNe`, `prev`, `id`, `prefix_set`,
`limit`). `IndexStep` is one round of the loop of `makeIndex` for one attribute:
country, city, first name, surname and phone code have the same code each
(`index.cpp:58-141`). `QueryStart` is the choice of the first candidate,
`WalkStep` one round of the loop of `getFilter` with one of `nxt_country`,
`nxt_country_nonempty`, `nxt_fullscan`, and so on; `MergeStep` the round with
`nxt_sname_starts`. Whether a candidate passes the query's other filters is
left open (`pass`). `PostNew` stores an account; the constant `Repost` tells
whether clients post ids an index already covers. The history variables `seen`
and `top` remember the accounts of the last complete index: that is what a walk
can be right about.

**CombinedWalk** has the vectors as sets of bits per chunk (`chunk_arr`), the
aggregator's vectors (`and_src`, `steps`), `current_chunk` and the enumerator
`en`, as the bits that are still to come. `Store` is `loadData` setting an account's
bits; `QueryStart` is `reset`, the `add`s, `findFirst` and the first
`getNextBit`; `WalkStep` a round of `getFilter` with `nxt_combined`. BitMagic's
aggregator (`combine_and`, `combine_or`) is taken for what the code uses it for:
intersection and union.

**GetFilter** puts the walks together. A query is a set of filters `[attr, pred,
arg]`; `precedence` is the enum in its order, `combined2check` and `filters2check`
are the two lists `getFilter` sorts the filters into, `LastToCheck` is
`filters2check.back()`. From them follow the walk (combined vectors, a chain, the
full scan), the filters still to check (`Residual`: the one that heads the walk is
popped) and the candidates. A walk is the set of its candidates here; that chains
and vectors are walked from the highest id down is proved in `AccountIndex` and
`CombinedWalk`. The state is what a query reads: `accounts` as they are now, `bits`
as `loadData` set them, `nxt` and `first`, the links and heads of the four
attributes whose value chains a query may walk (`Linked`; a link is the id it leads
to, and width is `AccountIndex`'s matter), and `seen`, the accounts as the last
`makeIndex` saw them, from which the nonempty chains follow. `Init` is any data set,
with ids the data leave out below `max_id`, which starts from `StartMax`; `PostNew`,
`MakeIndex`, `Ask` are the operations. As in the code, `postNew` takes any id: a
client posts an account once, under an id that nobody has, but an index may have
covered that id already, as one of the accounts without any value. The history
variable `late` has such accounts, `stored` all that the data or a client stored.
`Holds` is the reference filter that the authors kept as a comment; `Passes` is the
check in the loop.

**Worker** is the loop of `worker.cpp`: `Poll` is `epoll_wait`, `Hangup`,
`ReceiveNone`, `ReceiveGet`, `ReceiveOther` and `ReceivePost` are what it does with an
event, `BodyMore`, `BodyNone` and `BodyDone` the inner loop, with the locals
`recv_result`, `cont_len` and `body_p`. `recv_buff` keeps what earlier requests left
in it. Bytes are counted in units: the first of a request, its Content-Length,
others. `strstr` ends at a NUL and not with the request, and its null result
is followed (`crashed`). Clients send a request in any pieces, send no second
one before the answer to the first, and leave at any point, by a shutdown (what was sent can
still be received) or a reset.

**Loader** loads accounts in any order (`Load`), with one dictionary for each way
the code treats one: names with string and vector (`fname`; country and city are the
same), with a string only (`sname`), with a vector only (`interests`), with neither
(`domain`). An account's names are looked up one after the other, and a name that is
listed twice (an interest may be) gets its code once (`New`). `PostNew` is what
`operator[]` does to them. The likers' lists are made by `Load` and averaged by
`MakeIndex`; `Suggested` is what `getSuggest` lists from them, each entry with the
account whose like it is. An account's own likes are sorted by the id, and
`std::sort` leaves two likes of one account in any order: `Sortings` are all the
ways. `InOrder` is the sequence of a set by an order of its elements, which is what
each sort here makes. `email_set` is filled by `MakeIndex` and `PostNew`, and read
by `postId`: whether an update is answered 202 or 400 is an operator of the state,
since `postId` changes none. An account is posted under a new id, once.

**PostServer** has a program counter per worker with one shared access a step:
`AckNew` (201 is sent), `Store`, `Compare` and `Raise` (`if(max_id<id)max_id=id`),
`Count` (`++post_cnt==90000`), `Test` (the second read, `post_cnt==10000`),
`BeginIndex` and `EndIndex`. `Check` is any POST that stores nothing, which
includes `postId` and `postLikes`: they validate the request and drop it.

**NgvsMap** gives each operation of `ngvs_map` as a function of the map; `sort` is
`std::sort`, so the order among equal counts is any (`Orders`). **NgvsMapUse** lets
one map undergo them in any order, `inc` and `dec` on a sorted map as their comment
demands. The program itself calls neither: what matters to it are `operator[]` and
`sort`. Its names begin with `Map` (`MapSpec`, ...), since `Groups` is shown to
implement it: `Use` reads a map of `groups` as its map, and the accounts handled so
far in all runs as its count (`UsesMap`). **Groups** has every map of `groups` in
turn (`map`, chosen by `Init`): by country and by sex for a year, by country and by
city for a sex. `CountStep` and `SortGroups` are the part of `makeIndex` that fills
it. Of `getGroup` there is which map a query is answered from (`Reads`) and the
sequence of pairs that is written (`Listed`). A query with both filters is answered
for the year alone, one with several keys by the country; the other filters and keys
are read and ignored; by sex, for a year, the limit is ignored too.

Next to some definitions stands one of nearly the same name that nothing uses
(`LinkToNarrower`, `HeadIfUnset`, ...): a plausible bug. Put in the neighbour's
place it makes TLC refute the property named with it in `PROJECT.json`, under
`mutants`. So no property here is one that no code could break.

## What is checked

Run with `tlc -workers 2 -config <cfg> <module>`, with the module of the
same name, or its `MC` module where there is one (`MCGetFilter`, `MCWorker`,
`MCLoader`, `MCGroups`).

| run (cfg) | question | bounds |
|---|---|---|
| `AccountIndex_append` | With new accounts and any number of index runs, does a walk along chains implement `DescendingWalk`? Does every query end? Are links too narrow for a gap at least harmless? | ids 0..4, codes EMPTY and two more, limit 2; value links hold distances below 3, nonempty links below 2, so the gap from 4 to 1 does not fit |
| `AccountIndex_repost` | The same ids posted again: do stale links break a chain, lose a merged result? | ids 0..3, two codes and EMPTY, links in which every gap fits |
| `CombinedWalk_wide` | Two vectors, chunks of two accounts: order inside a chunk and across; termination | 4 ids, 2 chunks, limit 2 |
| `GetFilter_plans` | Whatever combination of filters, is the answer the accounts the walk can know of that pass all of them? Is an answer ever lost by a POST or an index run? Also with accounts that are posted under ids an index has covered? | data sets of up to 3 accounts of 4 profiles that differ in every attribute, each with values and without; `StartMax` 2, so that the data may lack ids below it and below their own; every filter, and all pairs of 12 that cover all ways to walk and to check |
| `GetFilter_reference` | "acc_map.rbegin(); ... != rend()" goes over stored accounts: does the answer? Refuted, see Findings | the same |
| `Worker_loop` | Does a POST reach its handler whole and unmixed? Is every request answered, every client that left forgotten, nobody else cut off? | 2 connections, a buffer of 5 units, a GET of 1, POSTs with headers of 2 and 3 units and bodies of 2 and 0 |
| `Loader_names` | Are codes, strings and vectors in step? What do posted names spoil? Are suggestions those the data define? Is an e-mail in use ever given away? | 4 ids, 3 names for all kinds, 4 accounts, two with one e-mail, one that lists an interest twice, likes given twice and by both sexes |
| `PostServer_one` | The committed build: acknowledged accounts are known and indexed; one run at the low threshold | 1 worker, 4 ids, thresholds 2 and 4 |
| `PostServer_mt` | The `MT` build: how often is the index made, and can two make it at once? Does each worker come back? | 2 workers, 2 ids, thresholds 2 and 4 |
| `NgvsMapUse` | Does every key find its count after any sequence of operations? | keys 0, 2, 3 (a gap), counts modulo 3, two sorts |
| `Groups_runs` | Do counters add up over index runs, and what may an answer miss? Is each map used as `NgvsMapUse` says? | each map of 2 years and 2 sexes, data sets of up to 3 accounts of 4 profiles, groups 0 and 2 (a gap), counts modulo 4, two index runs, every query with a limit of up to 2 |
| `Groups_year` | "2011-2018" have a row each: does 2011 have an answer? Refuted, see Findings | the same, one index run |

Why the bounds are enough to be interesting. A chain can be broken, or wrongly
ended, with three accounts of which one changes its value between two index runs;
four give a chain that still has two other members, and a second chain beside it.
Links below 3 make the widest gap of four accounts too wide, and leave all the
others. Two chunks of two accounts make all four cases of a next bit (same chunk or
later one, first bit or not); more and emptier chunks are left to the proof, which
is for any number of them. Two workers are enough for any race of this code: it is
always one access of one between two of another. `LOW` = 2 and `HIGH` = 4 leave a
POST before, between and after the thresholds; `MaxPosts` stops the counter above
`HIGH`, where all its values are alike. A gap in the keys of a map makes groups of
count 0, without which `sort`'s start position would never matter. A filter's place
in the precedence only matters against one other filter, so pairs meet every choice
of a walk; the four profiles tell every filter from every other. Three ids have an
account stored late, above it one whose links lead to it and below it one that it
leads on to. Two connections are enough to find another's bytes in the buffer,
headers of two lengths to find another's Content-Length behind one's own, and a
buffer of five units is just one more than the longest request, as tight as the code
leaves it.

What the runs show about code a reviewer would argue over:

* A second `makeIndex` over stale links is right (`ValueWalkComplete`,
  `NonemptyWalkComplete` under `Repost`): every member of the new chain but the
  last gets a new link, so nothing is passed over. The last one keeps a stale
  link, so a walk may go on into *another* chain, harmlessly for completeness;
  that is why `ValueWalkExact` needs `~Repost`.
* No link, however stale or cut off, leads up or to account 0 (`CursorDescends`).
* The nonempty chain always ends in account 1, whether it has a value or not.
* Filters combine as they should (`AnswerExact`) in whatever order the walk and the
  checks take them, but for three cases which the property names: `likes_contains`
  has no case in the switch and filters nothing; `phone_null=1` walks from the head
  of the nonempty chain; one unknown name in `fname_any` or `interests_any` empties
  the answer, where `city_any` goes on with the names it knows. A walk along a
  nonempty chain may answer account 1 on top (`Stray`).
* An account that is stored late leaves the chains of the accounts without a value,
  and nothing takes back the links and heads that led to it or lead on from it. A
  walk along a value chain of that attribute may then answer accounts of another
  one, since the filter that heads it is not checked again: that filter, and no
  other, may fail (`Crossed`). Nobody who passes is missed for it (the first part of
  `AnswerExact`) or lost by a later index run (`AnswersKept`). The chain of
  `premium_now` cannot be crossed: only accounts that have a premium are on it, and
  none of them ever changes; nor can the nonempty chains, which are made anew.
* `Known` says what a query can know of: with a combined filter the
  accounts of the data, for ever; with a chain those of the last index; with a
  full scan all up to `max_id`, `accounts[0]` included. Clients see three
  ages of the data, but of the accounts that pass never less than before (`AnswersKept`).
* A POST is handed on whole although `strstr` runs over what other requests left
  (`PostWhole`), provided each header arrives in one piece: a shorter header arriving in
  pieces finds a stale Content-Length, or none, and the thread follows a null
  pointer. That is why the properties leave such connections (`split`) out.
* The worker is stuck for ever when a client leaves in the middle of a body
  (`Stuck`), and `RequestAnswered` and `LeftIsClosed` show that this is the only way.
* Posting a name the data do not have spoils no query by a name of the data, but
  makes the new name read as the code 0 (`NamesFind`): as no name at all for first names,
  as the data's first interest or e-mail domain for those.
* Suggestions do not depend on the order of the files or on how often the
  index was made (`SuggestExact`): the average of an average is itself, and nobody's
  likes are spread over a list, since the data name each account once.
* With `MT` the double read of `post_cnt` can make several workers index at the
  low threshold, or none, but none twice (`LowRunsPerWorker`), and the high
  threshold is exact (`HighRunsOnce`). `AckedIsKnown` and `IndexCoversAcked` are
  stated for one worker, the committed build; with two they fail at `Raise`.
* Group counters after a second `makeIndex` are sums over the runs
  (`CountersAddUp`): that is what the code does, and nothing in the repository
  says otherwise. A descending answer still lists the largest groups; an
  ascending one lists the smallest only after the first run, since
  `first_nonzero_val_pos` has then counted the empty groups twice (`AnswerIsTop`).
* `postId` refuses an e-mail exactly if an account of the data or a posted one has it
  (`EmailsTaken`). `postNew` does not check, so two accounts can share one. And an
  update that is answered 202 is not stored, so its e-mail stays free.

## Fairness

`AccountIndex` and `CombinedWalk` assume weak fairness of the worker's own steps:
the one worker thread runs the loops of `makeIndex` and of a query to their end,
which is what an operating system gives a thread that does not block; these loops
have no call that blocks. Of the rounds of a walk only those that find no result are
fair: a walk that came back to its candidate would then make no step, and TLC
reports it, while rounds with a result end at the limit anyway. Whether a request
comes is up to the clients: `PostNew`, `QueryStart` and `StartIndex` have no
fairness. `PostServer` assumes weak fairness of `Handle(w)` for each worker by
itself. It leaves out the one place where a worker can wait for a client, the loop
that receives a body: `RequestHandled` says nothing of a request whose body never
arrives in full. `Worker` has that loop: it assumes weak fairness of the worker's
steps together (`Step`; one thread) and of `SendMore` of each client, which ends
when the client leaves. The order of the events of one `epoll_wait` is left open,
which is weaker than the array's. Nothing makes a client begin a request, or leave.

## What is proved

`tlapm <module>` checks all of it. The theorems hold for every value of the
constants that satisfies the named assumptions of the modules (sizes are
positive, `EMPTY` is a code, `NONEMPTY` is none, the chunks divide the array,
`LOW < HIGH < MaxPosts`; accounts are records of codes or of names, the
names are finitely many): the real 16-bit and 8-bit links, the real array and
thresholds are among them. `QueryAssumption` says of a query what `getFilter` makes
of a request: each filter is of a kind in its enum (it answers 400 to any other member),
and only the lists and `eq` can name what no dictionary has. That a request gives a
member once is the clients' part: queries that repeat one are not modelled.

* **`AccountIndex_proofs`**: `TypeCorrect`, `CursorAlwaysDescends`,
  `ValueWalkIsComplete`, `NonemptyWalkIsComplete`, `ValueWalkIsExact`,
  `ValueWalkImplements`. The
  invariant `BaseInv` adds to the types what keeps a walk inside the array: the
  chains seen so far lie above the loop (`LoopAbove`), every link is 0 or less
  than its account's id (`LinksDown`: the remainder of a distance is no more
  than the distance), every name of the dictionary has a head
  (`NamesHeaded`), and a walk's cursor is an account (`WalkShape`). `TypeOK`
  alone is not inductive: that `id - nxt[id]` is an id needs `LinksDown`.
  For the chains themselves,
  `Building` is the loop invariant of `makeIndex`: the accounts handled so far
  are threaded, by code, from the head to the last one seen. `Built` is what is
  left of it when the loop has ended. For the nonempty chain both say in
  addition what account 1 is linked from. `Above` and `Ahead` are the loop
  invariants of the walk: the cursor is the highest candidate and below all it
  has examined, and of every chain either all is examined or the
  highest unexamined account is a candidate. Without
  reposts the last link of a chain is 0 and heads are never stale
  (`TailsEnd`, `HeadsHold`), so a walk cannot stray (`Straight`); with the
  completeness above, every step is a step of `DescendingWalk` or a stutter.
* **`CombinedWalk_proofs`**: `TypeCorrect`, `CombinedWalkImplements`. From
  arithmetic lemmas on chunk and bit (`Places`, `Order`) follows what `getNextBit`
  finds (`NextBitFinds`); `BitsLoaded` ties bits to accounts, `WalkInv` says
  that what is not examined yet is at the cursor or behind it.
* **`PostServer_proofs`**: `TypeCorrect` and all six safety properties.
  `HighRunsOnce` is nearly inductive by itself; `RatingInv`, `LowInv` say
  which values `post_cnt` can have while a worker is at a place;
  `AloneInv` says which one account may be acknowledged and not yet stored or
  covered: the one the worker holds.
* **`GetFilter_proofs`**: `TypeCorrect`, `AnswerIsExact`, `AnswersAreKept`, for
  every data set, whatever is posted, under any id nobody has, and indexed, and
  every query that `QueryAssumption` allows. The invariant has four parts: `Fresh`
  (bits are those of the accounts, and the index saw each account up to `top` as it
  is, or as nobody if it was stored late), `Threaded` (from its head a chain leads
  to all that the last index saw on it: this survives stale links, since a member
  with another below it gets a new one), `Straight` (as long as nobody was stored
  late, and for `premium_now` always, links and heads lead to members only) and
  `Answered` (an answer given is the one of this state). The argument is in
  `WalkExact`. It goes by cases of the walk: combined vectors (`CombinedExact`), the
  full scan (`ScanExact`), a chain (`ChainExact`): `ChainHasThose` has `Threaded`
  for it (`ReachesAll`: of the members that a walk reaches above a missed one, the
  lowest has a link to it or past it to a lower one), `ChainHasNoOther` has
  `Straight` (`ReachesOnly`: the members are closed under links). For a chain the
  point is that the filter popped from the list is the one that heads the walk
  (`OneHead`: of two filters only one is the last) and that every other one is
  checked (`ChecksAreThose`); `FruitlessHoldsForNone` is for the queries answered
  before any walk. `AnswersAreKept` has a case for each step: a POST changes no
  account but the one nobody had and no link (`PostNewLosesNone`), and after an
  index run a walk finds every stored account that matches (`MakeIndexLosesNone`).
* **`Loader_proofs`**: `NamesAreTyped`, `NamesAreAlwaysPrinted`, `NamesAlwaysFind`,
  `EmailsAreTaken`, for any finite set of names, any accounts, loaded in any order.
  The invariant has a part for each table: `Coded` (the names of the data have the
  codes up to `val`, each its own, and `val` counts them), `Spelt` (a
  string undoes its code), `Vectored` (a vector has the accounts with the name),
  `Stored` (an account's codes are those of its names), `Mailed`. `NamesFind` alone is
  not inductive: that a new code is free and the next string its own needs
  `Coded`. In a `Load` the new names are counted twice: by the names themselves
  and by the places where they are first met (`NewNamesCounted`), so their codes are exactly
  the next ones (`NewCodesAllUsed`: an injection between sets of one size misses
  none). The attempt to prove this found an error in the model, which gave a
  code to each mention of a name and not to each name; the code does not (`load_data.cpp:271`).
* **`Likers_proofs`**: `TypeCorrect` and `SuggestionsAreExact`, for any accounts
  with any likes, loaded in any order, indexed any number of times. The invariant
  `LikesInv` adds two parts to that of the names: `Kept` (an account keeps the likes
  of the data, in some order) and `LikersHold`: a list of likers `Tells` the data
  (it names all who like the account and nobody else, and the entries of each
  average to the time in the data), and the entries of one liker stand `Together`;
  once the program serves, there is one of each (`Single`). It is `Together` that
  makes `makeIndex` average all likes of a liker and not some of them
  (`MergedOnce`), and `Single` that leaves a merged list as it is the next time.
  `Load` keeps `Together` because the data name an account once: its entries are the
  last. From there the suggestions are counted out: `getSuggest` adds up gaps over
  pairs of a like and an entry, the property over the likes in the order of the
  data, and `SumsAreApart` says that these sums are equal, `InTurnOrders` that the
  two sorts make one order of all that is listed, `SuggestedExactly` that an account
  is listed as often as it is liked, by a bijection. The facts on sums
  (`SumUnfolds`, `SumWithout`: a sum is that without an element, and the element;
  `SumMoved`: along a bijection it stays) are not instances of an induction theorem,
  which the provers cannot instantiate. They rest on `SubsetInduction`, which speaks
  of a set of subsets in place of an operator and is proved by a least
  counterexample, and `InOrderArranges` (a strict total order of a finite set makes
  a sequence of it) likewise. The proof changed the model: the sorts were once
  `SortSeq` with a strict comparison, which by its definition has no value where two
  likes are of the same account; TLC, which has its own `SortSeq`, did not say so.
* **`Groups_proofs`**, of the map: `MapTypeCorrect`, `KeysAlwaysFind`, `CountsAreKept`,
  `CountedAreListed`, for every set of keys and width of the counts (the types are only
  proved, no run repeats them). Each operation keeps `IsMap` (the
  types, and `Inverses`: `keys` undoes the keys of `vals`) and changes at most
  the one count it should; `SwapKeeps` and `ExchangeKeeps` are the case of `inc` and
  `dec` that moves a neighbour, and `OrderIsOnto` is why `sort` finds a
  place for every key: an injection of a finite set into itself misses nothing.
  `ZerosFirst` is why the start position is right after one `sort` and is kept
  by the operations that follow (`JustSorted`).
  Of the program's counters: `TypeCorrect`, `CountersAlwaysAddUp`,
  `AnswerIsAlwaysOrdered`, `AnswerIsAlwaysTop`, `MapIsUsed`, for every data set, all rows and
  queries and any number of index runs. `CountedSoFar` says what a counter holds in
  the middle of a run, account by account, as the remainder of its width;
  `Arranged` says that outside a run every row is sorted, and up to the second run
  begins at its first counted key. `AnswerIsTop` needs both: a pair
  left out lies at a lower place, or before the start. `MapIsUsed` is the refinement:
  a `CountStep` in the map's row is a `Count` of the account's code (`UseCounts`),
  `SortGroups` a `Sort` (`UseSorts`: what was under way is then in `total`), all else
  a stutter. So what is proved of `MapSpec` holds of the program's counters.
* **`Worker_proofs`**: `TypeCorrect`, `PostsAreWhole`, `AnswersAreWhole`,
  `NobodyIsCutOff`, for any number of connections, requests of any size
  that fits the buffer, in any pieces. `Fits` bounds what was received, has arrived
  and is still to come by the request, which keeps every `recvfrom` inside
  the buffer; `EventsHold` says that an event the loop has not come to is of a
  connection that still exists, is not the one whose body is awaited, and has data if its client
  has not left: `NeverCutOff` rests on it. `Whole` says of each connection, in each of
  its states, where the bytes of its request lie; that the length found by `strstr`
  is this request's and not an earlier one's is `LengthFound`. None of these is
  inductive without the others.

Every safety property of the passing runs is stated by one of these theorems.
Only model-checked are the liveness properties (`QueryAnswered`,
`RequestHandled`, `RequestAnswered`, `LeftIsClosed`), since TLAPS here proves
neither fairness nor ENABLED arguments.

No module uses a RECURSIVE operator.

## Findings

1. **The full scan examines `accounts[0]`** (`reference`, `AnswersPassReference`,
   `get_filter.cpp:1106`): `if(0==id--)` compares before it decrements, and the
   account nobody stored is answered when its defaults pass. The reference filter
   in the comment at `get_filter.cpp:1138` goes over stored accounts only.
2. **`joined=2011` has no answer** (`year`, `FirstYearListed`,
   `get_group.cpp:210`): 2011 - 2011 is `EMPTY`, which means no filter.

Four more ways in which answers leave the same reference filter are named by
`AnswerExact` as its exceptions, and described above: account 1 in the answer to a
`null=0` query (`index.cpp:64-68`), the wrong chain for `phone_null=1`
(`get_filter.cpp:752`), `likes_contains` (`get_filter.cpp:265`), and accounts posted
under an id that an index has covered (`Crossed`). For the last, `makeIndex` puts all
ids up to `max_id` on chains, stored or not (`index.cpp:25`; `max_id` starts from 30000,
`load_data.cpp:5`), and never takes a link or a head back (`index.cpp:109-116`), and the
filter that heads a walk is not checked: with account 1 alone in the data, an account 2
posted with a surname is answered by `sname_null=1`. With at least 30000
accounts in the data, no id left out and each new id above all earlier ones, it does not happen.

## What is not modelled

* The vendored libraries (`bm`, `rapidjson`, `tsl`, `flat_hash_map-master`): 72000
  of the repository's 77000 lines are theirs. The modules take from them what this
  code uses: a map, an intersection, a parsed value.
* The parsing of requests and of the JSON data and the text of responses
  (`util.*`, `resp_templates.*`, the members of a document): data no property here
  tells apart.
* `postLikes` beyond "stores nothing": it validates and drops. Of `postId` the
  parsing, and the unknown member that ends the process.
  `getRecommend` answers an empty list. `getSuggest` reads `city` and `country` and ignores
  them.
* Undefined behaviour outside arrays (`groups` for years without a row,
  `birth_year` past 55), codes that outgrow their width (`city:11`, 90
  interests), requests that do not fit the buffer: the models start from data that avoid it.
* A client that sends a second request before the answer to the first: the
  program takes what one `recvfrom` returns for one request.
* `MT` with queries during `makeIndex`: `PostServer` shows when index runs and
  requests overlap, not what a query then sees: the hash maps with the heads are read
  and written at once, and what that does is undefined.
* `tests.cpp`, `tests_bm.cpp`: scratch code nothing calls.

## Plan

What is left to prove, in this order: that a chain walk of `AccountIndex` and a
combined walk of `CombinedWalk` examine the candidates `GetFilter` takes them to,
stated between the modules and not only in this text; for `Worker`,
the steps below `LeftIsClosed` that are not temporal.
