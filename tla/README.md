# A distributed graph database in TLA+

The program under `src/` keeps a graph of named nodes, attributes and
relations in several *repositories*, each with a SQLite file, behind one *main
server*. A command-line client sends one request (create, read, update,
delete), waits for one text, prints it and exits. Everything travels over
`RDT_UDP`, a home-made alternating-bit protocol on UDP.

This directory holds the models of it, the instances TLC checks, and the
theorems TLAPS proves about them. Line numbers are those of `src/src/DGDB.cpp`
unless another file is named.

## 1. The system

| Part | State | Operations | Hard about it | What makes it correct |
|---|---|---|---|---|
| Main server (`DGDB`) | `repositories`, `current_request`, `pending`, `cud_blocking`, all in memory | one handler per message: C 166-250, R 345-430, U 497-563, D 585-639, I 57-164, M 39-55, E 693-710 | requests of many clients interleave; replies are matched by a number only; a restart forgets everything | a reply reaches its own client; a query in progress is not confused with another; writes are refused for a reason |
| Query traversal (`QueryState`, `DGDB.h` 39-49) | queue, visited set, response so far, per query | created at 417-422, changed by each report 106-136 | cycles, depth 0, rows in any order, the graph changing underneath | the nodes within the depth, each once, at its distance |
| Repository | three tables in a file, one handler at a time | C 251-342, R 431-494, U 564-582, D 640-690 | the create handler sends to other repositories in a loop, and may fail at each step | both halves of a relation; no dangling rows |
| Client (`main.cpp` 11-46, `WaitResponse` 9-26) | its socket | send, wait, print | answers that never come | it is answered, with its own answer |
| `RDT_UDP` (`rdt/`) | local variables of `SendTo`, `RecvFrom` | split, send, wait, resend; receive, acknowledge, end | loss, duplicates, timeouts, several peers on one socket | messages arrive whole, once, in order, with their sender |
| `UDPSocket` (`network/`) | a socket | send, receive, poll for a second | errors end the process | |
| Storage (`DBSchema.h`, `sqlite_orm.h`) | `dgdb_data.sqlite3` in the working directory: its tables, their columns and rows; the connection and its count of references | `sync_schema` in the constructor of every `DGDB`; prepare, execute | no transactions, no busy handler; several processes on one file | nothing stored is lost, nothing dangles, what was confirmed is there |
| Wire format (`parseNew...`, the parsing in the handlers) | none | fixed-width fields | counts and lengths that do not fit | what is written is what is read, or nobody takes it for something else |
| Routing (147, 238, 330) | none | first character % number of repositories | signed against unsigned | both sides agree |
| Conditions (`DBSchema.h` 5-33, 458-490) | none | fold of comparisons | `\|` against `&` and `--leaf` | a node is listed when the options say so |
| `TCPSocket`, `tools.h` | | | unused, trivial | |

How they interact: client -> main server -> home repository of the name ->
main server -> client. The home of a name is `first character % number of
repositories`. In between, a create makes its repository send one create per
relation straight to the repository of the related node (331), with request
number 0, which is not answered; a delete of a relation does the same (677). A
query goes back and forth between the main server and one repository after the
other (147-154). A repository registers with one `E` message when it starts.

Every process has one thread, one socket and no queue of its own. A handler
blocks in `SendTo` until somebody acknowledges, which the destination does
inside *its* `RecvFrom`. There are no locks; all concurrency is between
processes. The one thing processes may share is the file: whatever is started
in the same directory, clients included, opens the same `dgdb_data.sqlite3`.
`Cluster` gives each repository a file of its own, as on different hosts;
`Storage` is about one that is shared.

The list of what is hard to test is `hazards` in `PROJECT.json`, each with its
line and the properties that watch it.

## 2. The modules

| Module | What it is |
|---|---|
| `Traversal` | the query state and its two changes, as pure operators |
| `Cluster` | main server, repositories, clients and files at the level of messages |
| `ClusterProperties` | what the message level must get right, and what the program says and does not do |
| `MCCluster` + `MCCluster_*.cfg` | small clusters for TLC |
| `ClusterProofs` | the types hold, request numbers, clients and `cud_blocking` match, queries go by layers and their reports come in step, for all constants |
| `FilesProofs` | no file ever holds a dangling row, and what was confirmed is written, for all constants |
| `GraphService` | abstract: what the database promises its clients, a graph that grows and answers from it |
| `ClusterService`, `MCService` | `Cluster` shown to implement `GraphService` |
| `SettledProofs` | what is done for a client is what it asked, where the set of repositories is fixed, for any number of clients at once |
| `ServiceProofs` | `Cluster` implements `GraphService` there, for all constants |
| `TurnsProofs` | there, with one client at a time, what is confirmed has reached the other repositories and what a query lists is exact, for all constants |
| `Channel` | abstract: what the handlers expect of the transport |
| `RDT` | `RDT_UDP` datagram by datagram, shown to implement `Channel` where it does |
| `MCRDT` + `MCRDT_*.cfg` | two processes for TLC |
| `RDTProofs` | types, runs of packets without holes over any bad network, and that `RDT` implements `Channel`, for all constants |
| `Format` | the texts of all messages as they are printed and as they are read, and the packets they are cut into |
| `Routing` | the two ways to compute the home of a name |
| `RoutingProofs` | when exactly they agree, for every character and number of repositories |
| `Filter` | operators, comparisons and the fold of a query's conditions |
| `Wire` | `Format`, `Routing` and `Filter` at work: one request after another, message by message, with real texts |
| `MCWire` + `MCWire_*.cfg` | requests, tables and rows at and beyond every limit |
| `Storage` | the file, `sync_schema` and the statements of repositories, by several processes |
| `MCStorage` | two processes and all forms of files |
| `StorageProofs` | all properties of `Storage`, for all constants |

Operators named `Faulty...` stand before the operator they are a plausible bug
of. No specification uses them: they are there so that each property can be
seen to fail when one of them replaces its neighbour (`mutants` in
`PROJECT.json`).

### Cluster: state and actions

| Variable | Code |
|---|---|
| `repositories` | `repositories[1..]` of the main server; index 0, the main server itself, is left out, so that `Route` indexes `hash % Len + 1` as 238 does |
| `current_request`, `pending`, `cud_blocking` | the fields of the same names. An entry of `pending` is `[client, state]`; a null `state` is `Nothing` |
| `nodes`, `relations`, `attributes` | the tables of each repository's file, as sets of rows. Attributes are one flag: the node has the row the conditions ask for |
| `sending` | the message a process is blocked on in `SendTo` |
| `taken`, `lingering`, `ahead` | the message `RecvFrom` has read, whether it still waits for a silent second, and whose second ends before |
| `job` | local variables of a repository's handler while it has more to send |
| `request`, `answer` | what a client asked, what it printed |

One handler is one action when it sends at most one message: it takes what was
read, changes the state, and leaves its reply in `sending`. `RepoCreate`,
`RepoRelation` and `RepoFinish` are one handler cut at its `SendTo` calls,
since other processes run between them; so are `RepoDelete` and `RepoFinish`.
Replies that a process sends while it ends (`Exit`) are not sent.

What the transport does to messages is part of this level as far as handlers
can tell, in four actions: `Receive` (read, and released), `Overrun` (read by
a process that lingers behind another message, and lost), `FalseAcks` (a circle
of senders releases itself), and the copies in `MasterEnrol`. A message whose
last packet is at most nine bytes long does not make its reader linger, and
ends the lingering of one that overruns it; `Lingers` says which do. Of the
constant texts it is known (`LongTexts`, `BriefTexts`), a registration has one
byte, and of all else both lengths are considered, for the types in `Short`.

A history field `cli` in every message says on whose behalf it was sent. No
action reads it but to copy it; `AnswersOwn` and `Matching` compare it with
where the message goes.

A request number that is not in `pending` gets an empty entry from
`operator[]`. For an `M` message that is the address 0.0.0.0:0, to which
sending fails, and `UDPSocket::SendTo` exits (`network/Network.cpp` 36-40); for
an `I` message it is a null `state` that is dereferenced. Both end the
process, and `Exit` is what the model makes of them.

### RDT and Channel

A datagram is a packet or an acknowledgement with its sender and its bit. An
acknowledgement has length and checksum 0, which `RecvFrom` reads as a corrupt,
short packet; a packet read by `SendTo` looks like an acknowledgement with its
bit. `call` holds the local variables of the call a process is in. The network
may lose and double datagrams; two datagrams to one socket stay in order.
`Quiet` says when a second may pass: when no loop has anything to read. This
is the assumption that the network and the loops are much faster than the
timeout; with it a timeout follows a loss or a busy process, not a slow one.

`Channel` promises what the handlers rely on: `SendTo` returns after its target
has the message, and `RecvFrom` returns whole messages, each once, with their
sender. `RDT` implements it when the processes keep out of each other's way
(`Undisturbed`, the guard `Clear`) and nothing is lost or doubled. The cluster
does *not* always keep to that: clients and repositories send to the main
server when they like. What happens then is what `Overrun`, `FalseAcks` and the
copies in `MasterEnrol` bring to the message level, and the run `crossed`
shows the cause of the second on the datagram level.

### GraphService and ClusterService

A graph is a set of facts: nodes, attributes, relations. Creates add what their
request states, at their own node and, mirrored, at the neighbours'; a query
that runs while others write must list everything that was within its depth
when it was asked, and may list only what is there when it answers. Each
request is answered once. `ClusterService` maps the rows each repository holds of
its own names to facts; a history variable `before` remembers the facts at the
time a client asked. Repositories do not come or go there: with another table
the home of a name is another, and rows that stay behind are no longer found.

### Format, Routing, Filter and Wire

A text is a sequence of characters, numbers from -128 to 127. `Pieces` prints a
message field by field, with the widths `sprintf` and `char('0' + n)` give, and
notes which field overruns the four bytes it is printed in; `Take...` and
`Read...` are the `substr`, `erase` and `stoi` of the handlers, which may throw.
`SplitData`, `Received` and `IsCorrupt` are the packets of
`RDT_UDP_Helper.cpp`. An overrun is undefined behaviour; in `Write` the process
ends or goes on with the text as printed. What an operator character that is
none of `= < > %` leaves in `op` is any number (`Operators`).

`Wire` follows one request: `Write`, `Transfer`, `Read`, then the message its
reader sends next (`ServerPassesOn`, `RepositoryRelates`, `RepositoryReports`,
`RepositoryAnswers`, `ServerReports`, `ServerAnswers`), until the client has
read its answer, or a process has ended, or a corrupt packet is sent for ever.
Behind a corrupt packet `RecvFrom` may also end, since the packet is short or
the second is over, and the handler gets the text up to it; what its sender then
sends of the rest, as the beginning of another message, is left out.

### Storage

| Variable | Code |
|---|---|
| `file` | the tables of `dgdb_data.sqlite3`: whether their columns are those of `InitStorage`, and their rows |
| `at`, `table` | where a process is: in `sync_schema` and at which table, between requests, before a statement, in it |
| `job` | the request and the statement its handler has come to |
| `holder` | `connection_holder`: `_retain_count`, and whether the open failed |

`sync_schema` takes the tables from the last to the first (`for_each`), asks
whether each exists, reads its columns, and drops and creates it if one is
missing, added or different (`preserve` is false and no column has a default).
These are four statements, and so four actions: another process may do the
same in between. Creates and queries are the statements of their handlers, each
prepared (`Prepare`) and executed (`Execute`). A statement throws if its table
is missing, the file is locked by another process that is in a statement, a
name is there already, or the connection never opened; the handler catches it
in two places and ends in the others (`Caught`). What `confirmed` holds was
answered without an error.

## 3. The runs

| Run | Instance | Shows |
|---|---|---|
| `sequential` | 3 clients one at a time, 2 repositories, 3 names of which two share a home, 10 requests of all four kinds, both lengths of every text that is not constant | `CreateVisible`, `QueryExact`, `Answered` |
| `concurrent` | 2 clients at once, a repository that joins, 1 death or restart of a repository, 1 storage error, both lengths of texts | `TypeOK`, `AnswersOwn`, `BlockingHasQuery`, `Matching`, `QueryInStep`, `NoDangling`, `CreateWritten`, `StuckBehindTheDead` |
| `service` | 3 clients at once, queries next to each other and next to a create that shortens a path, over two graphs | `ImplementsService` |
| `restarts` | the main server dies once and starts again, registrations read once or twice, 2 clients | `Frontier` |
| `alone` | 5 messages of 3, 2, 4, 1 and 1 packets in turns between two processes, up to 3 copies of a packet of the longer ones | `TypeOK`, `ImplementsChannel`, `SendReturns` |
| `lossy` | 1 message of 5 packets, 3 lost and 2 doubled datagrams | `OneFragment`, `SendReturns` |
| `wire` | names of 1, 999 and 1000 characters, with accents and line breaks; 0, 9, 10, 207, 209, 256 and 257 relations; depths -1 to 12; up to 100 conditions with every operator; request numbers 1, 999 and 1000; tables of 2 to 10 hosts | `ReadsBack`, `CountsNotMistaken`, `HomesAgree`, `ListsWhatItSays` |
| `files` | 2 processes in one directory, 28 files (each table missing, current or of another version, and one in use), 2 requests, 1 failed open or death | `RowsStay`, `ReadyFindsTables`, `HolderBalanced`, `RowsRooted`, `ConfirmedStored` |

and, each expected to end in a violation, what the program says of itself and
does not do:

| Run | The program says | It does |
|---|---|---|
| `two_queries` | writes are refused during a query (168) | the first query to end lets them in (142) |
| `halves` | "Node stored successfully" (335) | the half of a relation within one repository, a message to itself, is lost |
| `crossed` | "Received AckPacket" (`rdt/RDT_UDP.cpp` 39) | it may be anybody's packet |
| `like` | a condition with LIKE has the value "MSc\*" (`README.md` 38-40, `main.cpp` 170-172) | 481 looks for the stored value in that of the query, so "MSc Informatica" is not listed |

More of what the program says is wrong, and no run is spent on it. "Node already exists.
Skipping" (281) skips nothing but the row of the node, and "Node deleted
successfully" (670) is said without any deletion; `RepoCreate` and `RepoDelete` do
what the code does. `README.md` 8-9 gives the numbers of attributes and relations
two and three bytes; 803-804 write one character each, so that ten relations end
the process that reads them (`CountsNotMistaken`). "Ack Timeout. Resending packet"
(`rdt/RDT_UDP.cpp` 33) means the same packet again, but `RecvFrom` begins every
message with bit 0 (53), so a message of one packet under ten bytes is read once for
every copy; the registration is one (`MasterEnrol`). "Try again later" (168) is
said for ever, or until another query completes, when the report of the only query
overruns another message at the main server and is lost: `Overrun` of an `I`.

Bounds. Two repositories are the least with a choice of home and a modulus
that changes; three names give a pair with the same home and a pair without, a
path of length two and a cycle. Two clients at once are enough for every
confusion of two numbers; the third one in `sequential` asks after two others
wrote. Depth 2 reaches from end to end. One death and one storage error put
each of the places where a handler may break off next to everything else; two
would repeat them. In `service` the third client is needed: a create must be
let in by the end of one query while another still runs. In `files` two
processes are every race between two statements, a third meets the same tables
in the same states; one failure is every place to break off. `wire` takes the
last value that fits each field and the first that does not, and for the counts
of one character also where it wraps around (256 is read as 0, 257 as 1).
Five packets use each bit again twice, so that a late copy
can meet its bit. `MaxCopies`, `MaxLost`, `MaxDoubled`, `MaxActive`,
`MaxCrashes` and `MaxFailures` bound what in the code has no bound. Clients are
symmetric in the runs that check no liveness. Every run may stop when no
client asks any more, so deadlock is not checked; `Answered` and `SendReturns`
check that nothing stops before.

Fairness. `Work` in `Cluster` is weakly fair: while any process can go on, one
does. A process never stops by itself between two calls, and a blocked sender
sends again every second until it is released. Nothing makes a client start or
a process die. In `RDT` each loop, each resend, each timeout and each return to
`RecvFrom` is weakly fair per process; that is a thread that runs and a clock
that ticks. With losses bounded, this includes that the network does not lose
everything.

Stated with limits:

* `AnswersOwn`, `BlockingHasQuery`, `Matching` and `QueryInStep` hold as long
  as the main server is not started again. A new one gives out the numbers from
  1 on, and a late report with an old number is taken for the new request's.
  `restarts` checks what survives that.
* `AnswersOwn` is about whole messages. `RecvFrom` takes packets of any sender by
  their bit (`rdt/RDT_UDP.cpp` 85-98), so two messages that come at once may be
  mixed into one text; what a handler then does with it, its client included, is
  not modelled (section 5).
* `BlockingHasQuery` says that writes are refused only while a query is pending.
  It does not say that this ends, which it may not (above), nor that they are
  refused as long as one is, which `two_queries` refutes.
* `CreateVisible` claims the related node's half for the first relation to each
  other repository only; a second message within the same second is lost, as
  one to itself is, which `halves` shows. "Visible" means
  that the repository has read it: no later query can overtake it there.
* `CreateWritten` says of a confirmed create that all of it is in one file, that
  of a home of its name in some table the main server has had; a repository
  that registers in between may have changed the home. After an error on a
  relation nothing is claimed: it is reported at once and the loop goes on
  (323-327); if the main server still lingers behind another message that text is
  lost, and the last one reaches the client, which still begins with the error
  (320, 335). `FaultyRepoRelation` forgets the error, and breaks the property.
* `OneFragment` is checked, under losses, for one message. With a second one
  between the same two processes it does not hold: late copies of the last
  packets of the first may be read as the beginning of the second.
* `QueryExact` compares with the files as they are when the text is printed, so
  it is checked where no write runs beside a query; `ImplementsService` is what
  is left of it where one does.
* `Answered` is checked without deaths: a sender whose destination is gone is
  blocked for ever, and a request it carried is never answered.
  `StuckBehindTheDead` says that this is the only way to be stuck.
* `RowsStay`, `ReadyFindsTables`, `RowsRooted` and `ConfirmedStored` are about
  tables that were missing or the program's own when the first process started.
  One of another version is dropped with all its rows, by design of
  `sync_schema()`, and may be dropped again by a process that looked before.
* `ListsWhatItSays` compares `=`, `<` and `>`, the fold and `--leaf` with a
  reference of its own (`Listable`, `Meets`, `Says`). Conditions with LIKE, which
  `like` is about, or with an operator the command line does not have are left
  out.
* `ReadsBack` says when exactly a message comes through: `Fits` lists the limits.
  `HomesAgree` says exactly for which non-ASCII names the sides agree by luck.
* `ImplementsChannel` needs processes that do not disturb each other, no losses,
  and that a message of one packet is sent once, so to a target that is in
  `RecvFrom`; packets of longer ones are sent again at will. A message of one
  packet ends on the bit it begins with, so copies its busy target has not read,
  and the acknowledgements they bring, count for what the pair exchanges next: a
  short one is read twice, and after another the next message of one packet may
  be released before it is read. Registrations and requests with short
  names are such messages; section 5 says which part of this `Cluster` leaves out.

## 4. The proofs

`ClusterProofs` proves `TypeCorrect`: `Spec => []TypeOK`. `TypeOK` is not
inductive: the handler of a report takes the head of the queue of a pending
query, computes `depth - left`, and routes to a repository. `Typed` adds that
the queue of a pending query is not empty and holds no entry above the depth
asked for, that there is a repository when there is a pending query, and that
only repositories send registrations. The proof has a lemma per action, on
lemmas for `Accept`, `Complete`, `Continue`, `Reply`, `NewState` and `Absorb`.
It covers restarts of the main server.

It also proves `NumbersMatch` (`[]Matching`), `NoCrossTalk`
(`[]AnswersOwn`) and `BlockingIsForAQuery` (`[]BlockingHasQuery`) under
`Master \notin Mortal`, the assumption above. The inductive invariant `Owned`
says of every message being sent and of every message read, with its sender:
its number fits the table (`Fit`); a text to a client is that client's own;
a client sends to the main server only, without a number; and commands reach
the main server from clients only. Of every handler it says that its number
fits and that it was not called by a client. Table entries are only added under
new numbers, erased, or changed within the kind they have; `Keeps` says so, and
`FitKept` and `StillGood` carry everything untouched across a step.

It proves `QueriesGoByLayers` (`[]Frontier`), restarts of the main
server included: `NewState` is `Layered`, and `Absorb` keeps it, position by
position of the queue and of the list (`AbsorbFields`, `AbsorbResponse`,
`OrderFresh`). And it proves `ReportsInStep` (`[]QueryInStep`) under
`Master \notin Mortal`. The inductive invariant `QueryInv` has two parts beside
`Owned`. `Solo`: a process has one thing in hand, since a handler that sends
has read and not yet read again. `InStep`: what is held of a pending query is
held by one process and is about the front of its queue. Without `Solo` a
process could drop the one message for another one, or hold a report behind the
look-up it sends.

`FilesProofs` proves `FilesSound` (`[]NoDangling`) under `SoundStores`: the
files a cluster starts with have no dangling rows themselves, which is so when
this program wrote them. `NoDangling` alone is not inductive: a repository
writes the relations of a create in steps of their own, any of which may throw
or be its last. `Rooted` adds that a handler with relations left to write has
already written the row of their node (`JobsRooted`). It covers restarts of
the main server and all storage errors. It also proves `StoredIsWritten`
(`[]CreateWritten`) under `Master \notin Mortal`. Storage errors, deaths of
repositories and clients, new repositories, lost and multiplied messages are
all included. The invariant `Confirmed` follows the create: the command is the
client's request (`Truthful`), a handler that has met no error has written what
is not on its list any more (`Writes`), and a text that confirms does so for what
is written. That rows, requests and homes stay (`Lasting`) carries it across the
steps of others.

`SettledProofs` proves `OrderlyAlways` (`[]Orderly`) under `Settled`: every
repository is registered from the start, nothing but clients dies, and no
storage operation throws; that is what `service` checks, here for any number
of clients at once and any requests. `Orderly` follows each request: there is
nothing of a client that has not asked, and nothing else of it while its
request, or a refusal, is on its way (`Traces`); a pending number is its
client's only one (`TableInUse`); a message says what its client asked
(`Sound`), and a handler writes what is asked at the home of its name, or the
other half of a relation of it (`SoundJob`). A refinement needs these because
`GraphService` adds no fact nobody asked for: a create that was refused must
have left no handler and no message behind that could still write.

`ServiceProofs` proves `ServiceImplemented`: `ServiceSpec => ImplementsService`,
under `Settled`. The invariant adds to `Orderly` what the answers need:
`Remembered`, the facts a client's request found are still there, since files
only grow, and were complete when it asked; and `Promises`, what a query in
progress will be right to print. `Search` says for a pending query that every
node in its queue or visited is no further than its layer in the graph as it
is and no nearer than it was; that a node is listed when it may be
(`MayList`); and that each node that had to be listed then (`MustList`) is
listed already or still reachable from the queue. A report in hand (`I`)
carries what was in the file of its node when it was read, at least the facts
of the time the query was asked and at most those of now. What is added to the
graph meanwhile only widens the gap between *then* and *now*, which is why both
sides are carried. The distances (`Within`) are a recursive function; `Induct`
gets what is needed of it from the well-foundedness of the naturals, by the
least number at which it would fail. On each action the refinement is: asking
is `Ask`, a write of a repository is `Write`, a client's text is `Answer`, the
rest stutters.

`TurnsProofs` proves what `sequential` checks beside liveness, under `InTurns`:
`Settled`, and no client starts before the one before it has its answer
(`MaxActive = 1`), for any number of clients, repositories and names, any
graph and any requests. All of it rests on `Turns`: what the running client
asked is in one hand (`OneHand`), in a message or in the handler of a
repository; whoever sends has it, and what it sends besides are halves of
relations, which make nobody send anything (`Leads`). So there is one process
at a time that can disturb another, and what the others do is known.

`CreatesVisible` (`[]CreateVisible`) must say which halves are lost. `Lingering`
says who still reads behind a message: the process that has the request waits
for all the others, since all wait the same second and it began last; and
others linger only while a handler sends halves, or its text is on its way
back. `Halves` counts along the list of relations: when the handler has come to
the k-th, whoever lingers is the home of one of those before it, so the first
half that goes to a home is read, written or in the handler of that home, and
stays so; the text that confirms is sent behind the last one. The next client
must not start while a home of the last create still lingers, or its halves would
be lost there. That is so for two reasons, one for each kind of text. Those that
confirm a create, an update and the deletion of a node or relation (335, 580,
670, 680) end in packets of ten bytes and more, so the main server lingers behind
them, and, since all wait the same second, longer than those homes. After all
others, the lists of queries and the short texts included (`Brief`), nobody may
linger; but the handlers that send them have sent no halves, and begin when nobody
lingers any more.

In `QueriesExact` (`QueryExact`), halves that are lost are
lost before the query is asked. What a query searches lies between two graphs,
the facts that are written and `Bound`, the relations that are written or, read
by a repository, about to be. While a query is in hand nothing is created, so
`Bound` stays (`BoundSame`) while the facts may still grow towards it; and a
repository reads a look-up after it has written all it had read before, so at
that repository both are the same when it reports. The invariant `Exactly` is
`Search`, `Reports` and `Lists` of `ServiceProofs` with `Bound` for the graph of
the time of the question. A node that is no farther than its depth in what is
written and no nearer in what bounds it is at that distance in both
(`BetweenIsExact`). `BallIs` shows that `Ball`, computed from the tables, is
`Within`, computed from the facts. TLC checked `Turns`, `Lingering`, `Halves` and
`Exactly` on the instance of `sequential`, with both lengths of creates, look-ups
and reports, before they were proved.

`RDTProofs` proves `TypeCorrect` (`[]TypeOK`), for any network, and `NoHoles`
(`[]OneFragment`) under `Separate`: no two messages share an end, and nobody
sends to itself. Any number of datagrams may be lost, doubled, or sent again.
`OneFragment` alone is not inductive, as it says nothing of what is in the
sockets. `FragmentInv` adds the stage each message is in: when packet `a` is
being sent, what is on its way are copies of packets up to `a` in order and
acknowledgements, and the target has gathered up to `a` or up to `a - 1`, or
has ended and waits for a first packet. The argument is that of an
alternating-bit protocol: only neighbouring packets are under way together, and
they differ in their bit.

It also proves `Implements` (`Spec => ImplementsChannel`) under `Calm`:
processes keep out of each other's way, nothing is lost or doubled, nobody
sends to itself, and messages of one packet are sent once; those of two and more
are sent again at will. These are the conditions of `alone`, for any number of
processes and messages. Each condition leaves out something that breaks the
channel: `crossed` and `halves` show two, section 3 says what a second copy does to
a message of one packet, and `NoHoles` what is left under losses. `ChannelInv`
keeps exchanges of different pairs `Apart`, says what an exchange looks like at
each packet (`Exchanges`: the copies a busy target has not read, and the
acknowledgements they will bring), and what of a message is where (`Gathered`,
`Known`, `Entries`). A step that gathers the last packet is the channel's
transfer, returns are returns, every other step is a stutter. A message of one
packet leaves nothing behind: its only copy is gathered, and its only
acknowledgement read, before its sender does anything else.

`RoutingProofs` proves, for every character and number of repositories, the
equivalence that `HomesAgree` checks in `Wire` (`HomesAgreeExactly`), and that
the main server finds a repository in its table from any character
(`HomeInTable`). `SquaredInSteps` shows that `TwoTo64` is the remainder of 2^64.

`StorageProofs` proves all five properties of `Storage`. `Formed` is behind
`RowsStay` (`NothingLost`) and `ReadyFindsTables` (`TablesReady`): what a process
read of an own table is still so when it acts on it, and the tables it has been
through are current; so nobody drops an own table. `HolderBalanced`
(`ConnectionsBalanced`) is inductive by itself. `Sound` is behind
`RowsRooted` (`RowsAreRooted`) and `ConfirmedStored` (`ConfirmedIsStored`):
`Progress` says what a handler has written when it has come to a statement, which
stays written because own tables only grow (`Grows`). These two assume
`SoundFiles`: the files that are found have no dangling rows, which is so when
this program wrote them. That no name is there twice is SQLite's constraint
(`Violates`), which the model takes as it is, and so claims nothing about. The rest assumes nothing but `RequestsAssumption` and
`FilesAssumption`, which type the constants.

Beyond what is named above, the proofs about `Cluster` rest on `ClusterAssumption`
and `NothingAssumption`, those about `RDT` on `RDTAssumption`, the assumptions
these modules state on their constants, and on nothing else. Two of them say
that a null value is not one of the records it stands beside (`Nothing` no
query state, request, message, message read or handler, `None` no packet),
which TLA+ leaves open. The proofs
about `Cluster` hold for any sets of repositories, clients and names, any
requests and any bounds, also for messages overrun, lost in circles, or
registered many times.

Only model-checked: the properties of `Wire` (`ReadsBack`,
`CountsNotMistaken`, `HomesAgree`, `ListsWhatItSays`), as `Format` joins and reads
long texts with RECURSIVE operators, of which the prover can use nothing.
Induction over data is out of its reach where a theorem would have to take the
property as a parameter; what is proved of the recursive functions `Within` and
`Ball` goes by the least number at which it would fail (`Induct`), for one set at
a time. Liveness (`Answered`, `SendReturns`) and `StuckBehindTheDead`, which is
about ENABLED, stay with TLC too.

## 5. Not modelled, and the plan

The map covers the program's own files nearly whole, and little of the
repository's lines: 13405 of its 15615 lines are `sqlite_orm.h`, a header-only
library of templates for SQL expressions, of which the program instantiates
`make_storage`, `sync_schema`, `insert` and `get_all` with one `where`.
`Storage` models the connection, `sync_schema` and these two statements; the rest
has no state and is never compiled into this program, and a model of it would say
nothing about it.

Also left out: bits that are flipped on the way (the checksum is a sum of
characters, `Checksum`, but nothing flips them); updates and deletes as statements,
since their handlers have none; at the message level, messages that arrive cut
(after a loss) or with another one's packets among theirs, what remains of a
message released by a circle in the sockets of the circle, and the release of a
single-packet message by a stray acknowledgement before it was read; the
main server's standard output, the parsing of the command line, and the unused
TCP classes.

Done, in this order: `Traversal` and `Cluster`, since the protocol between the
processes is the program; `ClusterProperties`; `RDT` and `Channel`, because they
decide which messages the handlers see; the proofs about `Cluster`;
`GraphService`; `Filter`, `Routing`, `Format` and `Wire`; `Storage` and its
proofs; the proofs about queries, confirmed creates, the transport and the
routing; then, for a fixed table, what is done for a client (`SettledProofs`),
the refinement of `GraphService` and the two theorems about one client at a time.

Next, in order of weight:

1. **Mailboxes in `Cluster`**: sockets that keep a message after its sender was
   released, for stray acknowledgements and for what is left of a circle.
2. **`Format` without RECURSIVE operators**, so that `ReadsBack` can be proved
   field by field.
3. **A table that grows**: `GraphService` where repositories register between
   requests and rows stay behind at a former home.
