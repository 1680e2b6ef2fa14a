# A TLA+ model of MertBlobStorage

MertBlobStorage is a self-hosted server for the Azure Blob REST API: blob bytes
in files, metadata in SQLite, an axum front end with four authentication
schemes. This directory holds TLA+ modules translated from its Rust source, TLC
configurations that check them on small instances, and TLAPS proofs.

Run a check with `tlc -config X.cfg M`, a proof with `tlapm M.tla`.
`PROJECT.json` lists components, runs, mutants, the map from definitions to
source lines, findings, hazards and theorems.

## 1. Inventory

| Component | State | Operations | Interacts with |
|---|---|---|---|
| Durable file writes (`fs_io.rs`) | directories, their entries and data, in memory and on disk | create directories, temporary file, fsync, rename, directory fsync; concatenation; unlink | called by the backend for every upload |
| Metadata database (`metadata_db.rs`, `0001_init.sql`) | tables `accounts`, `containers`, `blobs`, `staged_blocks`, `committed_blocks` | one SQL statement or transaction per method | pool of 16 connections shared by all requests |
| Backend (`fs_backend.rs`, `path_layout.rs`) | none but files and tables | Put/Get/Delete Blob, Put Block, Put Block List, Get Block List, container CRUD, listings, property setters | alternates between files and tables without a lock |
| Listing (`list_blobs`, `list_containers`) | the client's marker | page query, truncation, delimiter folding | rows change between pages |
| Byte ranges (`parse_range`, `get_blob`) | none | parse, clamp, seek, take | Get Blob |
| Property, metadata and ACL updates | columns of a row | check, update, read back | other writers of the same row |
| Bearer tokens (`bearer.rs`) | `RwLock<Option<CacheEntry>>` | lookup, unlocked fetch, store | the OIDC issuer |
| Authentication (`auth.rs`, `sas.rs`, `shared_key.rs`, `anonymous.rs`) | none | choose the scheme, verify, authorise | account table, container ACL, key cache |
| Account resolution (`account_resolve.rs`) | none | rewrite the path before routing | authentication signs the original path |
| Block list XML (`block_list.rs`) | parser state | parse a request body, order kept | Put Block List |
| HTTP handlers, error codes, rendering | none | copy headers, call the backend | everything above |
| Server start-up, configuration | none | read configuration, open the store, serve | - |

What is hard in it:

- **Nothing locks a blob.** A handler awaits a statement or a file operation at
  a time, and the steps of requests for the same blob interleave.
- **Two stores without a common transaction.** A crash, an error or a dropped
  future between a rename and its row leaves one ahead of the other; nothing
  repairs it at the next start.
- **Disconnects.** hyper drops the handler's future at an await, while the
  statement or file operation in flight still happens, perhaps after later requests.
- **Durability** depends on an order of fsyncs, and on directories that the write
  may have had to make.
- **Paging** is a protocol of several requests over a table that changes.
- **The key cache** is refreshed without a lock by any number of requests.
- **Setters** check, update and read back in three statements, and an UPDATE of a
  row that is gone reports success.
- **A query that fails** reads as a row that is not there (`.ok()??`), in account
  resolution as in every check and read-back.

What makes the parts correct: a file under its final name is whole, and an
acknowledged one is durable; a row describes bytes that were written, and stays
related to its file; staged blocks are there when a list is assembled; requests
end; listings miss and repeat nothing; a valid key is found and a retired one
forgotten; a request is served exactly if it may be, on the target it meant; an
update that was acknowledged was made and is not undone by another; an ETag names
one state of a row; a range is the bytes asked for. Each property below is one of
these.

## 2. Modules

| Module | What it models |
|---|---|
| `AtomicFile` | the promise: a name changes in one step from one whole content to another, and an acknowledged write is durable as far as its directory is |
| `AtomicWrite` | `write_stream_atomic`, `concatenate_files_atomic`, `fsync_dir`, `remove_file_if_exists`, with the kernel's write-back and crashes; refines `AtomicFile` |
| `MetadataDb` | the tables as functions, the statements and transactions as actions on them |
| `FsBackend` | extends `MetadataDb`: every handler that creates or removes rows or files, an action per await |
| `BlobStore` | the operations of `fs_backend.rs` seen from outside: no files, tables or awaits, every operation one step; refined by `FsBackend` without surroundings |
| `Listing` | the two listing queries, folding, and a client that follows markers |
| `JwksCache` | the key cache, its refreshes, the issuer and the clock |
| `Access` | one request from the wire to its handler: account resolution, the four schemes, changing access levels, the clock |
| `ByteRange` | the range headers, `parse_range`, the clamping and the cut of `get_blob`, with u64 arithmetic, and a reference in terms of positions |
| `BlockListXml` | the event loop of `parse_block_list_request`, and a reference in terms of the document |
| `Handlers` | extends both: the handlers of `blobs.rs` and `containers.rs` down to the columns of a row, statement by statement |
| `MC*` | constants for TLC |
| `*Proofs` | theorems |

**AtomicWrite.** A writer goes through `start, stream, synced, renamed, fsynced,
done`; `failed` is an early return by `?`, and a `done` write is `lost` when a crash
takes its directory. `written` and `synced` are chunks of
its temporary file in memory and on disk, `name` and `disk` the directory in
memory and on disk, with version numbers to say which change is newer. A crash
keeps `disk` and the synced data only; the kernel may write back either at any
time before. `create_tmp` makes the directory of the final name (`create_dir_all`):
`made` are the directories there are, `rooted` those on disk with all their
ancestors. `fsync_dir` writes the entries in a directory and not the entries that lead
to it, which only the kernel's write-back does (`writeback_parents`), and a crash
takes the directories that are not `rooted` with every file in them. One set of
directories stands for the whole path from the data root; `OldDirs` are those on disk
at the start. Delete Container's `remove_dir_all` is not a step here: a container made
again after it has new directories in the same sense. Writes that had not begun may
come after a crash, so a lost directory is made again. `Unopenable` is the set of names in directories that `fsync_dir`
cannot open: the code logs this and returns `Ok`, so nothing is promised about
the durability of those, only that they are whole. Temporary names are assumed
to be unique (`uuid_like`: nanoseconds and thread id).

**FsBackend.** `req[r]` holds a handler's program counter and its locals, and
each action is the code from one await to the next. File writes are one step:
that is what `AtomicWrite` establishes for directories that are on disk and can be
opened. A crash of `FsBackend` leaves all files that were renamed, so what it says of
crashes is about those; the loss of a new directory is `AtomicWrite`'s. A row of `blobs` is the content its
length and MD5 describe; a content is a sequence of bodies, so that an assembled
blob can be told from its parts. `Env` selects what the surroundings do:
`overlap` (clients write to the same blob concurrently), `cancel` (a dropped
future), `crash`, `fault` (a statement or file operation fails), `mismatch` (a
Content-MD5 that does not match). Histories: `renamed` (contents ever renamed
onto a path) and `dirty` (blobs renamed onto since their row was written).

`BlobStore` is the same store seen from outside. A blob is gone once its row is, so
between the statements of Delete Blob its remaining block rows count for nothing.

**Listing.** A name is its place in the collation order, the prefix is a set and
folding a function on names, since both depend on the request and the name
only. `row_limit` keeps the widths: u32 in `list_containers`, which wraps in a
release build, i64 in `list_blobs`.

**JwksCache.** Time is a set of ages that saturate, so that it has no end.
`MaxLag` is how long an answer of the issuer may be under way; the code sets no
timeout, so it is a parameter of the result and not a fact about the code. `TTL`
is positive because `main.rs:73` raises the configured value to 60 seconds.

**Access.** A request is what the client means (account, container, blob) and how
it says it: account in the path, in the host name, or left to the default
account. `account_resolve_middleware` rewrites `path`, `auth_middleware` decides,
`run_handler` starts the handler; access levels and the clock move in between.
Requests share nothing but the access levels, so one request and an environment
that changes these are enough. `Covers` says, without the server's steps, whether a
credential is good for what the handler does on a target (`handled_op`: only the GET
of a container looks for `comp=list`, the other handlers do what the method says); a
SAS must have an expiry, as `sas.rs:19` says. `KnownDeviation` names, tightly, the
cases in which the code lets more through (section 6). The history `ever` records
whether a credential covered the target, or deviated so, at some time (`Opens`);
`always` whether it covered what was meant all the time. A path is a sequence of segments as the URI writes
them (`Escape`); the handlers' `Path` extractor undoes the escapes, the middlewares
do not. A signature is its key and its text; canonical headers and query
parameters are one flag, intact or changed. `Ambiguous` requests, of which even the
client's intent does not determine the target (a container named like an account,
sent without the account), are outside `ReachesItsTarget` and `RightfulIsServed`,
not outside `ServedIsEntitled`. `account_keys` may fail, and then answers as for an
unknown account, so that resolution goes on to the host label or the default
account: the request is then about another target than the one meant (`failed`), and
`ServedIsEntitled` says that it is served there only if its credential is good there.
Not among the clients: one that signs SharedKeyLite (`auth.rs:92`, `design.md:33`),
which the code verifies with the full string-to-sign and so refuses. `sip` and `spr`
are signed, never enforced, and not in the model.

**Handlers.** `rows` holds the row of each container and blob, `req[r]` a request's
arguments, locals and answer. A request goes through `parsed` (block list read),
`body` (upload under way), `write` or `commit` (statement next), `mkdir`, `read`
(read-back next), `done`. A value is the stamp of the write it comes from, 0 is NULL;
the stamp is also the ETag, since `generate_etag` is the clock in nanoseconds, which
is taken to differ between two calls. `Writes(op)` is the set of columns the statement
of an operation names; the four header properties that no upload writes are one
column, `enc`. `get_row` may always answer None: the code takes a failed query for a
missing row. Histories: `applied` (the statement wrote the row), `gone` (the row was
deleted since the request came in), `lost` (columns others wrote since). A dropped
request whose statement still takes effect is a request that is dropped one step
later, at `read`. Bytes, files and block tables are `FsBackend`'s; the two modules
share no state, and of an upload each has the part the other leaves out.

**ByteRange and BlockListXml** are pure. A header is one span, whose last number may
be missing, or something the parser ignores (suffix ranges, several ranges, bad
numbers). A document is a sequence of children with a tag, an id and a shape;
`ChildEvents` is what `quick_xml` reports for each. Ids split into several text events
by CDATA or comments, and text between elements, are outside the documents
considered.

## 3. Runs

| Run | Bounds | Shows |
|---|---|---|
| `atomic_write` | 3 writers; 2 names, one in a new directory, one in an old one that may not open | `NoTornFile`, `AckedIsDurable`, refinement of `AtomicFile` |
| `free` | 2 requests, all operations, two bodies, every event of `Env` | `TypeOK`, `BlobRowHasContainer`, `RowWasWritten`: what holds with no discipline |
| `serial` | faults, crashes, mismatches, no overlap | `Consistent`, `StagedRowHasFile`, `StagedRowHasContainer`, `AssembledFromStaged` |
| `quiet` | two blobs, no event | `QuietIsClean`, refinement of `BlobStore` |
| `ends` | two block ids, two bodies of different sizes, lists of one or two blocks | `BlockListDescribesContent`, `RequestsEnd`, refinement of `BlobStore` |
| `listing` | 5 names, page sizes 0 to 3, a u32 of two bits | `ListingIsComplete`, `ListedOnce`, `ListingEnds` |
| `jwks` | 2 requests, 3 keys of which one is not RSA, TTL 2, lag 1 | `NoSpuriousReject`, `RetiredKeysExpire` |
| `access` | 2 accounts, one with two keys; 3 styles and hosts; all schemes; SAS of both resources, with and without expiry, used before, in and after their windows; `comp=list` on every method; a name that needs escapes and one that is its escaped form, as blobs and as containers | `ReachesItsTarget`, `ServedIsEntitled`, `RightfulIsServed` |
| `handlers` | a container and a blob, 2 requests, 3 writes, a u64 of two bits, every span around the ends of the blob, a block list with every shape of child | `OkMeansApplied`, `AnswerShowsOwnWrite`, `NoLostUpdate`, `EtagNamesOneRow`, `RangeIsExact`, `BlocksInOrder` |
| `escaped_sas` | as `access`, blob SAS for the name that needs escapes | `RightfulIsServed` violated, see section 6 |
| `torn_get`, `md5_mismatch` | one blob | violated, see section 6 |

Why these bounds are enough for the questions asked: the races of the backend
are between two requests (one between the await and the next step of the
other), and a slot is used again after its request ends, so a run of two slots
has histories of any number of requests. Two block ids and lists of two blocks
make the assembly loop take more than one turn and stop in the middle. Two
bodies of different size are needed where sizes or contents are compared. Page
sizes reach from 0 to the largest u32, and five names make up to four pages,
with a name outside the prefix and two in one folded directory. Three instants put
the clock before, in and after a SAS window; one name is the escaped form of another,
and each of the four deviations of section 6 is reached. In `handlers`, three writes by two requests are a write, one
between its check and its statement, and one before its read-back; rows are absent or
left by an earlier process at the start, so that no write is spent on making them. The
blob is empty or as long as u64 allows, which is where the range arithmetic could
wrap. Symmetry is used
for sets of requests, blobs and keys where no liveness is checked.

**Fairness.** `RequestsEnd` assumes weak fairness of each request's steps: tokio
polls a future whose operation completed, and statements and file operations
return. It is checked without faults and disconnects, and without Put Blob and
Get Blob, whose handlers have no loop. `ListingEnds` assumes that the client asks
for the next page while it is given a marker; it holds although rows are added
all along, because markers grow. The key cache has no liveness property: its
client has no timeout, so nothing makes a fetch end. `Handlers` has none either: its
requests have no loop.

**Deadlock** is checked in every run; a request can always start, a row always
change.

Every property of a passing run has a mutant in `PROJECT.json`, a plausible
error in the code under which TLC finds the property violated. The mutants are
definitions commented `MUTANT of` next to what they replace; nothing uses them.

## 4. Proofs

| Theorem | Statement |
|---|---|
| `AtomicWriteProofs!TypeCorrect` | `Spec => []TypeOK` |
| `AtomicWriteProofs!FilesAreWhole` | `Spec => []NoTornFile` |
| `AtomicWriteProofs!AcknowledgedWritesAreDurable` | `Spec => []AckedIsDurable` |
| `AtomicWriteProofs!ProtocolImplementsAtomicFile` | `Spec => Abs!Spec` |
| `FsBackendProofs!TypeCorrect` | `Spec => []TypeOK` |
| `FsBackendProofs!RowsHaveContainers` | `Spec => []BlobRowHasContainer` |
| `FsBackendProofs!RowsDescribeUploads` | `Spec => []RowWasWritten` |
| `FsBackendSerialProofs!RowsMatchFiles` | `Serial`: `Spec => []Consistent` |
| `FsBackendSerialProofs!StagedRowsHaveFiles` | `Serial`: `Spec => []StagedRowHasFile` |
| `FsBackendSerialProofs!StagedRowsHaveContainers` | `Serial`: `Spec => []StagedRowHasContainer` |
| `FsBackendSerialProofs!PartsAreThere` | `Serial`: `Spec => []AssembledFromStaged` |
| `FsBackendSerialProofs!QuietBlobsAreClean` | `Env = {}`: `Spec => []QuietIsClean` |
| `FsBackendSerialProofs!BlockListsDescribeContent` | `Env = {}`, `BlocksOnly`: `Spec => []BlockListDescribesContent` |
| `FsBackendSerialProofs!BackendImplementsStore` | `Env = {}`: `Spec => ImplementsStore` |
| `ListingProofs!NothingIsRepeated` | `Spec => []ListedOnce` |
| `ListingProofs!NothingIsMissed` | `Spec => []ListingIsComplete` |
| `JwksCacheProofs!TypeCorrect` | `Spec => []TypeOK` |
| `JwksCacheProofs!PublishedKeysAreFound` | `Spec => []NoSpuriousReject` |
| `JwksCacheProofs!RetiredKeysAreRefused` | `Spec => []RetiredKeysExpire` |
| `AccessProofs!RequestsReachTheirTarget` | `Spec => []ReachesItsTarget` |
| `AccessProofs!ServedRequestsAreEntitled` | `Spec => []ServedIsEntitled` |
| `AccessProofs!RightfulRequestsAreServed` | `PlainNames`: `Spec => []RightfulIsServed` |
| `ParsingProofs!AnswersAreExact` | `Exact(range_answer(h, total), h, total)` for every header and length |
| `ParsingProofs!DocumentIsReadInOrder` | `InOrder(parse_block_list_request(Events(doc)), doc)` for every document |
| `HandlersProofs!TypeCorrect` | `Spec => []TypeOK` |
| `HandlersProofs!SuccessIsApplied` | `Spec => []OkMeansApplied` |
| `HandlersProofs!AnswersShowWrites` | `Spec => []AnswerShowsOwnWrite` |
| `HandlersProofs!UpdatesAreKept` | `Spec => []NoLostUpdate` |
| `HandlersProofs!EtagsNameRows` | `Spec => []EtagNamesOneRow` |
| `HandlersProofs!RangesAreExact` | `Spec => []RangeIsExact` |
| `HandlersProofs!BlocksAreInOrder` | `Spec => []BlocksInOrder` |

They hold for every value of the constants that satisfies the ASSUMEs of the
modules: typing, a `None` that is no ordinary value, finitely many names for
listings. Some have a hypothesis, named before the statement; it is what the run
that checks the property has in its configuration:

- `Serial`: `Env` has neither `overlap` nor `cancel`. Errors, crashes and wrong
  Content-MD5s still happen. `Env = {}`: nothing of all this.
- `BlocksOnly`: there is no Put Blob, which keeps the block list of the blob it
  replaces, and no list names a block as `Committed`, for which the size comes from
  the old block and the bytes from the new (section 6).
- `PlainNames`: container names, where a SAS or an access level is looked up by them,
  and the names of blobs for which a blob SAS is used, need no escapes. Without
  it the finding `escaped_sas` is a counterexample.

- **AtomicWrite.** Files are whole because a temporary file is synced in full
  before it has a name and never written again; the invariant adds that a
  writer past `sync_all` has all its chunks on disk. Durability adds that the
  version a writer's directory fsync saw is covered by the one on disk, and that the
  directories on disk at the start stay there (`StampsCovered`): so an acknowledged
  write goes only with a directory that was made since. The refinement maps a
  directory entry to its writer, or to a torn value that the first invariant excludes,
  and `rooted` to the directories `AtomicFile` calls anchored: its `Crash` leaves the
  saved bodies in those, and no file in others.
- **FsBackend.** The foreign key and the transaction of Delete Container make
  `BlobRowHasContainer` inductive together with the types. `RowWasWritten` needs
  more: a request about to write a row holds a content already renamed onto that
  path, whatever others renamed onto it or unlinked since.
- **FsBackend, serial.** Two facts about every step carry the rest: it stays in the
  scope of its request (`StepScope`), and it changes nothing outside the blob, block
  or container of that request (`StepRest`). `OneWriter` says that no two writers have
  scopes that meet, which the admission of requests gives and every step keeps. So a
  handler may rely, from one await to the next, on what it has read and written
  (`ReliesOn`: the container is there; the file it renamed is in place and its blob
  dirty; the rows it deleted are gone; the blocks it resolved are staged), since
  nobody else touches it (`Apart`, `OthersRely`), and each family of steps is shown to
  keep the tables in agreement with the files from there. A crash ends all requests
  and with them everything they relied on; what remains is `Tables`.
- **FsBackend, calm.** `QuietIsClean` is about the states in which nobody writes. The
  invariant, `CalmInv`, is about all: what is not clean is in the hands of a request
  that is on its way to clean it (`Unsettled`, `Staging`, `Emptying`).
- **FsBackend, block lists.** `ListInv` follows the sizes along Put Block List: those
  resolved are those of the staged rows, these are those of the files (`CalmInv`), so
  the parts copied have the sizes resolved; and no blob loses its block list before
  its row.
- **FsBackend, atomic store.** Each operation takes effect at one of its statements:
  the insert, the transaction or the upsert, and for Delete Blob the first of its three
  deletions. From there to the last, the rows of its blocks are not seen
  (`SeenStaged`, `SeenBlocks`), which is sound because nobody stages a block of that
  blob meanwhile (`NotHalfDeleted`). `StoreInv` says of each handler that what it is
  about to write is what the store would write now: the entries resolved and those to
  come are the list sent, in order; the parts copied are the bodies staged, which
  needs `CalmInv` for the files; a Committed entry was committed. Only the content is
  abstracted this way: reads may still be torn (`torn_get`), and with faults, crashes,
  disconnects or overlapping writers the refinement fails, as a Delete Blob stopped
  between its statements leaves blocks behind.
- **Listing.** `First(k, S)` is downward closed in `S`, so a page has every row up
  to its marker. The invariant: nothing beyond the marker has been listed, and
  every steady row up to it has been listed or folded.
- **JwksCache.** The invariant bounds the age of every key in an answer by the
  answer's lag, and of every key in the entry by the entry's age plus the largest
  lag; and a key published since the request began is in the request's answer.
- **Access.** After `account_resolve` the path is the one sent, or that with one
  account before it, and without failed look-ups and ambiguity it is the path of what
  the client meant (`RouteInv`); the extractor undoes the escapes. Authentication is
  then compared with `Covers`, scheme by scheme, in both directions: what it accepts is
  covered on the handler's names, or a known deviation (`AuthenticOpens`; a path that
  spells every name as it is and a token with an expiry and the handler's permission
  leave only the first), what is covered on the meant names it accepts
  (`CoveredIsAuthentic`). The histories `ever` and `always` carry either
  over the changes of levels and time in between.
- **ByteRange.** What `parse_range` and `resolve_range` return is bounded first; then
  `end - start + 1` cannot wrap, and the positions sent are those asked for.
- **BlockListXml.** The events of a document and the loop over them are recursive
  functions of numbers. That each has a solution (`RecursionHasSolution`) and that a
  fact about numbers can be shown by induction (`NatSetInduction`, about a set of
  numbers instead of a predicate) follow from the well-foundedness of `<` on `Nat`.
  The induction is over the children: after the events of the first n, the loop is
  between two elements or has failed, and the blocks pushed are the entries among the
  first n, along a strictly increasing map (`ReadChild` for one child, `ReadDocument`
  for all). A stale kind from an element without text does no harm, since the
  next start event overwrites it; that is what the mutant of `read_event` breaks.
- **Handlers.** Every step has one of three shapes: a move of one request that leaves
  the tables alone, a statement that writes one row, or one that deletes rows; each
  action is shown to have its shape once, and the invariant is shown against the
  shapes only. Its parts: a request past its start has a key (`Keyed`); a setter past
  its statement has applied it or its row was deleted (`Places`), since it is the
  deletion of a row that was there at the check that makes an UPDATE miss; what was
  applied is in the row, and in the answer, but for columns others wrote (`AllKept`);
  and a stamp that is not used yet is in no row and no answer, no two requests have
  the same, and rows with the same stamp agree (`Etags`), which is what makes the ETag
  property inductive although stamps are taken before the statement.

Each of these invariants was checked by TLC on the instance of its run before it was
proved.

Only model-checked: the liveness properties `RequestsEnd` and `ListingEnds` (fairness
is beyond the prover). The three violations of section 6 are TLC's as well.

## 5. Hazards

`PROJECT.json` lists what is hard to test, at its line, with the properties that
watch it. Those without a property say why, and are where the plan goes on.

## 6. Findings

Three statements of the repository that the code does not keep. Each is a run
that TLC must find violated.

- `torn_get`: `docs/design.md:29` says "GETs are never torn". `get_blob` reads the
  row, then opens the file. An upload between the two replaces the file, and the
  new bytes go out under the old length and MD5. (An open handle is stable, as the
  document says; it is the pair of row and file that is not.)
- `md5_mismatch`: Content-MD5 is compared after the rename, and a mismatch unlinks
  the path, so a rejected upload leaves an existing blob's row without a file,
  while `backend.rs:88` promises properties plus a reader.
- `escaped_sas`: `README.md:90` says that any SDK client with a SAS works as against
  Azure. `verify_sas` compares the signature with the blob's name as the URI writes
  it, so a blob SAS for a name with a space is refused. (Shared Key is signed over
  the escaped path, and a container SAS has no blob name: both work.)

More that are in the models without a run of their own:

- `docs/design.md:29` also says that a crash before the rename leaves the previous
  state and "a crash after leaves the new state durable". `FsBackend` has the crash
  between the rename and the row: new bytes under the old row. `Consistent` in `serial`
  says what is left: such a blob is `dirty` until it is written again.
- `fs_io.rs:1-3` calls its primitives "Durable, crash-safe", and the same sentence of
  `design.md:29` says that "a crash after leaves the new state durable". `create_dir_all`
  makes the fan-out directories in the same call and nothing fsyncs the entries that
  lead to them (`fs_io.rs:55-58`, `76-78`): after the first write into a new directory
  a crash can take directory and file away although the write was acknowledged.
  `AckedIsDurable` says that this is the only way to lose one, the `lost` state of
  `AtomicWrite` is where it happens.
- `sas.rs:163-164` says that a blob SAS "only authorizes operations on that specific
  blob". The names signed are compared with the path as the URI spells it, so a token
  for the name `a%20b` opens the blob `a b` (and a public container `a%20b` opens the
  container `a b` to anonymous readers): `Respelled` in `KnownDeviation`.
- `sas.rs:19` calls the expiry "required", and `sas.rs:132-133` says "if present" of the
  start only; `check_validity_window` takes an empty `se` for no limit.
- `required_permission` answers List for any request with `comp=list`
  (`auth.rs:48-51`), while the PUT and DELETE handlers and Get Blob ignore that `comp`:
  a token with `l` only may then write, delete or read, although `sp` gives it no `w`,
  `d` or `r` (`sas.rs:17`, "signed permissions").
- `types.rs:36` says of `BlobPropertiesPatch` that "`None` means \"leave unchanged\"".
  The UPDATE at `metadata_db.rs:456` writes NULL for each header that is not sent, and
  `Value` in `Handlers` does so (Azure clears them too; it is the comment that differs).

Behaviour of the code that no text contradicts, modelled as it is and worth
knowing:

- A setter whose row is deleted and made again between its check and its read-back
  answers 200 without having changed anything: the `gone` of `OkMeansApplied`.
- A setter's stamp is taken before its UPDATE: ETag and Last-Modified of a row may go
  back. They still tell its states apart (`EtagNamesOneRow`).
- Put Blob over a blob keeps its encoding, language, cache control and disposition.
- A PUT with an unknown `comp` runs as Put Blob; an `x-ms-range` that cannot be parsed
  hides `Range`; suffix ranges are ignored and the whole blob is sent.

- `fsync_dir` answers `Ok` for a directory it cannot open (`fs_io.rs:36`).
- Put Block List clears all staged rows of the blob, named or not, and the files of
  the unnamed ones stay (`metadata_db.rs:763`).
- A `Committed` reference to a block staged again takes the old size and the new
  bytes (`fs_backend.rs:450`).
- `maxresults=0` yields an empty page without a marker, and 4294967295 wraps the
  limit of `list_containers` to 0: `Sane` in `Listing` excludes both from
  completeness, not from the other two properties.

## 7. What is not modelled, and the plan

Not modelled: rendering of XML and headers, error texts, SQL text, canonical
headers and HMAC (text and cryptography), configuration and start-up (I/O without a
protocol, once before any request; `ensure_account` discards its error, so a server
may start with the keys of an earlier run), the LIKE pattern of the prefix, the
health probes, and Get Block List (two reads that change nothing, of which a commit
in between shows the second half only; no text promises more).

Next, in order:

1. Get Block List in `FsBackend`.
2. The refinement of `BlobStore` under crashes and faults, by a store whose Delete
   Blob may leave blocks and whose staged blocks are what the files hold.
