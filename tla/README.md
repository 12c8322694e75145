# A verification development for CMDTorrent

CMDTorrent (`src/torrent-client-prototype`) is a command-line BitTorrent client in C++.
One thread per peer downloads pieces of the torrent's file; a monitor, `PieceStorage`,
hands the pieces out, checks their hashes and writes them to disk; the main thread polls
the monitor and asks the tracker for new peers when nothing moves.  These modules model
that program in TLA+, check it with TLC on small instances and prove with TLAPS, for every
instance, the storage's bookkeeping, that the threads' flags agree with it, what the
program's exit means, that a connection delivers whole strings, and the arithmetic of
pieces, blocks and messages.

## Inventory of the system

| component | state | operations | properties that make it correct |
|---|---|---|---|
| `Piece` (piece.cpp) | status and data of each block, expected hash | constructor, `FirstMissingBlock`, `SaveBlock`, `Reset`, `HashMatches`, `GetData` | data is taken only for a block asked for; the hash decides |
| `PieceStorage` (piece_storage.cpp) | queue, set in progress, saved set and list, `queueClosed_`, the output file | `GetNextPieceToDownload` (refills the queue), `PieceProcessed` (rejects or saves), counters | a piece has one holder; none is lost; what is saved is right, at its place and counted once |
| `PeerConnect` (peer_connect.cpp) | `pieceInProgress_`, `pendingBlock_`, `choked_`, bitfield, `terminated_`, `failed_`, socket | `Run`, `EstablishConnection` and its stages, `RequestPiece`, `MainLoop` and its message cases, `Terminate`, destructor | flags, piece and socket in step; a piece is always given back; a terminated thread ends |
| download driver (main.cpp) | vectors of connections and threads | thread body with retries, polling, termination, rounds | ends only with the whole file; every round ends; asks for peers when stuck |
| `TcpConnect` (tcp_connect.cpp) | `sock_`, timeouts, `socketMutex_` | `EstablishConnection`, `SendData`, `ReceiveData`, `CloseConnection` | whole strings in order or an exception; each descriptor closed once; a receive ends |
| `Message`, byte tools | none | parse, format, big-endian integers | round trip |
| piece layout (piece.cpp:10, piece_storage.cpp:30, main.cpp:187) | none | offsets, lengths, number of pieces | blocks tile the piece, pieces tile the file, an answer finds its block |
| `Bencode` (bencode.cpp) | place in the data, span of `info` | the recursive parser | the value written is the value parsed; parsing ends; the span is the value of `info` |
| `TorrentFile` (torrent_file.cpp) | the fields of a torrent | `LoadTorrentFile` | hashes whole and in order; nothing is downloaded for a wrong type |
| `TorrentTracker` (torrent_tracker.cpp) | list of peers | `UpdatePeers` | the peers are those of the last answer, none after a failure |
| command line (main.cpp:132) | the options | argument loop, load, selection, construction of the storage | only a percentage between 0 and 100 selects pieces |
| `checksum.py`, `check_script.sh` | none | compare hashes after a download | (not modelled) |

**Interactions.** Peer threads call the storage under its `mutex_` and fill the `Piece`
they hold *without* a lock; main reads two counters under the same mutex, in two separate
critical sections; main calls `Terminate` on connections whose threads may be anywhere,
and `Terminate` shares only `terminated_` and the socket (under `socketMutex_`) with the
thread.  That mutex is held through a whole socket call, a `send` without a timeout
included, so `Terminate`, and main with it, may have to wait.  Before the first round main parses the torrent, chooses the pieces and constructs
the storage; before every round the same parser reads the tracker's answer.

**What is hard.** The order of storage calls, message handlers and `Terminate`; exceptions
that leave `Run` at different points; short reads and torn sends; disk writes that fail half-way through
`PieceProcessed`; retries over leftover state; a refill that waits until nothing is in
progress; main's decision taken on counters that may have changed.  PROJECT.json lists
each hazard at its line, with the properties aimed at it.

## Modules

* **Piece** – a piece as the vector of its blocks.  Status and data are one value:
  `Missing`, `Pending`, `Good` (retrieved and right) or `Bad` (retrieved and wrong).
  SHA-1 is taken to be collision free and a wrong split of right bytes over the blocks is
  `Bad`, so `HashMatches` is "all blocks `Good`".
* **PieceStorage** – the monitor.  One action per method, since each runs under `mutex_`:
  `GetNextPieceToDownload` (`RefillNeeded`, `RefillQueue`, `TakeFront`), `PieceProcessed`
  (`RejectPiece`, `AcceptPiece`) and `PieceProcessedThrows`, where `SavePieceToDisk` throws
  after the index was erased (piece_storage.cpp:63,74).  A flush that fails is not noticed
  (piece_storage.cpp:135), so `SavePieceToDisk` may also "succeed" with a torn piece.
  `disk[p]` is what the file holds at piece p's place.  The module also states the contract
  with the callers: `Take`, `MarkPending`, `StoreBlock`, `Return`, `ReturnThrows` and
  `Drop` (the pointer is lost without `PieceProcessed`) are everything `PeerConnect` does
  with the storage, and `StorageSpec` lets any thread do them in any order.
* **PieceLedger** – the abstract specification: a piece is open, claimed by one thread,
  saved, or forgotten by its claimant, as long as the disk is `intact`.  `PieceStorage`
  implements it with `open <- Pieces \ (piecesInProgress \cup piecesSavedToDisc)` and
  `intact <- (diskFaults = 0)`.
* **PeerConnect** – one thread per peer.  `peer[t]` holds the members of its `PeerConnect`
  and its position.  A step goes from one access to shared state (the storage,
  `terminated_`, the socket) to the next, so a `Terminate` or another thread's call fits
  between any two.  A socket call is two steps: `CallSocket` takes `socketMutex_` (`inCall`),
  and the action of the call completes it and lets go; its outcome and the message it returns
  are free.  `Start`, `Terminate`, `TerminateClose` and `Destroy` are main's calls;
  `TerminateClose` needs the mutex.  A bitfield is a sequence of bytes, and a byte the set of
  its bits that are 1, so that the order of the bits, spare bits and short bitfields are
  there; `announced` remembers the pieces the peer said it has.  Every action conjoins one
  step of the storage's contract or leaves the storage alone, and the run *peer* checks
  `StorageSpec` as a property of `PeerSpec`.
* **TorrentClient** – main.cpp over all of it: rounds of `UpdatePeers`, thread start,
  `Poll`/`PollBusy`, termination of one connection after the other, joins, destruction,
  and the exit test of main.
* **TcpConnect** – one connection below the level of messages: the bytes on the wire, the
  peer that writes them and may hang up anywhere, the thread's calls, and main's `Terminate`
  and destruction.  `ReceiveData` is one step per `recv` (`RecvSize`, `RecvData`), each of
  which returns any part of what is there; the other calls are one step under
  `socketMutex_`.  `PrefixInOnePiece` is the assumption the code makes of `recv`
  (tcp_connect.cpp:124); with FALSE the bytes it did not fill are any of `JunkBytes`.
  After an exception the thread only closes; but where a disk failure throws out of the
  handling of that exception (peer_connect.cpp:44,178), main's loop tries again with the
  socket open (`RunThrowsOnDisk`, `diskFailed`).  `PeerConnect` sees of these calls that they
  hold the mutex, may stay in `send`, and succeed or throw.
* **MessageChannel** – the abstract specification of a connection: strings come out whole,
  once and in order, until it is dropped.  `TcpConnect` implements it with
  `connected <- (run = "using" /\ sock # 0)`: a socket left open between two
  attempts is no channel.
* **ByteTools, Message** – four-byte integers, message ids, `Parse`, `ToString`.
* **PieceLayout** – where pieces lie in the file and blocks in a piece, the selection by
  percentage, and the payloads of requests and answers.
* **Bencode** – the recursive parser as a machine with a stack of open lists and
  dictionaries; a step reads one token.  The branches for unexpected characters are all
  there: `ParseOther` (a zero, nothing consumed), `ParseKey` on what is no string, the end
  of the data as one zero byte, `stuck` for the list that never ends and `lost` for a place
  inside a token or behind the end.  `start` and `stop` are the two places of the hash.
* **TorrentFile** – what `LoadTorrentFile` and `UpdatePeers` take out of a parsed value.
  A member without a value is any element of `Indeterminate`.  `infoHash` is kept as the
  tokens it is the hash of.
* **Startup** – main from the command line to the first round, and `UpdatePeers` before
  every round.  `aborted` is an exception nobody catches or undefined behaviour.
* **BencodeReference, StartupChecks** – what a document is, its bencoding and its value, and
  the properties that compare the program with the documents.  Text and value are one
  recursive function, `Reading`, over places: a document up to its n-th element.  `Parts` is
  any set of documents that has the parts of its members; `DocumentAssumption` says that they
  are finite trees, by a `Size` that a document's parts have less of.  MCStartup computes
  both from the documents it lists.
* **PieceStorageProofs, PeerConnectProofs, TorrentClientProofs, PieceLayoutProofs,
  BencodeProofs, StartupProofs, TcpConnectProofs** – the theorems; **InductionFacts** –
  induction over the natural numbers as a fact about sets, and what follows for `FlattenSeq`.
* **MCPieceStorage, MCPeerConnect, MCTorrentClient, MCTcpConnect, MCStartup** – instances
  for TLC.

Operators called mutants in the modules are plausible slips in the code, each shown by TLC
to break the property it is paired with in PROJECT.json; no specification uses them.

## Runs

| run | instance | what it shows |
|---|---|---|
| storage | 2 threads, 3 pieces of 2, 1, 1 blocks, 1 disk failure, symmetry | type, the bookkeeping invariants, `RefillSparesHeldPieces`, `SavedIsFinal`; until a write fails `PieceStorage` implements `PieceLedger` |
| peer | 1 thread, pieces of 2 and 1 blocks, 2 attempts, every bitfield of up to one byte, 1 disk failure | the thread's flags, socket and piece stay in step; it asks only for what the peer announced; it keeps the storage's contract; it ends once terminated, if its sends return |
| client | main, 2 threads, 2 pieces of one block, 1 attempt, symmetry | the threads stay out of each other's pieces; the program ends only with the whole file |
| client_live | main, 2 threads, 2 pieces of one block, 1 attempt, no bitfields, no disk failure | the download completes once peers and tracker are good, although one thread may have to wait for the other's piece; a terminated round gets past its joins, both if sends return; an idle round is ended |
| tcp | 2 sockets, 3 strings each way, handshake of 2 bytes, prefixes never split | a connection is a `MessageChannel`; what goes out is framed; no descriptor is closed twice, and until a disk failure leaves `Run` none is lost; a receive ends |
| startup | 15 torrents and 5 answers, whole, cut off after every token, or with a stray character at every place; 13 command lines | parsed as written, to the end; the hash is over `info`; hashes and peers complete and in order; pieces and blocks tile the file |
| shared_piece | as storage | **violated**: after a failed write two threads hold one `Piece` |
| lost_flush | as storage | **violated**: a piece whose flush failed counts as saved |
| idle_peer | as peer | **violated**: a thread waits for a message with no request out and work in the queue |
| blocked_send | as peer, 1 attempt, no disk failure | **violated**: a terminated thread stays in a `send` for ever, and its `Terminate` waits for the mutex |
| hang | main, 1 thread, 2 pieces of one block, 2 attempts, no disk failure | **violated**: a piece kept by a terminated thread stays in progress, and main polls for ever |
| short_prefix | as tcp, prefixes may be split | **violated**: after a split length prefix the client receives strings no peer sent |

**Bounds.** Two threads and three pieces are enough for every storage interaction: a refill
with one piece saved and one forgotten or held, a duplicate holder, a queue with more than
one entry.  A piece of two blocks separates "first missing" from "all retrieved" and lets a
piece have one right and one wrong block.  `MaxDiskFaults = 1` reaches the state after a
failed write, in which the promises conditional on `diskFaults = 0` end.  `MaxAttempts`
(three in main.cpp:59) is two where retries matter, enough to run with state left by a
failed attempt and to exhaust the attempts.  `PiecesPerByte` is two instead of eight: with
two pieces in a byte the wrong order of bits asks for a piece the peer does not have, which
the mutant `BitOfLowFirst` shows.  Bitfields that are too short for the torrent, or have spare
bits, are in the theorem `RequestsAreAnnounced`, which is for every number of pieces and bits.
In *client_live* a second thread makes the wait of one for the other's piece possible; with
two blocks, bitfields or a retry on top of that the temporal check takes too long, so that
these are left to *peer*, and bitfields also to *client*.  The rounds of main are unbounded.
Thread identities are a symmetry set in runs without liveness.  Deadlock
checking is off for the runs of the whole client, which stops when main returns, and for
*tcp*, *short_prefix* and *startup*, which stop when the connection is destroyed and when
main exits or aborts.

In *tcp* two sockets are enough for a retry after each way the first can end; three strings
are the handshake and two framed ones, so that a prefix follows a prefix, and among the
framed ones is the empty keep-alive.  In *startup* the documents are chosen for a branch
each: short and whole last pieces, several blocks, sizes that do not fit, a string `info`
before, inside and behind the dictionary, nesting, a key that comes twice, missing keys,
wrong types, a failure reason, a peer list with a rest.  Hashes have 2 bytes instead of 20;
the block size is the program's.  Damage is at the level of tokens.

**Fairness.** `PeerFairness`: weak fairness of what a thread does by itself (`OwnStep`), but not
while it is in a `send`.  Connecting is bounded by `connectTimeout_`, each wait for bytes by
`readTimeout_`, and a message has finitely many bytes (its length prefix has 32 bits), so that
a receive ends in a message or in `ReceiveFails`; `mutex_` is never held across a socket call.
A `send` has no timeout (tcp_connect.cpp:82 puts the socket back to blocking): the code does not
guarantee that it returns, and no fairness says that it does.  No message is assumed to come;
and keep-alives for ever are allowed.
`TerminateClose` waits until the thread is out of its call, and is fair.  `ClientFairness` is
the same with the main thread, whose Terminate is part of it.

`TerminatedThreadEnds`, `RoundEnds` and `DownloadCompletes` therefore have the hypothesis
that no thread stays in a `send` for ever (`SendsReturn`).  What they show is that there is
no other way to wait for ever: every receive gives up the mutex, `Terminate` gets it, and the
thread looks at `terminated_` before the next call.  Without the hypothesis they are false,
which *blocked_send* shows for a thread in `MainLoop`.  `IdleRoundEnds` needs no such
hypothesis.

`DownloadCompletes` is conditional: from some moment on the tracker names at least one peer,
the peers are seeders that unchoke and answer what is requested (`SeederStep`), main does
not end a round before its threads took their first piece (they have ten seconds,
main.cpp:69), and no piece stays in progress without a thread that downloads it, the defect
the run *hang* shows, and every send returns.  Everything before that moment is free, rounds
without peers or with bad ones included.  That the program gives up when such rounds go on for
ever is not claimed: main.cpp:123 repeats them.

`TcpSpec` assumes weak fairness of the steps of a `ReceiveData` under way, since `poll`
returns after `readTimeout_`; nothing of peer, caller or main.  `StartupSpec` assumes that
the one thread goes on; it gives the end of parsing for whole documents.

## Proofs

`PieceStorageProofs` proves, for any set of threads, any number of pieces and blocks and
any bound on disk failures, under the one assumption `StorageAssumption` (at least one
piece, no piece without blocks, `NoPiece` is not a piece):

* `TypeCorrect` – `StorageSpec => []StorageTypeOK`;
* `StorageCorrect` – `StorageSpec => []StorageInv`, and from it `PieceHasOneHolder`,
  `SavedPiecesAreVerified`, `PiecesAreAccountedFor`, `SavedPiecesAreCountedOnce`,
  `HeldPiecesAreInProgress`, `QueueStaysClean`, `ClosedQueueStaysEmpty`;
* `SavedPiecesAreFinal`, `RefillsSpareHeldPieces` – the two action properties;
* `StorageImplementsLedger` – the refinement: until a write fails claims are kept, and from
  then on the ledger promises nothing (`Broken`).

No single property is inductive.  That a piece has one holder needs that what is queued is
not held; that needs that a held piece is in progress, that queue, progress set and saved
set exclude each other, and that the queue has no piece twice; a refill keeps all of it only
because it starts with nothing in progress.  `StorageInv` is the conjunction.  Its parts are
conditional on `diskFaults = 0`, except the closed queue being empty and the exact count of
saved pieces, which survive failed writes.  `InvStep` has one lemma per caller step;
`QueueServed` reduces the two ways of `GetNextPieceToDownload` to taking the front of one
queue, which after a refill is described by what it contains and not by the loop that
builds it, so no induction is needed.  Sequences and cardinalities use the library's
theorems (`AppendProperties`, `HeadTailProperties`, `FS_AddElement`, ...).

`PeerConnectProofs` proves `PeersKeepContract`, `PeerSpec => StorageSpec`, action by action:
each conjoins one step of the contract or leaves the storage unchanged.  What holds of the
storage under any caller therefore holds under these threads (`PeersShareNoPiece`).  The
threads' own invariants, `PeerTypeCorrect`, `HeldPiecesAreAvailable`, `PendingIsRequested`,
`RequestsAreAnnounced`, `RetriesLoseNoPiece` and `RetriesLoseNoSocket`, rest on the inductive
`PeerInv`, relative to `StorageInv`.  It has a part for each way the properties can be lost:

* `Position` – what the thread's place in `Run` says of its own members, whatever fails.
  That the piece in hand is one the peer has must be known from the moment it is picked,
  over the send, to the wait; a request is out only in `MainLoop`, since `Run` resets
  `pendingBlock_`; and an exception is only remembered behind `MainLoop` (`failed`).
* `Clean` – what a thread that failed has already given back at each of the steps between
  the exception and the next attempt.
* `Waits` – what `PendingHasRequest` says.

`RequestsAreAnnounced` adds `BitfieldIsAnnounced`: whatever is available by the bitfield is a
piece the peer announced.  That is kept by a new bitfield because `IsPieceAvailable` reads the
bit that `Announcement` writes for the piece (`AnnouncementIsRead`), and by a `Have` because
setting a bit makes only its own piece available (`OnlyThatPiece`); both rest on the place of
a bit determining the piece (`BitFacts`).

`Clean` and `Waits` hold until a disk write fails: `PieceProcessed` then throws out of the cleaning
up itself.  A step of one thread could disturb what another's `Waits` says of its
blocks; that it does not (`OthersKeepTheirPiece`) is where `StorageInv` comes in: nobody else
holds the piece, and a refill, the only operation that resets blocks without holding them,
spares what is in progress.  `OwnPartSuffices` turns this into an obligation about one thread per
action.  `FirstMissingIsMissing` (the block a request asks for was missing) needs the
induction of `InductionFacts`.  Both assumptions on the constants, `StorageAssumption` and
`PeerAssumption` (at least one attempt, at least one piece per byte, sizes that are numbers
and pieces that exist in what peers send), are used.

`TorrentClientProofs` lifts all this to the program: a step of it is a step of the contract
(`ClientKeepsContract`) and a step of `PeerNext` (`ClientUsesPeers`), so `PeerInv` holds over
rounds that destroy connections and make new ones (`ClientTypeCorrect`,
`ClientPendingIsRequested`, `ClientSharesNoPiece`).  Of main itself it proves
`ExitIsComplete`.  The inductive invariant `FinishInv` says that once main has decided to
finish, every piece is saved.  Only `Poll` decides that, when the counter has reached the
number of pieces; the counter is the size of the saved set (`SavedCountIsExact`), which lies
within the pieces, so the set is all of them, and it never shrinks (`SavedOnlyGrows`).

`PieceLayoutProofs` proves the arithmetic without a bound on the sizes: `BlocksTileEveryPiece`
from the two bounds of a quotient rounded up (`BlocksNeeded`); `PiecesTileEveryFile` from the
growth of offsets, for every torrent that is `WellFormed` (the last piece begins before the
end of the file and all pieces together reach it); `IntegersSurvive` and `LengthsSurvive` for
every 32-bit value, signed and unsigned, by splitting an integer into its highest byte and
the rest (`HighAndLow`); `MessagesSurvive` for the ids 0 to 9 and any payload; and
`AnswersFindTheirBlock`, which combines them: index and offset copied from a request into a
Piece message lead `MainLoop` to the piece and `SaveBlock` to the block.  A KeepAlive is left
out of `MessagesSurvive`, because `ToString` writes an id byte behind its length 0; the
program never sends one.

`StartupProofs` proves `DownloadStartsTiled` for every command line, torrent and answer.  The
inductive invariant `Chosen` says that the percentage is one once the arguments are accepted,
and that the number of pieces is, once chosen, the one it gives for this torrent and not
zero.  That the number does not exceed the hashes is `SelectionFits`; the rest is the
arithmetic above.

`StartupTypeCorrect` is about the parser as well, on whole, damaged and arbitrary texts.
`Placed` bounds its places: one behind the data while it runs, two where it has just read a
key there and lost its place.  That hashes, addresses and ports are made of bytes needs an
invariant over the values on the stack, which are trees; instead of a recursive definition,
`Holding` says that there is a set of values, closed under taking parts, whose strings are
bytes and which has everything on the stack and the value parsed.  A token adds one element
to the set (`ClosedAdd`, `FilledFrame`, `YieldKeepsInv`).  What `LoadTorrentFile` and
`UpdatePeers` take from a value they do not reject is then in the set, and its slices have
the full size (`SlicesAreBytes`).  The assumption `StartupAssumption` says that texts are
tokens whose strings are bytes, and that a hash has a positive length.

`ParserReadsDocuments` says that the parser returns the value of whatever document was
written.  `BencodeProofs` shows it in three steps.

* `Reading` obeys its rule at every place (`ReadingIsRule`).  TLA+ gives a recursive function
  as a CHOICE; that there is one is shown by building readings below every rank, where the
  rank of a place is a number made of `Size`, and the induction of `InductionFacts`.
* From the rule: what is where in a text (`TextPlaces`, `LiesElement`, `FirstToken`: a
  document never begins with the end of a container) and how an element changes the value of
  its container (`ValueGrows`; for a dictionary that is `Assigned`, which is how the last of
  several equal keys comes to count).
* The inductive `Follows`: there is a chain of containers from the whole document inwards
  (`Chain`), one for each frame of the stack; each frame holds the value of the elements that
  are behind (`Filling`), the key it may hold is that of the element it leads to (`Leads`),
  and the place that is read is where the innermost container goes on (`Reads`).  Every
  action of `ParserStep` keeps it (`FlatFollows`, `OpenFollows`, `KeyFollows`,
  `CloseFollows`), and `ParseOther` is never taken (`NothingOther`).

The span that is hashed needs more: `start` moves at every string "info", `stop` behind every
value that has this key, at any depth.  `SpanBegins` and `SpanEnds` say where they are once
the last "info" of the document is behind; from there on no frame may hold that key
(`NoInfo`).  `SpanIsInfo` then is `InfoHashIsHashOfInfo`.

What main makes of the value is `TakenOut`: in "select" the torrent is one that
`LoadTorrentFile` returns for the parsed value, in "rounds" the peers are those of the last
answer or none.  With `SlicesJoin` (the slices of a text, one behind the other, are its
beginning) and `SlicesAreBytes` (each has the size asked for) that gives `HashesAreComplete`
and `PeersAreComplete`.  `DocumentIsReadOn` is what
can be proved of `WholeDocumentIsParsed`: every step on a document reads one token more, so
there are no more of them than tokens; that a step is taken at all is fairness.

Besides `StartupAssumption` the proofs use `DocumentAssumption` and `DocumentsAssumption` (the
documents that are written are among `Parts`); number, size, depth, keys and strings are
free.  That damaged
texts do no harm to the places and types is `StartupTypeCorrect`; what they are parsed to is
not claimed.

`TcpConnectProofs` proves `DescriptorsCloseOnce` for any number of attempts and any messages.
The inductive `SocketInv` says that `sock_` is never a closed descriptor, so that none is
closed twice; and, until a disk failure throws past the end of `Run`, that every other
descriptor was closed and `sock_` is -1 whenever the thread is about to make a socket.  After
such a failure the code does overwrite an open `sock_` (tcp_connect.cpp:37) and loses it; the
property has that condition.  `CloseKeepsInv` is the case all the closers share.  `TcpTypeCorrect` adds the types,
among them that a length read from any four bytes is a number and that a buffer is never
longer than what was asked for (`ConnectionInv`).  `OutgoingStaysFramed` is inductive as it
stands; what it needs is that `FlattenSeq` of a sequence with one more string has that string
behind (`FlattenAppend`), which is shown by induction over the length.

The second half of `TcpConnectProofs` is the other direction: `WholeStringsComeOut` (`ReceivedIsSent`) and
the refinement `ConnectionIsChannel`.  That what came out is a beginning of what was sent
is far from inductive: it depends on where in the stream of bytes the call under way is.
`StreamInv` says so: there are the strings sent, and perhaps one more that the peer tore
when it hung up (`SentOrTorn`), and a place in `wire` for each of those not yet received, one
behind the other with four bytes between them, where its bytes and its length lie
(`Carries`); the first place is where the call under way stands, and the buffer holds the
bytes before it (`Receives`).  A `recv` of n bytes moves all places by n (`RecvCarries`); the
size read is the length of the next string (`SizeIsRead`, which uses `LengthsSurvive`); a
full buffer is that string (`DataIsRead`), and it is not the torn one, of which `wire` never
has everything.

Both theorems have two hypotheses.  `LengthsFit`: the peer's strings have lengths below
2^32, which a string behind a four-byte length has.  `PrefixInOnePiece`: one `recv` finds the
four bytes of a length, or none.  The code relies on it (tcp_connect.cpp:124 calls `recv`
once) and TCP does not promise it; without it `ReceivedIsSent` is false, as the run
*short_prefix* shows, so the theorem says that this is the only thing that goes wrong.

Only model-checked: liveness (`TerminatedThreadEnds`, `DownloadCompletes`, `RoundEnds`,
`IdleRoundEnds`, `ReceiveEnds`, `WholeDocumentIsParsed`), since TLAPS does not reason about
fairness here.  Every invariant and every action property of a passing run is a theorem.

## What is left out, and the plan

Left out of the modelled parts: timers (a poll or a timeout may come at any time), console
output, and the bytes of messages above the connection.  A block's offset in a Piece message
is assumed to lie in the piece, as `SaveBlock` does (piece.cpp:35).  Bytes of a failed flush
that the stream may still write later are not tracked.  SIGPIPE (`send` has no
`MSG_NOSIGNAL`) is not modelled; that send counts as failed.  Memory is not modelled except
that an allocation may fail (`AllocationFails`, `stuck`).

Of `Bencode`, damage inside a token is left out: a size that is not followed by a colon or is
larger than the data, an integer without its end, negative and overflowing integers.  Sizes
in `PieceLayout` are below 2^31, so nothing wraps.  In `InfoHashIsOfInfo` the documents with
a string `info` behind the key are excepted: the code moves the beginning of the span there
(bencode.cpp:64), which no text of the repository says it should not.

Not modelled: `checksum.py` and `check_script.sh`, which compare hashes after a download, the
random part of the peer id, `HexEncode`, which the program does not call, and the build files.

What could still be added: `Bencode` at the level of characters, for the damage inside a
token, with a proof that it implements the parser of tokens on undamaged texts.
