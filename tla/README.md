# Formal model of simpletorrent

TLA+ specifications of simpletorrent, a BitTorrent client that downloads (and
does not upload), with TLC configurations that check them on small instances
and proofs, checked by TLAPS, of their safety properties for every value of the
constants. `src/` below is the root of the repository; `PROJECT.json` maps every
definition to the lines it models.

- [1. The system](#1-the-system): components, state, operations, interactions
- [2. What is hard in it](#2-what-is-hard-in-it)
- [3. The modules](#3-the-modules): how each corresponds to the code
- [4. The runs](#4-the-runs): what each checks, its bounds, the fairness assumed
- [5. The proofs](#5-the-proofs)
- [6. Where the code and its documentation part](#6-where-the-code-and-its-documentation-part)
- [7. What is not modelled](#7-what-is-not-modelled)
- [8. Plan](#8-plan)

To check: `tlc -config PieceManager.cfg MCPieceManager` and so on for the table
in section 4; `tlapm PieceManager_proofs.tla` and so on for section 5.

## 1. The system

`main` (src/src/main.cpp) parses the torrent, asks the trackers once for a list of
peers, and runs `TorrentClient::start_download`. From then on there are three
threads and a signal handler:

- the **main thread** runs an `asio::io_context` with two detached coroutines
  per connected peer, timers, and one coroutine that cleans up. No two of them
  run at once; they interleave only where one awaits;
- the **writer thread** of `FileManager` polls a lock-free queue which the main
  thread fills;
- the **drawer thread** of `Statistics` draws the progress twice a second;
- **SIGINT** interrupts the main thread, at any instruction.

| Component | State | Operations | Correct when |
|---|---|---|---|
| PieceManager, Buffer (`piece_manager.cpp`, `buffer.cpp`) | state of each piece, slots with block states and bytes, map from piece to slot, bitfield and affinity of each peer, number of completed pieces | `select_next_block`, `add_block`, `update_piece_frequencies`, `remove_peer`, `is_download_complete` | the records agree; no slot is lost; a completed piece is queued and counted once; blocks that count as received were received |
| Peer (`peer.cpp`) | socket, timer, `continue_connection_`, the two exit flags, `is_choked_`, `num_in_flight_` | `start`, `receive_messages`, `handle_message`, `send_messages`, `send_block_requests`, `set_timeout` | at most five requests in flight; whoever decides to end, both coroutines end; nothing runs after `has_exited()` |
| PeerManager (`peer_manager.cpp`, `StateTransition.h`) | pool of Peers, retry state of each address | constructor, `cleanup_and_open_connections`, `cleanup_connections`, `open_connections` | the automaton agrees with the pool; the pool is bounded; one retry each; the client gives up when everybody has had it |
| FileManager (`file_manager.cpp`) | open files, write queue, writer thread | `save_piece`, `file_writer`, `calculate_files_write_info` | each byte gets to its place in its file; what is queued is written |
| Start and end (`main.cpp`, `torrent_client.cpp`, `global_state.cpp`) | `stop_download_`, the registered Statistics | `start_download`, `set_stop_download`, `sigint_handler` | every way out joins both threads; a stop ends the process |
| Statistics (`statistics.cpp`) | drawer thread, figures | `start_draw`, `draw_progress`, `stop_thread` | the drawer is joined exactly once |
| Tracker, UdpTracker, HttpTracker (`tracker.cpp`, `udp_tracker.cpp`, `http_tracker.cpp`) | a socket, a coroutine and a timer per UDP request, the set of peers found | `add_peers`, `send_connect_request`, `send_announce_request`, `parse_tracker_response`, `get_peers` | every tracker answers, fails or times out; only what was announced is a peer; what goes wrong at one tracker does not end the program |
| Parser, TorrentMetadata (`parser.cpp`) | none | `parse_torrent_file` | the metadata describe the torrent |
| message encoding (`MessageUtil.h`, `Util.h`) | none | `construct_message`, `get_peer_bitfield`, `parse_handshake_response` and others | bytes are what the protocol says |

How they interact:

```
 Parser -> metadata -> Tracker -> addresses
                                     |
                          PeerManager --- opens, destroys ---> Peer (2 coroutines, timer)
                               |   remove_peer                   | select_next_block, add_block,
                               v                                 v update_piece_frequencies
                          PieceManager  ( Buffer )  <------------+
                               | save_piece: write_queue_
                               v
                          FileManager: writer thread -> files
 stop_download_ : read by writer, drawer, cleanup coroutine, Peer loops;
                  set by cleanup coroutine, start_download, main, SIGINT
```

Calls into PieceManager never suspend, so each is atomic, but the calls of
different peers interleave at will. A Peer is destroyed by PeerManager when its
two exit flags are set. The only data that cross threads are the queue, the
stop flag and the figures that are drawn.

## 2. What is hard in it

`PROJECT.json` lists every hazard at its line, with the properties that cover
it. In groups:

- **Several records of one fact.** That a piece is being assembled is recorded
  by its state, its key in `piece_buffer_map_`, its slot's `empty` flag and the
  affinities of peers. They are updated by different functions and must agree
  after any sequence of requests, repeated requests, duplicates, wrong hashes,
  second bitfields and departures.
- **Reuse.** A slot keeps the bytes and block states of the piece before; a peer
  id is used again for the second connection.
- **Two coroutines of one object**, each ending at an await of its own, and a
  counter (`uint8_t`) that one increases *after* its await and the other
  decreases, perhaps before.
- **Errors dropped**: every await of a Peer takes its error code `as_tuple` and
  ignores it, so what follows works on what the read left behind.
- **Requests that get no answer**: a remote peer chokes, drops or stays silent,
  while slots, block states, affinities and `num_in_flight_` go on saying that
  answers are on their way.
- **Datagrams and timers**: an answer of a UDP tracker may be late, duplicated,
  somebody else's or cut off, and races with a timer whose handler may run when
  its request is over.
- **A retry automaton** advanced in three places which throws inside a detached
  coroutine if it is ever out of step.
- **The end of a run**: three threads and a signal handler with one flag; a
  queue that may not be empty; exceptions that unwind into a destructor that
  joins.
- **Arithmetic at boundaries**: pieces across files, files of length zero, a
  short last piece, loops that trust that the lengths add up, offsets that are
  cut to 32 bits.

## 3. The modules

| Module | Models | Builds on |
|---|---|---|
| `Buffer` | class Buffer: operators on a slot | |
| `PieceManager` | class PieceManager, one action per method | EXTENDS `Buffer`; refines `PieceLedger` |
| `PieceLedger` | abstract: what PieceManager promises | |
| `Blocks` | offsets and lengths of blocks, which data is accepted (operators) | EXTENDS `FileWriter`, whose torrents it cuts up |
| `Download` | PieceManager among the connections that drive it, with the requests on their way, answers, chokes, drops and reconnections | EXTENDS `PieceManager`; its behaviours are PieceManager's, and `Connections`' |
| `Peer` | one connection: two coroutines, timer, remote peer | |
| `PeerManager` | pool, retry automaton, cleanup coroutine | refines `Connections` |
| `Connections` | abstract: what PeerManager promises of each peer's connections | |
| `FileWriter` | where bytes go: queue, files, `calculate_files_write_info` | |
| `Shutdown` | threads, stop flag, ways out of a run | |
| `Client` | Shutdown with the writer's real work: what is in the files when the client stops | EXTENDS `Shutdown`, INSTANCE of `FileWriter`; its behaviours are those of both |
| `Tracker` | UDP coroutines, their timers and sockets, the HTTP trackers | |
| `Parser` | from a torrent file's dictionaries to a layout (operators) | |
| `Wire` | the bytes of messages, bitfields and handshakes (operators) | |
| `MCPieceManager`, `MCDownload`, `MCFileWriter`, `MCClient` | constants for TLC; `MCDownload` also compares `Wire`, and `MCFileWriter` `Parser` and `Blocks`, with what is expected of them | the modules they name, `Wire`, `Parser`, `Blocks` |
| `*_proofs` | theorems about the module they name; `FileWriter_proofs` also about `Blocks`, `Peer_proofs` about `Wire` | these modules, TLAPS |

Definitions marked *a faulty variant* are what a plausible mistake would make of
the definition that follows. They are used nowhere in the specifications; each
property was seen to fail when one is put in place of the real definition
(`PROJECT.json`, "mutants").

### Buffer and PieceManager

The class PieceManager owns a Buffer; the module extends `Buffer` and calls its
operators. Variables have the names of the members. A slot is a record of its
flag, its block states and, in place of its bytes, `good`: the blocks whose bytes
are those of the piece being assembled. A call that returns early changes
nothing and is a stuttering step.

| Action | Code |
|---|---|
| `SelectNextBlock(q, p, b)` | `select_next_block` of peer q, which chooses piece p and block b; b is `NoBlock` where the code returns `nullopt` |
| - `SelectAffinity` | the peer is bound to p |
| - `SelectNewPiece` | `handle_buffer_not_full_case`: the first unstarted piece the peer has goes to the first empty slot |
| - `SelectFromBuffer` | `handle_buffer_full_or_no_piece_to_add`: any piece of the buffer the peer has (the code starts from a random place of an unordered map); if all its blocks are requested, open requests are forgotten |
| - `RequestBlock` | the common tail: find the block, mark it, and when all are requested set `ALL_REQUESTED` and unbind every peer |
| `BlockArrives`, `AddBlock` | `handle_piece_message` and `add_block`: validity, `should_write_block`, the copy, and for the last block `FinishPiece`: hash, `save_piece` or `NOT_STARTED`, the slot, the map, the affinities |
| `UpdatePieceFrequencies` | a Bitfield message with at least one piece |
| `RemovePeer` | `remove_peer` |

Data may begin and end in any block and spoil what they cover, which is all that
wrong bytes, wrong lengths and wrong offsets come to, and anyone may send them at
any time, asked for or not: `add_block` does not look at the sender. With
`RepeatBitfield` a peer may send its bitfield again. Despite its name
`update_piece_frequencies` counts nothing: pieces are started in the order of
their indices.

`PieceLedger` is what the rest of the program relies on: a piece is missing,
being assembled, or saved; at most as many as there are slots are being
assembled; only the last missing block decides a piece, which is saved and stays
so, or starts again from nothing. The refinement mapping is `LedgerStatus` and
`LedgerHeld`; requests, slots, peers and affinities are not seen.

PieceManager speaks of blocks by their numbers. `Blocks` has the arithmetic behind
them, in bytes: how many blocks a piece has, what offset and length a request
carries, which block an offset belongs to, which data `is_valid_block_data`
accepts. Its theorems are what entitles PieceManager to its numbers (section 5).

### Download

PieceManager leaves open who calls its methods when. `Download` says it. Each peer
has a connection (`connection`, `opened`), the members `isChoked` and
`numInFlight`, `writing` for the await in `send_block_requests`, and `asked`, the
requests that the remote peer may still answer.

| Action | Code |
|---|---|
| `Bitfield`, `Unchoke`, `Choke` | `handle_message`. A remote peer that chokes may forget all it was asked; `num_in_flight_` does not hear of it |
| `Request` | the sender wakes up, is not choked, and begins the loop of `send_block_requests`: one `Round`, up to the await of the write |
| `WriteReturns` | the write returns or fails; the request is counted, and the loop goes on (`Round`) or ends (`Rest`), without a look at `is_choked_` or `continue_connection_` |
| `Answer` | the answer to any open request, with its bytes or with wrong ones; possible from the moment the request is written, so before it is counted |
| `StrayPiece` | a Piece that was not asked for (peers in `Strays`), with any data |
| `Break` | the remote peer closes, or the timer cancels a read: reads fail from now on, and the connection is `broken` |
| `MadeUpPiece` | what a failed read leaves behind is handled as a Piece, any number of times: zeros for the beginning of piece 0, or, out of step, any data |
| `Leave` | `receive_messages` throws, or returns after a timeout, and `start` ends |
| `CleanupAndOpen` | `cleanup_connections` and `open_connections` for one peer whose sender has come out of its loop, too: `remove_peer`, and one more connection |

All Pieces go through `HandlePiece`, which refuses or adds the data and decreases
the counter, modulo `CounterModulus`. Remote peers in `Steady` have everything,
answer correctly, send nothing else and stay; the others do what they like. A
connection that its remote peer has closed stays `broken` for ever, as in the code
(section 6). Every step is a step of PieceManager or leaves it alone, which is
a theorem.

`spoiled` records, for the properties only, that wrong bytes were handled, whoever
they come from. What is assumed: one Bitfield a connection (a reader out of step
could put another together; one of zeros makes `receive_messages` throw, which is
`Leave`). `MaxAsked` bounds what a remote peer keeps of the requests it gets; a
peer that sends strays can otherwise be asked without end, as each stray makes
room for a request.

### Peer

`main` is where `start` and `receive_messages` are (`connect`, `handshake`,
`interested`, then `header`, `type`, `payload` for the three reads of a message),
`send` where `send_messages` and `send_block_requests` are. Every step goes from
one await to the next. The remote peer (`Remote`) sends any message, answers
requests, forgets them when it chokes, or closes, until it has sent
`MaxMessages`. `TimerExpires` is the handler of `set_timeout`.

Reads can fail: cancelled by the timer, or because the connection is down, or
because the reader is out of step with the stream. As in the code the error is
not seen: `HeaderFails` goes on with the length of the last header (zero before
the first), `TypeFails` with a type nobody sent (`message_type` was not
initialised: any), `PayloadFails` with a payload of zeros or a partial one. `spoiled`
records, for the properties only, that a Piece was sent unasked, or made up by a
failed read. `LeaveEarly` and `Leave` are the returns of `start`, before and
after the sender was spawned. `SendThrows` is the catch block of `send_messages`: an
exception of `select_next_block` or of an allocation clears
`continue_connection_` and ends the sender without setting its flag, so
`has_exited()` stays false and the Peer keeps its place in the pool. That
`select_next_block` does not throw is what BufferConsistent and AffinityLive of
PieceManager are about; memory may still run out. `AddressFails` is the end of
`start` by the exception of
`make_address`, which nobody catches: no flag is set, and the Peer keeps its
place in the pool. PieceManager is reduced to whether it has a block
for this peer (any answer, once there is a bitfield).

### PeerManager

`peersState`, `peers`, `stopDownload` are the members; `opened` counts, for the
properties, the Peer objects an id has had. A Peer only registers, completes the
download or exits. `CleanupWakes` is one turn of
`cleanup_and_open_connections`: as no other coroutine runs between its two
sleeps, `cleanup_connections` (advance the states, `remove_peer`, erase) and
`open_connections` (walk through the list until the pool is full) are one action,
and so is the stop when the pool is empty. `OpenedBy` says without a loop whom
the walk opens: those with fewer connectable ids before them than there is
room.

`Connections` is what others may rely on: each peer waits, is up, has exited or is
closed for good; it registers only while it is up; it is thrown out only after
it exited, and what it had registered goes with it; it is connected at most
twice. One `Turn` may throw out and connect any number. `ConnectionOf` maps the
pool to it. The connections of Download take turns one peer at a time and
connect the same peer again at once; they, too, are Connections'. Neither
theorem says that Download has every run that PeerManager allows: a peer that
waits for room in a full pool has no state of its own in Download, where it looks
like one that is connected and has not sent anything yet.

### FileWriter

A torrent's layout is a sequence of file boundaries, a piece length and a number
of pieces, under `LayoutOK`: boundaries do not decrease, and there is exactly one
hash for every piece that begins in the torrent. `SavePiece` queues an offset
modulo `OffsetModulus` (the queue holds `std::pair<uint32_t, std::string>`);
`Dequeue`, `NextFile`, `FileFound`, `WriteChunk`, `PieceDone` are the steps of
`file_writer` and the two loops of `calculate_files_write_info`. A byte of the
torrent is named by its position, so `disk` says which byte of the torrent each
byte of each file holds. The vector of writes that the code builds first is
written as it is found; nobody else sees it. That a caller saves each piece at most once is
the theorem `WriterIsFed` of PieceManager. "On disk" means handed to the
`ofstream`, which is flushed when FileManager is destroyed. The module knows no
stop, and no fairness: when the writer runs and ends is in `Client`. The branch for
`open_files_.size() == 0` is dead: the constructor opens at least one file for a
single-file torrent and one per entry otherwise.

### Tracker

For each UDP tracker `phase` is the request it has made last, `receive` its
`async_receive_from`, `timer` and `timedOut` the timer and `*error_occurred` of
that request. Completions and expired timers become handlers that are due and
run in any order, so `receive` may be `ready` when the timer's handler cancels
the socket: the answer is then taken for a timeout (`Fails`). The other way
round, `Connected` and `Announced` leave a handler behind that is already due:
it captured references into the frame of a coroutine function that has returned.
`late` counts them; `LateHandler` cancels whatever the socket waits for by then,
and writes through what is no longer there (`crashed`, or nothing).

What arrives is a datagram of some kind: the right answer, the right answer cut
off, or anything else, which is how duplicates, late answers and forgeries look
to `IsAnswered`. Datagrams wait in the socket in order. `bytes_received - 20`
wraps for a cut answer; what the loop then does is a choice between a crash and
an address of garbage bytes. HTTP trackers are asked one after the other only
if `peer_set_` is empty; `HttpAnswers`, `HttpRagged` and `HttpUndecodable` are
what an answer can come to. `GetPeers` splits the addresses.

### Parser and Wire

Both are pure functions: they have operators and no state. `Parser` gives the
layouts that `FileWriter` works on, from info dictionaries that are well-formed
(`WellFormed`: a hash for every piece begun); the assumption `LayoutOK`, on which
the proofs of FileWriter rest, is evaluated for every one of them. `Wire`
has the sizes of bytes and words as parameters; with bytes of three bits and
words of two bytes TLC compares it exhaustively with what the protocol says:
bitfields, numbers, message lengths and handshakes arrive as they were meant.
`Download`, which leaves the bytes out, may therefore say that any payload of a
Bitfield means a set of pieces, and that every set occurs.

### Shutdown

`main` is where the main thread is, from before PieceManager is constructed to
the three ends of a process: `exited`, `killed` (`_exit` in the signal handler)
and `aborted`. Coroutines are reduced to what this module is about: pieces
complete, the peers run out, the cleanup loop ends. `SetStop(next)` is
`set_stop_download`, called from the cleanup coroutine, `start_download`, `main`
and `sigint_handler`; it sets the flag and goes to `StopThread`, the join of the
drawer, which returns to `next`. `Interrupt` may come at every step; in the
middle of a join its own join of the same thread throws and the process aborts.
Pieces are counted, not named. The stop flag, a plain `bool` read by three
threads, is modelled as atomic: it is accessed through functions of another
translation unit, so each turn of a loop does read it.

### Client

Shutdown counts pieces and knows no bytes; FileWriter knows bytes and no end.
`Client` joins them. A step that both speak of is one step: `Complete(p)` counts
the piece and queues it, `TakePiece` takes it off the queue, `PieceWritten` counts
it as written; `Split`, the loops over the files in between, is a step of
FileWriter alone, during which Shutdown's writer is `writing` and the other
threads, the signal handler and the end of the process go on. `WriterEnds` is the
head of the loop with the stop flag set or every piece written. Only at the head
is the flag looked at, and whatever is queued then stays there.

## 4. The runs

| Run | Module, cfg | Checks | Distinct states |
|---|---|---|---|
| `piece_manager` | `MCPieceManager`, `PieceManager.cfg` | TypeOK, BufferConsistent, AddFindsSlot, AffinityLive, BufferedPieceWaits, SavedExactlyOnce | 177,620 |
| `download` | `MCDownload`, `Download.cfg` | DownloadTypeOK, AffinityAnnounced, AsksOnlyAnnounced, GoodUntilSpoiled, KeepsLedger, RestartsOnlySpoiled, DownloadCompletes | 175,038 |
| `peer` | `Peer`, `Peer.cfg` | TypeOK, NoUseAfterExit, PipelineBounded, DropCompletes, SilentPeerIsDropped | 122,101 |
| `peer_manager` | `PeerManager`, `PeerManager.cfg` | TypeOK, PoolMatchesStates, PoolWithinLimit, GivesUpOnlyExhausted, KeepsConnections, PeersRunOut, CompletionEndsRun | 2,082 |
| `file_writer` | `MCFileWriter`, `FileWriter.cfg` | TypeOK, StaysInFiles, BytesInPlace, FinishedIsOnDisk | 9,581 |
| `client` | `MCClient`, `Client.cfg` | ClientTypeOK, ThreadsJoined, StopLosesOnlyQueued, SavedReachesDisk, StopEndsProcess | 67,935 |
| `tracker` | `Tracker`, `Tracker.cfg` | TypeOK, WaitIsTimed, PeersWereAnnounced, OneAnswerSuffices, EndsBadlyForCause, AddPeersEnds | 415,534 |
| `lost_piece` | `MCClient`, `LostPiece.cfg` | AnnouncedIsOnDisk: violated | |
| `late_error` | `Shutdown`, `LateError.cfg` | ErrorEndsProcess: violated | |
| `dropped_peer` | `Peer`, `DroppedPeer.cfg` | DroppedConnectionEnds: violated | |
| `large_torrent` | `MCFileWriter`, `LargeTorrent.cfg` | BytesInPlace: violated | |
| `stalled_peer` | `MCDownload`, `StalledPeer.cfg` | RequestsResume: violated | |

What they show, and why the bounds let the interesting cases happen:

- **piece_manager**: three pieces (two of two blocks, a last one of one) in two
  slots for two peers. Three pieces do not fit into the buffer, so it fills and
  is searched; slots are reused for a piece of another length; two peers are
  bound to one piece, ask for its blocks twice, and answer late. Peers are
  symmetric: no code orders them.
- **download**: two pieces, of two blocks and of one, in one slot: the second
  piece waits for the slot of the first and reuses it. One steady peer and one
  that does what it likes, Pieces nobody asked for included. One request is in
  flight on each connection, and the write of the next one begins as soon as an
  answer, or a stray, has been handled; the counter, modulo 3, shows its wrapped
  value when the answer comes before the count, and stays there after a stray. A
  piece can fail and start again any number of times, blocks are asked for again
  while answers are on their way, and requests are lost with a choke or a
  connection while the slot still counts them. Each step is checked to be one of
  the ledger's, or none. Longer pipelines are in run `peer`, and in the theorems,
  which have any MaxInFlight.
- **peer**: two requests in flight instead of five, a counter modulo 4 instead of
  256, three remote messages. The counter can still be one below zero and one
  above what it should; two requests allow one to be answered while the other
  is being counted. Three messages suffice for Bitfield, Unchoke, and one more
  which may be an answer, a choke, a cut Piece or a keep-alive; failed reads and
  requests are not bounded by it. The proof of PipelineBounded has no such
  bounds.
- **peer_manager**: four peers in a pool of two: two wait, any number of the two
  exit in a turn, retries compete with first connections.
- **file_writer**: all torrents that `Parser` makes of one file of up to four bytes
  or of up to three files of at most two bytes, with piece lengths one to three, which gives pieces inside a file, across two and three
  files, files of length zero at each place, short last pieces and whole ones,
  saved in all orders. Offsets fit the queue. With the run TLC evaluates
  `BlocksMakePieces`: for these torrents and blocks of one to three bytes, requests
  cover a piece once, exactly if it is made of whole blocks.
- **client**: all torrents that `Parser` makes of three pieces, one file of up to
  four bytes or up to three files of at most two. With three pieces the writer can
  be behind by more than one, and a stop finds one on disk, one in the writer's
  hands and one in the queue. Every way out of start_download and an interrupt
  meet every step of the writer, the ones inside a piece included, and what the
  files hold is looked at in every state, not only when the writer has returned. `late_error`
  is about threads only and uses `Shutdown` alone, with one piece.
- **tracker**: two UDP trackers, so that a late handler, a crash or a failure of
  one meets every state of the other; two datagrams each, enough for a stray one
  before or instead of either answer, and for one that waits for the next
  request; two HTTP trackers, of which the first may succeed or spoil the
  second; an address that can be used and one that cannot.
- **stalled_peer**: one peer without strays, one request in flight, two pieces;
  the counter is what a Choke leaves it at.

Deadlock is checked in every run but those of `Download`, which may really stop:
when everybody has left, or the download is complete and nobody calls any more.
Each other module that ends has an explicit last
step (`Done`, `Gone`, `Returned`, `AllDone`) that is enabled only where the code
has ended.

**Fairness.** `Client` (and `Shutdown`): each thread is scheduled, joins return when
their thread has ended, and the cleanup coroutine's timer fires; not that pieces
arrive, peers run out, anything throws, or the user interrupts. `PeerManager`: the two
timers fire; nothing of peers. `Peer`: a coroutine is resumed when what it awaits
is there, a connect or handshake read returns or times out, and the timer fires
when the connection is up and nothing comes; nothing of the remote peer, which may
stay silent, choke or close. All
of it is weak fairness: the step stays possible until it is taken. `Download`: writes
return and the senders look for requests; steady peers announce, unchoke and
answer in the end. Nothing is assumed of the other remote peers, in particular
not that a useless one is ever dropped (a Have or a keep-alive within every 20
seconds keeps its connection), nor of the cleanup loop. `Tracker`: the resolver and `cpr::Get`
(which has a timeout) return, timers expire, handlers that are due run; nothing of
datagrams. `PieceManager` and `FileWriter` have no fairness of their own.

## 5. The proofs

Every theorem is checked by TLAPS to the last step and holds for every value of
the constants that satisfies the named assumption of its module: these say no
more than what constructors, types and the parser's output give (some pieces,
slots, blocks; no piece longer than the first; a depth that the counter can
hold; the layouts of `LayoutOK`).

| Theorem | Says |
|---|---|
| `PieceManager_proofs`: `TypeCorrect`, `BufferStaysConsistent`, `AffinityStaysLive`, `NoCompletedPieceInBuffer`, `EachPieceSavedOnce`, `AddAlwaysFindsSlot` | the six invariants of run `piece_manager` |
| `KeepingTheLedger` | PieceManager implements PieceLedger |
| `CompleteMeansAll` | num_pieces_completed_ equals the number of pieces exactly if every piece is completed |
| `WriterIsFed` | a step queues nothing, or one piece that was never queued, and counts it: what FileWriter, Shutdown and Client assume of their caller |
| `AffinityIsAnnounced` | if a peer sends one Bitfield a connection (`RepeatBitfield` FALSE) |
| `Download_proofs`: `DrivesPieceManager` | DownloadSpec implies PieceManager's Spec |
| `DownloadKeepsLedger`, `DownloadAffinityAnnounced`, `DownloadTypeCorrect`, `RequestsAreAnnounced`, `StaysGoodUntilSpoiled`, `NoRestartUntilSpoiled` | all safety properties of run `download` |
| `DownloadUsesConnections` | the connections of Download are those of Connections |
| `Peer_proofs`: `TypeCorrect`, `NoCoroutineOutlivesPeer`, `PipelineStaysBounded` | the three invariants of run `peer` |
| `HandshakesAreUnderstood`, `OnlyHandshakesAreAccepted` | on `Wire`: parse_handshake_response finds the id in what create_handshake makes if the hash is the wanted one, and takes no other answer of that length |
| `Tracker_proofs`: `TypeCorrect`, `WaitsAreTimed`, `OnlyAnnounced`, `UdpIsEnough`, `BadEndsHaveCauses` | the five invariants of run `tracker` |
| `PeerManager_proofs`: `PoolTypeCorrect`, `PoolStaysConsistent`, `PoolNeverTooLarge`, `GivingUpIsLast` | the four invariants of run `peer_manager` |
| `PoolKeepsConnections` | PeerManager implements Connections |
| `NothingLeftBehind` | the PieceManager knows only of peers in the pool |
| `FileWriter_proofs`: `WriterTypeCorrect`, `WriterStaysInFiles`, `BytesStayInPlace`, `FinishedPiecesAreOnDisk` | the four invariants of run `file_writer`, if every torrent's length fits the queue's offsets (`SmallTorrents`) |
| `SavedIsAccounted`, `AllWrittenIsComplete` | a saved piece is written, in hand or queued, one of these and once; when write_count is the number of pieces, every byte of every file is the torrent's |
| `AnswersAreAccepted`, `RequestsTilePiece`, `AcceptedDataIsInPiece`, `FirstPieceHasMostBlocks`, `UnevenPieceIsRefused` | on `Blocks`: what is asked for is accepted and is the block that was asked for; if pieces are whole numbers of blocks, each byte is asked for once; what is accepted lies in its piece; no piece has more blocks than the first; a piece that is no whole number of blocks cannot be had |
| `Shutdown_proofs`: `ShutdownTypeCorrect`, `BothThreadsJoined`, `WriterEndsForCause`, `AnnouncedIsCompleted` | counts and threads; the writer ends only when stopped or done; what is announced was verified to the last piece |
| `Client_proofs`: `ClientIsShutdown`, `ClientIsFileWriter` | Client's behaviours are Shutdown's and FileWriter's |
| `ClientTypeCorrect`, `ClientJoinsThreads`, `StopLeavesWholePieces` | the three invariants of run `client`; the last one for every moment of a run, `_exit` inside a piece included, and of what was handed to the files |
| `UnstoppedIsComplete` | if nobody stopped the client and the writer has returned, the files are the torrent |
| `AnnouncedLacksOnlyQueued` | an announced download lacks no byte but those of the pieces still queued |

Those theorems of Client_proofs that speak of bytes on disk assume that torrents
are small enough for the queue's offsets (`ClientSmall`), like those on FileWriter.

The arguments:

- **PieceManager.** The invariant `IInv` joins TypeOK with four properties
  because none is inductive alone. That a slot is free for a new piece needs that
  map, slots and states agree; that they go on agreeing when a piece finishes
  needs that a completed piece is never in the buffer; that a bound peer can be
  served needs that ALL_REQUESTED unbinds everyone; that a piece is queued once
  needs all of it. `AddAlwaysFindsSlot` is then about cardinalities: if every
  slot were taken, distinct slots would need distinct pieces, an injection from
  slots into map entries, while the map has fewer than BufferSize. For the ledger
  the three kinds of steps are mapped one by one; its capacity is `is_full`
  again, over the mapped states. For `CompleteMeansAll` the write queue, which holds
each completed piece once, is a bijection between the numbers up to
num_pieces_completed_ and the completed pieces.
- **Download.** Each action is shown to be a step of PieceManager, or to leave its
  variables alone; with PTL this is DrivesPieceManager, and what is proved of
  PieceManager carries over. On top of it `DInv` ties the requests on their way to
  the counter, to the blocks of their pieces and to the bitfields. The counter is
  not what it seems: if no Piece comes unasked it shows a number from -1 to
  MaxInFlight, -1 as its largest value, which with the request being written is
  at least the number of open requests; a broken connection, where Pieces are
  made up, has no open ones. For GoodUntilSpoiled and RestartsOnlySpoiled: a
  block becomes HAVE only when data arrive, and until some are wrong these are
  exactly the bytes of the blocks they cover, so a piece that is complete is
  verified. That its connections are Connections' needs DInv only for types.
- **Peer.** For NoUseAfterExit the invariant ties the two flags to where each
  coroutine is, and says that the sender exists only after it was flagged. For
  PipelineBounded the counter cannot be believed: it wraps. `CountFits` says that
  there is a number c from -1 to MaxInFlight which the counter shows (c, or
  the largest value for -1), such that what is on its way (requests held by
  the remote peer, Pieces in the stream or in hand) is at most c, and one more
  while the last request has arrived and is not counted. A wrapped counter then
  blocks the sender rather than letting it through. Its types are those of the
  theorem TypeCorrect, together with what ties the message that is being read to
  the place of the reader.
- **Handshakes.** A handshake is five parts in a row, and a part can be found again
  by where it begins (`FiveParts`, from the places of each concatenation). For the
  converse, the name's length is whatever the answer's first byte says; but the
  part it marks is compared with the protocol's name, so it is as long as that,
  and then every other part is where it should be. A sequence is determined by
  its parts (`PartsDetermine`).
- **Tracker.** `IInv` says for each tracker which combinations of phase, receive
  and timer occur. A request that waits has a timer because MakeRequest arms one
  and only the end of the request, or its own handler, which also ends the wait,
  takes it away; late handlers only end waits. That there are at most two of them
  is that each request leaves at most one behind. Which faults have been seen is
  what PeersWereAnnounced and EndsBadlyForCause are relative to; for
  OneAnswerSuffices the invariant adds that fromUdp is part of peerSet and holds
  no address that cannot be split.
- **PeerManager.** The retry state determines how many Peers an id has had and
  whether one is in the pool. The bound on the pool needs the walk through the
  list: `RankNumbers` shows, by counting, that those with a rank below the room
  that is left are no more than that room; `OpenedIfRoom` that with room left
  somebody is opened if anyone can be, which is what giving up last rests on.
  `CleanupChanges` collects what a turn does to each id; both the invariant and the
  refinement (`CleanupIsTurn`) cite it. That a thrown-out peer is closed exactly
  when it has had two connections is where the refinement needs
  PoolMatchesStates.
- **FileWriter.** While the writer looks for a file, what it has skipped plus what
  is left is where the piece begins (`FindOK`); while it splits, what it has
  written plus what remains is the piece, and the current file begins where it
  has got to (`SplitOK`). Both loops end inside the torrent because a piece does:
  this is where the remainder in `current_piece_length` and the number of hashes
  enter (`PieceFacts`, by lemmas on division). A chunk lies in one file, files do
  not overlap (`FilesApart`), so no write disturbs another piece (`Chunk`).
  Without `SmallTorrents` the theorems are false: run `large_torrent`. That
  nothing of another piece is on disk is a part of the invariant (`UntouchedOK`);
  that every saved piece is somewhere is `AccountOK`; that every byte belongs to a
  piece (`CellHasPiece`) is again where the number of hashes enters.
- **Blocks.** A byte's block is its offset divided by the block length (`Quotient`);
  the number of blocks is a division that rounds up (`BlockCount`); what remains
  is a case split on whether the piece is the last.
- **Shutdown.** The invariant is TypeOK, which holds the three counts together
  (written <= taken <= completed), and a statement of which threads exist and are
  joined at each place of the main thread and of the place it will return to;
  for the causes of an end, `CausesInv`.
- **Client.** Each step is shown to be a step of Shutdown or leave it alone, and
  the same for FileWriter, so the invariants of both hold. What ties them
  together is `LinkInv`: counts are cardinalities, and one writer is in its loop
  body exactly when the other is. By FileWriter's invariant what is saved
  and neither queued nor in the writer's hand is written, and so in the files, of
  which nothing else holds a byte but the piece in hand: at every moment, and so
  in whatever way a run ends (StopLeavesWholePieces). A writer that has returned
  has nothing in hand; if nobody stopped it, it has written all there are.

**Only model-checked.** All liveness, which the prover does not cover:
SavedReachesDisk, StopEndsProcess, PeersRunOut, CompletionEndsRun,
DropCompletes, SilentPeerIsDropped, DownloadCompletes, AddPeersEnds. The
assumptions about `Parser` and `Wire` in the MC modules are evaluated for small
sizes; numbers, layouts and requests are folds over sequences, which are out of
the prover's reach. Handshakes are not, and are proved.

## 6. Where the code and its documentation part

- **A completed download may lack its last pieces** (run `lost_piece`). The writer
  tests the stop flag before the queue (src/src/file_manager.cpp:93). When the
  cleanup coroutine wakes just after the last piece was queued, the flag is set
  and "Download successfully completed" is printed; the piece is never written.
  TechnicalDesign.md:29 promises that what is verified is queued and written.
  The run looks at the bytes of the files. The theorem
  `AnnouncedLacksOnlyQueued` says how much is missing: the pieces in the queue, as a
  whole, and nothing else. `StopLosesOnlyQueued` says the same of every other stop,
  except that an `_exit` may tear the one piece in the writer's hand.
  `SavedReachesDisk` and `UnstoppedIsComplete` say that
  it needs a stop: the writer never ends by itself too early.
- **A late exception hangs the client** (run `late_error`). After the writer has
  started, an exception out of start_download unwinds into ~FileManager, which
  joins a writer that waits for the stop flag (src/src/file_manager.cpp:32); main
  sets it only after its handler, which is never reached.
- **A closed connection is never noticed** (run `dropped_peer`). Reads fail at
  once, their errors are dropped (src/src/peer.cpp:196), each timer is cancelled
  before it expires, and the loop goes round for ever. `has_exited()` stays
  false, so the retry of TechnicalDesign.md:32 does not happen.
  `SilentPeerIsDropped` shows that an open, silent connection is dropped.
  If the last message was a Piece it does harm, too: the header still says how
  long it was and the type is likely to be that of a Piece still, so each round
  hands `add_block` zeros for the beginning of piece 0. While that piece is being
  assembled it takes them for a block, fails its hash and starts again, each time
  (`MadeUpPiece`). This is why GoodUntilSpoiled and RestartsOnlySpoiled say
  nothing after such a Piece, and why DownloadCompletes excepts runs in which
  pieces fail for ever.
- **Torrents beyond 4 GiB are overwritten** (run `large_torrent`). The queue's pair
  holds a `uint32_t` (src/include/simpletorrent/FileManager.h:23) although
  `save_piece` computes, and the writer takes, a `size_t`.

- **A choke wedges a connection** (run `stalled_peer`). A remote peer that chokes
  forgets what it was asked; `num_in_flight_` goes on counting it
  (src/src/peer.cpp:207), and after the next Unchoke nothing is ever requested over
  that connection. If the remote peer stays silent, the timeout of 20 seconds
  frees it and costs one of its two connections; if it sends Haves or
  keep-alives, nothing does. `DownloadCompletes` shows that a steady peer finishes
  the download all the same. A counter that an unasked Piece has wrapped to 255
  has the same effect.

Five smaller observations, without a run:

- TechnicalDesign.md:7 says that HTTP trackers are used "only if there were no
  successful connections to UDP trackers". The code asks them if no UDP tracker
  brought a *peer* (src/src/tracker.cpp:34): successful connections with empty
  answers do not count.
- The comment in src/src/parser.cpp:32 says "if announce list not empty". The code
  tests that the key is there: an empty announce-list hides the tracker in
  announce, and the torrent is refused (`EmptyListHidesAnnounce` in
  `MCFileWriter`).
- A torrent whose piece length is no multiple of the block length (16 KiB) cannot
  be downloaded: only the last piece's last block is asked for at its real length
  (src/src/piece_manager.cpp:243), the answer to the others reaches beyond the
  piece and is refused (theorem `UnevenPieceIsRefused`). Piece lengths are powers
  of two in practice; no document or comment says that others work.
- The sender's catch block (src/src/peer.cpp:240) ends the coroutine without
  `spawned_routine_has_exited_`: `start` ends, too, but the Peer is never thrown
  out. DropCompletes therefore promises that both coroutines end, and
  `has_exited()` only on the other ways.
- One undecodable HTTP answer, or one IPv6 address in one, ends the client
  (src/src/http_tracker.cpp:53, src/src/tracker.cpp:57):
  EndsBadlyForCause lists these as causes.

## 7. What is not modelled

- **Strings of the parser**: names, paths and the info hash, and the bencoding
  itself; of the encodings, hexadecimal strings.
- **Figures of Statistics**, logging, random numbers: nothing depends on them.
- **Failing file writes**: the code does not notice them.
- **Late timer handlers of a Peer**: that a timer expires while its read completes is
  modelled (the handler may come at any read); that its handler runs after the
  Peer is destroyed would need the lifetime of objects across connections. For the
  trackers it is modelled.
- **A second Bitfield of a peer**, sent or put together by a reader out of step, is
  modelled in PieceManager only; the affinity it may leave behind is why
  AffinityAnnounced has an assumption, which Download makes throughout.
- **What a killed process had in the buffers of its `ofstream`s** is lost; `disk` is
  what was handed to them.
- **Partial blocks in PieceManager and Download**: there every piece is a whole
  number of blocks. `Blocks` has the lengths, and says for which torrents that is
  so.
- **The lock of stdout** in the signal handler, memory orders of the stop flag and
  of the queue (a library).
- **Vendored libraries** under src/external and src/tests: asio, cpr, spdlog,
  bencode, sha1, indicators, readerwriterqueue.

## 8. Plan

Written, in this order: `Buffer` and `PieceManager` (the core: everything else
serves it), `PieceLedger`, `Shutdown`, `PeerManager`, `Peer`, `FileWriter`,
`Download`, `Tracker`, `Client`, `Connections`, each followed by its proofs; `Blocks`,
whose lemmas are with FileWriter's; `Wire`, whose handshakes are with Peer's;
`Parser`, which has no theorems.

Next:

1. For `Wire`, what is no fold and not a handshake: which pieces a bitfield names,
   for every size.
2. The late handler of a Peer's timer, as it is modelled for the trackers: it needs
   the lifetime of the Peer of the second connection in the same module.
