# TLA+ specifications of Zinc

Zinc is a Minecraft server written in C++ (libevent, OpenSSL). This directory
holds TLA+ modules of its servers, its ban list, its messenger and its wire
format, the TLC configurations that check them on small
instances, and TLAPS proofs of what matters most for every instance. Every
definition is a translation of the code; `PROJECT.json` maps it to the lines it
stands for.

    tlc -workers 2 -config MCZincServer.cfg MCZincServer    # check one run
    tlapm ZincServerProofs.tla                              # check one proof module

## The system

A Zinc process runs two threads, each with a libevent loop of its own
(`main.cc`): the Minecraft front end and the server control port. Everything the
front end does happens in one of three callbacks of its loop (`onAccept`,
`onRead`, `onEvent`), so its handlers never interleave with each other; what
interleaves is the order of the callbacks, the peers' packets, the ways the
network cuts them into bursts, and the detached threads that edit the ban list.

| Component | State | Operations | Interacts with | Hard behaviour | What makes it correct |
|---|---|---|---|---|---|
| Front end (`ZincServer`) | connection table `m_clients`, `m_rateLimiterData`, `m_concurrentAccounts`, `m_onlinePlayers` | `onAccept`/`addClient`, `onEvent`/`removeClient`, `onRead` with a handler per state and packet | connections (calls), ban list (shared, locked), session service (blocking call) | verdicts decided at accept and read packets later; a count checked at one packet and raised at another; a process that may die at any disconnect | counts equal the table at all times; marks and limits mean what they say; only admitted connections get on |
| Connection (`ZincConnection`) | protocol state, compression and encryption modes, verify token, keep-alive, cipher IVs | `read`, `send`, `setupCompression`, `setupEncryption`, `sendDisconnect`, `sendBanMessage` | evbuffer below, handlers above | mode switches between two packets; one field for two tokens; partial frames; re-decryption of unread bytes | both sides switch modes at the same packet; frames are cut where the peer put them |
| TCP transport (`TCPServer`, `TCPConnection`, `TCPUtil`) | listener, bufferevent, descriptor | `read`, `drain`, `send`, `close` | libevent | a descriptor without bufferevent, a bufferevent freed twice | descriptors in the table are open |
| Ban list (`ZincConfig`) | `m_bans`, `banlist.json` | `ban*`, `tempBan*`, `unban*`, `loadBanList`, `saveBanList` | CONFIG INFO reads it, `sendBanMessage` starts `unban` threads | detached threads in any order; `remove_if` without `erase`; bans not persisted | a ban in force keeps its player out; lifting one leaves the others |
| Messenger (`ZincMessengerBridge`, `ZincServerMessenger`) | per target, per sender: queued messages; task counter, worker threads | `send`, `read`, `registerTarget`, `unregisterTarget`, `canRead`, `getSenders`; `start`, `parse`, `parseMessage` | plugins, worker threads | walks without the lock; a vector of joinable threads overwritten and cleared; a wait on a plain counter | a message is handled once and its answer is its own; what becomes of the process once it works |
| Server control (`SrvCtlServer`) | its own connection table, a two-state login | `onAccept`, `onRead`, `onEvent` | its own loop | everything that is not a whole packet is answered with an error and drained; `length + 8` wraps | a peer that sends whole packets stays in step; a login is confirmed once |
| Byte buffer (`ByteBuffer::InternalByteBuffer`) | blocks, read and write positions | `write`, `read`, `clear`, move, block recycling | every packet | three positions kept in step over added and returned blocks; reads past the end return zeros | it is a queue of bytes |
| Wire formats (`ByteBuffer`, `GameTypes`, `Recipe`, `Slot`, ...) | - | a writer and a reader per type | packets | a reader and a writer that are two pieces of code; order of evaluation; byte order | what is written is read back |
| Data types (`BitSet`, `NBTElement`, `TextComponent`) | bits and the highest one; trees | set, clear, flip, combine; encode, decode | wire formats | a cached maximum; the last bit of a byte; a decode that looks only at what encode never leaves out | decode inverts encode |
| Cryptography, compression | cipher IV | wrappers over OpenSSL, zlib, zstd | connection | the IV moves on over bytes that are read again | covered where a model depends on it |
| Registries | constant tables, their network form | `getNetworkRegistry` | packets | what they hold that comes back changed | as wire formats |
| Arguments, logging, plugin loader, SDK, keyring | stubs | - | - | - | - |

## Modules

| Module | Subject | Builds on |
|---|---|---|
| `ZincSession` | what the front end promises: visitors, players, an exact count | - |
| `ZincServer` | connection table, admission, every packet handler, death and restart of the process | `ZincSession` (refinement) |
| `MCZincServer` | instances of `ZincServer`; `QuietSpec` restricts the peers to connecting and leaving | `ZincServer` |
| `ZincLogin` | `ZincServer` composed with clients that follow the protocol, over queues with bursts | `ZincServer` |
| `MCZincLogin` | instances of `ZincLogin` | `ZincLogin` |
| `ZincSums` | where the pieces of a stream end; powers | - |
| `ZincFraming` | how `read()` cuts frames out of a byte stream that arrives in pieces | `ZincSums` |
| `ZincBans` | the ban list: ban, unban threads, the check of CONFIG INFO, `banlist.json` and restarts | - |
| `MCZincBans` | instances of `ZincBans` | `ZincBans` |
| `ZincMessenger`, `MCZincMessenger` | the bridge's queues, the server messenger's loop and threads | - |
| `ZincSrvCtl`, `MCZincSrvCtl` | the control port: table, framing, login | `ZincSums` |
| `ZincByteQueue` | what a byte buffer promises: a queue | - |
| `ZincBuffer` | the block buffer | `ZincByteQueue` (refinement) |
| `ZincNumbers` | numbers, VarInts, strings, packed positions | `ZincSums` |
| `ZincNumberStream` | numbers, positions and strings of any kinds one behind the other in a buffer | `ZincNumbers`, `ZincBuffer` |
| `ZincBitSet` | the operations of the bit set, and its arrays | - |
| `ZincBits` | a bit set in use, beside the set it should be | `ZincBitSet` |
| `ZincNBT` | NBT elements: encode, decode, equality | `ZincNumbers` |
| `ZincText` | text components as NBT | `ZincNBT` |
| `ZincTypes` | the format of every record type: what its writer writes, what its reader reads | `ZincText`, `ZincBitSet` |
| `ZincWire` | how a format is written and read | `ZincTypes` |
| `ZincCodecs`, `MCZincCodecs` | records of every type in a buffer, and a bit set that is built and written | `ZincWire`, `ZincNumberStream`, `ZincBits` |
| `ZincServerProofs`, `ZincLoginProofs`, `ZincFramingProofs`, `ZincBansProofs`, `ZincMessengerProofs`, `ZincSrvCtlProofs`, `ZincDataProofs`, `ZincSumsProofs` | theorems | the modules they are named for, `ZincDataProofs` on `ZincBuffer`, `ZincBits` and `ZincNumberStream`; `ZincLoginProofs` on `ZincServerProofs`, the proofs of framing, of the control port and of data on `ZincSumsProofs` |

### ZincServer

State: the fields of `ZincServer` (maps as partial functions) with one record
per `ZincConnection`; `openFds` stands for the kernel's descriptor table, `now`
for `time(nullptr)`, `sent` for the packets the last callback wrote.
`acceptedAt` is a history field that only `RateLimitSpacing` reads.

Actions: `onAccept` (with `addClient`, and the early return that leaks the
descriptor), `onEvent` (with `removeClient`) and one action per packet of each
state under `onRead`. The peers are unconstrained: any handler of the current
state may run next, with any content the properties can tell apart. Contents are
abstracted to what a handler branches on: whether a name fits, whether the
version is the latest, whether the session service answered, whether a ban is in
force, which of two token values came back. `KickVerdict`, `Admits`,
`NextState`, `setupCompression`, `setupEncryption` keep the order of the code's
checks and switches.

Undefined behaviour is a choice: `removeClient` frees the bufferevent, the
destructor frees it again, so a removal either works or ends the process
(`Terminate`); calling an empty `std::function` (an unregistered channel, any
cookie response) always ends it. `Terminate` loses all memory and closes every
descriptor; `Restart` is `main()` again.

Two handlers look odd and are modelled as written. A LOGIN PLUGIN RESPONSE is
always refused: the handler reads a four-byte id, the table has three-byte ids
and nothing opens a channel. ENCRYPTION RESPONSE is accepted when the decrypted
token equals `m_verifyToken`, also when both are empty.

### ZincLogin

Adds per connection a client (phase and modes) and three queues: `uplink`
(network), `input` (evbuffer), `downlink`. `Deliver` moves any number of packets
at once and starts a read callback; `Serve` handles one packet of it and goes on
only after a handshake, as `m_shouldContinue` does; the rest stays in `input`
until more data comes. On an encrypted connection `read()` decrypts everything
in the evbuffer every time, so what a callback leaves unread is garbled in the
next one: `inStep` says that this has not happened, and `Garbled` is what
happens otherwise (a wait, any packet, or the end of the process). Clients send
what a Minecraft client sends in these phases and are marked external in the
map.

### ZincFraming

One byte stream of numbered frames, of which only byte counts are kept. `Arrive`
brings any number of bytes; `Wait` and `Take` are the two outcomes of `read()`;
`Decoded` is what `readVarNumeric` makes of a prefix that has been cut (reads
past the end are zeros); `stale` counts the bytes that have been through the
decryptor and are still in the evbuffer. `encrypted` is turned on by the handler
of any frame but the first (a handshake never does), or never. A VarInt digit has `Base` values (128
in the code) and lengths have at most two digits. When the first byte in the
buffer is not the first of a frame, what follows is arbitrary and the model
stops (`status = "astray"`).

### ZincBans

State: how far the process has come (`stage`), `m_bans` as a sequence of
`BanData`, the key each detached unban thread runs with, `banlist.json`, the
clock. `verdict` is what the last CONFIG INFO decided; `issued` and `lifted` are
history: the bans this process has loaded or set, and the keys its threads were
started with. A player stands for a name, a UUID and an address; a peer is any
of them together. Every access to the list is under `m_banMutex`, so each
is one action: the ban functions (`ban`), the start of a thread (`unban`), its
body (`_unban`), the check (`ConfigInfo`). The start of a process is four
actions, because it may die between them (`Restart`): `banlist.json` is read
(`load`), or is half a file and ends the process (`loadThrows`); then it is
truncated (`openBanList`) and written (`writeBanList`). Nothing else runs before
`load()` has returned.

Modelled as written:

- `std::remove_if` is called without `erase`: the list keeps its length, and the
  positions behind the bans that stay hold what moving left there (`Removed`,
  `MovedFrom`): the name, the address and the id are empty, everything else is
  as before. An unban of a single ban at the end of the list removes nothing.
- `BanData` has no initialisers: a ban read from an entry without `"time"` has
  any value in `m_isTemporaryban` and `m_time` (`Reads`). A permanent ban may
  come back from a restart as a temporary one.
- The bans set at run time are on no disk: `saveBanList` is only called from
  `load()`. A restart goes back to the file.
- `std::ofstream` truncates the file when it opens it. A process that dies before
  it has written leaves it empty, and `readJSONFile` takes an empty file for
  `{}`: the next start writes it back without a ban. One that dies while it
  writes may leave half a file (`Torn`), which does not parse: `main()` catches
  the exception and every start ends there. `TimedBansPersist` therefore names
  the one step that may lose an entry; over everything else it holds.
- `getIP()` returns a string padded with NULs; an address in the file or from a
  moderator is not padded, so the two are different values of `Ip`.

A peer may have no name: LOGIN START refuses names that are too long, not empty
ones, and after LOGIN ACK without LOGIN START neither name nor UUID was read.
In offline mode such a peer matches every entry without a name, also one that
`remove_if` has moved from, so it can be refused by a ban that was set for
somebody else and has been lifted. `RefusalJustified` says so: it is the only
peer the half-empty entries refuse, and a ban that has run out refuses nobody.
Losing what the operating system had not yet written when the machine stops, and
errors of the stream itself (a full disk), are not modelled.

### ZincMessenger

State: `m_targets` as a map of maps of queues, the task counter, whether
`m_workers` holds started threads, the threads, where `start()`'s loop is, and the
walks over the map that are under way. A call that holds `m_mutex` is one action
(`send`, `registerTarget`, `unregisterTarget`, `read`). `getSenders` and `canRead`
hold none: a walk begins in one step and ends in another, and when the keys of a
tree it is in have changed in between it is torn: it may return any senders, put
back the target that `operator[]` looked up, or end the process. Putting it back
(`PutBack`) is a change like any other, so it tears the other walks under way; one
that overlaps a locked call is taken to come before or behind it.

`parse` is four steps: take a sender's queue, count its messages and assign
`m_workers`, start a thread per message, go on. Assigning to or clearing a vector
with a started thread in it ends the process (`std::terminate`); nobody joins
one. The wait behind it is `while (m_tasks) {}` on a plain `size_t` that threads
write under a lock the wait does not take, so a build may wait for ever
(`WaitForEver`), drop the loop or read the counter in time (`ClearWorkers`).

Nothing under `src/` starts the loop, registers the server's own id or sends a
message: plugins do, and they may do it in any order. Nothing clears `m_started`,
so there is no stop. Of a message its type, callback id and identity are kept.

### ZincSrvCtl

State: the connection table, the open descriptors, and per connection the state
of its login and two positions in the stream its peer sends: arrived and
drained. Of bytes only positions are kept; a header that is read where no packet
begins may hold any length and any id. `length + 8` is a `size_t` with `Word`
values. `ReadShort`, `ReadIncomplete` and `ReadPacket` are the branches of
`onRead`; the first two answer with an error and drain everything. As in the
front end, an accept may lose its descriptor and a removal may end the process.

### ZincBuffer and ZincByteQueue

The deque of blocks is a sequence of cells with two positions; block number and
offset are quotient and remainder by `BLOCK_SIZE`. `Written` adds a block when
one gets exactly full, `Advanced` pops the blocks a reader leaves when recycling
is on and lowers the writer's block number with them, `Moved` is the move
constructor. A read past the writer sets `overrun`, after which nothing is
claimed. `ByteQueue` instantiates `ZincByteQueue` with the cells between reader
and writer.

### ZincBits

`bits` is a `BitSet`: words as sets of bits, and the highest bit beside them.
Every operation that changes one is an action; `members` is the set of the bits
that should be set in it by then.

### ZincNumberStream

The part of the codecs that is not recursive, in a module of its own so that it
can be proved about: VarInts, ZigZag numbers, shorts, packed positions and strings
are written to a `ZincBuffer` one behind the other and read back in that order,
while the buffer is moved and cleared and its blocks are recycled or not.
`numbers` holds what is in the buffer, `numberRead` the record read last with what was
read and how many bytes it took. The records of a run may be of different kinds, as
the fields of a packet are.

### The codecs

`ZincNumbers` to `ZincWire` are operators. Written data is a sequence of cells:
octets where the code computes bytes (VarInts, shorts, bit sets, angles), and one
cell of a kind of its own for a wider number, a character or a word of 64 bits. A
reader returns a value and a position, or goes astray: it wanted something of
another kind, or ran out of blocks. `ZincTypes` states each record type twice, as
its writer and as its reader, because they are two pieces of code. `env` holds the byte order of
the buffer and the order in which the compiler evaluates arguments, which
decides what `Vector3D(readX(), readY(), readZ())` reads first. A cell holds what a
big-endian buffer reads in it; in a little-endian one a number is written and read with
its octets the other way round (`Ordered`). What a `toBytes()` or a registry's writer
writes goes through a `ByteBuffer` of its own, which is big-endian whatever the order of
the buffer the bytes then go to: these formats are wrapped in `Own`. Only the types
`ByteBuffer.cpp` writes itself (vectors, id sets, sounds, bit sets, flags, chat types,
chunks, NBT, texts) follow the buffer's order.

`ZincCodecs` writes records into a `ZincBuffer` at every position of its blocks
and reads them back while blocks are recycled and the buffer is moved or
cleared; `outcome` says what became of the last one. Instead of records a run may
have numbers, whose actions are those of `ZincNumberStream`. A `BitSet` is built by any
sequence of its operations and written like a record. `Fate` is the list of the
cases in which writer and reader disagree. Those of the code that are not
obvious from one function alone:

- `writeSoundEvent` writes a range that `readSoundEvent` skips; `writeIDSet` and
  `readIDSet` disagree below type 0; `writeXorY` without a flag is read with one.
- in a little-endian buffer, the numbers of a `toBytes()` come back with their bytes turned
  round: a firework's colours, the words of `LightData`, a diameter or a sound's range in
  a consume effect, a furnace's experience. NBT and texts inside one are taken apart in
  the other network form; only an End, a short string and, with nothing behind it, an
  empty compound look the same in both.
- `IDSet`'s setters leave what the other kind of set has, a `RangeProperty` is an exact
  one, displays, recipes and consume effects have members for every type: what the
  writer leaves out (`Omits`) is lost.
- `writeChatType` writes the chat's parameters where the narration's belong.
- `readSlotDisplay` does not read what was written of an `item_stack`, and
  `readConsumeEffect` not what was written of `apply_effects`.
- a bit set whose highest bit is the first of a byte loses it in `toByteArray`.
- an NBT element with a tag is written for the network with it and read without;
  a list of several types is written as an empty one.
- a text loses its content on the way: `encode` always writes the type, `decode`
  looks at the content only where none is written.

Slots, hashed slots and block predicates are only written; nothing reads them.
`toBytesHashed` puts `crc32` of each component's bytes in their place. `ZincWire` has it
as the code does, with the table `initCRC32` fills; `HashTells` compares it with the
division of polynomials it stands for: hashed slots have the same bytes exactly if their
components' types agree and their contents differ by a multiple of the polynomial. Two
contents of one length that differ within a word never do; the samples have pairs that
do, of one length and of two.

### ZincSession

Per descriptor a stage (away, visitor, player) and the number of players, which
is at every moment the number of connections in the player stage. `SessionSpec`
in `ZincServer` instantiates it with a stage read off the connection table and
`m_onlinePlayers`.

## Runs

| Run | Bounds | What it shows |
|---|---|---|
| `server` | 2 descriptors, 2 addresses, 2 login tokens, 1 ping token, player and account limits 1, rate limit 0, clock 0..1 | Any handlers in any order: the player count is exact (`OnlineCountExact`), login tokens belong to admitted connections (`AdmittedOnly`), the states behind login are those of counted players (`CountedIffPastLogin`), and the server implements `ZincSession` (`SessionSpec`) |
| `accounting` | 4 descriptors, 2 addresses, account limit 2, rate limit 1, clock 0..4; peers only connect and leave | `AccountsExact`, `RateLimitSpacing`, `ConcurrentLimit`, `FdsTracked` over any sequence of accepts, failures, removals and deaths |
| `login` | 2 clients, two login tokens, one player admitted, rate limit 0, clock 0..1 | `ModeAgreement`, `TokensAgree`, `KickedNeverCounted` with bursts of any length, quits and deaths; `LoginEnds`: every accepted connection ends unless a burst was garbled |
| `login_full` | as `login` | violates `OnlineWithinMax` |
| `framing` | 3 frames, `Base` 4, lengths 1, 3, 4, 5, 7 | `BytesAccounted`, `ShortByPrefixAtMost`, `HandshakeContinues` for every way to cut the stream and every frame after which encryption is turned on |
| `framing_torn` | 1 frame of 3 bytes | violates `PartialFrameWaits` |
| `framing_garbled` | up to 3 frames | violates `WaitedFrameSurvives` |
| `bans` | 2 players, 2 threads alive at once, 3 entries, clock 0..1, bans by UUID, by name and by padded address, three files, a peer without a name | `OthersKept`, `RefusalJustified`, `TimedBansPersist` for any order of moderators, threads, players and deaths, also between the steps of a start |
| `bans_first` | as `bans`, no file | violates `BannedKeptOut` |
| `messenger` | 2 plugins, 3 messages of three kinds, one plugin looks at a time | `TasksExact`, `HandledOnce`, `RepliesMatch`, `OneSenderServed` for every schedule of plugins, loop and threads; `WorkEndsProcess`: a process that has answered anything dies or waits for ever; `ServedUnlessTorn`: a queued message is answered unless something named prevents it |
| `srvctl` | 2 peers, 6 streams of up to 3 packets, header of 2 bytes, `Word` 8 | `OnePerCallback`, `HandledOnce`, `SuccessOnce`, `TableOpen` for every way to cut and bundle the packets |
| `codecs` | 2 records of one of 33 types or 3 numbers, positions and strings of any kinds, blocks of 4 cells, VarInts of 7 bits in digits of 3, positions of 3 and 2 bits, words of 8 bits, octets of 4, numbers of 4 octets, both byte orders, both orders of evaluation | `WriterInLastBlock`, `ByteQueue`; `ReadBack`, `TextSurvives`: what comes back is what was written, exactly except where they say; `NumbersSurvive`: every number, position and string comes back, takes as many bytes as its length says, and no reader of them gets past the writer; `BitSetAgrees`: a bit set answers as a set would, and its words and bytes hold it, but for the one bit `toByteArray` loses; `HashTells`: hashed slots have the same bytes exactly if they differ at most in contents of components, by multiples of the checksum's polynomial |

Why the bounds are enough. Two connections are what every property of `server`
and `login` compares; limits of one make the second connection cross them, and a clock of two values lets
an accept be rate limited or not. In
`accounting`, four descriptors against a limit of two hold tolerated,
rate-limited and over-limit connections of one address at the same time, and a
clock of four outruns a rate limit of one twice, so connections leave and come
back on either side of the window. In the framing runs the lengths lie on both
sides of the step from one digit to two (3, 4, 5), and three frames let a frame
be cut while its predecessor is still in the buffer. In `bans`, three entries
are one that moves, one that is lifted and one behind both, two threads overtake
each other, the keys bite in online mode, in offline mode and in both, and every
temporary ban set at the start has expired when the clock stops; the three peers
are one that is matched by UUID and address, one by name, and one that has no name. In `messenger`
two plugins are two senders, which is what the second `parse` needs, and three
messages let two threads of one batch run while a third message is queued. In
`srvctl` three packets are one handled, one that comes with it and one behind
both, and lengths of 6 and 7 wrap at a word of 8. In `codecs` every type has the
values that take its writer and its reader through each branch, with numbers that are the
same from both ends (0, -1) and others; components have fewer bytes than a checksum, as many and more, some of them with the same checksum, whose polynomial has 16 bits as a number has; the first record
moves the second across the boundary of a block; seven bits are not a multiple of
three, as 32 and 64 are none of seven. Of three
numbers one is read, one begins where it ends and one is written meanwhile; their
values are both ends of the types and both sides of a digit. Descriptors, addresses,
login tokens and unban threads are only compared for equality, which makes the symmetry sound; it
is not used for liveness.

Deadlock is checked in `bans`; elsewhere it is not: a server whose descriptors are all lost, a client whose
connection was lost, a peer that has sent its last frame and a messenger whose
process has died really stop, and nothing is followed behind a reader that went astray.

### Fairness

The specifications of `ZincServer` have none: no peer is obliged to do anything.
`ZincLogin` assumes what `event_base_dispatch`, TCP and a client's own loop give:
a running callback goes on (`Serve`, `Garbled`), data and EOF that are there are
served (strong fairness of `Deliver` and `Hangup`, because callbacks of other
connections come between and disable them for a while; the loop takes active
events in turn), a client reads what it was sent. Nobody is obliged to connect,
to quit or to restart a dead server. `ZincFraming` assumes that sent bytes
arrive and that a callback that has begun goes on. `ZincBans` has no fairness: a
detached thread may be scheduled as late as it likes. `ZincMessenger` assumes
that the operating system runs the loop's thread and every worker that can run
(weak fairness; each stays enabled until it runs). Plugins owe nothing.
`ZincSrvCtl` and the codecs have none.

### Disagreements between the code and what it says

- `login_full`: the player limit is compared at LOGIN START and the count is
  raised at LOGIN ACK, so two players end up on a server for one
  ("Server is full", `ZincServer.cpp:151`).
- `framing_torn`: a frame is compared with a buffer that still contains the
  length prefix, so a frame that misses its last bytes is handed on with zeros
  instead of "wait for more data" (`ZincConnection.cpp:90`).
- `framing_garbled`: on an encrypted connection a frame that did wait is
  decrypted a second time with a moved IV (`ZincConnection.cpp:78`).
- `bans_first`: CONFIG INFO stops at the first ban that matches. When it has
  expired the player is let in, also past a permanent ban further down the list
  ("You are permanently banned from this server", `ZincServer.cpp:280`).

## Proofs

`ZincServerProofs` proves for every set of descriptors (finite), addresses and
tokens and every value of the limits:

- `TypeCorrect`: `Spec => []TypeOK`.
- `Inductive`: `Spec => []IInv`. `IInv` is the conjunction of `TypeOK`, a
  per-connection soundness (what holds of a record whatever the others do: the
  token, mark and mode combinations, the states behind login, an accept time in
  the past), the exactness of the two counts, the descriptors, and the limiter's
  memory: every unmarked connection of an address was accepted no later than the
  entry of `m_rateLimiterData`. The last part is the strengthening
  `RateLimitSpacing` needs: the code remembers only the last accept, and spacing
  between any two follows because a new unmarked accept is later than that
  entry by more than the limit. `ConcurrentLimit` needs the exactness of the
  account count: the mark is decided against it and never taken back, so the
  connections without a mark can only be fewer than the count says.
- `OnlineCountCorrect`, `AccountsCorrect`, `ConcurrentLimitCorrect`,
  `SpacingCorrect`, `AdmittedCorrect`, `PastLoginCorrect` and `FdsCorrect` read the
  named properties off `IInv`.
- `ServerImplementsSession`: `Spec => SessionSpec`. Under `IInv`, an accept maps to
  Join or a stutter, LOGIN ACK to Promote, a removal to Leave, a death to Crash and
  everything else to a stutter.

`ZincLoginProofs` proves for the composition with clients that follow the protocol,
for every number of clients, every limit, with and without compression and online
mode, and for packets bundled in any way:

- `LoginInvariant`: `LoginSpec => []LoginIInv`. Beside the types and `Base`, the
  server's own invariant, `LoginIInv` says of every connection of the table on
  which line of the login it is (`Line`): its greeting is unread, it was refused,
  it was offered a login, its answer is on its way, or both sides encrypt. Each
  line names the record of the table, what the client thinks of the framing, and
  every packet on its way in both directions with the framing it was written in and
  the token it carries. It is needed because each of the three properties compares
  two ends of a queue: which framing the next packet must have follows only from
  what is still unread before it. While no packet was garbled, behind the login there is one Login Success, one
  CONFIG INFO behind it and the ping behind that (`Genuine`); of a connection out of
  step only the framing and the mark are left.
- `ModeAgreementCorrect`, `TokensAgreeCorrect` and `KickedNeverCountedCorrect` read
  the properties off the lines.
- `LoginRefinesServer`: `LoginSpec => Spec`. What the composition does to the
  server's variables are steps of `ZincServer`, so each theorem of
  `ZincServerProofs`, the refinement of `ZincSession` among them, holds of it.

`ZincSumsProofs` has the lemmas the other proofs need of the recursive functions of
`ZincSums`, for any number of pieces: `EndUnfolds` (the function exists, and each
piece ends its size behind the one before), `EndOfPrefix` (only the pieces before a
position matter for it) and `EndIncreases`. The induction theorems of the library take an operator as a
parameter, which the provers cannot instantiate; `Induction` states the principle
for a set of naturals instead and derives it from the least element that the
complement would have.

`ZincFramingProofs` proves for every base and every set of one- and two-digit
lengths:

- `TypeCorrect`.
- `ShortCorrect`: a frame handed on early misses no more bytes than its prefix has,
  or its prefix was cut.
- `BytesCorrect`: `Spec => []BytesAccounted`. The invariant adds that no more frames
  were handled than sent and that a callback runs only while the connection is
  framed; a packet that is handed on complete was decoded with its true length
  (`TakeAccounts`), a frame that is sent goes behind the others (`SendExtends`).

`ZincBansProofs` proves for every set of players, keys, files and durations, any
number of threads and any length of the list:

- `TypeCorrect`. It rests on lemmas about the helpers: a listing of positions is
  an injection no longer than the list (`ListingType`), `remove_if` keeps the
  length of the list and every ban that stays is on it (`RemovedType`), what is
  loaded are bans and what is saved can be loaded (`LoadType`, `SaveType`).
- `OthersKeptCorrect`. The inductive invariant adds that every thread runs on a
  key that has been lifted, so a ban no key lifts is among those `remove_if`
  keeps.
- `RefusalJustifiedCorrect`. The inductive invariant is `Origin`: every entry is
  what is left of a ban this process loaded or set. Moving from it again takes
  nothing but what was taken, and what is left of a ban matches no peer the
  ban does not match, but one without a name in offline mode (`DescendantWeaker`).
- `TimedBansPersistCorrect`, the action property. The invariant (`Loaded`) is that
  between reading and truncating `m_bans` is what the file holds; every entry with
  a time is read into a ban that is written as this entry (`TimedLoaded`), and
  every ban is written (`SaveWrites`). So what truncating takes off the disk is in
  `m_bans`, and what is in `m_bans` gets back on the disk.

`ZincMessengerProofs` proves for every number of plugins and every script:

- `Inductive`: `IInv` has the types; `Once`, that a message is in at most one of
  the script's rest, the queues, the batch and the threads; `Replied`, that every reply
  in a plugin's queue is a thread's answer to that plugin; `OneBatch`, that all
  threads are of one plugin and, while a batch is being started, of the plugin
  it came from; and `TasksExact`. A thread outlives the batch it was started
  from, which is why the last but one has to name both.
- `TypeCorrect`, `TasksCorrect`, `RepliesCorrect`, `OneSenderCorrect` and
  `HandledOnceCorrect` follow from it.

`ZincSrvCtlProofs` proves for every set of descriptors and streams and every way
they arrive:

- `TypeCorrect`, `SuccessCorrect` and `TableCorrect`. The invariant says of every
  connection that no answer is a success while it is in the handshake, that it has
  as many answers as callbacks there, and that exactly one is a success behind it.
- `OnePerCallbackCorrect`. The invariant `InStep`: while everything arrived at the
  ends of packets, what has arrived is at such an end too, so that the packet that
  begins where the connection reads is all there (`NextPacket`) and neither error
  answer can be given. A packet here has the length it says, and with its header
  fits a `size_t`: one of 2^64 - 8 bytes would not stay in step, but cannot arrive.
- `HandledOnceCorrect`. The invariant `Once`: what was read begins before what was
  drained, or length + 8 was 0. It holds of every stream, honest or not.

`ZincDataProofs` proves for every block size, every width of a word, a byte and a
number's type, and every number of bits in a digit:

- `WriterCorrect`: the number of cells is always the end of the writer's block.
  It rests on lemmas of block arithmetic (`BlockBounds`, `BlockUnique`,
  `BlockShift`: taking whole blocks off the front moves the end of a position's
  block by as many cells).
- `BufferImplementsQueue`: `BufferSpec => ByteQueue`. A write extends what is
  pending (`WrittenFits`), a read that is covered takes its front
  (`ReadPending`), moving leaves it alone (`MovedFits`), `clear` empties it.
- `BitSetCorrect`: `BitsSpec => []BitSetAgrees`. The invariant `BitsInv` says that
  the bits of the words are those that should be set and that the highest beside
  them is the greatest of them. There is a lemma per operation (`SetSets`,
  `ClearClears`, `FlipFlips`, `AndNotIs`, `IntersectIs`, `UniteIs`, `DifferIs`), each
  by the word and the place in it that a position stands for. The searches
  (`NextSetBitIs`, `NextClearBitIs`) and the arrays (`LongArrayKept`,
  `ByteArrayKept`) need nothing but the invariant; that `toByteArray` loses the
  highest bit exactly when it is the first of its byte is part of what is proved.
- `VarIntKept`, `ZigZagKept`, `PositionKept`, `ShortKept`, `StringKept`: what a reader
  returns where a value stands in a stream, and where it stops. A VarInt is the
  digits of an unsigned number (`WrittenIs`); the reader's sum after i of them is
  the number without what is behind them (`SumExists`, `SumIs`), and as many bytes
  as fill the type hold every value (`FullHolds`, `LengthIs`).
- `NumbersCorrect`: `NumbersSpec => []NumbersSurvive`. The invariant
  `StreamInv`: the bytes between reader and writer are those of the records not yet
  read, one behind the other (`Holds`: there are positions, from the first byte to
  the last, each its record's length behind the one before). A reader that takes
  exactly its record's bytes (`RecordKept`) therefore begins the next one where it
  begins, and cannot get past the writer.
- `StreamImplementsQueue`: `NumbersSpec => ByteQueue`. What the callers do to the buffer are
  steps of `ZincBuffer`, so that its refinement holds of the composition.

What is proved of powers, digits and the reader's sum is by `Induction` over sets of
naturals; `ZincSumsProofs` has the facts about division (`Division`,
`IntegerDivision`, `DivisionUnique`, `QuotientBelow`) and powers (`PowerUnfolds`,
`PowerAdds`, `PowerOfPower`, `PowerGrows`) they rest on.

The assumptions are those the modules name: a finite set of descriptors, natural
limits, disjoint token sets, a base of at least two, an empty name that no player
has (a peer may still say it), contents of a file that are not what a death in the
middle of writing leaves, a script whose messages are numbered (so that equal texts are
different messages), a block of at least one byte, words of whole bytes, a type of
more bits than a digit, and samples that are values of their types and whose bytes
are cells of the buffer.

Every safety and action property that a passing run checks is a theorem, except
`ReadBack`, `TextSurvives` and `HashTells` of `ZincCodecs`: a format, an NBT element
or a text is a tree of any depth, so its writers and readers are recursive operators,
which the prover does not take. These three and all liveness under fairness are only
model-checked: `HandshakeContinues`, `LoginEnds`, `WorkEndsProcess` and
`ServedUnlessTorn`.

## Not modelled

- Malformed packet bodies: reads past the end of a packet are zeros in the code
  and would add arbitrary but type-correct contents, which the handlers'
  parameters already range over.
- The settings CONFIG INFO stores and never reads; the rest of `zinc.json`: read
  once, constants of the modules that use it.
- The blocking calls to the session service and their retries: only whether one
  of them returned a profile is part of the model.
- Cryptography and compression: that decryption inverts encryption is assumed;
  only the position of the IV is state.
- Of the buffer its lock and the containers of `Memory.h` (no buffer is shared
  between threads), UUIDs and the single-angle reader's rounding of floats. Of
  NBT the searches, of texts the legacy format codes. Entity metadata and item
  components are declarations without code.
- The tables of the registries and of the generated built-in data: constants.
- `SrvCtlServer::stop` and `setPort`: the first has no caller but the destructor
  at exit, the second runs once before the start.
- Arguments, logging, plugin loader, SDK, keyring: stubs or output.

## Plan

1. Composition of `ZincFraming` with `ZincLogin`, so that packets are cut and
   garbled by the byte model, and of `ZincBans` with `ConfigInfo` of `ZincServer`.
2. Proofs: the formats that are records of numbers and strings, stated without
   recursion beside those that are trees, so that `ReadBack` can be proved of them
   as `NumbersSurvive` is.
