# A TLA+ model of coins

`coins` is a collection of small programs that record market data of crypto
currency exchanges.  A *snarfer* connects to one exchange, by web socket,
socket.io, REST or FIX, subscribes to trades and quotes and appends every
message it gets to a log file; it is meant to run around the clock.  A
*converter* turns such a log into a common format, from which order books are
built again.  This directory models the snarfers
and the converters, checks them with TLC and proves what matters most with
TLAPS.

## The system

| component | state | operations | interacts with |
|---|---|---|---|
| web socket receive path, `ws.c: ws_recv` | bytes to go, bytes done, newline flag, header or stash (`struct ws_s`) | receive and decode, answer pings | `recv()`, called by the snarfer loop |
| web socket open, close, send, `ws.c` | `gbuf`, `gbsz`, `gbrc` shared by all connections | handshakes, `ws_send`, `ws_ping`, `ws_pong`, `ws_close` | TLS, snarfer loop |
| REST, `ws.c: rest_recv, rest_send` | bytes to go, chunk state | request, receive | snarfer loop |
| snarfer loop, `wssnarf.c` | per socket: session state, connection, watcher, timer, last activity, line buffer | `prepare`, `ws_cb`, `sio3_cb`, `rest_cb`, `hbeat_cb`, `sigint_cb`, `midnight_cb`, `sighup_cb` | libev, ws.c, the exchange's program, log file |
| log file, `wssnarf.c` | descriptor, offset, files on disk | open, write, rotate | file system; crashes and restarts |
| exchange programs, `coin.c`, `cexwss.c`, ... | none, a token, or a counter of calls (`fast.c`) | `conn_coin` ... `joind_coin`, `heartbeat`, `massage` | called back by the snarfer loop |
| FIX clients, `okfix.c`, `btcc.c`, `derifix.c` | session state, connection, suspension | `main`, `beef_cb`, `hbeat_cb`, `sigint_cb` | libev, TLS, `fix.c` |
| FIX codec, `fix.c` | sequence number, clock | `fix_reset`, `fix_render`, `fix_parse` | FIX clients |
| converters, `*2b.c` | subscription tables (`bitfin2b.c`, `plx2b.c`), else none | read line, tokenise, print | logs of snarfers, `jsmn.c`, `hash.c`; the books tools read what they print |
| vendored: `jsmn.c`, `hash.c`, `tinflate.c`, `build-aux/` | | | |

What is hard here is not concurrency in the sense of threads, there are none.
It is (a) that the stream may be cut anywhere, so every parser has to stop and
resume; (b) that several events fall into one iteration of libev's loop, whose
callbacks change the same session state before `prepare()` looks at it; (c)
that a program may be killed at any time and is restarted; (d) that a silent
peer has to be noticed, although nothing happens when nothing happens; (e) that
a log has many connections in it, each with ids of its own, and may begin in the
middle of one, while converters keep what they have learnt; (f) that all
connections of a process use one buffer, which their calls replace and free.
`PROJECT.json` lists these places under `hazards`.

What makes each part correct:

* receive path: headers are decoded at frame boundaries, nothing is skipped,
  nothing written over what is still to be read nor, but for one newline,
  outside the buffer, every message ends in a newline, the stream never stalls;
* handles: the shared buffer is large enough for whoever uses it and lives as
  long as somebody needs it; a REST answer becomes one line at most, however it
  is cut, and all of it unless a read ends or goes on where the code loses data;
* snarfer loop: what it does to a socket is a session, see `Session`; a slot is vacant when it is opened, a closed connection is not
  used, a finished socket stays finished, C-c ends the program, a peer
  that is silent between two reads does too, lines are logged whole;
* log file: what was written stays, in order and once;
* FIX session: messages are numbered as the protocol demands, a client that has
  been let in subscribes if reads end where messages do;
* converters: what is printed is about the instrument the line is about, and
  books built from it are the exchange's as far as the log tells.

## Modules

### `WsRecv`: `ws_recv()` of `ws.c`

The labels `again`, `unpkd` and `stash` of the function are values of `pc`, its
locals are variables: `bsz`, `nrd`, `pp`, `rp`.  `togo`, `done`, `state` and
`frml` are the fields of `struct ws_s`.  Bytes are abstracted to positions.
What the stream contains is a ghost, `nx` and `due`: the next frame, and how
many bytes of it and its successors have been received.  `got` counts the
payload bytes of the current frame and `line` what the output's last line
holds.

`Recv` is the unstashing, the `recv()` and the jump behind it; `Again` decodes a
header; `UnpkdData`, `UnpkdPing`, `UnpkdPong` and `UnpkdAbort` are the cases of
the switch, together with the advance behind it; `Stash` is the way out.
`RecvFail` is the return of -1, which makes the caller give up the connection.
`top` is the end of what the call has written or read in its buffer, the newline
of `ws.c:726` included, which is written whether it is owed or not, and whether
there is room or not.

### `Handles` and `Rest`: the rest of `ws.c`

`Handles` has the calls that share `gbuf`: `ws_open()` with its ways out
(`WsOpenOom`: no memory for the buffer, `WsOpenLost`: `_open()` fails,
`WsOpenRefused`: `_sioi()` or `_init()` fails and `ws_close()` follows,
`WsOpen`), `ws_close()`, `ws_send()` with and without memory for a larger buffer,
and the request of `rest_send()`.  `gb` is `gbuf # NULL`, `gbsz`, `gbrc` and, a
ghost, the size of the memory that is really there; `used` is what the last call
has put into it.  The calls block and nothing runs beside them, so each is one
step.  `ws_ping()` and `ws_pong()` use buffers of their own and change nothing.

`Rest` adds `rest_send()` and `rest_recv()` of the handles whose protocol is
REST.  An answer is a sequence of tokens, and what `rest_recv()` searches for, a
header field, the end of the header, the size of a chunk, is a pair of tokens, so
that a read can end within it; a chunked one is put together from its last
chunk forwards (`Rear`).  `RestRecv` is a read of any length.  `whole` is a
ghost: no read of this answer has ended where the code must misread it.  Such
reads there are (`Harmless` excludes them), and the code loses data then: what
follows a chunk in the same read is dropped, a header that ends with its read is
not taken for seen.  The former is nothing unusual: a short answer in chunks
comes in one read, last chunk and all, and loses its newline.  "We guarantee that
a whole message ends in \n" (`ws.c:844`) is not kept, see `rest_newline`.

### `Session`: what a snarfer promises

The sessions of a program's sockets without loop, clocks and buffers: the states
in their order, who may set them, and when a socket has a connection.  Web
sockets are opened once, REST sockets start over when the peer hangs up, nobody
leaves the final state, and C-c finds no socket in it.

### `Snarf`: the event loop of `wssnarf.c`

`prepare()` is a switch with fall-throughs; each of its cases is an action
(`CaseUnk` ... `CaseFini`), `pc` names the case it is at and `idx` the socket.
A callback is one action, all of it.  `Poll`, `Invoke` and `Return` are libev as
this program uses it: all pending events of an iteration are invoked, signals
before timers before descriptors, then `prepare()` runs before the next poll;
`ev_break()` takes effect after the callbacks pending.  An exchange's callbacks
are constants: the set of values (their signs) each may return.

Time is relative.  `tsp`, the clock variable of the code, is refreshed by every
log entry only; `stale` is how far it lags behind, `idle[i]` is
`tsp - last_act[i]`.  Both saturate at `Horizon`.  The line buffer `sbuf` is
abstracted to `part`: is there an unfinished line, and is its head still there?

`KeepsPromise` is the refinement: `Session` with `st` and `ws` for themselves and
`rest` from `Proto`.

### `Clients`: the programs linked with `wssnarf.c`

One record per program: the sockets its `main()` registers, with protocol,
heartbeat and silence allowed, and what its functions may return; functions it
does not define are the weak ones of `wssnarf.c` (`Trivial`).  `Linked(p)` is
`Snarf` with the constants of program `p`; a behaviour of `Clients` is one of
`Linked(p)` for some `p`, all of which one run visits.  `any1` and `any2` are no
program in particular and return what `wssnarf.h` permits.  `joins` is the
counter of `join_coin()` in `fast.c`, which tells its two sockets by the number
of calls.

### `LogFile`: the log file of `wssnarf.c`

Files are sequences of records, a name is the log file's or a second.
`make_wssnarf` opens, `loghim` stands for every write, a rotation takes three
steps (`RotateClose`, `RotateRename`, `RotateOpen`) with a possible `Kill` in
between.  `open()` and `rename()` may fail, which the code ignores.  A `write()`
is all or nothing.  `SameSecond` says whether two rotations may happen in one
second.

### `FixSession`: `okfix.c`, `btcc.c`, `derifix.c` and the counter of `fix.c`

`Open`, `OpenFail` and `Close` are the `do ... while (st)` of `main()`,
`SigintCb`, `HbeatCb`, `BeefCb` and `BeefFail` the callbacks.  Messages are their
types.  `BeefCb` reads as many messages as have arrived, the last one possibly
cut; what `fix_parse()` makes of the buffer is the type of the first message or
nothing.  The three programs differ in `Requests` and `Heartbeats`.  The peer
(`PeerSend`, `PeerHangup`) is external: it answers a logon first and ends with a
logout or by hanging up.  `cut` remembers that a read has ended amidst a message:
`Subscribes` is stated for behaviours in which none ever does.

### `Feed`, with `Books`, `Bitfin2b`, `Plx2b` and `Refresh2b`: the converters

`Bitfin2b`, `Plx2b` and `Refresh2b` (`hit2b.c`, `trt2b.c`, `ok2b.c`, `cex2b.c`)
give for a line of a log what `procln()` prints and, for the first two, what it
does to the tables `subins`, `subtys` and `subids`.  Lines are records instead
of text, prices and quantities small numbers; the scan for commas, JSON tokens
and FIX fields, and times, are left out.  `Books` is the common format and what
the books tools make of it: level 2 quotes replace the quantity at a level,
`clr0` removes all levels.

`hit2b.c`, `trt2b.c`, `plx2b.c` and `cex2b.c` have the JSON of a line taken apart
into an array of tokens, and print nothing for a line that needs more of them
(4096 in the first two, 65536 in the others).  `Room` stands for that, counted in
levels and trades.

`Feed` puts a converter, any one of the six, between an exchange and the books at
home.  The exchange and its connections are external: `Connect`, `Disconnect`,
`Subscribed` (bitfin's confirmations), `Confirmed` (plx'), `Joined` (the others),
`Snapshot`, `Change`, `Others` (trades, tickers, heartbeats).  The order of
levels in a line is arbitrary, ids are used again by later connections, and
books change while nobody is connected.  `Request` is a request in the log,
`Rotate` a new log file: the program that reads it starts with zeroed tables
while the connection goes on.  The programs never look ahead, so that reading a
line when it is logged is as good as reading it later.  `seen` is a ghost: the
levels whose quantities the file tells, a level being forgotten when the
exchange changes it and the converter cannot know, nor is told in a line that is
too long to be parsed.  `stray` is another: what is printed for the latest line
although that line is not about it.

`okfix.c` writes a line per read, not per message.  As a rule that is the same
(`Snapshot`, `Change`, `Others`).  `Jumbled` is a read that holds several messages or
ends within one: its line begins with the type and the instrument of the first
message, which `ok2b.c` takes for those of all entries, and which entries there are
is arbitrary.  Such a line is bound to be wrong.  `Attribution` says nothing of it,
and `Tracks` that it spoils the book it begins with, and what its messages have
changed in others, until the book is sent again as a whole.

Ids of bitfin's channels are the exchange's choice, and may meet in the table, of
256 entries because "channel ids seem to be small" (`bitfin2b.c:22`).  While two
channels of a connection meet (`Met`) the one is printed as the other, and neither
property says anything.  Both hold again for the next connection, with whatever
entries this one has left.

Assumed of the exchanges, from what the programs rely on: bitfin removes levels in
lines of their own; plx has an id per instrument and no id 0, and its requests are
in the log, which `plxwss.c` itself does not see to.

### `Orders`, with `Books`, `Coin2b`, `Btsp2b` and `Btcc2b`: the other converters

`Coin2b`, `Btsp2b` and `Btcc2b` give for a line what `procln()` prints.  None of
them keeps anything between lines; what is hard is what the lines mean.
`Orders` puts one of them between its exchange and the books at home.

* coinbase tells the life of orders: `Receive`, `Match` (with an order that rests
  in the book), `Rest` (what is left is opened), `Done`, `Kill` (done before it
  was ever open), `Resize`.  `coin2b.c` prints differences.  Orders are received
  one at a time, as the exchange numbers its messages.
* bitstamp tells changed levels (`Diff`) and best levels (`Snapshot`), of which
  `btsp2b.c` marks the first as tops.  It has names for three instruments
  (`Known`); the others, some of which `btsp.c` subscribes to, share `??????`.  Of
  a line that does not fit its 4096 tokens (`Room`) nothing is printed.
* btcc sends lists of entries (`Refresh`, `Increment`) that are about the
  instrument named last.  Lists are such that all entries name theirs or none does.
  A line is taken for one message; what `Jumbled` of `Feed` says of reads of
  several is as true of `btcc.c`, and is not modelled here.

The depth of coinbase's book is counted lot by lot (`Share`, `Depth`).
The snarfer connects and disconnects at any time and what happens in between is
not told.  `sure` is a ghost: the levels to which nothing has happened that the
lines, or the converter, leave untold; `told` is what the exchange said last of
tops and trades.  `DepthFollows` is about the former, `TopsFollow` about the
latter.  What `sure` excludes is worth knowing: an order that is cancelled before
it was open, and so never was in the book, still makes `coin2b.c` print a
difference (`Kill`), and a changed order is not noticed (`Resize`).

### Others

`MCFeed` has the symmetry of instruments and `MCOrders` that of order ids;
`MCWsRecv`, `MCRest` and `MCClients` define the constants of the runs: the frames
a peer sends, the handles and answers, the programs to look at.  `WsRecvProofs`,
`RestProofs`, `SnarfProofs`, `ClientsProofs`, `LogFileProofs`, `FixSessionProofs`,
`FeedProofs` and `OrdersProofs` hold the theorems.

## Runs

Runs that pass:

| run | checks |
|---|---|
| `ws_decode` | `TypeOK`, `InSync`, `StashFits`, `FrameKept`, `NoClobber`, `OneByteOver`, `FullFramesEndInNewline`, and under fairness `FramesFlow` |
| `rest_answers` | `TypeOK`, `Fits`, `Counted` for the buffer that a web socket and a REST handle share, `WholeAnswers` and `OneLine` for the answers |
| `snarf_programs` | for all 22 programs and two that return anything: `TypeOK`, `SlotFresh`, `CallsHaveSocket`, `LinesAreWhole`, `JoinsInTurn`, the refinement `KeepsPromise`, and under fairness `InterruptExits` and `Watchdog` |
| `log_keep` | `TypeOK`, `NothingLost`, `InOrder` |
| `fix_session` | `TypeOK`, `Sequenced`, `Connected`, `ReconnectsInterrupted`, `Subscribes` |
| `feed_follow` | `TypeOK`, `Attribution`, `Tracks` for six converters |
| `orders_books` | `TypeOK`, `DepthFollows`, `TopsFollow` for the other three |

Runs that TLC refutes, each against what the sources say of the program:

| run | refuted | what happens |
|---|---|---|
| `ws_fragments` | `NoNewlineInsideMessage` | a ping between two fragments splits the message into two lines |
| `snarf_torn` | `WholeLines` | `cexwss.c` authenticates while a line is incomplete; `prepare()` drops its head |
| `snarf_interrupt` | `NoConnectAfterInterrupt` | C-c, and `rest_cb()` failing in the same iteration: the socket is UNK again and is reconnected |
| `log_same` | `NothingLost` | two rotations in one second: the second archive replaces the first |
| `rest_newline` | `EndsInNewline` | a chunk and the last chunk in one read: the newline never comes |

Seen while modelling, without a run of its own: when a read fills the buffer with
payload of a frame begun earlier, `ws_recv()` writes its newline one byte past the
buffer, and returns one byte more than it was given room for if the frame ends
there (`ws.c:726`; `wssnarf.c:290` and `:419` pass all the room there is).
`OneByteOver` says that this is the only way to leave the buffer, and the run
reaches it.  `rest_recv()` adds its newline in the same way (`ws.c:897`).  A logon
that `tls_recv()` cuts in two is "message buggered" to a FIX client
(`okfix.c:338`), which then waits for good: without its premise `[]~cut`
`Subscribes` is false.  And: a ping of at most 14 bytes at the end
of a read is answered only when more bytes arrive (`ws.c:714`); `prepare()`
repeats `auth_coin()` and `join_coin()` in every iteration while they wait
(`wssnarf.c:741`, `759`); a failing `open()` is ignored (`wssnarf.c:842`); after
"sleeping till full hour" a FIX client sleeps a minute and ends (`okfix.c:379`,
`398`, `485`); C-c and a logon or logout in one iteration make `main()` of a FIX
client connect again (`okfix.c:408`), which is the only way that it does
(`ReconnectsInterrupted`); a `ws_open()` that fails to connect leaves a count in
`gbrc` that nobody takes back (`ws.c:537`, see `lost` in `Counted`), so that the
buffer is kept for good, as it is of one size no harm; if `ws_open()` finds no
memory it leaves the size of a buffer that does not exist (`ws.c:531`); a removal by `bitfin2b.c` that is not alone
in its line takes the quantity of the level before and ends the line
(`bitfin2b.c:273`); the check of `cex2b.c:208` never fails for a missing field.

### Bounds

* `WsRecv`: a buffer of 22 bytes, so that headers (2 to 14 bytes) and payloads
  (up to 40) span calls and short frames share one; all header lengths but one
  with payloads that are empty, that fit the stash and that outlast the buffer (40
  bytes), so that a read may be payload and nothing else;
  data, continuation, ping, pong, close, unknown opcode.  Lengths are never
  compared with anything but the header size and the buffer, so longer ones add
  nothing; the proofs have no bound at all.
* `Rest`: a web socket and a REST handle; requests as large as the first buffer,
  payloads that fit it and that do not; three references, so that two are left
  over; `malloc()` fails at most once.  Bodies of two bytes or none, chunks of
  one and two, two answers under way.  A token is one byte to `togo`.
* `Clients`: all programs; `Horizon` 3 with limits of 1 (30 seconds) and 2 (60 and
  more), so that every comparison goes either way.
* `LogFile`: six records, four seconds: three archives and the log file.
* `FixSession`: two connections, three messages in and five out per connection
  before the heartbeat pauses: enough for logon, subscription and logout and for
  numbering to go wrong across a reconnect.
* `Feed`: two instruments, one price on either side, quantities 0 and 1; tables
  of two entries, ids 0 to 2, three requests and two channels, so that entries are
  written over, channels meet, tables overflow and ids of earlier connections come
  back.  Room for one item, so that a line with both levels is skipped; a jumbled
  read has one or two entries.  Any number of connections and rotations.
* `Orders`: three orders of up to two lots at two prices on either side, so that
  an incoming order meets two resting ones or a part of one; two instruments, one
  of them unknown to btsp2b and deep on btcc; lists of two entries, with one
  price, since quantities and sides already tell entries apart.  Up to three levels of a
  named instrument change at a time, and two is what btsp2b can parse.  The books of
  instruments without a name change a side at a time, which keeps their
  number low; nothing is claimed of them.  Any number of connections.

### Fairness

`WsRecv!FairSpec`: a call runs to its end, and the loop calls again as long as
the peer sends (`WF` on the steps and on `Recv`).  `Clients!Spec`: the program
does not stop amidst `prepare()` or a callback except where it waits for a peer,
and a heartbeat timer, which repeats (`ev_timer_init(..., 0.0, prm.heartbeat)`),
fires again and again (`SF` on the polls that report it).  The program does wait
for peers: no socket is made non-blocking, so that `connect()`, `SSL_connect()`
and the handshake of `ws_open()`, a send, `SSL_shutdown()`, and `SSL_read()` with a
record begun and not ended may never return.  `MayBlock` says where: the cases of
`prepare()` that open, close or send, and callbacks of descriptors and timers.
The loop is not assumed to get on from there, and `InterruptExits` and `Watchdog`
are stated for a loop that is not stuck there for good.  So they cover a peer that
falls silent between two reads, and not one that falls silent amidst a handshake
or a TLS record: that stops the loop, and no heartbeat ticks any more.  Nothing is
assumed of sockets without a timer, signals and midnight.  `FixSession!FairSpec`: the program runs and
`poll()` reports a descriptor that stays readable.  Nothing is assumed of the
peer.

`Clients`, `FixSession`: deadlock is checked, the end of the program being a
self-loop, and in `Feed` and `Orders`, which never end.  `WsRecv` ends when the connection is
lost or on `abort()`, `LogFile` and `Rest` when their bounds are reached;
deadlock is not checked there.

## Proofs

Every invariant that a run checks is a theorem, and so are the refinement
`KeepsPromise` and `ReconnectsInterrupted`.  A proof module proves
`Spec => []IInv` by induction, one lemma per action or group of actions, and
derives the properties from `IInv`; `ClientsProofs` carries over what
`SnarfProofs` has shown and adds an induction of its own.  Where a fact is about
sequences or sets of any length (the rest of an answer, the last entry about a
level) it is proved for the least counterexample (`WFMin`, `MinExists`) or from
the theorems about cardinalities.

* `WsRecvProofs`: any set of frames, any buffer sizes larger than a header
  (smaller ones do not occur, callers have 4000 bytes).  `IInv` adds to the
  properties how `due`, `togo`, `done` and the buffer positions relate at each
  label: what has been received and not consumed of the stream is what is
  between `pp` and `nrd`, or the stash between calls.  `NoClobber` needs the
  relation of `rp` and `pp` to include the newline that `state` still owes.
  `NewlineMayOverrun` needs more: `top` is `nrd` until the stash, and output can only
  have reached `pp` if all that has been read is payload of one frame (`got` has it
  all), whose header has been taken in by an earlier call.
* `SnarfProofs`: one to four sockets of any protocols, any return values, any
  limits.  `SlotFresh` is not inductive: that a slot is vacant in state UNK
  depends on `rest_cb()` stopping the watcher (`Slots`), on active watchers
  having connections (`Wired`), on the label of `prepare()` matching the state
  (`Labels`), on sockets that have been visited not being UNK when the loop polls
  (`Visited`, `Polling`) and on pending events belonging to open connections
  (`Calling`).  `KeepsSessions` is the refinement, action by action: a case of
  `prepare()` or a callback is a step of `Session` or changes neither state nor
  connection.  It needs `IInv` for the connections a step relies on, and that no
  socket is FINI while events are pending, since C-c would wake it.
  `PromptLinesAreWhole` is about the programs that wait for nothing before they
  join (`Prompt`): the states in which `prepare()` drops what is buffered are
  states they are in within `prepare()` only, on the socket it is at
  (`Stationed`, `Unbroken`), so that nothing has been read in them.
* `ClientsProofs`: any set of the programs.  A behaviour of `Clients` in which
  the program `this` runs is a behaviour of `Snarf` with its constants (`Runs`:
  the actions agree one by one, and `prog` never changes), so that the theorems
  of `SnarfProofs` about that instance give the properties `Clients` states.
  `LinesStayWhole` looks which of the 22 programs are prompt.  `JoinsAreInTurn`
  has an invariant of its own (`Turns`), about `fast.c`: a socket that has not
  been joined is one that the first round of `prepare()` has not come to, the
  second after the first, or else the loop is to be left.
* `RestProofs`: any finite number of handles with any URLs, any payloads, and
  requests of up to 4096 bytes, what `ws_open()` allocates, an assumption on the
  URLs and hosts that the programs use (`HandlesAssumption`).  `HInv` adds to
  `Fits` and `Counted` that the size noted is that of the memory and no less than
  4096 as long as `malloc()` has not failed (`Sized`), and that the count covers
  the handles (`Backed`).  About `rest_recv()`, for bodies of any length, chunks
  of any number and size and any reads: `OneLineOnly` takes what may still be on
  the wire of a request on its own (`RInv`): nothing comes out before the
  header's end, and no header follows.  `AnswersAreWhole` takes all places at
  which a read may end without harm (`Reads`: in the header in front of the
  field or behind it, in a body by length, behind a chunk's size, within or
  behind a chunk, at the end).  At each of them the state of the handle and
  what is on the wire determine the rest of the line, and a harmless read leads
  from one to another and puts out the difference (`WInv`).
* `LogFileProofs`: any number of records and seconds, assuming `~SameSecond`,
  without which `NothingLost` and `InOrder` are false (`log_same`).  `IInv` adds that the offset
  is at the end of an open file (hence `TypeCorrect`), archives of seconds to come do not exist yet,
  and no record is in two files.
* `FixSessionProofs`: any number of requests, messages and connections, cut
  messages included.  `IInv` adds that the counter is one more than the number of
  messages sent while there is a connection, and that a state other than UNK at
  the end of an iteration that ends the loop goes back to a logout that was sent.

* `FeedProofs`: any instruments, finite sets of prices, quantities, table sizes,
  ids and requests.  First, what the output of a line conveys (`Conveys`): the
  quantities at a set of levels, after a clear or not; this composes over
  concatenation, and `ApplyConveys` says what the books tools make of it.  Then
  each converter conveys what the exchange's line tells (`HitPrints` ...
  `PlxPrints`), or nothing if the channel is unknown to it (`Skipped`).  The
  inductive part is in the tables, which are never emptied: a bitfin channel's
  entry is its own unless two channels meet (`BtfTab`); of plx' tables the entries of this connection's
  requests come first, name the requested instruments and hold no ids but those
  of known channels (`PlxTab`), so that the first match for an id is right
  although older entries behind them may hold the same id.  Any room for tokens, and
  any number of channels and of entries of a jumbled line.  What is not proved, since
  it is false: anything about channels that meet, or about the attribution of a
  jumbled line.
* `OrdersProofs`: any instruments, any finite sets of prices and of order ids,
  any sizes and quantities.  `OInv` adds to the properties that only coinbase has
  orders and that an open one has a price.  The depth of coinbase's book is the
  number of lots of the orders at a level, so that one order's event changes it
  by what that order has there, less or more (`OneChanges`, `DepthStep`); what
  `coin2b.c` prints is the same difference, or else the level is not in `sure`
  any more (`CoinPrints`, `EventFollows`).  bitstamp's levels are sorted: ranks
  number the prices of a side (`Ranks`), so that each level is printed once
  (`SortedIs`, `BtspPrints`) and only the best one is a top (`BtspTops`).  An
  entry of btcc's is printed as a top or trade of an instrument and side if and
  only if the exchange has told it as one (`RouteQuote`, `EntryHits`); messages
  have two entries, as in the model.

Only model-checked: everything under fairness (`FramesFlow`, `InterruptExits`,
`Watchdog`, `Subscribes`), since temporal reasoning with fairness is out of the
prover's reach.  The runs that are expected to fail have no theorem, except that
`LogFileProofs`, `SnarfProofs` and `ClientsProofs` say under which assumption
`NothingLost` and `WholeLines` hold after all, and `AnswersAreWhole` of `RestProofs`
for which reads the newline of `EndsInNewline` does come.

## Not modelled

* TLS (`tls.c`), wrappers without state (that its calls block is what `MayBlock` is
  about); argument parsing, credentials and the
  texts of requests; `build-aux/`, which builds the programs.
* The vendored algorithms `jsmn.c`, `hash.c` and `tinflate.c`: pure functions of
  bytes.  The converters' models begin with their result, or with `jsmn.c` running
  out of tokens (`Room`), and `Snarf` lets
  inflating fail.
* The bytes of a FIX message: lengths, checksums, times and comp ids, which are
  written and never read by the clients (`fix_parse()` looks for the type only),
  and message types of two characters, which the clients do not ask for.
* Times in the logs and the digits of prices and quantities.
* What `massage()` of `btsp.c`, `trtwss.c`, `spacebtc.c` and `paymium.c` does
  within a line: it unescapes text in place and keeps no state.
* The bytes of `sbuf` in `wssnarf.c`; `part` stands for them.  That `memmove()` at
  `wssnarf.c:376` moves 21 bytes more than there are is not visible in it, nor that
  `logunr()` scans bytes behind the data when an answer is refused
  (`wssnarf.c:393`): `LogUnr` has a torn line as one of its outcomes, and
  `LinesAreWhole` is about programs that do not refuse.
* Frames that `ws_pong()` sends.

What is left of the plan: the line buffer as a refinement of `part`, pongs
composed with `WsRecv`, btcc's lists of any number of
entries, named and unnamed ones mixed, which alone would show an instrument carried
over from an entry that is skipped (`btcc2b.c:200`), and reads of several messages
there.
