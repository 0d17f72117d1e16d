# Verification of ConvertHtmlModule

The repository collects programs that drive Chrome through the Chrome DevTools
Protocol (CDP). Its product is `ConvertHtmlModule`, a C++ library that renders a web
page to an image or a PDF: it starts a headless browser, writes JSON commands to its
descriptor 3, reads JSON messages from its descriptor 4, each ended by a NUL, and saves
the base64 data of the last answer. Everything below is about
`src/ConvertHtmlModule/ConvertHtmlModule.cpp` (called "the code"; line numbers are its)
unless another file is named.

## 1. Inventory

| component | state | operations | talks to |
|---|---|---|---|
| `ConvertHtmlModule::HtmlToImage`, `HtmlToPdf` (l. 1336-1389) | none of its own: one local `CDPManager` per conversion | launch, set the time-out to 5 s, navigate, capture, let the destructor end the browser | `CDPManager` by calls; `main.cpp` calls both in sequence |
| `CDPManager` (l. 751-1330) | `m_ID`, `m_TargetID`, `m_SessionID`, the static browser path | `Launch`, `Exit`, `SetTimeout`, `Navegate`, `CloseTab`, `Screenshot`, `PrintToPDF`, `_Wait` (two forms), `_SaveFile` | `CDPPipe` by calls, the file system |
| `CDPPipe_Linux` `Read`, `Write`, `SetTimeout` (l. 611-735) | `m_Timeout` (a `timeval`), `m_MessageQueue` | the same | two kernel pipes, `select()` |
| `CDPPipe_Linux` `Launch`, `Exit` (l. 508-609) | `m_PID`, `m_WriteFD`, `m_ReadFD`, both processes' descriptor tables | the same | `pipe`, `fork`, `dup2`, `exec`, `waitpid`, `kill` |
| `base64Decode` | locals | one loop and its tail | `_SaveFile` |
| the browser | tabs, sessions, their pages, answers not yet sent | external: executes commands, answers them, emits events, dies | both pipes |
| `CDPPipe_Windows` (l. 59-443) | `m_hProcess`, `m_hWrite`, `m_hRead`, `m_dwTimeout`, the same queue | as on Linux, with overlapped calls that are waited for and cancelled | two named pipes made for the purpose |
| node port (`node/ConvertHtmlModule.js`) | the same members in JavaScript, a manager per conversion | the same, with exceptions and `finally` | `readSync` and `writeSync` on the child's descriptors |
| web-socket sample (`tmp/cdp-port/c++/mainSocket.cpp`, `common/cdp_port_util.h`) | the bytes of one answer, a parser per call | get the address, upgrade, three commands; build and parse frames by hand | TCP |
| other samples, vendored libraries | | | not modelled, see section 6 |

The calling thread and the browser run concurrently and share nothing but the two
pipes and the process table. What is hard:

- **ordering**: answers may come in any order, mixed with events and with late
  answers to calls that gave up; a wait takes the first message that looks right and
  throws the others away;
- **failure and time-outs at every step**: every read may time out, also inside a
  message; the browser may die; a conversion may be left at any of its steps, and the
  browser must be ended each time;
- **state left over** from an abandoned call: the tab and session of a closed page, a
  message queue that outlives its browser, a load event of the page before;
- **chunks**: a read of `BUF_LEN` bytes ends inside a message, at its NUL, or after
  several messages;
- **cancelled calls**: on Windows the kernel works on a read or a write while the client
  decides to give up, and nobody asks what it had done;
- **a stream without boundaries**: TCP cuts the web socket's frames anywhere, and the
  sample takes a short read for the end of an answer;
- **descriptor numbers**: the child's `dup2` and `close` calls work on fixed numbers
  and the ones `pipe()` returned, and may hit one another.

`PROJECT.json` lists each of these hazards with its line and the properties that cover it.

## 2. Modules

| module | models | built on |
|---|---|---|
| `CDPManager` | class `CDPManager`, its calls in any order, with the pipe as a FIFO of whole messages and the browser as a concurrent process | |
| `ConvertHtmlModule` | `HtmlToImage`/`HtmlToPdf` in sequence, each with a manager of its own | extends `CDPManager`: the actions of a conversion conjoin the manager's |
| `Conversions` | what the conversions promise their caller: save the capture once, then tell whether it is there | |
| `ConvertHtmlModuleNode` | the node port's manager and conversions | extends `ConvertHtmlModule`: its state, browser and promise with the port's own steps |
| `MessageChannel` | what `Read` promises: each message once, whole, in order, unless a call gives up in the middle of one | |
| `CDPPipe` | `struct CDPPipe`: two kernel pipes, framing, the queue, what all three implementations do, the browser | |
| `CDPPipeLinux`, `CDPPipeWindows`, `CDPPipeNode` | one implementation each, byte by byte | extend `CDPPipe` |
| `CDPPipes` | the three side by side and the properties callers rely on | extends them, implements `MessageChannel` |
| `WebSocketFrames` | `createWebSocketBuffer`, `getFrameBodyVector` | |
| `MainSocket` | `mainSocket.cpp` over a TCP stream | extends `WebSocketFrames` |
| `LaunchLinux` | `Launch`, `Exit`, the child between `fork` and `exec`, on descriptor tables | |
| `Base64` | `base64Decode` and the definition of base64 | |
| `LaunchLinux_proofs`, `CDPManager_proofs`, `Base64_proofs` | theorems about one module each | extend it |
| `ConvertHtmlModule_proofs` | theorems about the conversions of both ports | extends `ConvertHtmlModuleNode` and `CDPManager_proofs` |
| `SequenceLemmas` | lemmas: induction over the naturals, what `FlattenSeq` gives, how a concatenation splits | |
| `CDPPipes_proofs` | the stream of messages, what a part of it splits into, and theorems about `Read` | extends `CDPPipes`, `SequenceLemmas` |
| `CDPPipesChannel_proofs` | theorems about `Write`, and that the pipes implement `MessageChannel` | extends `CDPPipes_proofs` |
| `MainSocket_proofs` | theorems about the frames and the web-socket sample | extends `MainSocket`, `SequenceLemmas` |
| `MC...` | small instances for TLC | |

### CDPManager

One action is what the client does between two calls of the pipe. `pc` names the place
in the call: "createWait" is the `_Wait` after `Target.createTarget`, and so on;
`local` holds the locals that survive a wait. `Send` is `m_Pipe->Write` with the
increment of `m_ID` and the early return after it; `Take` is a successful
`m_Pipe->Read`, first from `m_MessageQueue`, otherwise from the pipe (`wire`), which
pulls any number of whole messages and queues all but the first. A command that finds too
little room in the pipe blocks in `write()` (`pc` "blocked"), whatever the time-out, as `select()`
promises some room only; with the browser's death the signal comes (`BlockedWriteBreaks`). When
the browser does read again the write simply happened later. `Wanted` and
`HasResult` are the two tests of `_Wait` and of the extraction that follows it: a message
with an error ends any wait, a message with other content is thrown away, an answer of
the wrong shape makes the JSON library throw (`WaitThrows`); both kinds of captures have the
same shape.

The browser executes commands in the order written (`BrowserCreatesTarget`,
`BrowserNavigates`, ...), puts their answers into `pending` and sends those in any order
(`BrowserAnswers`), emits load events and others, may reject any command and may die.
That much the DevTools protocol promises; answers out of order are allowed because
the code nowhere relies on more.

What is at the edge of what the code defines: `FD_SET` of the descriptor -1 after a
`Launch` that returned true without connecting is undefined, and may end the
process or let the wait time out; a write to a dead browser's pipe ends the process
(SIGPIPE has its default action); a `front()` on the empty queue after the
browser died inside a message ends the process or yields something the JSON parser
throws at. Each is a nondeterministic choice between these outcomes.

A caller launches again only after `Exit`; nothing in the code prevents a second `Launch` on
a connected pipe, and nobody calls it so. Time-outs are a Boolean here (a wait can give up or not); how long they are is the
subject of `CDPPipe` and its extensions. The path setter, the dead function `_Waits` and the
parsing that only Debug builds do in `Read` and `Write` are left out.

### ConvertHtmlModule

`stage` is the position in the conversion, `results` what the conversions so far
returned. `ConvertLeaves` is the destructor, which runs `Exit` from whichever place the
conversion left at. `Jobs` is what the program asks for: `ImageThenPdf` as `main.cpp`
does, `BadPdfFirst` with a margin `std::stod` throws at. The program modelled catches
that exception; the `main()` of the repository does not and ends there. A result file is
modelled by what it shows: the page, its loading state at the capture, and the format. A file that cannot be opened
stays as it was, one whose writing fails half-way is `Part` (`SaveFails`).

`Conversions` is what is left when browsers, pipes and protocol are out of sight: per
conversion at most one `Save`, or a `SaveInPart`, and then `Succeed` if the whole file is there and
`Fail` if it is not, in the order asked for.
`ImplementsConversions` maps the result files and the returned values to it. `_SaveFile`
returns nothing, so there is one step more than the abstract ones,
`SucceedWithoutFile`, allowed only when the disk is among the faults: the property records this
weakness of the code and shows that nothing else comes of it.

### ConvertHtmlModuleNode

The node port has no time-out in its waits, sends `Page.enable`, the metrics and
`Page.navigate` without looking for an answer, gets `false` from a write to a full pipe
(the descriptors do not block), and ends the browser in `finally`. `NodeFindsError`,
`NodeDiscards`, `NodeMeetsEnd` and `NodeReadThrows` are the ways a `Read` inside `_WaitId`
or `_WaitMethod` goes; the last is the end of the pipe inside a message, at
which `JSON.parse` (the one that logs) or `undefined.length` throws. `NodeLaunches` has the three
outcomes of `spawn`: a browser, pipes whose other end nobody holds (the error is an event
that a synchronous program never hears in time), and an exception without descriptors.
Its `_SaveFile` does report a file that could not be opened or written to its end, of which a part
may stay behind, so `NodeKeepsPromise` is `Conversions` without the
extra step.

### CDPPipe, its three implementations, and MessageChannel

The pipes are sequences of bytes; the payload of the i-th message is the byte i, so a
glued, cut, repeated or reordered message is recognised by its content. `port` is the
implementation the program was built with. What they share is in `CDPPipe`: `Split` and
`Delivers` are the loop that cuts at NULs and the queue, `MovesBytes` a write that
takes as many bytes as there is room for.

*Linux*: `ReadChunk` is one `read()` of up to `BufLen` bytes. `SecondPasses` counts the
stored time-out down while `select()` waits, as Linux does. POSIX allows `read()` and
`write()` to be interrupted even after `select()` reported the descriptor ready, so the
code's `EINTR` branches are reachable (`ReadInterrupted`, `WriteInterrupted`).

*Windows*: from `Launch` to `Exit`, on the handles this process holds (`ours`): the end of
a pipe is seen only when nobody holds its other end. A `ReadFile` or `WriteFile` is
pending while `pc` is "readPending" or "writePending"; `WindowsReadTimesOut` and
`WindowsWriteTimesOut` are `WAIT_TIMEOUT`, and `CancelIo` is a step of its own, before
which the call may still complete (`WindowsReadCancels` with bytes lost,
`WindowsWriteGoesOn` at "writeCancel"). That the kernel might write into the
`OVERLAPPED` and the buffer after `Read` has left its frame is undefined behaviour whose
outcome the model does not enumerate: the bytes count as lost.

*node*: `readSync` that finds nothing sleeps and tries again, whatever the time-out;
`NodeStrings` is the buffer without its last byte, split, without empty strings, so that at
the end of the pipe a cut-off message is a string too.

The refinement mapping: a message is in the channel when its NUL is in the kernel
pipe, in `byteBuf` or when it is in `m_MessageQueue`; the channel is `cut` when the
first byte still unread lies inside a message. `MessageChannel` has two actions outside
its `Next` for what is weaker elsewhere: `Drop`, which only Windows needs (a cancelled
read takes any of the oldest messages with it, a broken pipe those before it), and
`EndTorn`, which only node needs.

### WebSocketFrames and MainSocket

The widths are parameters (`WidthAssumption`): 256 values of a byte and extended lengths of
2 and 8 bytes in the code; 32 values, 1 and 2 bytes in the instance, with the special lengths
14 and 15 where the code has 126 and 127. A byte has a power of two of values, at most 256, so
that `Xor` can be written out by its eight weights. The parser takes a byte at a time (the
code's inner loops over a body or a length take several; the result is the same).
`GetFrameBodyVector` makes a new parser per call and returns what is there of the last body
(`Bodies`), as the code does.

`MainSocket` has one action per `recv()`: `ReadsOn` when the buffer is full, and otherwise
`AnswerEnds`, which ends an answer whatever was in it, with what the program does with it
(`GetsTargets`, `GetsAttached`, ...). An answer that does not parse throws, `[0]` of an
empty vector is undefined. `Arrives` is TCP: whole messages, or, with "split", pieces.

Every byte of a message's payload is the message's number, so that a body is understood when
it is the payload of the message expected: a JSON text that lacks its beginning or its end, or
has something else around it, does not parse. `SocketAssumption` asks for two things
besides typing. The numbers are below the special lengths (`Capture < Short`), as the bytes of a
JSON text in ASCII are below 126 but for `~` and DEL: the rest of a body, read as a frame,
then has a short length and no mask. A title or an address with other
characters is outside the model. And a length fits the widest form, which in
the code has eight bytes.

### LaunchLinux

Each process has a descriptor table from numbers to pipe ends; `pipe()` and `dup2`
take the lowest free number and the number asked for, `fork` copies the
table. The parent looks once at the child with `waitpid(WNOHANG)`, which
races with the child's way to `exec`.

### Base64

The four-symbol loop and the tail of `base64Decode` on symbol numbers; a missing
symbol is 255, `find()`'s `npos` as an `unsigned char`.

Mutated forms of actions stand before them, marked `Mutant:`. They are not part of any
specification: `PROJECT.json` pairs each with the property it breaks, to show that the
property can fail.

## 3. Runs

| run | instance | checks |
|---|---|---|
| `ConvertFaults` | an image and a PDF of different pages, every failure at every step, 626 thousand states | `FilesShowLoadedPages`, `BrowserEnded`, `NavegateLoadsItsPage`, `ImplementsConversions`, `Terminates` |
| `ConvertHealthy` | a PDF with a bad margin, an image, a PDF; no failures, any order of answers and events; 95 thousand states | `AllConverted` |
| `ManagerCalls` | all public calls in any order, two tabs, two sessions, two launches, errors, foreign events, time-outs also inside messages, full pipes, a dying browser; 1.4 million states | `ReplyIsForCommand`, `SessionOfTarget` |
| `NodeConvert` | the node port, an image and a PDF, every failure it can meet; 487 thousand states | `ReplyIsForCommand`, `BrowserEnded`, `NavegateLoadsItsPage`, `NodeKeepsPromise`, `NodeTerminates` |
| `Pipes` | all three pipes, three messages, two commands that do not fit the pipe together, a time-out of 1 s, of 0 s or none, time passing, signals, handles running out, a dying browser; 355 thousand states | `ImplementsChannel`, `MessagesNeverGlued`, `CommandsWhole`, `CommandsAsReported`, `ReadReturns`, `WriteReturns` |
| `LaunchTables` | two launches from every set of open descriptors below 6, descriptors running out, every failure; 14 thousand states | `WiredUnlessInTheWay`, `ProgramFilesUntouched`, `ConnectedEnds`, `LaunchIsUndone`, `FailedLaunchKeeps` |
| `Socket` | answers of 27 combinations of sizes, TCP in whole messages or in pieces, with or without a browser that closes; 27 thousand states | `PiecesOfFrames`, `BrowserUnderstands`, `NextCommandInStep`, `SavesOrWaits` |
| `Base64` | every input of up to 5 symbols, padding and foreign characters; 40 thousand states | `DecodesPrefix` |
| `LaunchOneFile` | one file more than the standard three is open | finding: `ChromeIsWired` is violated |
| `PipeTimeout` | the Linux pipe, two messages, a time-out | finding: `TimeoutIsTheSetting` is violated |
| `PipeSignal` | the Linux pipe, two messages and signals | finding: `InterruptedReadIsRetried` is violated |
| `ManagerReuse` | two pages, one after the other, with a time-out | finding: `NavegateLoadsItsPage` is violated |

What they show beyond the names: the manager's picture of the pipe (a FIFO of whole
messages, whose only fault is a torn read) is right for Linux without signals and for no
other case. On Windows a time-out may lose any of the oldest messages; with node a
message the browser did not finish is queued like the others. Writes differ as well: only
Linux without signals sends a command whole or not at all; elsewhere a `Write` that
returned false may have sent a part of its command or all of it, and what comes next follows
right behind. A `Write` with a time-out comes back, except from Linux' blocking
`write()` on a full pipe, to which `select()` had promised room for one byte; for the conversions
this is the one way to hang without a chattering browser (`Terminates`). A `Read` with a
time-out comes back on Linux and Windows; node's only when something comes or the browser
dies. A `Launch` that fails gives back its descriptors when the child was seen to
fail, and otherwise keeps exactly the ends it had made (`FailedLaunchKeeps`). In the
web-socket sample, every answer in one piece gives a screenshot unless an answer fills the
last buffer exactly; however TCP cuts, the sample never sends the next command on top of
half an answer, it throws or stops instead.

### Bounds, and why they are enough

- `MaxId = 7` leaves room for the six commands of a conversion, so none is cut
  short; in `ManagerCalls` (6) it leaves room for a `Navegate` and the beginning of a
  second, or for any mixture of calls of that length.
- `MaxLaunches`: two launches show what the first leaves to the second. Convert runs
  have one more than they need.
- `MaxEvents = 1` in the Convert runs bounds the foreign events not read yet, not their
  number: the browser may send another as soon as the last has been thrown away, so that behaviours
  with an endless chatterer are among those checked. Each wait treats each message alone, so one
  at a time is enough. `ManagerReuse` needs no foreign event: its load events are
  enough. In `ManagerCalls` foreign events come from the first browser only (`SmallBacklog`).
- `MaxBacklog` (a state constraint of the two manager runs, which check safety only)
  limits the commands and messages on their way at once. `ManagerCalls` needs two: a
  late answer and the awaited one. `SmallBacklog` also lets browsers run only with the time-out set,
  as without one nothing happens that could not happen with it. `TabSymmetry` is used in these runs only,
  as no temporal formula other than an action property is checked there.
- `BufLen = 2`, `PipeCap = 3` in `Pipes`, messages of 1, 2 and 1 bytes, each with its
  NUL: a chunk can end in a message, at its NUL and between two, three chunks make one
  message, the first command fills the pipe and the second meets a full one or one with
  room for some of its bytes. `PipeTimeout` and `PipeSignal` use 3 and 4: a chunk with two
  messages and the start of a third.
- `Settings`: one call with 1400 ms, which Linux rounds to 1 s, one with 400 ms, which it rounds
  to 0 s, or none at all (no time-out) in `Pipes`; these and `INFINITE` in `PipeTimeout`.
- The browser of `Pipes` has a stream with an end. A `Read` of any port goes on from chunk to chunk until one
  ends with a NUL, and its time-out is that of one chunk, so a browser whose bytes trickle for
  ever and never end a chunk with a NUL would hold it up: `ReadReturns` says nothing of such a browser.
- `NodeConvert` has no foreign events (`MaxEvents = 0`): three answers nobody waits for
  already meet every wait; `NodeTerminates` therefore says nothing of a browser that also sends
  other events without end. Its launches and numbers are as in `ConvertFaults`.
- `Socket`: `Base = 32`, `ShortBytes = 1`, `LongBytes = 2`, `BufLen = 17` (16 for HTTP): bodies of 13 and
  14, of 31 and 32 bytes lie on both sides of the two boundaries of the length field; a handshake of
  16 bytes fills its buffer, and so do a frame with a body of 14 (3 bytes of header) and, twice over,
  one of 31 (34 bytes). The identifiers of 10 and 13 put the commands on both sides of a boundary too.
- `MaxFd = 9` makes descriptors run out during the second launch; initial sets
  are all subsets of 0..5, among them those in which 3 or 4 is open or a lower one is closed.
- `MaxLength = 5` in `Base64`: a group of four and a tail.

### Fairness

`ConvertFairSpec` assumes only that the calling thread runs (weak fairness of its
steps as a whole). A wait whose time-out is set is such a step, so nothing is assumed about
the browser; what it can do about it is stated as the two exceptions of `Terminates`, which says
that every conversion ends, or the client is for ever inside a `write()` that a living
browser does not read, or other events never stop (`_Wait` has no deadline of its own). Either
exception is needed: without it TLC finds the hang. `HealthySpec` adds weak fairness of the browser's
execution, of its answers and of its load events, which is what `AllConverted` means
by a browser that works. `NodeSpec` needs the browser for `NodeTerminates`, as node's
waits have no time-out: its execution, answers and load events are fair while it lives, and it may
die at any time. The pipes' `FairSpec` is weak fairness of the call in
progress, with the passing of a second and the end of a wait among its steps; neither the
browser nor the kernel's progress on a pending write is asked for anything. `Socket` assumes that the
program runs and that TCP delivers. The other runs check safety without fairness.

Deadlock is checked in the Convert and NodeConvert runs, where the end of the program is an explicit
stuttering step. In the others the program really may stop: no call need come,
a killed client does nothing, a bound is reached.

### Findings

1. **Descriptors (l. 545-548).** With one file more than 0, 1 and 2 open, `pipe()`
   returns 4 as `fd3[0]`; the child puts the message pipe on 4 and then closes 4. The
   second test looks at `fd3[1]` where `fd4[1]` is meant. `WiredUnlessInTheWay` says
   for which numbers the moves work.
2. **Time-out (l. 682).** `select()` writes the time left into the stored time-out.
3. **Signals (l. 697-699).** `continue` in a do-while goes to its condition: an
   interrupted `read()` leaves the loop instead of being tried again.
4. **Load event (l. 1133).** After a `Navegate` that timed out, the next one takes
   the first page's load event for its own. One conversion navigates once, with a manager
   of its own, so `HtmlToImage` and `HtmlToPdf` are not affected: in both ports
   `NavegateLoadsItsPage` holds of their conversions, checked in `ConvertFaults` and
   `NodeConvert` and proved (section 4).

Other behaviours met on the way that contradict no line of the repository and are
therefore in the models and in the list of hazards, not among the findings: a `Launch` whose
child ended early with status 0 or by a signal returns true and leaves its descriptors
-1; a `Launch` that fails at the second `pipe()` or at `fork()` keeps what it had opened;
in the usual case (`fd3` is 3 and 4, `fd4` is 5 and 6) the test of `fd3[1]` keeps
descriptor 6 open in the browser besides 4; a
disk that is full goes unnoticed; the death of the browser between two commands ends the
program; `Exit` does not clear `m_MessageQueue`, so a manager launched a second
time can read the messages of its first browser (no caller in the repository
does that, and `ReplyIsForCommand` speaks of the current browser's messages only); after
a signal, a `write()` that took part of a command may be followed by a time-out
and leave half a command in the pipe (`CommandsWhole` is checked without signals,
`CommandsAsReported` with them); on Windows a failed `Launch` keeps the handles of the pipes it
made, and `Exit` never closes those of the process and its thread.

Seen and left out, because no model can show it: `PathFileExitstW` (l. 235) is not a
function of Windows, so that part does not compile as it stands, and is modelled as meant; the
comments at l. 250-251 call handles not inheritable that `&sa` makes inheritable; the
node port closes descriptors that libuv still owns (`ConvertHtmlModule.js`:39).

## 4. Proofs

Every theorem holds for all values of the constants that the named assumptions of the
modules admit; these are typing of the parameters and bounds, except for the two mentioned
below.

**`LaunchLinux_proofs`**, for descriptor tables of any size with at least 0 to 4
(`FdAssumption`), any initial tables (`TablesAssumption`), any number of launches and any
failures (`LaunchAssumption`). `TypeCorrect`, `ChildWiring`, `FilesUntouched`, `ParentEnds`,
`LaunchUndone`, `FailureUsesUp` prove `TypeOK`, `WiredUnlessInTheWay`,
`ProgramFilesUntouched`, `ConnectedEnds`, `LaunchIsUndone`, `FailedLaunchKeeps`.
None of the properties is inductive. `Inv` adds what the parent holds at
each place (`ParentInv`: its ends are those of before and the ones of this launch that
are open there) and what the child's table has at each of its places (`ChildInv`,
which follows the two moves and the two closes). Both rest on `PipeProperties`: the
two descriptors of `pipe()` were free, differ, and the first is the lower one, which
`LowestProperties` derives from the well-foundedness of the naturals. What a failed launch
keeps (`FailureKeeps`) follows from `ParentInv`, step by step of `Launch`.

**`CDPManager_proofs`**, for any pages, tabs, sessions, numbers of calls, launches and
events, and any failures (`NoneAssumption`, `BoundAssumption`, `FaultAssumption`).

- `TypeCorrect` proves `TypeOK`. It is more than
  typing: what `Navegate` stores as tab or session comes out of a message, so it needs
  that an answer that passed `Wanted` and `HasResult` carries a value of the right kind.
- `AnswersMatch` proves `ReplyIsForCommand`.
- `Inv` adds `LinkInv` (what the pipe's descriptors say of the browser) and `TrafficInv`:
  every command and message on its way has a number not above `m_ID`, and a
  value that fits its method. Lemmas state what taking, dropping, cutting and appending
  do to the messages of a sequence; one lemma for each operation of the pipe
  (`ReadPreserves`, `SendPreserves`) is used by every client action, and one for each way
  the browser speaks (`AnswerPreserves`, `BrowserSendsPreserves`) by every browser action.
- `SessionMatches` proves `SessionOfTarget`. The difficulty is `m_MessageQueue`, which
  outlives its browser while `m_ID` starts again from 0, so an old answer may have the
  number of a new command. `SessionInv` says that all messages in the queue are of one
  browser and all others of the running one (`OneBrowser`); that a `createTarget` is answered
  once (`AnsweredOnce`); that a tab named by an answer has been made, and is closed if its
  browser is not the current one (`TabsOfAnswers`); and, the decisive part, that no browser leaves
  behind both the answer to a `createTarget` and the one to the attach command after it
  (`AttachFollows`). A `Navegate` that takes an old answer thus names a closed tab, its
  attach command is refused, and members and attachment cannot come apart.

**`ConvertHtmlModule_proofs`**, for any sequence of conversions (`JobsAssumption`).
`ConvertTypeCorrect`, `ConversionEndsBrowser`, `FilesCorrect`, `ConversionLoadsItsPage`,
`ConversionsKept` prove `ConvertTypeOK`, `BrowserEnded`, `FilesShowLoadedPages`,
`NavegateLoadsItsPage` and `ImplementsConversions`.

- `ConvertInv` is the manager's two invariants, where the manager is at each stage
  (`StageInv`), and the life of the one page in three parts: before the command
  `Page.navigate` no page loads (`BeforeLoad`); then only the one asked for does, and the
  load event is its own (`WhileLoading`); after it the tab of
  `m_SessionID` shows the loaded page and so does every capture on its way
  (`WhileCapturing`). That a conversion opens one page with a manager of its own is what makes
  `NavegateLoadsItsPage` true here and false of the manager alone (run `ManagerReuse`).
- `OwnMessages` says that everything on its way is of the running browser, since a conversion's
  queue goes with its manager. It excludes a capture in the other format, an answer that
  passes `HasResult` when its number is that of the command awaited.
- The refinement adds `DiskInv`: the file of the current conversion is there, whole or in part, only when the
  conversion has nothing left but to return true, and those of later ones are not. Each
  step then maps to `Save`, `Succeed`, `Fail`, `SucceedWithoutFile` with a failing disk, or
  nothing.
- Two assumptions are not typing. `PathsDiffer` is a hypothesis of `ConversionsKept` and
  `NodePromiseKept`: with two conversions into one file the refinement mapping could not tell whose capture is
  there. `CaptureAssumption` says that a file written to its end differs from one that is not there or
  there in part, which TLC's model values do anyway.

The second half of the module is about the node port: `NodeAnswersMatch`,
`NodeEndsBrowser`, `NodeLoadsItsPage`, `NodePromiseKept` prove `ReplyIsForCommand`,
`BrowserEnded`, `NavegateLoadsItsPage`, `NodeKeepsPromise`. `NodeNextIs` shows that a step of
the port is a step of `ConvertHtmlModule`, for which the invariant is known to hold on, or one of
four kinds of its own (`NodeStep`): its launch, a command that is not waited for, a call
given up, a save that failed. `NodeInv` adds `Fresh`: everything on its
way is of the last browser and whole. Since the port does report a failed save, a successful
return implies the whole file (`Reported`), which excludes `SucceedWithoutFile`.

**`Base64_proofs`**, for inputs of any length: `TypeCorrect` proves `TypeOK` (the index
stays in the array of four, the results are bytes) and `DecoderIsRight` proves
`DecodesPrefix`. No induction over the text is needed: the state holds all that
the bytes so far depend on. `GroupsInv` says that full groups have become three bytes each
and that the array holds the rest; `BytesInv` that each byte so far is the one the stream of bits
has there. The lemmas before them are arithmetic on six and eight bits.

**`SequenceLemmas`, `CDPPipes_proofs`, `CDPPipesChannel_proofs`**, for messages and
commands of any number and sizes, any buffer, pipe and settings, all three ports and every fault.
`PipesTypeCorrect`, `NeverGlued`, `LinuxCommandsWhole`, `WritesReported`,
`PipesImplementChannel` prove `TypeOK`, `MessagesNeverGlued`, `CommandsWhole`,
`CommandsAsReported` and `ImplementsChannel`.

- *Folds and the stream.* `Strings` and `Stream` are folds of the community modules. The
  library's induction rule cannot be instantiated here, so `SequenceLemmas` derives what
  is needed from the least element of a non-empty set of numbers (`LeastElement`, `Induction`): a
  property of all numbers, or of all sequences (`BytesInduction`), is a set. With it `CDPPipes_proofs` shows that a fold's
  recursive function exists and what appending a byte, a string or a message does to
  the result. `StreamLayout` says where in the stream the NULs are; `StringsOfPart` and
  `NodeStringsOfPart` which messages and which beginning or end of one a part of it splits
  into.
- *Reading.* `PipeInv`: `byteBuf` and the kernel pipe are adjacent parts of the browser's stream
  (`BytesOK`), a `Read` looks into the pipe with an empty queue (`QueueOK`), what the node port
  holds begins with a message (`NodeOK`), and everything returned or queued is the end of
  a message each, in order, all of them before the bytes still to be split (`PiecesOK`).
  `NeverGlued` is the last part of it.
- *Writing.* `WholeInv` for Linux without signals: between calls the browser was sent whole
  commands. `ReportsInv` for all: there is a number of bytes for each command, all of
  them where `Write` returned true, such that what was sent is these beginnings one after the
  other, and `writeBuf` is the rest of the last.
- *The channel.* `ChannelInv` adds what a place in `Read` says of the last byte read.
  `SplitAtEnd`: a part that ends at the end of a message splits independently of what
  follows, so cutting `byteBuf` at a NUL changes nothing in the channel, and only the four
  steps that throw bytes away lose something (`StepForgets` and its relatives). Each
  remaining step is `Send`, `Recv`, an end, or nothing. Steps with signals are exempt in
  `ImplementsChannel` itself.

**`MainSocket_proofs`**, for all widths of bytes and length fields, all sizes of messages and of the
buffer, every way of TCP to cut the stream, with and without a browser that closes.
`SocketTypeCorrect`, `AnyPieceIsRead`, `CommandsAreUnderstood`, `CommandsInStep` prove `TypeOK`,
`PiecesOfFrames`, `BrowserUnderstands` and `NextCommandInStep`.

- *One frame.* `Sound` says of a parser what its state makes of its fields; every byte keeps
  it (`TakeStartIs` to `TakeBodyIs`). `Execute` of data that grows at its end is one more
  `TakeByte` (`AfterStep`), and induction over the bytes follows a frame through its two fixed
  bytes, its length, its mask and its body, in all three forms, masked and not: the length that is read
  is the one whose digits were written, digit by digit (`DivideTwice`).
  `CreateWebSocketBuffer` is such a frame because `CalcFrameSize` is its length, which gives
  `BrowserUnderstands`; `PiecesOfFrames` adds the frame that the data ends in.
- *What a rest is taken for.* `NextCommandInStep` is not inductive, and whether it holds hangs on what
  the sample's misreadings can look like: a short `recv()` counts as the end of an answer, so that the
  next answer may begin with the rest of the last. `Safe` says of a
  parser that it cannot give the expected payload any more: it is not at the beginning of a frame and
  too few bytes are left for a body of that size, or its first body is already too
  short; `Other`, that the first body begins with a byte of another message. Both are kept by
  every byte (`SafeRun`, `OtherRun`). The rest of the handshake in front of the targets' frame, or the end of the
  session's frame without its beginning, reaches one of them within its first
  bytes (`BehindOneByte`, `BehindMoreBytes`, `SessionInStep`).
- *The stream.* `SocketInv` is `Typed`, `StreamInv` and `SentInv`. `Flow` is `byteBuf`, the
  kernel's buffer and what is on its way, and each stage has its stream (`OnWire`), of which a browser
  that closes may have cut off the end (`Rest`): the targets' frame behind any rest of the
  handshake, which nobody looks at; both frames of the attach answer; any end of the
  second one when the first read found one body; the capture's frame. That the stream is as short as
  this after a command is what `TargetsInStep`, `AttachedInStep` and `SessionInStep` show: the bodies the
  sample asks for come out only when the stream of their stage has been read to its last byte, or, where one
  body is taken for the event, into the session's frame. `SentInv` says that the bytes sent are
  frames around the commands of this stage.

**Only model-checked:**

- liveness: `Terminates`, `AllConverted`, `NodeTerminates`, `ReadReturns`, `WriteReturns`,
  `SavesOrWaits`. The prover has no rule for `ENABLED`, hence none for fairness.
- that the four findings' properties fail, which is what their runs show.

Every invariant and every action property that a passing run checks, and each of the three
refinements, is stated by a theorem.

## 5. Plan

Done: the modules of section 2 and the theorems of section 4. What could be added:

1. Messages of the web-socket sample with characters outside ASCII, whose bytes, read as a
   frame's header, announce a mask or an extended length.
2. The safety part of the liveness properties, for instance that a `Read` with a time-out makes no
   more steps than its time-out has seconds and its pipe bytes, which a proof could reach.

## 6. Not modelled, and why

- **The vendored JSON library**: two copies of `nlohmann/json.hpp` are 49,530 of the
  repository's 54 thousand implementation lines. The program uses it to parse a message and to
  look at four members; the models have messages with these members. This is why the
  definitions here stand for a small share of all lines although they cover most
  of the programs' own logic.
- **`websocket_parser.c`**: vendored, its include in `mainSocket.cpp` commented out; `getFrameBodyVector` was made from it and is
  modelled.
- **Boost, libwebsockets and curl samples, `node/app0*.js`**: straight-line code whose
  frames, reads and callbacks are a library's. (`mainLibWebSockets.cpp` registers its requests
  with the protocol whose callback only prints, so no command is ever sent and its
  first loop does not end.)
- **Python scripts**: the commands and waits of the node port over a library's web socket,
  in an `async` function that awaits each step before the next; there is nothing concurrent
  in them that the node port lacks.
- **C++ pipe samples**: one command, one read; the Linux one moves its descriptors as
  `LaunchLinux` does.
- **Parts of modelled components**: `_Waits` (nothing calls it), the browser path and
  its setter, `main.cpp`'s configuration file and the code it disables with `#if 0`,
  the JSON parsing that only Debug builds do while they log, what libuv does with the node port's descriptors meanwhile, failing `socket()` and `send()`
  calls of the web-socket sample, and its copy of the base64 decoder, which is the one of
  `Base64`.
