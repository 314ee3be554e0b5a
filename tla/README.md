# Verification of the AiPi-V1 (BW20) voice firmware

The repository is a fork of the Realtek Ameba RTOS SDK (`component/`, `cmake/`, `tools/`) that carries one
program of its own, the voice assistant in `example/qwen/`: it drives a VB6824 voice chip over a UART, upgrades
that chip's firmware, connects to the Qwen/Bailian cloud over a web socket, and plays and records speech. This
project models that program and the parts of the SDK whose behaviour decides whether it is correct: the UART DMA
send, the message buffer of FreeRTOS and the web-socket client (its sessions and its receiving). All source paths below are relative to `src/`.

## 1. Inventory

| Component | Source | State | Operations | Talks to |
|---|---|---|---|---|
| Transmit path | `example/qwen/vb6824.c`, `component/soc/amebadplus/hal/src/serial_api.c` | one static packet, the driver's transmit flag, one GDMA descriptor, a binary completion semaphore | `vb6824_send`, `jl_uart_send_packet`, `serial_send_stream_dma`, completion interrupt | chip (DMA); called by main, player, event callback and upgrade task |
| Receive path | `vb6824.c`, FreeRTOS `stream_buffer.c` | parser statics (status, length, checksums, union buffer), 512-byte message buffer, `f_is_ota_mode` | UART interrupt, `vb6824_recv_routine`, `vb6824_on_frame_recv` | callbacks of the dialog; a loopback socket of the upgrade task |
| Chip upgrade | `vb6824.c` | loop locals, `f_is_ota_mode`, UART rate, exit semaphore | `jl_ota_routine`, `jl_ota_request_update_info`, `jl_do_ota_update`, `vb6824_wait_for_ota_exited` | two HTTP servers, the chip, the main task |
| Voice dialog | `example_qwen.c` | one-slot sound queue, player semaphore, completion semaphore, queue set | `vb6824_on_report_asr`, `mmi_event_callback`, `player_routine`, `AT+CHAT`, `AT+TTS`, `AT+SPEECHPAUSE` | transmit path, cloud SDK |
| Web-socket sessions | `example_qwen.c`, `component/network/websocket` | session context, send queues, receive buffer, discard counters, fragments received, socket | loop of `qwen_sdk_init_routine`, `mmi_wss_connect`, `ws_poll`, `ws_dispatchBinary` (reassembly and discarding included), `ws_sendData`, `ws_close`, `wss_client_close` | server, cloud SDK |
| Settings store | `config.c`, `hal.c`, `ntp.c` | `environ`, one file per variable, the SDK's storage file | `load_all_env`, `save_all_env`, `AT+ENV`, `AT+LINKKEYCONFIG`, `util_storage_*` | LittleFS, boot |
| Boot and license | `example_qwen.c`, `ntp.c`, `ota.c` | progress of the main task, time flag, one-slot version queue | `qwen_sdk_init_routine`, `vb6824_get_version`, `on_sntp_time_updated`, `qwen_license_sdk_init`, `device_register`, `device_login` | all of the above |
| Platform layer | `hal.c` | storage file | wrappers for the cloud SDK | cloud SDK |
| Cloud SDK | `include/`, `libs/` | unknown (binary) | `c_mmi_*`, `c_license_*` | environment of the models |
| Vendor SDK | `component/**` | | | environment, where used |

Four tasks of equal priority (main, player, receive, upgrade), two interrupts (UART receive, GDMA completion) and
the AT service share this state. There is no mutex on the transmit path and none around `f_is_ota_mode`.

What is hard here:

- **interleavings**: senders on one static packet, one flag and one semaphore; a mode flag that changes between two
  bytes of a frame, or between a test and the receive it selects; callbacks that block on a one-slot queue;
- **failure**: HAL_BUSY that is not looked at, no free DMA channel, lost and garbled bytes, a full message buffer, a
  chip that reports failure or says nothing, servers that answer anything or nothing at all, a connection that breaks at any call;
- **persistence**: settings written file by file with power failing in between, files that cannot be opened, written or erased and
  an OK all the same, and a registration that belongs to credentials which may have changed;
- **streams**: frames cut anywhere by TLS records and reads, fragments with other frames between them, messages longer than the
  buffer, memory that runs out half-way;
- **release**: what a session that ended in one of a dozen ways leaves allocated.

What makes each component correct: a send that returns has sent its own frame, and every send returns (transmit);
whole frames are delivered exactly and nothing is written outside the buffer whatever arrives (receive); the main
task goes on only when the chip is done, and does go on (upgrade); no sound and no start of speech is lost, nobody
waits for ever (dialog); a closed session is not used, everything is released, and the handler gets
the server's messages exactly (web socket); the dialog begins, after the update is over (boot); what was answered OK is
on file, and a registration matches its credentials (settings). `PROJECT.json` lists the hazards line by line.

## 2. Modules

| Module | Models | Composition |
|---|---|---|
| `Vb6824Tx` | transmit path | |
| `FrameLink` | abstract: a synchronous reliable link | |
| `Vb6824TxLink` | refinement of `FrameLink` by `Vb6824Tx` | `INSTANCE FrameLink WITH ...` |
| `SharedLink` | abstract: the same path as several tasks meet it | used by `Dialog` and `Boot` (`INSTANCE`) |
| `Vb6824TxShared` | refinement of `SharedLink` by `Vb6824Tx` | `INSTANCE SharedLink WITH ...` |
| `Vb6824TxProofs` | theorems about `Vb6824Tx`, and its two refinements | extends both refinement modules |
| `Vb6824Fsm`, `Vb6824FsmProofs` | receive interrupt, byte by byte; theorems | |
| `Vb6824Rx`, `Vb6824RxProofs` | interrupt by frame, message buffer, receive task; theorems | uses what `Vb6824Fsm` shows of a frame cut by the switch |
| `JlOta` | upgrade task, main task's wait | |
| `Upgrade`, `UpgradeProofs` | upgrade task and a chip that follows the protocol; theorems about both | extends `JlOta`; the receive path as `Vb6824Rx` shows it |
| `Dialog`, `DialogProofs` | receive task's callbacks, event callback, player; theorems | their sends over `SharedLink` |
| `Boot`, `BootProofs` | main, upgrade, receive and player task until the dialog begins; theorems | their sends over `SharedLink` |
| `WsSession` | main task's session loop over the client | |
| `WsReceive` | `ws_poll`'s reading and `ws_dispatchBinary`, byte positions in a stream of frames | |
| `WsContext` | the `readyState` both keep | extended by both |
| `WsProofs` | theorems about both | extends both |
| `EnvStore`, `EnvStoreProofs` | AT service, boot, files, registration; theorems | |
| `MC*` | instances for TLC | |

### Vb6824Tx
A frame has three parts (header, data, checksum), written and read separately; a message is the pair (task, number), so
a mixed frame is one whose parts differ. `FillHeader`, `FillData`, `FillChecksum` are the memcpys of `vb6824_send` into
the static packet, `FillJlPacket` builds in the caller's own memory. `SendBusy`/`SendIdle` are the test of the driver's
flag and `StartDma*` the later setting of it: two tasks may pass the test. `DmaRead` reads a part at a time: either what
the cache clean wrote at the start or what the CPU has written since. `DmaComplete` clears the flag and gives the binary
semaphore; a give to a full one is counted in `lostGives`, a refused send in `rejected` (history). After two transfers
have overlapped, the outcome depends on which channel the interrupt handler acknowledges; behaviours are followed up to
that point (`overlapped`).

### SharedLink, Vb6824TxShared
What remains of the above for a caller: a send is begun, is started, refused or overlaps another, and returns with the one token, whoever's
it is. `stranded` counts refused sends and lost gives, each of which costs some task its return for good. `Vb6824TxShared` maps `Vb6824Tx`
to it (a task filling its frame is `sending`); that is checked by `tx_shared` and proved for all instances, so `Dialog` and `Boot` may use
three places per task instead of frames, buffers and DMA. Their liveness properties say "unless the link collided": a token that was lost
releases nobody.

### Vb6824Fsm
Both parsers with their shared static state over a line that loses and garbles bytes: headers, lengths, sum and CRC16 are
computed as the code computes them (the CRC against its published check value, `CrcIsXModem`). The sizes 500 and 16 are
constants (3 and 2 in the run), so that the boundary cases of the length tests are within reach. `^` and `|` are written out over
the bits of two bytes, and sum and CRC are recursive functions, so that the module can be proved about.

### Vb6824Rx
One action when a frame begins and one when it ends; the parser that saw the beginning is remembered, and a frame cut by the
mode switch may turn into a message (`CutFrameEnds`), as `Vb6824Fsm` shows it can. The message buffer counts bytes with
FreeRTOS' 4-byte prefix; the task's test and its receive are separate steps. A message the voice branch takes for the wake word leads into
`vb6824_on_report_asr`, which waits without limit for the player: it returns (`CallbackReturns`), or the player is stranded in a collided send
and it never does (`CallbackHangs`). `stored` (history) lists the upgrade packets that were put into the buffer, `forwarded` and `swallowed`
where they went.

### JlOta
`pc` follows `jl_ota_routine` through version request, update request, decision, connection, mode switch, offset and the
poll loop. Servers answer anything the code tells apart (a missing answer, `success` as true, 1 or false, `data` with the
fields the code reads, with those its comment names, or none). The chip sends any packet, with right or wrong length, at
any time in upgrade mode. Both connections are made with timeout 0, for which the HTTP client sets no receive timeout, so every place where the
task waits for a server may be its last (`ServerSilent`); and so may every send, when its completion went to a task it collided with
(`SendStranded`).

### Upgrade
`JlOta` lets the chip send anything at any time; here the chip is the one of `jl_ota_protocol.pdf`: the application hears `REQUEST_UPGRADE`
at the voice rate and goes into the loader; the loader asks for what its script says, repeats what was not answered, announces itself,
gives up or stops with a code, and restarts once its STOP is answered. Words get lost in both directions, servers, HTTP connections
and memory fail, the chip restarts (all bounded), and the receive path may be wedged when the mode changes. `missed` records that the
host upgrades a chip that is not in its loader.

### Boot
Four tasks from power-on: main polls for the network, sends STOP_RECORD and the volume, polls for the time and waits for the upgrade task's
exit; the upgrade task asks the chip's version up to `MaxTries` times and then makes its update; the receive task posts version strings
into the one-slot queue, discarding what is there, and has wake words answered; the player plays. An update that is offered begins with the connection
to the firmware server (`ConnectServer`): if that fails, the update server is asked again before the chip was told anything, and main goes on
waiting. A server may accept and keep silent (`ServerSilent`). Strings are numbered as they are allocated,
`freed` counts how often each was freed, `stray` the voice frames that go out after the switch to upgrade mode. Nothing orders main and
upgrade task: `ota_set_wifi_connected` gives a semaphore that only `ota_wait_for_wifi_connection` takes, which nobody calls, so it is left out.

### WsReceive
The stream is a sequence of frames (opcode, FIN, length of header and payload) laid end to end, and `rxbuf` is the interval of its positions
before `rpos`. The TLS layer takes whole records off the socket (`tpos`), which is all that `select` sees. `Read` copies or, while
a long message is being discarded, counts; `ReadEnds` is the read of 0 bytes that ends the loop. Dispatching goes frame by frame:
`Incomplete`, `DiscardBegins`, `DiscardWhole`, `Collect` (fragments), `Control`, and `CollectFails` when there is no memory. `CollectFaults` is
the copy from NULL that may follow, `Misparse` a header looked for in the middle of a frame; neither is followed further. Frames
are unmasked, and a message is begun when those before it have ended (`InOrder`), as a server must send them. Sending and closing are in `WsSession`.

### Dialog
Sounds are numbered as they are queued. The queue set is a sequence of handles that a post extends in the same critical
section as the member (FreeRTOS does it so) and `xQueueSelectFromSet` shortens; the receive that follows is a step of its own.
`sdk` holds what `c_mmi_get_state` tells apart; its events are taken in any order that state allows, since the SDK is binary.
The sends of player and callback go over one `SharedLink`; a piece of speech is counted in parts of the 320 bytes of a send, so that
a rest shorter than a send exists. `cut` records that something ended a speech before its time, `late` and `stray` what was sent or handed over
on a state read before. The good-bye words call `c_mmi_speech_end`, which `c_mmi_msg.h:172` gives no
effect in tap mode; they are left out.

### WsSession
`main` is the place of the main task in its loop: `wait`, `create`, `connect`, `poll`, `dispatch`, `drain`, `check`, `close`;
`fault` after the receive buffer was used when freed, `stopped` after a `create_wsclient` that failed half-way, which closes the client with a
mutex it has not made yet (`CreateFaults`; not followed further). `contexts`, `sockets` and `bufferSets` count what is allocated and open in
all; a buffer set stands for rxbuf, txbuf, send buffers, queues, mutexes and TLS context of a session, which `wss_client_close` releases together
and nothing else does: `EndSession` (`ws_close`, `ws_free`) frees the context and leaves what is still open. `refused` and `aborted` (history)
are what the accounts expect to be left. A poll brings any sequence of data, PING, CLOSE and unexpected messages.

### EnvStore
`env` is `environ`, `file` what is on flash, `registration` the credentials the SDK's storage file was made for. A save opens
(`SaveOpen`) and writes (`SaveWrite`) file by file; LittleFS keeps the old content until the file is closed, and a new file
exists empty from the open. A file that cannot be opened, or a value that is too long, is skipped (`SaveSkips`); a failing `fwrite` leaves the old
content, since LittleFS does not commit a file that has met an error (`SaveWriteFails`). The command answers OK in each of these cases
(`AnswerOk`), and after the removal of a variable, whose file stays. The terminator of a value of the maximal length is written behind
the array (`config.c:85`); what it may hit there is the name of the file, with which `fopen` fails: an outcome `SaveSkips` has. `AT+LINKKEYCONFIG` erases the
SDK's storage or, unnoticed, fails to. `Crash` may come between any two steps. History: `answered` is what the last OK said of each variable,
`unsaved` the variables it was said of without a file written, `promised` what each file may hold by the answers given so far; `bypassed` records that
since the last erasing credentials were changed past a registration (by `AT+ENV`, with an erasing that failed, while the main task was registering, or by
a variable that was not saved).

## 3. Runs

| Run | Shows | Bounds, and why they are enough |
|---|---|---|
| `tx_shared` | waiting tasks and completions balance; no completion outlives its send; callers see a `SharedLink` | all three senders, one send each, channels may run out: refusal, lost give and overlap all occur; proved for all values |
| `tx_single` | alone on the line, a task has a `FrameLink`; each call returns, after its frame is out | four sends of both kinds: any two consecutive kinds; the safety part is proved for any number of sends |
| `ota` | main released only after an answered STOP; one protocol at a time; a boot without update goes on unless a server keeps silent or a send is stranded | loop constants of the code; two updates, three packets, two socket slots: a packet of one attempt may meet the next |
| `upgrade` | main not released in the middle; the outcome is the chip's own; host and chip in step unless upgraded; an upgrade whose request was heard ends unless a call hangs | START, LEN, READ, STOP; three faults, one restart, so that an attempt fails, its packets meet the next and that one fails again; four attempts are all that three faults allow; the safety part is proved for every script and any number of faults |
| `rx` | buffer never overfull; at most one packet swallowed; the others complete and in order; packets move unless wedged or the callback hangs | 64 bytes hold one long and one short frame, five frames: full buffer, cut frame, wedge; the safety part is proved for all sizes and frames |
| `fsm` | exact delivery, phantoms only from a cut frame, writes in bounds | three frames, one error at any byte, noise from header bytes and boundary lengths; payloads that look like headers and zeros (which meet any CRC) |
| `dialog` | set and members agree; early start only by a left-over completion; at most one late piece and one late frame; sounds played, wake words answered, speech heard to its tail | three sounds, two wake words, two speeches, two parts to a send: queue full, set full, left-over token, a tail, collisions; the safety part is proved for all values |
| `boot` | strings freed once; few stray frames; boot completes, with the exceptions of section 5 | two version requests, so that two answers meet in the queue while the task receives; two wake words: one in the buffer when the mode changes; the safety part is proved for all values |
| `env` | files as promised; registration matches; what was answered OK is back after a boot; each with its exceptions | two credentials (enough to mix), one other variable, two values, a value at and one above the limit, four lists of credentials that change one, both, or give a value not saved or not loaded, two commands, two power failures; proved for all values |
| `ws` | only live sessions polled; leftovers exactly accounted for; closing ends | the code's queue size 3; three messages per poll, four sessions; the safety part is proved for all values, and so is that the queues never block |
| `wsrecv` | in step unless a read straddles the end of a discard; messages delivered exactly; long ones discarded; room to read; all handled | `rxbuf` of 4 + 6 bytes, reads of at most 6, records of 1, 5 and 12 bytes: frames cut in header and payload, several in one read; payloads short, as long as allowed, one longer, longer than `rxbuf`; three or four frames; the safety part is proved for every stream |
| `ws_ping` (violation) | dispatching in a freed buffer | as `ws` |

The type invariant of a module is checked together with its first structural invariant (`RxInv`, `FsmInv`, `DialogInv`, `EnvInv`, `BootInv`,
`ReceiveInv`, `UpgradeInv`). All but the types of the received messages of `WsSession` are proved as well.

Deadlock checking is off in all runs: every behaviour ends when its bounded number of inputs has been used up, and a
system at rest is legitimate. That nobody is stuck is stated by the liveness properties instead.

**Fairness.** The tasks have equal priority and FreeRTOS time-slices them, so a ready task takes its next step: weak fairness on
a task's steps. A started DMA transfer completes. Nothing is assumed of wake words, events of
the SDK, servers, or a task's decision to begin a send. Where a call of a task may never return, that is a step of its own and the task's last
(`ServerSilent`, `SendStranded`, `CallbackHangs`): fairness of the task says that it comes to such a step or goes on, and the properties name it
as an exception. What a property needs of the environment is stated in the module: in `Boot` the
network comes up and a time server answers (main waits for both without limit; that the update server, asked again, answers is not assumed), in `Upgrade` a loader repeats what was not answered (the
protocol says so), in `WsReceive` what the server has sent arrives: strong fairness on the record, since a read that comes back empty
and a new poll take turns. In `Dialog` the two tasks that contend for the sound queue need
no strong fairness because the number of sounds is bounded.

## 4. Proofs

29 of the 40 properties the runs check, every invariant among them, are theorems for every value of the constants. Each inductive invariant below was checked by TLC on the
instance of its run before it was proved.

**Assumptions.** The named ASSUMEs of the modules, evaluated by TLC in every run. Most say that sets are finite and bounds are natural
numbers. The others:

- `EnvAssumption` (`EnvStore`): "no file", "empty file", a value of exactly and one of more than the limit are different things.
- `StreamsAssumption` (`WsReceive`): a header has at least two bytes and fits the slack of `rxbuf`, sizes of reads and records are not zero;
  and `InOrder`, which only `MessagesWhole` uses: a TEXT or BINARY frame comes when every data frame before it belongs to a message that has ended
  (RFC 6455 5.4). Without it a long message thrown away between two fragments would leave two messages looking like one.
- `FsmAssumption` (`Vb6824Fsm`): what the chip sends are bytes and fits the union, whose size is a 16-bit number; the upgrade parser's data is not
  longer than the voice parser's (16 and 500 in the code).
- `UpgradeAssumption` (`Upgrade`): the chip's script holds opcodes of the protocol and STOP comes last.
- `SingleSender` is no ASSUME of the specification but a hypothesis of the two theorems that need it.

**`Vb6824TxProofs`**, for every finite set of tasks and every number of sends. `TypeCorrect`: the semaphore is binary. It is
inductive with `Numbered` (a task inside a send has a message number, so messages stay in their set). `Accounting`:
`TokenAccounting` is inductive given types, along lemmas on how the cardinality of the waiting set changes (one more, one less,
the same). `StaleTokenFree`: a token has somebody waiting for it; it follows from the accounting until two transfers overlap,
and no step is taken after that. `SharedRefinement`: the transmit path implements `SharedLink`. Of its steps, the first of a send maps to
`Begin`, the driver's three ways to `Start`, `Refuse` and `Overlap`, the completion to `Complete`, the take to `Return`, and filling, testing the
flag and reading to none. It needs `FlagInv`: the driver's flag is set only while a transfer runs or after no channel was found; without it a
refusal on an idle line could not be excluded.
For a task that is alone on the line, `LinkInv` says how far it is with its current frame: the frames on the wire are its own in order (`InOrder`), their
number is that of its sends or one less, depending on its place, flag and token are set only while it waits (`Progress`), the parts of the packet it
has written hold its frame (`Written`), and so does all that the running transfer has read and will read (`Transfer`). The last two depend on each
other: the DMA may read the packet as it is now, and it holds the frame because its owner does not return before the completion. From it
`AloneReturnMeansSent`, and `AloneIsSafeLink`, the refinement of `FrameLink` without its fairness. Neither needs DMA channels to be
there: a send without a channel waits for ever and has promised nothing.

**`UpgradeProofs`**, for all loop constants and bounds. About `JlOta`: `TypeCorrect` rests on `TriesInv` (fewer than MaxTries requests
before the loop ends), `OneProtocol` on `ProtocolInv` (rate and mode change together and stay changed through the poll loop), `Released` on
`ReleaseInv` (wherever the outer loop may be left, no update was begun or the latest answered a STOP; the property alone is not inductive, because it
says nothing before the main task runs). A step of the composition is a step of the host's task with the chip's, so these carry over to
`Upgrade`. There `BegunInv` (what is changed was changed by an attempt), `LoaderInv` (a chip in its loader means a host in upgrade mode, and a verdict
one that is at its STOP) and `StopInv` are added. `StopInv` is the heart: every STOP on its way, of whatever attempt, carries the
code of the chip's verdict. From it `HeldDuringUpgrade`, `TrueOutcome` and `InStep`.

**`Vb6824RxProofs`**, for every buffer size and set of frames. `BufferHolds` needs what the bytes used become when a message is
appended or taken from the front. They are a sum over a sequence, see below. `OnePacketAtMost` rests on `SwallowInv` and `AfterSwitch`: a packet can be
swallowed only by the receive that was selected before the switch, and once it was, the task is not in the voice branch again. `InOrder` is inductive
with these: a packet can be swallowed only while none was forwarded, so that taking it from the front of the buffer keeps the order. It needs what
the subsequence of packets becomes when a message is appended or taken, again by induction over the sequence.

**`DialogProofs`**, for any number of sounds, wake words and speeches. `SetAgrees` is inductive with `LinkInUse` (who sends is where it sends) and
the lemmas on appending to and taking from a sequence of distinct handles. `EarlyByLeftover` needs `SoundsAccounted` (a sound
queued waits, is being played or has been played) and `OwnSoundFirst`: without a left-over, none but its own sound can be the next to finish.
`OneTooLate` needs `OneInHand`: a piece in hand after the state has changed is the only one.

**`BootProofs`**, for any number of version requests and wake words. `StringsAccounted` goes through `HeapView`, which says the same of
each owner (queue, receive task, upgrade task): what it holds is allocated, not freed, and held by no other; that strings
do not run out needs `RequestsAccounted` (no more strings than reports, no more reports than requests). `StrayFramesBounded` rests on `StrayBounded`: the frames
gone astray are no more than main and the sound have begun by the place they are at, and after the switch the receive task begins no other sound.

**`EnvStoreProofs`**, for all sets of variables and values and any number of commands and power failures. `FilesKeepPromises` is inductive with
`CommandInv` (what a command has still to do), the second part of `PromiseInv` (while a command runs, what is in memory is already among
what the file may hold) and the last part of `AnswerInv` (what a save has done with is on file or unsaved), without which an OK could promise too much. `RegistrationIsForSettings` rests on `MatchInv`: as long as nothing was changed past it, a registration is for what is on
file, and memory is as on file wherever no command is at work. An erasing `AT+LINKKEYCONFIG`
restores it whatever came before. `AnsweredComesBack` is an action property and follows from `AnswerInv`: what was answered is in memory, and on file
unless it is unsaved.

**`WsProofs`**, sessions: for every queue size and any number of sessions and messages. `SessionInv` adds `SessionPhase` (which states the
context can be in at each place of the loop, and that its buffers are there exactly while it is not CLOSED) to `LeftBehind` and
`BuffersFit`; without it an action that closes could not be shown to close something that is open, once. From it `NothingElseLeft`,
`LivePolls`, `QueuesFit`.

**`WsProofs`**, receiving: for every stream of frames and every cut of it. `RoomAndCounters` is inductive with `BufferInv` (nothing is in `rxbuf`
while a message is discarded) and `LengthInv` (no more was collected than has gone by). `HeadersAreHeaders` rests on `AlignInv`: unless a read
straddled, `rxbuf`, or the end of the discard, begins where a frame of the stream begins. `LongOnes` adds to this that a frame collected was one that
fitted. `MessagesWhole` rests on `ExactInv`, which relates what the client holds to the position in the stream: the data frames whose last byte has gone
through `rxbuf` and that were not thrown away (`Done`) are, up to the last one with FIN, the parts of the messages delivered, and after it those in
`receivedData`, in ascending order and with their lengths summed. A discarded frame has begun to leave the buffer (the second part of `ExactInv`), so
the frame at the front is none of them; and while one is being discarded, the reads stay within it unless they straddle. That the parts kept are all
the parts is a fact about the stream alone (`PartsComplete`, from `InOrder`).

**`Vb6824FsmProofs`**, for frames and packets of any length up to the parsers' limits, any number of bytes lost or garbled, and a switch of the mode
between any two bytes. The heart is what a parser knows of the bytes `t` it has taken of a frame: `VoiceReads(p, t)` and `JlReads(p, t)` say what
status, data_len, checksum and buffer are in terms of `t`. `VoiceTakes` and `JlTakes` show that a byte extends `t`, or ends it and leaves a parser that
has read nothing. `HeardInv` says that such a `t` is at the end of the bytes that came over the line (for the upgrade parser: or that the
mode was switched inside a voice frame and this has not ended yet), and `CleanInv` that an undamaged frame under way is `t` followed by the bytes still
to come. `VoiceGenuine` and `JlGenuine`: when a parser reports success, `t` and the byte are the encoding of the message it hands over; `VoiceClean` and
`JlClean`: on the bytes of an encoding it does not give up before the last and then reports success. Both hold for the checksums as computed, of
which the proofs use only that the next value depends on the last and the byte. From these `HeardAlways` (the inductive invariant itself),
`StoresWithinUnion`, `WholeFramesDelivered` and `DeliveredWasSent`. `Fits` is what makes the stores safe across the switch: from status 4 on, data_len is
within the union whichever parser stored it.

**Functions by recursion.** Bytes used in the message buffer, offsets of frames, lengths of messages, sums and CRCs are recursive functions. The
library's induction and recursion theorems take an operator and cannot be instantiated here, so the modules derive what they need from the theorem that
a set of naturals that is not empty has a least element (`WFMin`): induction stated for a set (`SetInduction`), and the existence of the recursive
function as a set of the lengths for which one exists, which contains 0 and is closed under successor.

**Only model-checked.** Liveness: `EverySendReturns`, `CheckEnds`, `PacketsMoveUnlessWedged`, `UpgradeEnds`, `BootCompletes`, `AllHandled`,
`SoundsArePlayed`, `WakeWordAnswered`, `SpeechHeardToTail`, `ClosingEnds` and the fairness part of `ImplementsLink` are out of the prover's reach.
That the CRC is the published one (`CrcIsXModem`) is evaluated on its check value.

## 5. What the checks show

A task alone on the transmit path has a reliable link; shared, the accounting tells exactly what a refused send costs: one task, for ever.
(`EverySendReturns` and `ReturnMeansSent` are about the lone task: what two tasks do to each other is in `TokenAccounting` and `SharedLink`.)
The receive side survives the unsynchronised mode switch with bounded damage: at most one packet swallowed, the others that were stored complete and in
order, no write out of bounds, phantom messages only from a frame cut by the switch; it stops at a long voice frame in front, and
in the callback of a wake word whose sound cannot be played. That a full buffer drops frames is not a property of ours: the chip repeats what matters.

The upgrade task never releases the main task in the middle of an upgrade, not even through packets left over from a failed attempt. The check for an
update ends if the servers refuse, fail or answer anything, and an upgrade whose request the chip heard ends through broken connections, second
attempts and lost packets; but a server that accepts a connection and keeps silent holds the task, and the main task, for ever, and so does a send that
collides with another task's. After an upgrade, host and chip are out of step until the board is reset. The boot reaches the dialog without
network at the update check, without a version, and when the update server refuses or offers nothing. It does not when tasks collide on the link, when
a server keeps silent, and when an update was offered that never gets to its STOP: that its firmware server cannot be reached is
enough, since the check is repeated without end. No version string leaks.

The queue set of the player is used correctly; sounds are played, wake words answered and speech heard to its last 320 bytes, unless two tasks
collide on the link. A web-socket session is never polled when closed. Three kinds of things are left behind, and exactly those: a context per failed
connection; a socket, and the buffers, queues, mutexes and TLS context that belong to it, per session given up while open.
A session the server is closing ends (`ClosingEnds`; the client's own `ws_close` is followed by no poll, and the 30 s a sender may wait for a buffer
are not timed). Messages come out of the receive buffer exactly however they were cut, with the exceptions below.

A setting that was answered OK and written is back after any power failure, unless it has exactly the maximal length; one answered OK and not
written (`fopen` or `fwrite` failed, too long, removed) leaves the file as it was. Credentials changed by an `AT+LINKKEYCONFIG` that could erase
the storage, save all of them and did not meet a registration under way never meet a registration made for others.

## 6. Disagreements found

With a run that TLC ends with a violation; `PROJECT.json` quotes the lines:

1. After a PONG that could not be sent, messages are dispatched from a freed buffer (`ws_ping`).

Without a run of their own. Each is reachable in the model named, and is the exception in a checked property:

2. `vb6824_send` ignores HAL_BUSY and waits for a completion that never comes (`vb6824.c:851`): `EverySendReturns` holds in `tx_single` and TLC
   refutes it with the tasks of `tx_shared`; `stranded` in `SharedLink` counts the cost. With two tasks a send also returns although its frame
   did not go out, or went out mixed with another's (`ReturnMeansSent`).
3. A voice frame longer than 16 bytes in the buffer when the mode changes blocks every upgrade packet (`vb6824.c:343`): the exception of
   `PacketsMoveUnlessWedged`.
4. A value of exactly `MAX_ENV_VALUE_LENGTH` is saved but not loaded (`config.c:36` against `config.c:76`), and OK is answered for variables that were
   skipped or whose file stays (`config.c:76`, `94`, `102`): the exceptions of `AnsweredIsBack`. `util_storage_erase` may fail and nobody looks (`config.c:112`): an
   exception of `RegistrationMatches`.
5. A STOP that reports failure (`jl_ota_protocol.pdf`, page 8) releases the main task as one that reports success (`vb6824.c:517`);
   `OutcomeIsTheChips` says that at least it is the chip's own.
6. An upgrade of a chip that is silent, restarts by itself or missed the request is never given up (`vb6824.c:419`), though KEEPALIVE is there to
   keep the host from timing out (page 9); a second request goes out at the upgrade rate, which the chip's application does not hear
   (`vb6824.c:367`): exceptions of `UpgradeEnds`. So is a server that keeps silent: no receive timeout is set (`vb6824.c:408`, `597`), also one of
   `CheckEnds` and `BootCompletes`.
7. After a completed upgrade the rate and `f_is_ota_mode` stay (`InStepUnlessUpgraded`).
8. The update offer of the comment at `vb6824.c:582` is refused: `success` must be the literal true, and `data` must have `name` and
   `tlsEnabled` (`vb6824.c:743`; `OffersUpdate`).
9. The update check does not wait for the network (`vb6824.c:740`), so a board whose Wi-Fi comes up later than the chip's version boots
   unchecked; an update that does begin may meet main's two voice frames and a sound (`FewStrayFrames`).
10. Speech is started before SPEECH_READY, against `include/c_mmi.h:58` for tap mode (`example_qwen.c:475`; `SpeechStart`).
11. A speech that begins while a sound waits is dropped, and so is the rest of any speech below 320 bytes (`example_qwen.c:453`): the exceptions of
    `SpeechHeardToTail`.
12. A context is leaked per failed connect (`example_qwen.c:237`, against `wsclient_api.c:232`), a socket with its buffers
    per session given up while open (`example_qwen.c:411`); that no more than this is leaked is `LeftBehind`, checked and proved. A
    `create_wsclient` that fails half-way takes a mutex that does not exist (`wsclient_api.c:807`): `CreateFaults`.
13. The read that ends the discarding of a long message drops what it holds of the next (`wsclient_api.c:333`), and the stream is out of step
    for the rest of the session: the exception of `InStepUnlessStraddled`.
14. A payload longer than `max_rx_len` is delivered when `rxbuf` holds it and a byte more (`wsclient_api.c:91`; `LongAreDiscarded`).
15. Out of memory between fragments frees `receivedData` and keeps `wsclient_reallength` (`wsclient_api.c:113`); the next copy is from NULL
    (`CollectFaults`).
16. A full `rxbuf` ends the reading with bytes in the TLS layer that `select` does not see (`wsclient_api.c:315`): the exception `Hidden` of
    `AllHandled`. They are handled when the server sends something more.
17. A read of 0 bytes at the end of the connection is taken for "nothing there" (`wsclient_api.c:317`): a server that just closes is
    noticed only at the next send. Not modelled: the end of the stream is not an event of `WsReceive`.

## 7. Not modelled

- What the GDMA does after two transfers overlapped: it depends on register contents no source line fixes.
- The binary cloud SDK, beyond the calls and events the firmware sees; HTTP, JSON and TLS beyond the outcomes the code tells apart.
- The vendor SDK (Bluetooth, Wi-Fi, USB, lwIP, mbedTLS, file systems, drivers, tools): nearly all of the repository's lines, third-party
  or not used by the program. The program itself is a few thousand lines, and those are what the map covers.
- In `EnvStore`: AT commands while the settings are loaded, a missing VFS region, the query commands. In `WsSession`: the numbering of
  sockets, what follows a fault. In `WsReceive`: masked frames, frames out of step with the stream, the end of the stream. In `JlOta`: the 16-bit length of a READ answer.
- The good-bye words (no effect in the configured mode), sounds and certificates (data).

## 8. Plan

Done, in the order of importance: transmit path with its two abstract links; upgrade task, alone and composed with the chip;
receive path at two levels; dialog over the shared link; settings store; web-socket sessions; boot; web-socket receiving; and the proofs of
section 4. What could be added: that `Upgrade` implements an abstract view of an upgrade for the main task, and an abstract message channel that
`WsReceive` implements, over which a model of the cloud protocol could be put.
