# Verification of the WTX provisioning firmware

TLA+ models of the firmware that provisions a Digi XBee 3 radio from an EFM32
microcontroller, the TLC runs that check them on small instances, and the proofs
that TLAPS checks for every instance. File names and line numbers refer to the
repository; `xbee_provision.c` means `src/app/src/xbee_provision.c` and so on.

## The system

The firmware is bare metal: one super loop (`src/main.c`, `src/app.c`) that calls
the `process` function of one application for ever, and two interrupt callbacks in
the UART driver. Everything else is a state machine advanced a step per pass, with
deadlines compared against the sleep timer. No step blocks.

    console (cli.c)      provisioning (xbee_provision.c)   dump   bridge
        |  start/abort/decide  |                             |       |
        +----------------------+--------- requests ----------+       |
                               v                                     |
                 facade (xbee.c): bring-up, modes, requests, sleep   |
                    |                          |                     |
      Command mode (xbee_cmd_mode.c)   API mode (xbee_api.c)         |
                    |                          | frames (xbee_frame.c)|
                    +-------------+------------+---------------------+
                                  v
                     UART driver (xbee_uart.c)  <- interrupt callbacks
                                  | ring_buffer.c
                                  v
                            the XBee module

| component | state it keeps | operations | hard behaviour | what makes it correct |
|---|---|---|---|---|
| provisioning engine `xbee_provision.c` | `state`, `table_index`, `audit_mismatch`, `accepted[]`, `decision`, `abort_requested`, one request object | `start`, `abort`, `decide`, `process` | an abort or a decision while a request is in flight; a command refused, lost or answered late at any point of a fifteen-step sequence; a restore that falls back; a wait for a human | one WR at most; nothing changed when it says nothing was changed; what it reports written is stored; a discarded run leaves what was there; it ends |
| facade `xbee.c` | `state`, `detected_mode`, `cmd_session`, `user_req`, bring-up progress, `pending_mode`, `sleep_requested`, `wake_guard_tick` | `init`, `at_get/set/execute`, `cmd_session_open/close`, `hw_reset`, `set_mode`, `sleep`, `process` | two transports on one receive ring during detection; reset or sleep in the middle of anything | one request in flight, its owner always told |
| Command mode transport `xbee_cmd_mode.c` | `state`, current request, `session_deadline_tick`, line assembler, CC/GT/CT | `enter`, `send_command`, `exit`, `abandon`, `process` | replies carry no identifier; the module's own timeout runs independently | no command into a closed window; no answer to the wrong command |
| API transport `xbee_api.c` | `pending[]`, `next_frame_id`, parser | `send`, `send_multi`, `request_reset`, `process`, `abort_all` | late and orphaned answers; identifiers that cycle; a table that fills | each answer to its own request; no write to a reclaimed one |
| frame codec `xbee_frame.c` | parser progress | `feed`, `encode`, `decode` | resynchronisation, escaping | decodes what was encoded, whatever comes before |
| UART driver `xbee_uart.c` | two receive slots, `tx_busy`, overrun count | `init`, `deinit`, `write`, `read`, callbacks | the callbacks interrupt everything; a slot not re-queued; shutdown with a transfer outstanding | receive never stops; the transmit buffer has one owner |
| ring buffer `ring_buffer.c` | `head`, `tail`, storage | `push`, `pop`, `read`, `count`, `clear` | producer in an interrupt, consumer in the loop, no lock | a bounded queue |
| reset, power, sleep lines | pulse state, line levels | `pulse`, `request`, `wake` | the module wakes by itself | line and facade state agree |
| console `cli.c`, `cli_parser.c`, `line_edit.c`, `console_uart.c`, `cli_show.c`, `cli_value.c` | `state`, current request, `config_dirty`, line under edit | one command at a time, `interrupt`, `process` | a command interrupted with a request in flight; the dirty flag against what a run really stored | a request is never abandoned; `config_dirty` is never wrongly clear |
| bridge `xbee_bridge.c`, `xbee_bridge_escape.c` | `state`, transmit ring, held escape characters | `enter`, `leave`, `process` | a guard time racing the next byte; a write refused after the ring was read | bytes in order, once; exit only on the whole sequence |
| dump, bring-up report | position in the table, request | `start`, `process` | failures part way | every entry once |
| tables, text, generated code | none | | | data of the models |

The hazards this leads to are in `PROJECT.json`, each at its line and with the
properties that cover it.

## The modules

| module | what it is |
|---|---|
| `XBeeLink` | facade, Command mode session and radio module as the engine sees them, with the faults of the link |
| `Provision` | the provisioning engine and its host; EXTENDS `XBeeLink` |
| `MCProvision` | constants of the small instances |
| `ProvisionProofs` | the inductive invariants of `Provision`: the engine and its requests, the line, what the module holds; and what follows |
| `SessionClock` | the three clocks of a Command mode session in discrete time |
| `SessionClockProofs` | its theorems |
| `XBeeFacade` | the whole facade: bring-up, both transports, mode changes, forced session, sleep, reset, shutdown |
| `XBeeApi`, `MCXBeeApi` | the API transport's table of requests and identifiers |
| `XBeeFrame` | the frame codec to the byte, and the parser over a stream that loses some |
| `XBeeUart` | the UART driver against its two interrupt callbacks |
| `RingBuffer` | the lock-free ring, interruptible between any two accesses |
| `ByteFifo` | the bounded queue a ring promises to be |
| `XBeeFacadeProofs`, `XBeeApiProofs` | for each, its inductive invariant and theorems |
| `XBeeFrameProofs` | the codec's inductive invariant and theorems, with the lemmas about sequences, layouts and sums they rest on |
| `XBeeUartProofs` | the receive path: the driver's invariant and theorems, the ring's, and that the ring implements `ByteFifo` |
| `CliParser`, `LineEdit` | the command tree with its matcher, and the line discipline |
| `Console` | the console's state machine; EXTENDS both |
| `ConsoleProofs` | its inductive invariant and theorems |
| `Bridge` | the transparent bridge from the terminal to the module, with its escape detector |
| `BridgeProofs` | its inductive invariant and theorems |

### XBeeLink and Provision

The engine is a sequence: bring-up, open a session, audit (read every readable
entry), restore the defaults (R1, or RE when R1 is refused), write what deviates,
optionally read everything back and ask the host, commit (WR), close the session,
reset, bring up again and verify. `state`, `tableIndex`, `verifying`, `reqActive`,
`pendingResult` and so on are the C variables; `auditMismatch` and `accepted` are
the arrays, their counters being their sizes. `sent`, `wrCount`, `storedAtStart` and
`ramAtStart` are history for the properties.

One action is one pass of `xbee_provision_process()` (or one call of the host:
`ProvisionStart`, `ProvisionAbort`, `ProvisionDecide`, and the console's `set` and
`reload`). Within a pass the engine runs after `xbee_process()`, so `FacadePass`
is disabled while a result waits to be handled (`ResultReady`).

`XBeeLink` keeps the facade's `state` (with all of bring-up as one state that ends
`READY` or `FAILED`), `detected_mode`, `cmd_session`, the transport's state, the
lines on both wires, and a module with registers (`ram`), registers in effect
(`applied`: a session stages changes until its exit), flash, and Command mode. The
module and the wire are external to the repository and modelled from how the code
uses them. Time is left out: a deadline may pass whenever the code looks at it.
With `"late"` in `Faults` the host may give up on a reply that is still coming,
which then answers the next command; without it a command times out only when
nothing is on its way.

The host's parameter values are two; an entry that is not `Readable` is the key;
an entry in `IsDefault` is one the command table says is a default. `Factory` and
`Custom`, what the module itself restores, may differ from that.

### SessionClock

Time is a counter; the loop makes at least one pass per unit. Three timeouts that
the code takes for one are kept apart: `ct`, the module's own; `hostTimeout`, the
transport's `session_timeout_ms`, from which the session's deadline is reckoned;
and `knownTimeout`, the `info.ct` from which `keepalive_interval_ms()` is. In the
API modes bring-up gives all three the module's CT. In Transparent mode it does
not: `set_params` is refused while the session is still exiting (`xbee.c:749`,
`xbee_cmd_mode.c:332`), and `hostTimeout` stays at the default. The host's estimate,
the module's own timeout, the deadline of the command in flight and the keep-alive
tick count down.

The engine's session is there from the first read to the exit: the audit, R1 and
the RE that follows one refused or unanswered, the writes, the read-back, the wait
for the host of any length with its keep-alives, WR. A command that is lost costs
the whole of its timeout. As in the code, what follows it is sent in the pass that
found it complete, while the session's deadline is looked at only in a pass that
begins in ACTIVE. How many entries a pass takes is any number up to `Entries`.

### XBeeFacade

What `XBeeLink` makes one state is here each of `process_bringup()`'s: settling,
the API probe, the escape sequence, the read of AP through Command mode, and the
reads of the parameters (two stand for the twelve: one that is reported, one that
sleep depends on). `xbee_process()` is two steps, the transports with
`advance_cmd_session()` and then the state's own part, so that everything an
application may call happens between two passes. `req` holds both request objects,
each with the transport it went by (`via`) and what that transport has made of it
(`part`): in the code these share storage, which is why `PolledWhereSent` matters.
`guard` is `wake_guard_tick` as the signed comparison of `tick_reached()` sees it,
`AHEAD` standing for the half period in which a tick long past reads as not yet
reached. The module has its AP in flash, in its registers and in effect, sleeps
when asked and may wake by itself. The application's requests are a read that
changes nothing (`GET`), `xbee_set_mode()`, and `MOVE`, which stands for any other
that changes what AP is: `xbee_at_set()` or a queued set of AP, the command that
applies what is queued, R1, RE, FR. The facade does not look at what these do.
`pendingMine` is `pending_mode_req == request`; a request on the object of a change
that a reset cut short finds it true. `AutoMode` is `XBEE_MODE_AUTO`, which as a detected
mode stands for none.

### XBeeApi

The table, the identifiers, and the request objects of the callers, who may reset
one at any time. `owed` is what the module still has to answer: each member knows
the request object and frame it answers, which the code does not, so that
`AnswersOwn` can compare. What a request was sent as is kept only while it waits,
and an answer without identifier is everyone's. A pass reads at most one whole answer and then checks
the deadlines. An answer to an identified frame is at most `MaxAge` identifiers
late; the assumption `MaxAge + MaxPending <= FrameIdMax` is tight: one more, and
TLC shows a request answered by its predecessor's answer. In the code it is
(at most) 251 identifiers, counting those of refused sends.

### XBeeFrame

`Written` is the order `write_frame_data()` puts fields in, `FixedLen` what
`frame_data_len()` adds up, and `HostLayout` and `ModuleLayout` the offsets and
minimum lengths of `xbee_frame_decode()`: three statements of one layout that
nothing in the code holds together. The host's frames go through the encoder; the
module's are laid out as the structures list them. Each byte of `wire` is then one
call of `xbee_frame_parser_feed()`; a good frame is decoded at once, as
`xbee_api.c` does. Bytes may be lost, as they are when the receive ring is full;
`Noticed` is which of these losses the framing can tell. `whole` says that nothing
was lost of the frame on the wire, `plain` that no byte of it can be taken for a
delimiter and that every loss so far was one of those.

### XBeeUart

A call of the super loop is as many steps as a callback can come between, a
callback is one. UARTDRV fills the slots in the order they were queued, keeps
`HwDepth` bytes meanwhile and may refuse to queue or to transmit. Bytes and
transmissions are numbered, so that order, loss and ownership can be read off.
The ring is the queue of `ByteFifo`, which `RingBuffer` implements.

### RingBuffer and ByteFifo

Each read or write of an index or a slot that the other side can see is a step.
The refinement maps the queue to the bytes between `tail` and `head`, so a push
takes effect when `head` is published, and a read when `tail` is. `Masked` is a
remainder; that the code's masks are remainders is `PowerOfTwo`, the size that
`ring_buffer_init()` insists on. Its names (`RingInit`, `RingSpec`, `Places`) are its
own, so that one module can extend both the ring and the driver.

### CliParser, LineEdit and Console

`Tree` is the command tree of `cli.c` and `Parse` the walk over it; a line is a
sequence of words. `Parse` gives what the line ran, what it wanted and which node
of the tree it named, if any: a node that is not a command, or a command with a
word too many, is none, and the console then shows no mask. `FeedKey` is `line_edit_feed()` for one key, where a key is a
control byte or a fragment of text that stands for the characters it is made of.
A pass of `cli_process()` is any number of `Feed` steps and an `Advance`; the
bridge's state reads nothing, but for the rest of the chunk it was entered in
(`fed`). The operator may type any command, answer, arrow key, `?`, backspace or
Ctrl-C at any time, and `ending` is what the terminal's Enter key sends. The
facade, the engine and the bridge are reduced to what the console sees: `xbee`,
`req`, and a run that goes through its phases to one of its outcomes. `unsaved` is
what the module really holds of the console's writes, `MATCHED` being the case of
the limit below.

### Bridge

A session opens, forwards and ends by the escape sequence; the detector is `held`
and `armed`, and `since` is what `guard_elapsed()` can see of `last_byte_ms`,
whatever the counter behind it does: the millisecond clock wraps, at a value that
is not a power of two, and then reads as not elapsed for the next 36 hours. The
ring is a number of bytes here, `RingBuffer` being where its order is shown. An
action is a pass of `xbee_bridge_process()` in the order of the code: terminal,
transmitter, guard. `typed`, `forwarded`, `written` and `silence` (the real one)
are history.

## The runs

| run | instance | shows |
|---|---|---|
| `hosted` | 3 entries (one unreadable, one called a default), 2 values, any initial flash, both kinds of host, a register set by hand between runs, all faults but `late`; about 980 thousand states | `RequestOwned`, `OneWritePerRun`, `NothingWritten`, `AbortHonoured`, `WrittenMeansStored`, `DiscardRestores`, `FlashOnlyBySave`, `NothingSentBeforeWrAnswers`, `AlreadyMeansMatching`, over consecutive runs; `DecisionEnds` |
| `boot` | 3 entries, no host, a module with other defaults, every fault | the inductive invariant `IInv`, and `RunEnds` |
| `clock` | module, host and keep-alive each with a timeout of 8, 14 or 24; margin 2, reply timeouts 3 and 5, 2 entries to a pass, 4 losses; about 750 thousand states | `ClockInv`, `WaitSurvives`, `OnlyIntoOpenWindow` |
| `facade` | detection, Transparent and API 2 asked for; a module that has Transparent mode in flash; changes to API 2; other requests that set AP to a mode bring-up does not drive, restore it or restart the module; one reset or shutdown; about 470 thousand states | `OneInFlight`, `PolledWhereSent`, `ModeFollows`, `RequestEnds`, `BringUpEnds` |
| `api` | 3 objects, 2 slots, 4 identifiers, answers at most 2 identifiers late | `TrackedOnce`, `AnswersOwn`, `Untouched` |
| `codec` | every type but the undocumented ones as one, 3 lengths, 5 contents, both modes; a second frame; one loss, reset or change of mode | `Delivered`, `NothingForged`, `InBounds` |
| `uart` | ring of 3, 1 byte in the peripheral, 4 bytes, 2 transmissions, 1 refusal | `SlotsApart`, `InOrder`, `BufferOwned`, `FreeAgain` |
| `ring` | 4 slots, 2 bytes, reads of up to 2 | the ring implements `ByteFifo`; `SidesApart`, `CountIsSafe` |
| `console` | 19 fragments, 3 line endings, lines of one fragment, walk of 2; about 120 thousand states | `OneLinePerEnter`, `UnsavedIsKnown`, `PromptReturns` |
| `bridge` | sequence of 3, guard of 2 units, 3 places in the ring, chunks of 2, 4 bytes typed in a session | `InOrder`, `Counted`, `ExitOnSequence`, `HeldEnds` |

and two that TLC must find violated, see Findings. The type invariants are
conjuncts of the first invariant of each run.

Why the bounds are enough. Three entries give a first, a middle and a last one, one
of which is the mode, one is called a default and one is unreadable; `accepted[]`
holds one (`MaxAccepted = 1`), so that it overflows. Two values are enough, as the
engine only compares for equality. Runs follow one another without limit.
`MaxInFlight` bounds the lines under way when replies may be late; it is the only
bound in a guard of that model, and the proofs hold for every value of it. In the
ring, 4 slots wrap after four bytes, and indices are only ever used masked. In the
clock the reply timeouts exceed the margin, as in the configuration, and R1, RE and
WR are given longer than the rest. The three timeouts give every order of module,
host and keep-alive, with one three times another, so that a window may end before
the first keep-alive or hold two; four losses use up the shorter windows and go past
them, in the passes and in the wait. The API table of two slots with three objects
fills up, and four identifiers wrap while two are taken; `MaxOwed` bounds the
answers under way, and sending waits for room. States are counted up to the exchange
of request objects (SYMMETRY), which no definition tells apart. A bridge session of
four bytes holds the sequence with one byte of payload on either side of it, or once
too often; what is released at once is up to four bytes, more than the ring takes.
Sessions follow one another without limit.

In the facade one other value of AP (`Elsewhere`) and the stored one are all that a
request the facade does not follow can set, which is both kinds there are, one that
it could drive and one that it could not; and one reset or shutdown (`MaxResets`)
may cut through anything, the state before it being reached again after it;
requests, sessions and sleeps follow one another without limit, and at most two
answers are under way because nothing asks for a third. The driver's four bytes fill
a ring that holds two and the peripheral besides, and start a second round of both
slots; its restarts have no bound. The codec's limits are scaled down so that each
is exceeded by some tail and met by another; the contents put every reserved byte,
and every byte that an escape turns into one, into every position a layout has, and
one upset (`MaxUpsets`) can strike at every byte of a frame, with a whole frame
after it. The console's line holds one fragment, so that a second one overflows it;
every node of the tree that is a command, one that is not and one word too many are
among the fragments; nothing in the model is counted.

`boot`, the session clock and the driver stop where the program has nothing left
to do, and only there is deadlock not checked.

Fairness (`FairSpec`): weak fairness of the engine's pass, of the facade's pass
and of the module taking its next line. The super loop calls both passes for
ever, and the facade's deadlines fall due by themselves, so an enabled step of
either is taken. Nothing is assumed of the host, of the faults, or of any reply
arriving. A faithful module does process its input; one that does not is the fault
`"loss"`. In the bridge the pass and time go on; no byte need ever be typed.
In the facade the two halves of a pass are fair, and, strongly, a pass that gets
on: a deadline that is looked at again and again passes, whatever the application
calls in between. In the driver UARTDRV completes what it accepted, and a call of
the loop, once begun, goes on. In the console the pass, the clock, the end of
bring-up and the end of a request taken by the facade are weakly fair (`facade`
shows the last two), and the engine's next phase is strongly fair, as it comes in
passes that the operator's keys share (`hosted` and `boot` show that runs end).
Nothing is assumed of the operator.

## What is proved

Every safety invariant and every action property of the passing runs is stated by a
theorem, for every value of the constants. The
assumptions are those named in the modules (`ASSUME`), all on constants, and one
hypothesis on `Faults`, below. None of the properties is inductive on its own; what
each module adds is what the code relies on without saying so.

`ProvisionProofs` proves `Spec => []IInv` (theorem `Invariance`) for every table,
value set, default, fault set and bound, and from it `TypeOK`, `RequestOwned`,
`OneWritePerRun`, `NothingWritten` and `AbortHonoured`. `OneWritePerRun` needs to
know where no WR can have been sent yet (`WriteInv`: before COMMIT, on a run that is
not verifying); that needs `verifying` to be set exactly on the second bring-up;
`NothingWritten` needs which outcome a closing session carries (`OutcomeInv`);
`AbortHonoured` needs where an accepted abort can find the engine (`AbortInv`);
and all of them need that the engine asks for something only from six states, in
a session, on a ready facade (`RequestInv`), which is `RequestOwned` seen from the
other side: it fails as soon as some path ends a run, closes a session or resets
the module with a request outstanding. The proof has a lemma for each thing an
engine pass does last (ask, finish, close, discard, start the next read, review
or write), and one step per action above those.

Its second half is about what the module holds, under `"late" \notin Faults`: the
host's deadlines leave the module time to answer. Lines may be lost, commands
refused, the session may lapse and the module restart at any time. `LineInv` says
that at most one line is under way and that it is the one the engine's position
calls for (`OneLine`), which state of the facade goes with which of the engine
(`Place`), how far the run is (`Run`), and that the flash is the one it found until
its WR is out (`Kept`). `FoundInv` rests on it: what has been read, found deviating
and written up to `tableIndex`, against the module's registers (`Reads`, `Writes`).
From these follow `FlashOnlyBySave`, `NothingSentBeforeWrAnswers`,
`DiscardRestores`, `WrittenMeansStored` and `AlreadyMeansMatching`. The last speaks of
entries that could be read: each is as configured when the run ends, or was when it
began (`ramAtStart`), the module having restarted since; `Held` carries that through the
audit, as nothing but a restart changes the registers before the restore. The
hypothesis is needed by each, as the limits below show. TLC checked both invariants on the
instance of `hosted`.

`SessionClockProofs` proves `ClockInv`, `WaitSurvives` and `OnlyIntoOpenWindow` for
every timeout of module, host and keep-alive, every margin, latency, reply timeout
and number of entries and losses, with the latency below the reply timeout and at
most the margin, and each CT more than a unit above the margin. Two conditions on
the timeouts appear in the properties. `EstimateHolds`: the host's estimate is not
longer than the module's timeout. `KeepAliveFits`: half the keep-alive's window is
less than the host's. `WaitSurvives` needs both, `OnlyIntoOpenWindow` names what
happens without the first, and `AdoptedOutlives` shows that both hold for every CT
once all three are the module's. The invariant: after an answer the module has its
whole timeout but for the margin; an estimate that is not too long to begin with
never exceeds what the module has left; and nothing but the wait is ever reached
with the session's deadline passed, unless by a command unanswered (`WindowInv`).

`XBeeUartProofs`: `SlotInv` says which slots are queued in which phase of a call,
`OrderInv` that ring and peripheral hold rising numbers, one after the other,
`CountInv` what the statistics add up to, `BufferInv` who has the staging buffer.
They give `SlotsApart`, `InOrder`, `BufferOwned`. For the ring itself, `RingInv`
keeps, through the steps of the other side, that the slot the producer has reserved
stays free, that what a count has sampled stays there, and that what a read has
copied is still what the queue holds. From it follow `CountIsSafe`, `SidesApart`,
and, as a step simulation, that the ring implements `ByteFifo`. Lemmas treat the
masked indices as case distinctions.

`XBeeFrameProofs` proves `Delivered`, `NothingForged` and `InBounds` for every size
of the buffer, every limit of the encoder, every set of contents and of tail
lengths, any number of frames and any number of losses, resets and changes of mode.
The argument has two halves.

What is sent. A layout is a chain (`Chain`): its fields follow the type octet
without a gap and end where the minimum length says. `Chains` checks that of each
of the 27 types, from the three separate statements of the layouts. `Data` and
`DecodesPlain` then show that what `xbee_frame_encode()` puts together reads back,
field by field; `SampleDecodes` and `SampleRefused` do that for sample blocks,
whose masks decide what follows them, whole and cut short. `OnWireIs` gives the
wire: a delimiter and then the parts of the frame, each of one octet or two.

What is fed. The inductive invariant `IInv` has three parts. `Buffered`: the parser
holds what it has counted, and expects no more than fits unless it is skipping the
frame. `Traffic`: what was sent is known, and decodes to what its sender said.
`Progress`: a plain frame is fresh on the wire, or under way, and then the parser is
in step with it (`Collecting`: at part u of the frame, an escape pending or not, with
what it has of it so far), or set back in one of four ways: it missed the delimiter
(`Skipping`), has just missed an escape character (`Bare`), has taken a wrong
length (`Misled`), or waits for more than is left (`Lagging`); and when the wire is
empty the verdict is the one the frame deserves. Feeding moves one part on, or one
escape; each of the four ways ends without a verdict or with a wrong sum, as
`Altered` shows that one octet changed shows in the checksum.

`Delivered` needs all of this: that nothing but a delimiter looks like one, that an
escape is undone by the same operation, that the parser's length arithmetic is the
writer's and that the checksum leaves out the same octets on both sides. The first
attempt at `NothingForged` failed on losses that nothing in the framing can tell, of
which the run, with its one loss of a short frame, has few; `Noticed` names them now.

The definitions involved are recursive functions and folds (`FlattenSeq`,
`Checksum`). What they compute for every input is shown by `SetInduction`, induction
over the naturals as a fact about sets, which follows from the theorems on finite
sets: an injection of a finite set into itself is onto.

`XBeeApiProofs`: `TableInv` says that table and objects agree, `OwedInv` that an
answer under way with the identifier of a waiting request is that request's. What
keeps it so is `AgeInv`: the identifiers passed since an answer's own was given out,
and those still taken that will be skipped before it comes round again (`Before`),
are bounded by the answer's age and the size of the table, so that with
`MaxAge + MaxPending <= FrameIdMax` an identifier comes round only when nothing is
owed under it. They give `TrackedOnce` and `AnswersOwn`; `Untouched` follows step by
step.

`XBeeFacadeProofs`: `RequestInv` says in which phase each request can be in flight
and that the way it went is the one `UseCmd()` would still give, `LineInv` for whom
an answer is that is on the line, and that it tells the truth about the module's
AP, `ModeInv` carries that to the detected mode through a change in flight, for as long as
no request has been made that the facade does not follow (`unsure`). They
give `OneInFlight`, `PolledWhereSent` and `ModeFollows`.

`ConsoleProofs`: `Core` says in which states a request or a run can be in flight and
when the mark may go, `Keyed` that while the LF of a CR LF is owed the editor
remembers the CR. They give `OneLinePerEnter` and `UnsavedIsKnown`. The first attempt
failed on a line that names no command but begins as one does ("enable now"), where
the model then masked the prompt and `cli.c` does not; the model was
wrong and was corrected.

`BridgeProofs`: `Follows` says that what is held back are the last characters typed,
all the escape character, and `GuardInv` that the detector never takes the line for
silent longer than it was. They give `InOrder`, `Counted` and `ExitOnSequence`.

Only model-checked:

- liveness (`RunEnds`, `DecisionEnds`, `RequestEnds`, `BringUpEnds`, `FreeAgain`,
  `PromptReturns`, `HeldEnds`): fairness and ENABLED are outside TLAPS;
- the two claims under Findings, which do not hold.

## Findings

Where the code does something its documentation says otherwise (details and
lines in `PROJECT.json`):

- `unreadable_audit`: an audit whose reads failed ends `ALREADY_PROVISIONED`,
  "the module already matched".
- `pasted_bridge`: when more than the line `bridge` arrives in one chunk of input,
  as when it is pasted, a further line ending takes the console back to its prompt
  while the bridge stays on, where nothing drives it any more.

## Limits of the code the models show

Each can be seen in a model; none has a run of its own.

Provisioning. A run that finds the registers right, because the console had set
them without saving, clears `config_dirty` (`cli.c:1039`); `UnsavedIsKnown` sets it
apart. A parameter that matched the audit and whose table default is wrong is
changed by the restore, skipped by the write pass and found only by the
verification after the commit. A key configured as all zeros counts as a default
and is left to the restore; after the fallback to RE a module with a default key of
its own ends `WRITTEN` with that key in flash, and `WrittenMeansStored` leaves out
entries that are neither read nor written. The key is never audited
(`is_readable()`), so a module that differs only in its key ends
`ALREADY_PROVISIONED`. When WR outlasts its timeout, or a late reply is taken
for its answer, the session's exit is sent while the module is writing. In general
a late reply answers the wrong command, and with `"late"` TLC finds a run against
each of `WrittenMeansStored`, `DiscardRestores`, `FlashOnlyBySave`,
`NothingSentBeforeWrAnswers` and `AlreadyMeansMatching`. With late replies no property is claimed
of what a run leaves in the module. One unanswered keep-alive loses the session,
since the next falls due as the window ends.

The session's clocks (times at the configured defaults). The deadline is looked at
only in a pass that begins in ACTIVE. A command that goes unanswered returns to
ACTIVE in a pass that began in BUSY, and what follows is submitted before the next:
the next read, R1 after the last read of the audit (`xbee_provision.c:885`), RE
after an R1 (`:912`), the exit after a write, an RE or a WR. As a reply timeout
(1000 ms) is more than the margin (500 ms), unanswered commands that reach the
module's own timeout (10 s), about ten reads or fewer with R1 among them, have what
comes next sent to a module that has left Command mode, which the comment at
`xbee_cmd_mode.c:116` rules out; the wait for the host looks first. In Transparent
mode there is more: the estimate stays at the default whatever the module's CT is,
and the keep-alive is half of that CT. With a CT of about 20 s or more the host
closes its session before the first keep-alive, with nothing lost, and the run is
over. With a CT below 10 s the estimate outlives the module's timeout, so that a
command that follows unanswered ones, in the passes or in the wait, may go into a
closed window although the host believes it open. `OnlyIntoOpenWindow` names each of
these cases, and `WaitSurvives` the condition. The model takes it that the
transmitter accepts every command, that R1, RE and WR keep the module no longer from
counting than any other command, counted from when it restarts its timeout, and that
a CT staged by a run does not apply to the session it is staged in.

Facade. `xbee_set_mode()` from Transparent mode, without a forced session, adopts
the new mode on the module's OK, although in Command mode AP applies only when the
module leaves it; `ModeFollows` speaks of a module that has. A mode change not
acknowledged leaves the detected mode unverified. One cut short by a reset leaves
`pending_mode` set, and a later request on the same object adopts it when it is
acknowledged, whatever it was (`xbee.c:1051`). The facade does not look at what a
request does to AP: `xbee_at_set()` of AP, a queued one that is applied, R1, RE and
FR move the module to another mode while `detected_mode` stays, and what is sent may
not be understood until the module is brought up again or a change of mode is
acknowledged. `ModeFollows` sets these cases apart, up to that bring-up or change,
and claims nothing else. In Transparent mode bring-up asks for the session's exit
and adopts the module's CC, GT and CT at once, which the transport, still exiting,
refuses (`xbee.c:748`). The guard after a wake is never cleared, and half a tick
period later `xbee_is_ready()` says ready while `submit()` refuses. A module that
wakes by itself, or is reset while asleep, finds the request line still asserted. A
slot whose re-queue UARTDRV refuses is not queued again until the driver restarts.

Codec. In mode 2, a byte lost behind an escape character can leave a frame with a
right checksum (7D 5D 7D 33 less its second byte reads as 5D 33), or make the
parser take a start delimiter for data and miss that frame. In mode 1 a frame that
contains 7E restarts the parser. Against other damage there is the 8-bit checksum
only. A frame whose delimiter is lost can end another that was cut short before
it, one that has lost a byte already may lose a second that makes up for the first
in the sum, and a length byte lost from a long frame can announce less than the
frame holds. `Noticed` sets these apart, and `NothingForged` and `Delivered` say so
in `plain` and `whole`.

Console and bridge. A line too long in the password's state prints a prompt and
counts no attempt, with the mask still on. When the CR of a CR LF is dropped because
a run is under way, its LF may meet, and answer, the question whether to save.
`UnsavedIsKnown` is about values the console has set: a run that fails half written
on a console whose mark is clear leaves its own values unstored in the module and
the mark clear (`xbee_provision.c:934`). A SET whose acknowledgement is lost leaves
the mark clear. A walk's stall is not ended by a read that is refused outright. In
the bridge, characters held when the millisecond clock wraps stay held until the
next byte, and what is still in the ring when the sequence ends a session counts as
sent.

## Not modelled

The text of the console, the dump and the logs, the conversion of values
(`cli_value.c`) and the tables (data of the models); generated and vendored code,
tests and build files; the power line, one GPIO write. Of the facade: the payload an
application sends and the callbacks for what is received, which change nothing in
it; a request submitted while a session is only being opened, which `xbee.h:502` asks its
callers not to do and `submit()` does not check (`SessionSettled`), a CN of the
application's own, WR (what is in flash is `Stored`), and a reset line that cannot be
released. Of the Command mode transport: multi-line replies and the
overflow of the line assembler. Of the console: help and echo. Of the bridge: the
other direction, the control lines and how Command mode is closed. The dump and the
bring-up report are alternative applications whose walk is the one `Console` has.
The parser's statistics and the driver's estimate of when the last byte has left
the wire are left out.

## Plan

Done: the engine over its link, the session's clocks, the facade, the API table,
the frame codec, the driver, the ring, the console and the bridge, and the theorems
about each of them. What remains:

1. The engine's properties under `"late"`: what is still true of a run in which a
   reply answers the command after its own.
2. Multi-line replies of Command mode and the other direction of the bridge.
