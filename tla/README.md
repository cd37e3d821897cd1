# TLA+ verification of the GSM gateway (chan_allogsm, liballogsmat)

The repository is an Asterisk channel driver for multi-port GSM cards. This
directory holds TLA+ models of its control logic, the TLC configurations that
check them and TLAPS proofs. Paths are relative to `src/gsm_gateway_blue/src/`.

## 1. Inventory

| Component | Source | State it keeps | Operations | Modules |
|---|---|---|---|---|
| Span state machine | `liballogsmat/gsm_module.c`, `gsm.c`, `liballogsmat.h` | `gsm->state`, `at_last_sent`, registration, retry counters, `dial_initiated`, call pool | `module_receive` (one received line), `module_check_wind`, `module_check_sms`, `module_check_network`, `gsm_switch_state` | `Span` |
| Call API | `liballogsmat/gsm.c` | call records (`alloat_call`), `cref` | `allogsm_new_call`, `allogsm_setup`, `allogsm_answer`, `allogsm_hangup`, `allogsm_destroycall` | `Span` |
| Outgoing texts | `liballogsmat/gsm.c`, `gsmqueue.c` | `sms_queue`, `sms_info`, `last_sms` | `allogsm_send_text`, `gsm_dequeue_sms_txt`, `QueueEnter`, `QueueDelete` | `SmsQueue`, `Span` |
| Timer table | `liballogsmat/gsmsched.c` | `gsm_sched[10000]` | schedule, delete, run, next | `Span`, `ModemInit`, `Requests` |
| Initialisation, auto reload | `liballogsmat/gsm.c`, `gsm_module.c` | the states before `READY`, `retranstimer`, reload flags | `allogsm_module_start`, `gsm_set_switchtype`, `gsm_start_timeout_junk` | `ModemInit` |
| D-channel thread | `chan_allogsm/src/chan_allogsm.c:6850` | `pvt->gsmcall`, `inalarm`, owner | poll loop, timers, one case per `ALLOGSM_EVENT_*` | `Span`, `Channel` |
| Channel callbacks | `chan_allogsm.c` | channel, owner, locks | `allochan_request`, `_call`, `_answer`, `_indicate`, `_read`, `_hangup` | `Channel` |
| CLI requests | `chan_allogsm.c:9000-11430` | condition variables, result buffers | USSD, operator list, SAFE_AT, phone check, power | `Requests`, `Channel` |
| Call waiting | `gsm_module.c` | call list indices | hold, swap, refuse | the event in `Channel` only |
| Line framing | `gsm.c:2520,3634` | `sanbuf`, `at_last_recv` | `gsm_san`, `allogsm_check_event` | `Framing` |
| PDU codec, long texts | `gsm_sms.c`, `chan_allogsm.c` (send commands) | none | packing, headers, splitting, forwarding | `PduCodec`, `Texts` |
| AT configuration | `gsm_config.c` | tables read at load | `expectlist_compare`, `get_at` | `Span` (the comparison) |
| Kernel driver | `allo2aCG/` | interrupt work, counts, audio chunks | interrupt, work, startup, shutdown, removal | `Card` |
| SPI bus driver, patches, installers, backups | `allospi/`, `install.sh`, `gsm_bak_b4_unicode.c`, ... | none of this program's logic | | |

**How they interact.** PBX threads call the channel callbacks; the CLI calls the
library; one d-channel thread per span polls the modem. Most take the lock of
the span (the requests of the console do not). A received line goes through the
framing into `module_receive`, which changes the state, sends the next AT
command and may return an event; the d-channel thread handles the event before
it lets go of the lock. Timer callbacks run in the same thread, only when a poll
ended without input. Texts that cannot start are put in a list that a one-second
timer drains. A dial during a text is put off with a 200 ms timer. Under all of
it the kernel driver moves bytes and audio between card and DAHDI channels, one
span's answers in each interrupt.

**What is hard.** Timers of one span share a slot table and are deleted by
remembered ids; a timer outlives the text or call it was armed for. The modem
restarts, loses the network, repeats or garbles lines at any point. Driver and
library each hold a pointer to the call record. A text, a dial, a request of the
console and an incoming call compete for one modem. PBX, d-channel and console
threads want channel, private, span and list locks in different orders. Reads
cut the modem's output anywhere. `PROJECT.json` lists every hazard with its line.

**What makes each part correct.**

* Texts: in order, each handed over once, an acknowledged one never stranded;
  each gets one verdict; bounded retries. A part fits, goes to the number asked
  for, comes out as it went in, and arrives.
* Hangup: ATH repeated until answered, completed by its OK, eventually complete.
* Calls: no call at the modem without a channel; one record for both sides; the
  owner is a live channel; a span at rest can be used again.
* Deferred dial: one at a time, on a live record, sent or dropped in the end.
* Timers: the timer a state relies on is pending while the state lasts (and, where it
  is not, through what).
* Initialisation: a start that hangs is begun again; one reload loop; nothing that
  needs the card before the card was selected.
* Locks: none left behind, no two threads waiting on each other for ever.
* Requests: no answer for another request, none sent twice, the span given back.
* Card: every answer and command served, audio not mixed, nothing used once freed.

## 2. Modules

Each module is self-contained; `Texts` composes `PduCodec` and `Framing`, and
`SmsQueue` refers to `SmsFifo`. Where two modules speak of the same code, each
keeps what it is about and leaves the rest to the other: `Span` is the library
under one lock, `Channel` the driver above it with its locks and the library
reduced to what it may report.

### `SmsFifo` (the promise) and `SmsQueue` (the code)

`SmsFifo` says what a sender may expect: texts accepted enter a line, leave it
from the front, one at a time, directly when nothing waits. `SmsQueue` is
`allogsm_send_text`, `gsmqueue.c` and `gsm_dequeue_sms_txt`.

| Variable | Code |
|---|---|
| `queue` | `gsm->sms_queue` |
| `dequeueTimers`, `otherTimers` | slots of `gsm_sched` that hold `gsm_dequeue_sms_txt` / any other callback |
| `state`, `dialInitiated`, `registered` | the three fields that `allogsm_send_text` and the timer test |
| `submitted`, `acked`, `refused`, `handed` | histories: calls made, texts whose call returned 0 or -1, texts given to `module_send_text` |

`SendText` has one disjunct per path of the function: no memory, first in the
list with or without a free slot, behind others, sent directly. The span moves
and other timers come and go freely, which over-approximates the rest of the
library. `ImplementsFifo` is the refinement of `SmsFifo`.

### `Span`

One span from READY onwards. A received line, a call of the driver or CLI and a
timer callback are one step each, since each holds the lock throughout. A line is
an element of `Lines`, the classes of lines the code tells apart; a line the
configuration does not list is in `Unlisted`. The driver's treatment of HANGUP,
RING, DCHAN_UP, DCHAN_DOWN and SMS_SEND_OK/FAILED is part of the step.

| Variable | Code |
|---|---|
| `state`, `lastSent` | `gsm->state`, `gsm->at_last_sent` |
| `registered`, `cme` | `creg_state`, `CME_515_count` |
| `sched`, `smsSched`, `hangupSched`, `retrans` | `gsm_sched`, `smsTimeoutSched`, `hangupTimeoutSched`, `retranstimer` |
| `cref`, `calls` | `gsm->cref`, the pool; `live`: `ourcallstate` is not NULL; `hung`: `already_hangup`; `new`: `newcall`; `rung`: a first RING was counted; `unanswered`: the channel may still answer |
| `gsmcall`, `up` | `pvt->gsmcall` (`Stale`: the library has finished with the record and the driver still has the pointer), `!pvt->inalarm` |
| `dialInitiated`, `dialHangup`, `dialRetry` | `dial_initiated`, `dial_initiated_hangup`, `dial_retry` |
| `info`, `inSpan`, `retry`, `oldRetry`, `stuck` | `sms_info != NULL`, whether it points to `last_sms`, `sms_retry`, `sms_old_retry`, `sms_stuck` |
| `text`, `sends`, `anonymous`, `good`, `bad` | histories: texts handed over, transmissions of the current one, texts without an id, verdicts written |
| `alive` | false once memory was misused in a way that ends the process |

Actions follow the code: `Reboot` is `module_check_wind`; `InitReads` the states
of the initialisation; `ReadyCounts`, `ReadyAnnounces`, `ReadyNetwork`,
`RingRings`, `PreAnswer*`, `Active*`, `Proceeds`, `DialGivenUp`, `HangupEnds` the
cases of the switch in `module_receive`; `Release` the check behind it; `Sending*`,
`Sent*`, `Prompted`, `SmsNetwork`, `SmsRing` the branches of `module_check_sms`;
`SmsTimer`, `HangupTimer`, `DialTimer`, `StartTimer`, `ReloadTimer` the callbacks; `SendText`,
`Dial`, `Hangup`, `Answer`, `OtherCommand`, `Reload` what the driver and CLI call.

`gsm_call_disconnect`, `gsm_call_destroy` and `allogsm_answer` delete the slot that
`retranstimer` names (`Swept`), which `gsm_start_timeout` leaves there when it has
fired; `ModuleHangup` takes the slot that is deleted behind it as a parameter.

Reads of freed memory take both outcomes: the old contents, or those of another
record. `INIT` and `INIT_HI` stand for the initialisation: two states, because
`gsm_sms_sending_timeout` and the check behind the switch compare the number of
the state with READY, and some initial states are declared after it.

### `ModemInit`

A modem from power-on to READY. `gsm_set_switchtype` reads the lines of the first
states (`InitLine` ... `ModelLine`), `module_receive` those of the later ones; both
look for a reboot first (`Rebooted`), the second also for network news
(`CheckNetwork`). A state's AT command goes by the state's name.

| Variable | Code |
|---|---|
| `state`, `last` | `gsm->state`, `at_last_sent` |
| `sim`, `got` | `sim_state`; whether the identity the state asks for is there |
| `home`, `signal` | `network` is HOME or ROAMING, `coverage >= 1` |
| `wind`, `cme` | `wind_state`, `CME_515_count` |
| `retries`, `rounds`, `loop` | `retries`, `retry_count`, `autoReloadLoopActive` |
| `retrans`, `sched`, `again` | `retranstimer`, `gsm_sched`, `sched_state` |
| `detected`, `powered`, `config` | `gsm_init_flag`, the file `/var/poweroff_<span>`, the configuration |

`JunkTimer` is `gsm_start_timeout_junk`, `StartTimer` `gsm_start_timeout`,
`ResetTimer`, `CommandTimer` and `RepeatTimer` the other callbacks; `ModuleStart`,
`Restart`, `PowerOff`, `PowerOn` and `Reset` what driver and console call. Calls in
READY show only as the deletions of `retranstimer` they make (`CallDestroyed`,
`CallAnswered`).

### `Channel`

The driver between Asterisk and one span: one thread per channel, the d-channel
thread and the console, lock by lock. A step goes from one place where a thread
may wait to the next. The library is what it may report of a call.

| Variable | Code |
|---|---|
| `held` | owner and count of `gsm->lock`, `pvt->lock`, `iflock` and each channel's lock (recursive) |
| `pc`, `doing`, `ev` | where each thread is, in which callback, with which event |
| `astate`, `attached`, `told` | channel state, `tech_pvt`, soft hangups |
| `pvt` | `owner`, the owners of the subchannels, `gsmcall` and the flags |
| `link`, `lib`, `dialed` | `dchanavail`; what became of each call (`ending`: freed, its HANGUP still to come; `kept`: hung up while its dial waits); whose call it was |

`GrabFails` and `Regrab` are the loop of `gsm_grab`, `Avoids` is
`DEADLOCK_AVOIDANCE`; `RingAnonymous` ... `RingRefused` are the ways of a RING up to
its call; `DialTimer` is the end of a dial that was hung up while it waited; `AllLocks` ... `AllEnds` are `gsm_hangup_all` with the places
where a handler gives a lock back and takes it again. An unlock of a mutex
another thread holds changes nothing, as with Asterisk's.

### `Requests`

Two console threads, the timers that send their requests later, and the d-channel
thread that stores answers and signals. `ast_cond_timedwait` gives the request's mutex
back while the thread waits (the phone check gives it `check_mutex`, and keeps
`phone_lock`), so that a second thread may ask; a signal wakes one of those that wait, or
nobody when the wait has not begun (`Switches`, `StartsWait`).

| Variable | Code |
|---|---|
| `state`, `asker`, `ours` | `gsm->state`; the request it belongs to; `at_last_sent` is still that of the state |
| `sched`, `hangupSched` | `gsm_sched`, `hangupTimeoutSched` |
| `check` | `auto_hangup_flag`, `phone_stat` and the time of the phone check |
| `user`, `mutex`, `answer` | each thread's place, request and the slot it has found free; `ussd_mutex`, `operator_list_mutex`, ..., `phone_lock`; the stored result |
| `asked`, `sent`, `told` | histories: requests made, given to the modem, answered by an event |
| `late`, `met` | histories: mutexes of which a request has timed out, of which two requests were under way at once |

### `PduCodec`, `Framing`, `Texts`, `MCTexts`

`PduCodec` holds the functions of `gsm_sms.c`: numbers in semi-octets, the 7-bit
table with its escapes, septet packing with and without a header, UTF-8 and UCS2,
the PDU of a part and the event made of one. `Framing` is `gsm_san` and the
condition under which `allogsm_check_event` passes on what it collected. `Texts`
composes them: a text is split by a command, sent part by part at the prompt,
turned round by a network that delivers in any order, written by the modem in
chunks, read in any number of chunks and decoded. Here texts are sequences of
bytes, because what the properties speak of is which bytes come out. `MCTexts`
gives the texts. What is done to every byte of a string in turn (escapes, packing,
units, splitting) is a recursive function, so that it can be proved about.
`WellFormed`, `Alphabet`, `Shortest` and `Recoverable` model no code: they say which
texts the theorems are about.

| Variable | Code |
|---|---|
| `todo`, `sending` | parts whose `allogsm_send_pdu` waits for READY; `sms_info` |
| `stream` | what the modem wrote and `read()` has not returned |
| `acc`, `san` | `at_last_recv` with `at_last_recv_idx`; `sanbuf` |
| `inbox` | the events `ALLOGSM_EVENT_SMS_RECEIVED` |
| `asked`, `air`, `apart` | histories and the network (external) |

### `Card`

The kernel driver: the interrupt, its work (`hdlc` commands out, one span's
answers in, audio of all), startup and shutdown of spans, removal.

| Variable | Code |
|---|---|
| `phase` | how far `remove_cards` has come |
| `running`, `stopDma` | `DAHDI_FLAG_RUNNING`, `G4_STOP_DMA` |
| `pending`, `pc`, `turn`, `size` | `mykmod_work` is queued, where it is, `intcount % 4`, `readsize` |
| `fifo`, `mark`, `txq` | answers in the card (external), one watched byte of them, bytes of a command |
| `order`, `mem` | the millisecond the exchange of audio is at; the chunks in cells of eight bytes, with the aliasing their addresses give |
| `filled` | history: who ran when a millisecond was filled |

Spans start and stop between the accesses to the card and between the
milliseconds of an exchange (`Out`, `Swap`, `In`), as the work's loops hold no lock.

### Proof modules

One for each module with a theorem (section 4): `SmsQueueProofs`, `ModemInitProofs`,
`ChannelProofs`, `RequestsProofs`, `CardProofs`, `SpanProofs`; for `Texts` two that
extend each other, `TextsProofs` (PDUs and their codings) and `EventsProofs` (lines and
events).

## 3. Runs

`Span` is one module and its runs differ in the environment: which lines the
modem sends, whether somebody restarts it (`Reloads`), whether texts may have
waited in the queue (`Queued`) or may have no id (`Anonymous`), and whether noise at the
start-up may arm `gsm_start_timeout` (`Retrans`).

| Run | Environment and bounds | Shows |
|---|---|---|
| `sms_queue` | 4 texts, 2 slots | types, order, no timer without text, no acknowledged text stranded, refinement; the list drains once the span is calm |
| `span_calls` | all lines but those of texts, 1 outgoing reference, 2 slots, `Retrans` | hangup timer lost through `retranstimer` alone; one record; no call without channel |
| `span_texts` | 2 texts with or without an id, errors, blanks, network loss, rings | every text with an id one verdict, no NULL `sms_info` |
| `span_dials` | text + deferred dial, modem does not release | at most one dial timer, on a live record, dialled for a channel |
| `span_faults` | 1 text + deferred dial, reboots, reloads, noise, NO CARRIER at any time, `Retrans` | deferred dial's and text's timers lost through `retranstimer` alone; bounded transmissions; texts, hangups and deferred dials that have their timers end |
| `modem_init` | ten kinds of lines in any order, resets, updates, 2 slots | reload loop armed and single, nothing that needs the card before its selection; no deadlock |
| `modem_live` | power found off and switched, seven kinds of lines | a start that hangs below READY is begun again |
| `channel` | 2 channels, 2 calls, 8 kinds of events, power commands, incoming or outgoing traffic | no lock left, owner alive, a live call kept, no pointer to a freed call that is used as a live one |
| `channel_stuck` (violation) | 1 channel, 1 call | the two threads that spin on each other's lock |
| `requests` | 2 users, all five kinds, 2 requests, 2 slots | no mutex left, answers to their own requests up to a timeout or a meeting, nothing sent or answered twice, SAFE ends |
| `texts` | 2 texts, limits of 4, 300 characters, 72 ahead | parts fit, addresses, exact round trip, all arrive |
| `card` | 2 spans, 2 ms, reads of 2, card holds 5, commands of 2, one modem that talks, spans started again at any time | nothing freed in use, audio apart, answers and commands served |

**Bounds.** `span_texts` has two texts, so that a second one meets what the first
left; `span_faults` has one, and that a timer left by an earlier text takes nothing from
a later one is the theorem `SmsTimerIsHeld`, for any number of texts. A single outgoing
reference and the incoming one show both
pointers diverging. Two or three slots hold the timers that meet; where the table is
full the step that arms a timer is not taken in `Span` and `ModemInit` (the code
has 9999 slots and arms a handful), so slot reuse, the hazard, is reached and
exhaustion is not; `SmsQueue` and `Requests` model the full table, which
their code tests. `AnswerRetries`, `CmeLimit`, `DialLimit`, `SmsRetries`,
`RetryLimit` are smaller than in the code; only the comparison with the limit
matters. Two channels and two calls are what an overlap of an old call's hangup
and a new call needs; chains of three and four calls were checked once, and the
theorems hold for any number. Limits of 4 let an escape and a character of three bytes
fall across a part's end; `Capacity` and `Ahead` keep the reader's buffer from
overflowing, which is a premise of `AllArrive` (section 5). Two spans are the
fewest that can mix audio or starve each other; reads of 2 from a FIFO of 5 reach
one short read, one full one, both reads and a rest. That two modems which both talk
starve each other no more was checked once, with reads of 1. Counters of histories are
cut at the value the properties ask for. `requests` was also run once with three
requests, `texts` with a configured centre (without the second half of
`Addressed`), and `TypeOK` of `ModemInit`, `Channel`, `Requests` and `Texts` under
the configurations of their runs, which check what is harder to get right.

`CHECK_DEADLOCK FALSE` stands where the system may really stop: the process may
crash (`span_texts` does not allow it, `span_dials` and `span_faults` do), the
card is removed, all calls or texts of the bound are used up, or the console has
locked the span twice.

**Fairness.** `SmsQueue!LiveSpec` is weakly fair to the dequeue timer; `Drains`
asks only for a span that is calm from some time on. `Span!LiveSpec` and
`ModemInit!LiveSpec` are weakly fair to the timers: the d-channel loop runs due
timers when a poll times out (`chan_allogsm.c:6957`). A modem that never pauses
starves all timers; liveness is relative to pauses. Strong fairness of
`AthAnswered` says that a modem that gets ATH again and again answers once with
OK while ATH is still the last command; ATH is repeated every 2 s by the code.
`Requests!LiveSpec` is weakly fair to the console threads: they are scheduled and
a timed wait ends. `Channel!LiveSpec` lets every thread run and gives a thread
that tries a lock again and again the lock if it is free again and again: the
livelock it shows is therefore not one of unlucky scheduling.
`Card!LiveSpec` says that the card interrupts until it is stopped and the kernel
runs queued work. No fairness is assumed of modem, network, PBX or console.

### What does not hold

One disagreement has its run. `channel_stuck`: `allochan_queue_frame`, called by
the d-channel thread with the span's lock, waits for the owner's channel lock and
gives back only the pvt; `gsm_grab` in the owner's thread waits for the span's lock
and gives back only the pvt too. Neither moves on. `EVENT_RESTART`
(`chan_allogsm.c:7071`) takes the same locks in the same wrong order.

The others are shown by the same modules under another configuration:

| Change | What TLC shows | What is said |
|---|---|---|
| `SmsQueue`, `RefusedIsNotSent` | -1 is returned for a text that is queued and sent later | `gsm.c:3373`, -1 is "can not send sms" |
| `Span`, `GoodWasSent` | the timeout before the prompt enters SMS_SENT; the next OK files an untransmitted text as sent | `ChangeLogDEV`: "messages which are successful are stored in smsout_success" |
| `Span`, lines OK, PROMPT, CREG_1, NO_CARRIER, two slots: `OneVerdict` | NO CARRIER during a text: READY, no verdict, a timer left behind | the same |
| `Span_texts` with `Queued = TRUE`: `KeepsRunning` | `free(sms_info)` of memory inside the span's structure | |
| `Span_texts`, `OneVerdict` without `\ anonymous` | a text without an id is back in READY with no verdict (`gsm_module.c:696-701`) | the same |
| `Span_calls`, `HangupHasTimer` without `hangupSched = retrans` (likewise `SmsHasTimer`, `DeferredDialKept` of `Span_faults`) | noise at the start-up arms `gsm_start_timeout`; it fires and `retranstimer` keeps its slot (`gsm.c:1871-1880`); ATH's timer takes the slot, and the record freed behind it deletes it (`gsm.c:2991-2996`, `320-322`): HANGUP_REQ for ever if the OK is lost. A hangup of a deferred dial takes a text's or the dial's own timer the same way (`gsm.c:292-294`) | |
| `Span_dials` with NO_CARRIER: `DialOwnsRecord` | NO CARRIER frees the record of a deferred dial, its timer stays | `ChangeLogDEV`: "Took care of hangup when call is not initiated" |
| `Span_texts` with MaxTexts 1: `AtMostRetries` | each return of the network repeats the text without counting | `ChangeLogDEV`: "SMS Retry for 3 times" |
| `ModemInit_live`, `LateStartRetried` | a start-up that hangs in a state declared after READY is not repeated | `gsm.c:2199` |
| `ModemInit` with `Powers = {TRUE, FALSE}`: `LoopAlive` | the loop ends where the power is off, its flag stays | |
| `Channel`, `NoStaleCall` without `~Has("alreadyhungup")` | `allochan_hangup` keeps the `gsmcall` that `allogsm_hangup` has freed, and HANGUP hangs it up again | `chan_allogsm.c:8306-8333` quotes valgrind on it |
| `Channel` with `Traffic = {"both"}`: `OwnerIsLive`, `CallKept`, `NoStaleCall` | a request looks at the span under `iflock` only; an incoming call claims it in between and one channel of the two is forgotten | |
| `Requests`, `FreshAnswer` without `late` | an answer that comes after a timeout goes to the next request of the mutex | |
| `Requests`, `FreshAnswer` without `met` | a second user asks while the first waits, both wait, and the one signal wakes whichever it finds: no timeout is needed | |
| `Card` with `MsPerIrq = 8`: `OwnAudio` | span 1's chunks lie in the card's buffers; `ms_per_irq` is a module parameter, 4 by default (`base.c:57`, `1392`) | |
| `Card`, `stopDma => running = {}` | shutdown of the last span, startup: `G4_STOP_DMA` is never cleared, interrupts are ignored | `base.c:645`: "Start DMA, enabling DMA interrupts on read only" |

Met while translating, kept in the models as the code has them:

* `SendingNoise`: a line nobody expects in SMS_SENDING makes `gsm_switch_state` use
  a number as a string (`gsm_module.c:953`).
* `HangupEnds`, `Release`: `*PSCSC: 1, 20`, noise or NO DIALTONE completes a hangup
  before the OK, against `ChangeLogDEV:32` ("waiting for only OK to complete ATH
  transaction").
* `SendingFails`: before the prompt the answer is compared with `+CMS: 512`, which no
  modem line starts with, so the modem is not reloaded as `ChangeLogDEV:37` says.
* `DialWaits`: at the limit the deferred dial is scheduled again (`gsm.c:1855`, under
  the comment "fail call here").
* `module_dial` clears `dial_initiated` but not `dial_initiated_hangup`
  (`gsm_module.c:157`, `193`). When the network is lost or the call released while a
  dial waits, the flag set by its hangup (`gsm.c:2988`) outlives the dial; a later call
  that is put off is hung up instead of dialled, and with three calls driver and
  library can end up with different records. The theorems on calls have the premise
  `DialHasCall` for this.
* With outgoing calls the late HANGUP of an earlier one clears `gsmcall` of the next
  (`chan_allogsm.c:8239`, `8303`); it is the exception `CallKept` makes.
* `power stat` locks the span where it should unlock (`chan_allogsm.c:10898`), which
  is why `AtRest` leaves the console out.
* `needanswer` outlives the call that set it, and the next read of a channel becomes
  an answer (`chan_allogsm.c:7845`, `2355`). `allochan_hangup` clears the owner before
  it has the span's lock; while it waits in `gsm_grab`'s window the span may be claimed
  again, and it hangs up whatever `gsmcall` is by then (`chan_allogsm.c:2500-2521`).
  HANGUP's cause is never
  `REQUESTED_CHAN_UNAVAIL`: no line of `gsm_module.c` sets it (2182, 2233, 2395, 2444,
  2482, 2652, 2683, 2855, 2867, 2880), so the reset at `chan_allogsm.c:8339` is dead
  code and not in `HangsUp`. `restartpending` is counted down but never cleared
  (`chan_allogsm.c:2581`).
* Requests: the wait gives the request's mutex back (`chan_allogsm.c:9005`, `9088`, `9587`,
  `9684`), so that the trylock of a second thread succeeds: two threads of a kind may wait,
  and one signal wakes one of them. A signal that comes between the sending and the wait
  is lost (`chan_allogsm.c:9586`). After a timeout the late answer goes to the next
  request. This is why `FreshAnswer` is stated up to the first timeout and the first
  meeting; `phone_lock`, which is kept, excludes the meeting only. Two threads may find the same free
  slot of the timer table (`gsmsched.c:105`), and one request is forgotten. The operator
  query ends on any line that is no event; a USSD request does not hear NO CARRIER.
  `send at` without SAFE tests an uninitialised variable (`chan_allogsm.c:8985`);
  with SAFE it never takes the span back to READY, and `set_state_ready` runs after
  the mutex was given up (`chan_allogsm.c:9097`), so that `SafeEnds` speaks of
  `send at safe`. The phone check sets `auto_hangup_flag` before it tests for READY.
  `send sms file` unlocks `ussd_mutex`, which it never locked (`chan_allogsm.c:10003`).
* `SendSMS` without an ID takes the index of the last part for the number of parts
  (`chan_allogsm.c:13374`): the last part is never sent, so a short text not at all.
  With an ID it overwrites the destination and leaves the text uninitialised.
* Codec: the number a failed text is filed under is off by one octet when a centre
  is configured (`gsm_sms.c:1800`); a `+` in the centre's number goes into the PDU; the
  back quote goes out as an inverted question mark; a character of four UTF-8 bytes
  is garbled; the reference of concatenated parts is always 0; a sender is reported
  only when the PDU has a centre; forwarding drops the header bit, so a part with a
  header is garbled (`Texts` speaks of plain ones, `plain`); 16-bit references are
  decoded wrongly; a negative time zone never shows its sign.
* `module_check_sms` wants the body together with its header line
  (`gsm_module.c:749`); a text cut there is lost (`apart`).
* Card: span 2's write chunk lies on span 0's read chunk, span 3's on span 1's;
  `OwnAudio` holds because the exchange writes before it reads, and only for spans
  that run when the millisecond is filled: one that does not is sent what another heard. The read chunks of spans
  2 and 3 lie past the 1024 bytes asked for.

## 4. Proofs

`SmsQueueProofs` holds for every number of texts and every size of the timer
table (`SmsQueueAssumption`: both natural numbers).

* `Typing`: `TypeOK` is inductive.
* `TimerSafety`: `TimerHasWork` is inductive with `TypeOK`: a text enters an empty
  list only with its timer, and the timer dies only with the last text.
* `Ordering`: `InOrder` is not inductive: it speaks of texts already handed over.
  `OrderInv` adds that what was handed over followed by the list is increasing
  and that every element was submitted before. `LineGrows` (an action property)
  gives the step: the line grows by the newest text at its end or moves one text
  across the border.
* `AckedSafety`: `AckedIsLive` with `TypeOK` and the fact that the texts of a list
  after `Append` are the old ones and the new one (`ElementsAppend`).
* `Refinement`: every step of `SmsQueue` is one of `SmsFifo` or leaves its
  variables alone.

`SpanProofs` holds for every set of lines and every bound,
under `SpanAssumption`.

* `SpanTyping`: the types are split into groups of variables (`Groups`), so that a
  step shows only the groups it touches. `TypeOK` alone is not inductive: a
  verdict files the text `sms_info` points to, so `TextsOK` adds that `info`
  implies a text number of at least 1.
* `HangupTimerIsHeld`, `SmsTimerIsHeld`, `DeferredDialIsHeld` (`DeferredDialKept`): the
  timers share a table and are deleted by remembered slots that may be stale. One of these,
  `retranstimer`, does take timers that are needed, and the three properties except just
  the slot it names; they say that nothing else does. `Held` is the conjunction of the
  first two with `DialElsewhere`: the deferred
  dial's timer is not in the slot `smsTimeoutSched` remembers, since a late verdict
  frees that slot (or `retranstimer` names it too). Most steps are `Calm` (no timer goes but
  that in the slot of `retranstimer`, and ATH is sent only
  with a timer), and `Calm` keeps `Held`. The rest is argued case by case: a text
  starts only while no dial is put off; a dial is put off only while the text
  holds its own slot, so it gets another; a hangup ends where its slot still holds
  its timer.

Its second part argues about calls and texts. The properties are false for some
modems (section 3), so the theorems come in two forms: with a premise about the
behaviour that names what goes wrong, and for environments where the premise is
proved.

* `Own`, of `DialInv` and `CallInv`, ties the deferred dial's timer, its two flags,
  the record and the driver's pointer together, and says that nothing of a dial is
  left when none waits. It is inductive as long as a dial that waits has its channel
  (`DialHasCall`), and gives `RecordShared`, `DialOwned`, `DialWanted`, `CallOwned`.
* `Counted` says how many transmissions a text has had in each state; it gives
  `RetriesBounded` while `sms_stuck` is not set, the network's return in mid-text.
* `Filed` says which verdicts a text with an id has in each state, as long as no send
  timeout outlives its text and `retranstimer` does not name its slot (`SmsTimerInText`); it
  gives `VerdictOnce` and, with known
  answers and an empty queue, `ProcessLives`, which also needs that the record a start
  timeout was armed with is not freed (`StartHasRecord`): `gsm_start_timeout` finds the
  span through it.
* `Apiece` (`Alone`: the only send timeout is the current text's; `Busy`: a span with
  a call that does not wait is in a state of calls) shows that the premises hold
  where a modem neither releases a call by itself nor restarts.

| Environment | Theorems | Permits the lines of run |
|---|---|---|
| `QuietModem`: no release, restart, lost network, fatal error or start timeout | `QuietCalls`, `QuietTexts`, `QuietProcess` | `span_dials` |
| no news of the network but that it is there | `RegisteredRetries` | `span_faults` |
| no outgoing calls, `CalmModem`: no release, restart or start timeout | `LoneTexts`, `LoneProcess` | `span_texts` |
| no texts, any lines, any start timeouts | `LoneCalls` | `span_calls` |

`ModemInitProofs` holds for every set of lines and every configuration.

* `CardAnswersFirst`: `CardSeen` adds to `CardFirst` that in the states before the
  card's answer (`WithoutCard`) neither the last command nor the one a pending timer
  will repeat needs the card; otherwise a repeat could come after a reset.
* `OneLoop`: `OneTimer`: there is no timer without the flag, and the loop is started
  only where the flag is down or its own timer has just fired.
* `LoopStaysAlive`: `retranstimer` may be stale, and the end of a call deletes what it
  names. The loop's timer is the first of the table and takes the slot it left
  (`FirstSlot`), which `retranstimer` never names. The premise `FALSE \notin Powers` says that the span
  is found switched on; else the property is false (section 3).

`ChannelProofs` holds for any channels, calls, events and commands.

* `LocksReturned`: `LockAccount` gives for each place of each thread the count it
  owes to each lock. Every step is a few calls of lock and unlock that change the
  account as the place changes; a lock of another thread is never changed. `AtRest`
  is the account of the two places of rest, and the account bounds the depth
  (`Typing`).
* `RecordsAlive`: `StaleInv` says where `gsmcall` may name a call the library has freed:
  behind the mark `alreadyhungup`, which the driver's own hangup sets, and while the HANGUP
  that ended the call is handled. A RING's call is alive and nobody's until it has its channel.
* `RecordsAlive`, `OwnerAlive`, `LiveCallKept`: `OneWay` says who may be owner at each place of an
  incoming or an outgoing call, `OneCall` which calls are alive while an event is
  handled. The three need `"both" \notin Traffic`; with both directions at a time their
  properties are false (section 3).

`RequestsProofs` holds for any number of console threads and slots.

* `MutexesReturned`: `NoLockLeft` is inductive: the wait is where a thread under way does
  not hold its mutex, and the only one.
* `SentOnce`: requests are numbered as they come (`Numbered`), one that is still with
  its thread or a timer was not sent (`Unsent`), and the state of a request
  belongs to one that was sent and not yet answered (`Askers`). A timer takes the
  lowest free slot, which exists because `<` is well founded (`WFMin`).
* `AnswersFresh`: until a request of the mutex times out or two of them meet, one thread at
  most is under way with it (`Alone`), every request of it that may still be answered is
  one that a thread waits for or is about to, and the answer stored for a thread that
  was woken is its own (`Fresh`). For `phone_lock` the meeting cannot happen.

`CardProofs` holds for one to four spans and every size of reads, commands and
FIFO (`SpansAssumption`, `CardAssumption`).

* `TypeCorrect`: `TypeOK` needs `CountHolds`: what the work has counted is still in
  the card when it reads, since modems only add and nobody else reads; the second
  read takes only what the first left.
* `FreedUnused`: once the interrupt is given back no new work is queued, and the
  last step of removal waits for what is queued and what runs.
* `AudioApart`: `Passed` follows an exchange: what was filled for a modem stays in its
  buffer until the card has it (`OutHeld`), what the card gave stays until all
  milliseconds are received (`InHeld`). Neither a chunk filled nor one received lies
  in those buffers (`Disjoint`, arithmetic on the addresses), up to four milliseconds;
  from eight on it is false (section 3).

`TextsProofs` holds for every number (`NumbersAssumption`: digits, behind a plus or
not), set of commands, set of byte strings (`TextsAssumption`), pair of limits
(`LimitsAssumption`) and size of the buffers. What is asked of the texts beyond that
is a hypothesis of each theorem; the ASSUME of `MCTexts` has TLC evaluate these
hypotheses for the texts of the run.

* `EveryPduAddressed`: `Addressed` is not inductive, since it says nothing of the octet
  that gives the centre's length, from which forwarding computes where the
  destination starts. `IInv` adds the shape of every PDU (`Parcel`: centre, flags,
  destination, then octets), where it came from (`Histories`, `Reports`), and that
  what is in the buffers is what the modem writes (`Readable`). The work is in the
  numbers: `Dso2String` undoes `Invert`, for odd lengths too.
* `EveryPartFits`: `OwnSize` of `IInv`. A part is cut where the sum of its bytes'
  weights would pass the limit; the proof follows `Split` byte by byte and shows
  that the sum is the length of what `Encode7bit` or `ToUnits` makes of the part.
  The hypothesis is `WellFormed`, and it is needed: the commands count two
  octets for a character of four bytes, and `ToUnits` makes four of it.
* `SplitLosesNothing`: the parts in their order are the text.
* `SeptetTextComesBack`, `UnitTextComesBack`: each coding is undone by its decoder.
  `Alphabet` leaves out the back quote and the control characters the 7-bit
  tables have no place for; `Shortest` leaves out the other ways to
  write a character in UTF-8, and surrogates, whose halves do not come back.
* `PartComesBack`, `PhoneTextComesBack`: with the codings, the number fields and the
  octets of the header, a PDU is decoded into what was encoded. A number that
  is only a plus comes back empty, which the hypothesis excludes.
* `EveryPartReadsBack`: the behaviour's form of it. `AllAsAsked` says of every
  PDU in the span, at the prompt or in the network that it encodes a part of its
  own text, and is inductive on top of `IInv`. More than 255 parts are excluded:
  the header has one octet for the total.

`EventsProofs` adds what comes out at the other end.

* `EveryTextReportedOnce`, `EveryEventExact`: what is reported is what was written, each
  part once. The argument is about one sequence, `Tape`: all that the modem has
  written and the reading thread has not taken (`san`, `acc`, `stream`). `Framed`: on it
  every header has a line of its own and its body on the next, and the blank stands
  behind every prompt; that stays so when lines are added behind and when `gsm_san`
  cuts a line off the front, wherever the reads came between. `Posted`: a header
  reports one of the texts (`Good`), so that an event made of a header and its body
  has that text's parts, by `PartComesBack` and `PhoneTextComesBack`. `Closed`: the
  collected lines end where a line ends, or in a prompt. `EachOnce`: a part is a
  parcel (in the span, at the prompt, in the network), or stands on the tape, or is an
  event, and only one of the three, once. `EInv` joins them and is inductive on top of
  `IInv` and `AllAsAsked`. Hypothesis (`RecoverableBothWays`): the commands' and the
  phones' texts are recoverable, of 255 parts and of 255 septets or octets at most.
  The header lines are characters here that name a text, enough for 99 texts
  (`HeadersAssumption`), which bounds only the histories. The first theorem lets all
  four commands run and speaks of the texts of `Direct` (all but `sendsms_exec`'s
  and forwarded ones); the second gives `Exact` itself where these two are not used.

The theorems of the library that do induction take an operator as a parameter; here a
set of natural numbers takes its place (`Induct`, `InductTo`), and the recursive
functions are unfolded one step at a time (`Recursion`), which is as much as the prover
needs for folds over bytes.

**Only model-checked.** Of `Texts`, `AllArrive`, which speaks of a system that has come to
rest with buffers of a given size, and `Exact` for texts sent by `sendsms_exec`, whose
length octet can overflow under limits the assumptions allow, and for forwarded ones.
All liveness (`Drains`, `TextEnds`,
`HangupCompletes`, `DialHappens`, `StartRetried`, `SafeEnds`, `Served`, `Sent`), being
beyond the prover. The properties of `Span` and `Channel` outside the environments
named above, where they are false.

## 5. Not modelled

* Call waiting in the library (hold, swap, refuse), conferencing, native bridging,
  configuration reload and unload of the driver, `QueueDestroy`.
* Multiplexer (MUX) states and the firmware update after its first state.
* `allogsm_send_pdu`'s resend timers as a table: `Texts` gives the span room for all
  parts. Storage of incoming texts, status reports, 8-bit data, and
  `gsm_text2sm_event`, which nothing calls.
* A phone's text in text mode that itself has a line end or a '>' (`LinesAssumption`):
  how modems write such a text is not in the code.
* Overflow of `at_last_recv` and `sanbuf`: `Framing` has the limit, the run keeps the
  reader ahead of the modem; when it falls behind, what was collected is dropped
  by design.
* Loading of the kernel driver: reset of the FPGA, the test that reads the answers
  while the interrupt's work may read them too (`base.c:1080`), a card that cannot be
  registered (`base.c:1360`). `Card` starts in any state loading may leave. The ioctls
  and the audio hardware's set-up. Two interrupts that fall into one queued work are
  one, so an exchange of audio is lost; that is the code's behaviour and no property
  speaks of lost audio.
* In `Framing`: the zero bytes that the reader drops (`gsm.c:2590`), and the return -3 of
  `gsm_san`, an empty line where only four line ends are left behind a `+CMT` header
  (`gsm.c:3733-3737`): the models' modems write neither zero bytes nor empty lines.
* In `Span`: an answer in a mode other than text and PDU (`sms_mod_flag`, `gsm_module.c:1024`;
  the start-up and every text set one of the two). The timer that a reset of an idle
  channel arms and `retranstimer` then names (`gsm.c:379`, `1716`) is in `ModemInit` only.
* In `Requests`: a slot of the timer table written half by one thread and half by another;
  wake-ups of `ast_cond_timedwait` without a signal; `check_mutex`, which is taken only within
  `phone_lock`; the unlocks of `gsm_rel` (`chan_allogsm.c:423`) and `send sms file`
  (`chan_allogsm.c:10003`) of mutexes another thread holds, which do nothing to Asterisk's.
* In `Channel`: a crash by a read of freed memory. The record read is the old one or
  another call's.
* Times: any armed timer may fire at any moment. Every order the code can show
  is included; so are orders that only extreme delays produce.
* A PBX that cannot be started on the channel of an incoming call, which is then
  hung up by the d-channel thread (`chan_allogsm.c:7612`).
* Failing `malloc` outside `allogsm_send_text` and `allochan_new`; commands that only print; wording and
  logging.
* The SPI bus driver passes buffers on; libiconv, the DAHDI patches and the
  installers are not this program's logic; `gsm_bak_b4_unicode.c` is an older copy
  that no makefile builds.

## 6. Plan

1. `SmsVerdict`: abstract life of a text (accepted, transmitted at most n times,
   one verdict), refined by `Span` where the modem neither reboots nor releases.
2. Proofs: the refinement of `SmsVerdict`; `Exact` for forwarded texts.
3. Call waiting: hold, swap and refuse in the library, with the second subchannel
   `Channel` already has; unload, with the count of pending restarts.
4. `GsmSched`: times and their carry at one million microseconds, a clock that is
   set; a callback never fires early.
5. Loading of the kernel driver: the test against the interrupt's work, the way
   back from a card that cannot be registered.

Abstract specifications: `SmsFifo` (done), `SmsVerdict`, the stream of lines for
`Framing`.
