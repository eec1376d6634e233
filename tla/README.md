# Verification of the durable paths of hermes-youyi-product

The product is a "digital employee" for a tutoring institution. It runs as plugins of
the Hermes agent gateway (Hermes is not part of this repository), talks to people over
WeCom, and wakes itself up for tasks that need attention. Most of its code is business
data and text. This project is about the part that must not lose, repeat or invent
work: the path of a WeCom callback from the edge to a model turn, the path of an internal
work fact from the scanner to a model turn, what a turn may do while it runs, and the way
of its reply back to the person. They are built from SQLite tables, leases, polling loops,
hooks in worker threads and processes that may die at any line.

## 1. Inventory

### 1.1 Holding bridge (`runtime/plugins/platforms/wecom/holding_bridge.py`)

*State.* One table, `held_callbacks`: a row per transport fingerprint with a state
(`direct`, `pending`, `replaying`, `completed`), `next_attempt_at`, the request itself
until it is completed. In memory: the request handlers that await an upstream answer and
one replay task. In the file system: the HOLD marker.

*Operations.* `handle_post` stages a callback, answers duplicates, holds or forwards
it, and settles the row by the answer (2xx, transient, explicit rejection, transport
error). `_replay_loop` runs `replay_once` over due rows and prunes tombstones. A start
turns `direct` and `replaying` rows into due `pending` ones.

*Interaction.* WeCom calls it and takes any 2xx as final. It calls the Cloud Hub, which
calls the Gateway. `scripts/xiaoyou_wecom_holding_mode.py` creates and removes the marker.

*Hard.* A handler and the replay task race for the same row across an await; the lease
of a direct row may end during the forward; HOLD may be entered at any moment; answers
are lost; the process dies between an answer and its record.

*Correct when.* What WeCom was told is accepted survives until the Gateway accepted or
rejected it; a message is not sent by two senders at a time; a finished message is not
sent again; the backlog drains; HOLD makes the bridge silent.

### 1.2 Gateway callback intake (`callback_adapter.py`, `inbound_receipts.py`)

*State.* `inbound_receipts`: status, `attempt_count`, `claimed_at`, `reply_status`,
`owner_id` per message id. In memory: a queue, the poll task, dispatch tasks.

*Operations.* `_handle_callback` claims and queues; `_poll_loop` waits at the drain
gate, marks `processing` and starts a task; `_dispatch_claimed_message` runs the turn and
finalises the receipt; `connect` recovers open receipts with attempts left, and an SQLite
error there closes the intake again, leaves the poll loop running and may leave rows claimed
that nobody queued (`ConnectFails`).

*Hard.* A claim of 15 minutes counts as stale although a turn may take 1770 seconds; a
reconnect recovers rows of its own process; SQLite errors hit each of the writes; a
message may kill the process each time.

*Correct when.* No open receipt is without a worker, a processed message is not run
again, turns per delivery are bounded, a claim ends.

### 1.3 Maintenance drain (`maintenance_drain.py`, `scripts/xiaoyou_wecom_callback_drain.py`)

A file closes the gate of the poll loop; the controller waits until the count of
`processing` receipts has been zero for some seconds and then declares the Gateway
quiesced. It is correct when a declared quiescence is real, and when the wait ends.

### 1.4 Work inbox (`tuoguan_core/work_runtime.py`, `DurableWorkInbox`)

*State.* `work_facts` (pending, leased, delivered) and `wake_batches` (scheduled,
leased, completed), each with owner and deadline; at most one active batch per partition.

*Operations.* `ingest`, `recover`, `claim` (which calls `recover` in a transaction of its
own), `acknowledge`, `renew_lease`.

*Hard.* Facts arrive while a batch is leased; consumers acknowledge part of an envelope,
late, or after their lease has been released; deadlines are compared in `recover` only;
the coordinator of a tenant uses a constant worker id.

*Correct when.* A pending fact always has a batch that will wake somebody, nobody is
woken for nothing, an accepted acknowledgement covers exactly the envelope, delivered
facts stay delivered and every fact is delivered.

### 1.5 Agenda (`tuoguan_core/agenda_runtime.py`, `agenda_service_work/adapter.py`)

*State.* The inbox, and `agenda_service_tickets` with state (issued, dispatched,
agent_claimed, completed, timeout, failed, expired), `expires_at`, `inbox_ack_state`.
In the Gateway process: the submission in flight with its future, whether the toolsets
are registered, turns on Hermes' worker threads.

*Operations.* The coordinator process repeats `run_once`: scan and ingest, expire
orphaned turns, renew the leases of open tickets, acknowledge the facts of ended tickets,
claim one envelope, issue its ticket. The adapter polls issued tickets, dispatches one
as a message event, waits with a timeout; the pre-LLM hook (`runtime_contract.py`) claims
the ticket; the terminal hook settles it.

*Hard.* Two processes share only the database. A turn outlives the lease and the
submission; a restart must put back what no Agent has seen and must not put back what one
has; a crash falls between any two transactions.

*Correct when.* A fact gets one ticket and one trusted turn, tickets end once, the fact
is delivered only after the end, and every fact is consumed.

### 1.6 Reply path (`work_runtime.py` `DurableReplyOutbox`, `direct_reply_recovery.py`, `work_runtime_channels.py`, `wecom_outbox_port.py`, `reply_recovery/adapter.py`)

*State.* `reply_jobs`, a row per operation: `generation_state` (pending_generation,
generated, generation_failed), `delivery_state` (not_ready, pending, leased, delivered,
blocked, unknown, suppressed), `delivery_hold`, text, lease. In another database
`direct_reply_turns`: the row of a turn with its receipt, its `reply_id`,
`recovery_state` and `tool_attempted`. In memory: registered ports, the chats of running
recovery turns, the drain loop.

*Operations.* The hooks of a turn record a verified receipt and stage the reply, held. A
control marker goes to the gateway in place of the text; the WeCom adapter's `send`
recognises it and releases the hold. Agenda turns and notices stage without a marker. The
drain loop claims replies without a text for a zero-Tool turn of the same Hermes, and due
replies for delivery; the outcome of a send is delivered, failed, rejected or unknown.

*Hard.* Turn threads, event loop and recovery turns write the same row; a lease of 30 s is
shorter than a send or a turn may be; generation and delivery share the state `leased` and
the worker id; the row and its link lie in two databases; the answer of the channel may be
lost, and the process may die before it is recorded. `finish_recovery` writes the text to
the outbox and then `recovery_state` to the other database, and only then the chat is
forgotten; an SQLite error in the second write is swallowed, and so is one in the note of
a Tool attempt.

*Correct when.* A held reply is not sent, a person gets one answer, a reply is sent once,
`delivered` is true, a text that has been sent does not change, a recovered text comes from
a turn without Tools, and what is released is settled.

### 1.7 Turn gate (`turn_fence.py`, `runtime_contract.py`, the hooks of `tuoguan_core/__init__.py`, `callback_adapter.py`, `robot_poc/adapter.py`)

*State.* In memory only. The fence of a message (active, superseded, expired, finished;
phase created, model, tool; a deadline) and its session; the contract's records of
trusted turns per session, and one-shot ingress records of the robot; which sessions have a
model turn; what the callers wait for.

*Operations.* `reliable_handler` begins a fence, runs the turn, and expires the fence
at its timeout. The pre-LLM hook finds, binds or claims a record and binds the session to
the fence of that record's message; the pre-tool hook asks contract and fence; the post-LLM
hook finishes the fence and clears the record, on some of its paths. `submit_text` of the
robot claims the turn with a future, binds an ingress record, then checks whether the device
is busy; a repeated request awaits the future without a timeout, or gets the stored
response. A timed-out turn with a verified reply is handed to the outbox and keeps the device
busy until `send` completes it.

*Hard.* A thread goes on when its caller has given up. Records are found by session, not
by message, and outlive turns that end late, empty or with an exception. A new message
supersedes an old one while that may be starting a Tool.

*Correct when.* A late turn starts no Tool and an early one is not refused, no turn acts
for somebody else's submission, a running Tool is not cancelled, every caller is answered.
The last fails for the repetition of a refused submission (section 5).

### 1.8 What is not modelled, and why

| part | reason |
|---|---|
| execution receipts, write guard | decisions inside one call over one record |
| notification runner | wrapper around the older queue of scheduled reports |
| WeCom websocket adapter | other transport, dedup in memory only |
| task and employee state, tools, autonomous loop, payroll, dashboards | sequential business data, validation rules and projections |
| routers, understanding | text classification with keyword rules and a model |
| governance claims, personnel identity | single records, a transaction each |
| installer, migration, operations worker | file procedures run by an operator |
| Hermes, Cloud Hub | not in the repository; external actions |

Within the modelled files: the outbound half of the callback adapter (tokens, media,
sends), decryption, `handle_get`, health and counts, the rules that select facts in
`scan_workspace`, ticket texts, audit rows, `WecomInboundReceiptStore.prune`, which
nothing calls; `business_truth` and `agent_truth`, the robot's own hand-over of a reply,
aliases of turn ids; what the fence remembers for the wording of its failure reply;
identities and continuity keys of the contract; prompts, traces and text guards of the
hooks.

The implementation has about 100 000 lines. The parts with a protocol - state that several
actors change over several steps - are a small share of them, and they are the ones
modelled here. The large files (`digital_employee_state.py`, `tool_service.py`,
`router.py`, `dashboard_builder.py`, `autonomous_employee_loop.py`,
`runtime_foundation.py`, `tools.py`) are synchronous functions that validate, transform and
render JSON records under one lock: a model of them would repeat their rules without an
interleaving to check, and their texts are outside what a model checker tells apart. The
share of mapped lines therefore stays small by choice, not for lack of a next module.

## 2. Plan

Order of work, the behaviour that matters most first:

1. the bridge, with the abstract relay it implements - done;
2. the Gateway's receipts with the drain - done;
3. bridge and Gateway composed - done;
4. the inbox under arbitrary consumers - done;
5. the Agenda on top of the inbox - done;
6. the reply outbox with recovery, hand-over and delivery - done;
7. the turn fence and the Runtime Contract under hooks, callback and robot - done;
8. proofs of every invariant and action property of 1 to 7 - done;
9. abstract specifications of the inbox and of the reply path, with proofs that the
   detailed ones implement them, and the chain as an implementation of both of its parts -
   done;
10. open: the robot's hand-over of a reply composed with 6; the Agenda's terminal staging
   composed with 5 and 6 (here the two meet in the open outcome of `TurnEnds`); an
   abstract at-most-once specification of the Agenda's turns.

## 3. Modules

| module | models | built on |
|---|---|---|
| `HoldingBridge` | bridge, HOLD marker, upstream as an open environment | |
| `DurableRelay` | abstract: take, acknowledge, accept, finish, refuse | |
| `CallbackGateway` | receipts, queue, poller, turns, drain and its controller | |
| `IngressChain` | the bridge whose upstream is the Gateway | `HoldingBridge`, `CallbackGateway` |
| `FactLedger` | abstract: a fact arrives, is taken, settled, lapses, is renewed or reclaimed | |
| `WorkInbox` | the transactions of the inbox, no process | |
| `InboxWorkers` | arbitrary consumers of the inbox | `WorkInbox` |
| `AgendaTickets` | coordinator and adapter around the inbox | `WorkInbox` |
| `ReplyPromise` | abstract: a reply is written, released, sent, cut off, confirmed; or its user told | |
| `ReplyOutbox` | the transactions of the reply outbox, no process | |
| `ReplyPath` | turn threads, gateway hand-over, drain loop, recovery turns, channel | `ReplyOutbox` |
| `TurnIds` | turns, chats and their relation | |
| `TurnFence` | the calls of the turn fence | `TurnIds` |
| `TrustedTurns` | the calls of the Runtime Contract | `TurnIds` |
| `TurnGate` | hooks, callback handler and robot adapter around both | `TurnFence`, `TrustedTurns` |
| `MC...` | values of the constants for TLC | |
| `...Proofs` | theorems | |

Definitions marked *seeded fault* are mutated forms of the definition that follows them:
what a plausible slip in the code would look like. No specification uses them; each
property is known to fail under at least one.

### How code becomes actions

*Atomicity.* In the asyncio processes an action is the code between two awaits, because
nothing else runs there. `handle_post` therefore is a step up to its forward and a step
after it, and `replay_once` likewise. Between processes (coordinator and Gateway,
consumers of the inbox) an action is one SQLite transaction. `claim` of the inbox
is two actions because it is two transactions. Turns run on threads, so their hook and
their terminal write are separate actions, and so are the write of a terminal
and the wake-up of the future. `mark_processing` and `create_task` are one action, as
there is no await between them; the gate check before them is another one. In `ReplyPath`
each transaction of a turn thread is an action, since the event loop runs beside it: the
staging in the outbox and the link in `direct_reply_turns` are two. `claim_recovery` runs
in the event loop without an await but in three transactions, so it is two actions with
the loop blocked in between (`LoopFree`). In `TurnGate` a hook is one action: its calls of
fence and contract are each under a lock, and what another thread could do between two of
them is what it can do before or after.

*Time.* No property compares times, so a deadline is one bit: it has passed or not.
`due` (bridge), `stale` (receipts), `flate`, `blate`, `bready` (inbox), `lapsed`
(tickets, replies), `past` (fences), `stale` (ingress records). The clock sets a bit whenever it
likes. Where two rows carry the same deadline
they must pass together: `sync` holds the facts that share the `lease_until` of their
batch. The coordinator reads the time once per cycle, so leases run out between cycles
(`BetweenCycles`).

*Faults.* An SQLite error, a failed dispatch or an aborted cycle is an action that
counts against `MaxFaults`. Crashes of bridge and Gateway are not counted and may happen
for ever; those of the Agenda processes count, since a coordinator that dies in every
cycle guarantees nothing. In `ReplyPath` crashes, disconnects, SQLite errors and calls of
the operator count against `MaxUpsets`; lost answers and lapsed leases are not counted. In
`TurnGate` threads die and callers give up freely. Where the code logs and continues (`Tolerating`) the model
continues with the row unchanged.

*Correspondence of state.*

| model | code |
|---|---|
| `row`, `due` | `held_callbacks.state`, `next_attempt_at` (or retention) passed |
| `carries`, `answer` | a coroutine inside `_forward`, the status on its way to it |
| `scanning`, `batch` | `replay_once` active, rows of its snapshot still to visit |
| `status`, `attempts`, `processing`, `foreign` | columns of `inbound_receipts` |
| `waiting`, `gate`, `passed`, `turns` | queue entries, the item the poller holds, gate seen open, dispatch tasks |
| `fstate`, `fowner`, `bstate`, `bgen`, `bowner` | `work_facts`, newest `wake_batches` row of a partition |
| `tstate`, `acked` | ticket state, `inbox_ack_state` |
| `cpc`, `rows`, `subject` | position in `run_once`, result of the last query, row at hand |
| `waiting`, `alarm` (Agenda) | the submission in flight, its `wait_for` |
| `events`, `running`, `settle` | message events in Hermes, turns, calls of the terminal hook |
| `gen`, `dlv`, `hold`, `text`, `born`, `unported` | columns of `reply_jobs`; `unported` is `last_error = 'channel_unregistered'` |
| `agent`, `linked` | position of a turn's thread in its hooks, `direct_reply_turns.reply_id` |
| `leasedRec`, `flagged`, `session` | `recovery_state = 'leased'`, `tool_attempted`, `_session_for_chat` |
| `clean`, `tooled` | running recovery turns that have not, or have, tried a Tool |
| `owed`, `asking`, `kept` | robot futures that nobody has resolved, repeated requests that await one, operations handed to the outbox that still occupy the device |
| `drain`, `ported` | position of the drain loop with its job, a registered port |
| `status`, `phase`, `bySession`, `byChat` | fields and indexes of `turn_fence.py` |
| `rows`, `message`, `pending` | `_BY_SESSION` of the contract, a record's message id, `_PENDING_ROBOT_INGRESS` |
| `pc`, `wait`, `live` | position of a turn's thread, its caller, `_ACTIVE_MODEL_TURNS` |

`acked`, `accepted`, `rejected` (bridge), `claims`, `started` (Gateway), `issued`, `turns`,
`denied` (Agenda), `told`, `accepted`, `broken`, `torn`, `overrun`, `unnoted`, `soiled`
(replies) and `actsFor`, `lateStart`, `refused`, `raised` (gate) are history: the code does
not have them, properties need them. Five of them name what the code does not guarantee, and
the properties except exactly these cases: `broken`, a send whose outcome was not recorded;
`torn`, a recovery of which only the first record was written; `overrun`, a recovery turn
that outlived its lease; `unnoted`, a Tool attempt whose note failed; `denied`, a ticket whose
TTL passed while the runtime was not ready.

*Abstractions worth knowing.* A batch of 50 replays is larger than the model's backlog,
so `batch` is a set and its order is free. A service fact has a partition of its own (its
session id contains event and version), so in `AgendaTickets` a ticket is named by its
fact; that a fact could get two tickets is not excluded by this: `issued` counts them.
Every message of the chain is a valid callback, so a 400 can only come from an
internal failure. In `Recover` of the Gateway any recovered row may turn out broken
(application removed, payload unreadable). In `TurnGate` a chat and its Agent session are
one, Hermes runs the turns of a session one after the other, and all robot turns come from
one actor; a second fence for the same message, which the receipts of `CallbackGateway`
make rare, is left out. The `turn_id` Hermes gives the hooks of a WeCom turn is taken to be
the id of its message, which the code expects and does not require: otherwise
`bind_session` finds no fence, and `FenceIsExact` says nothing about that turn. Where Hermes has the hook
`post_gateway_response`, it is registered instead of `post_llm_call`; it ends a turn in
the same two ways, after the delivery. A late `send` of a robot turn that has timed out, which
would complete the submission then active in the chat, is left out. The poll loops that
several failed `connect`s leave behind count as one, and `connect` of an adapter that is
connected is left out in Gateway and Agenda: Hermes does not call it.

## 4. Runs

| run | instance | shows |
|---|---|---|
| `bridge_calm` | 2 messages, 2 handlers, 1 fault, lease covers the forward | `OneSendPerMessage`, `NoStrandedReplay`, `AckedIsServed`, `HoldQuiesces` |
| `bridge_rough` | same, leases may end during the forward, replay may abort | `AckedIsKept`, `CompletedIsAccepted`, `ImplementsRelay`, `NoSendAfterCompletion` |
| `gateway_calm` | 2 messages, 3 attempts, 2 SQLite errors, fresh claims | `OneCopy`, `QuiescedIsIdle`, `ClaimIsFinished` |
| `gateway_rough` | 2 messages, stale claims, reconnects, 1 error, in a recovery too | `ClaimHasWorker`, `TurnsAreBounded`, `ProcessedIsFinal` |
| `chain_calm` | 1 message, 1 handler, crashes of both, 1 Gateway error | `AcceptedHasReceipt`, `AckedIsSomewhere`, `RepeatsAreAbsorbed`, `AckedIsRun` |
| `inbox` | 2 facts of one partition, 3 consumers, two of one worker id | `PendingHasBatch`, `NoEmptyWake`, `AckIsExact`, `ImplementsLedger`, `FactIsDelivered` |
| `agenda` | 1 fact, 3 faults | `OneTicketPerFact`, `OneTurnPerFact`, `DeliveredHasEnded`, `EndedStaysEnded`, `FactIsConsumed` |
| `outbox` | a direct or Agenda reply beside a notice, 2 recovery turns at a time, 1 upset | `HeldIsNotSent`, `OneVisibleReply`, `OneDelivery`, `SendingKeepsLease`, `RecoveredIsToolFree`, `TextIsFinal`, `ImplementsPromise`, `ReleasedIsSettled` |
| `outbox_starved` | a direct reply and a notice without authority, no upset | violation of `DirectStaysDeliverable` |
| `gate` | 2 WeCom messages of a chat, 3 robot submissions with repetitions, or one of each channel | `FenceIsExact`, `NoStrayAuthority`, `ToolIsNotCancelled`, `TurnIsAnswered` |
| `gate_refused` | same | violation of `RefusedIsLate` |
| `gate_purge` | same | violation of `PurgeCompletes` |

Type invariants are not repeated in the runs: each is a theorem (section 6). The largest
runs are `gateway_rough` (3.0 million states), `gate` (365 000) and `outbox` (324 000), the
last two with liveness.

### The abstract specifications

*`DurableRelay`* is what the bridge promises WeCom: what was acknowledged is held until it
was accepted or refused. *`FactLedger`* is what the inbox promises the scanner and the
coordinator, without batches, generations and polling: a fact waits, is taken together with
others by one holder, is settled by that holder or reclaimed once its lease is late; a
lease that is late can be renewed as long as nobody reclaimed it; settled is for good; and
what waits is watched by an active batch of its partition (`watched`). *`ReplyPromise`* is
what the reply path promises the user of a turn, without rows, leases and threads: the
gateway's own text and the outbox exclude each other, the channel gets a reply once unless
the record of a send was cut off or the reply is `torn`, the text of a reply that is not is
fixed by the first send, and what counts as delivered was accepted. `open` maps to the rows without a hold and `confirmed` to the rows
in `delivered`; texts, sends, cuts and `torn` are shared. Delivered facts staying delivered
(`DeliveredIsFinal`) and deliveries being real (`DeliveredWasAccepted`) are parts of these
two and are proved separately as well.

### Why the bounds are enough

Rows of the bridge and receipts of the Gateway do not interact except through the one
replay task, the one poller and the drain, so two messages are enough to have one in the
way of the other. Two handlers let a duplicate of a message arrive, and a second message
be forwarded, while the first is in flight. Two SQLite errors are what it takes to end
the poll loop. `MaxClaims` = 2 lets a message be delivered anew after a failure or a
stale claim. The inbox needs two facts in a partition so that one can come while the other
is leased, and three consumers: two that confuse each other's leases and one that does
not. The third batch of `MaxBatches` is kept for acknowledgements that deliver something,
so the bound cannot stop progress. Facts of the Agenda meet in the drain loop only,
which takes one at a time; three faults allow a crash of each process and another one in
the recovery. Replies meet in the drain loop and its order, so one of each kind is enough to
stand in the other's way; two recovery turns at a time are what it takes to have one
outlive its lease, and with one upset a second one may finish a reply whose first recovery
was recorded by half; one upset cuts off a send in each of its states, and what follows a
cut is as in a run without it. Two WeCom messages supersede each other; of three submissions
one runs, one is refused with the same words, and a third comes later. `CHECK_DEADLOCK
FALSE` in the gate: its messages have come and gone and nothing more happens. The theorems of
section 6 hold without any of these bounds.

Messages and handlers are interchangeable; symmetry is used in the safety runs
(`bridge_rough`, `gateway_rough`), not where a liveness property is checked.

### Constants that name a condition

`LeaseCoversForward`, `ClaimsStayFresh`, `MayReconnect`, `StableCoversGate` and
`ReplayFaults` separate what the code guarantees always from what it guarantees as
configured. The direct lease is twice the forward timeout plus a replay interval, so
the first holds unless the event loop stalls or a forward uses up the timeout in several
of its phases (httpx applies it to connect, write and read separately). The second does not hold
in general (section 5, observations). The
controller's stable period outlasts the few instructions between gate and mark, which is
`StableCoversGate`; the code has no lock that would make it certain. `OneSendPerMessage`,
`OneCopy`, `QuiescedIsIdle` and `NoStrandedReplay` say in their text on which they depend;
the rough runs check the rest with all of them false.

### Fairness

*Bridge.* Weak fairness of the steps after a forward (httpx bounds each by a timeout), of
the replay loop and of the clock. Of the upstream: strong fairness of a decision for each
message, and of a decision being heard by the replay task - a Gateway that is asked again
and again does not answer 503 for ever and not all its answers are lost. Nothing is
assumed about crashes: `AckedIsServed` concludes only for runs that are up and out of HOLD
from some point on.

*Gateway.* Weak fairness of the gate (re-read every 0.1 s), the dispatch step and the end
of a turn (limit 1770 s); strong fairness of taking each message from the FIFO queue,
which the multiset of the model does not order.

*Inbox.* Every consumer polls and the clock advances. Strong fairness of an
acknowledgement that delivers a fact: a consumer that gets it again and again manages at
some time before its lease ends.

*Agenda.* The coordinator is restarted by systemd and runs through its cycle, the adapter
reconnects, polls and times out, the clock advances. Nothing is assumed about toolsets,
Hermes or turns, so `FactIsConsumed` holds even if every turn hangs; it excepts facts whose
ticket was `denied`. Faults are bounded, so a cycle that raises every time, for which nothing
could hold, is not covered.

*Reply path.* The recovery adapter connects, a port is registered, the drain loop runs, an
await of the HTTP client ends (its timeout), leases lapse and recovery turns end. Strong
fairness of acceptance by the channel and of a recovery turn that tries no Tool, of any reply
and not of each: a channel that is tried again and again accepts something at some time. Nothing is assumed about the threads of the
original turns, so a reply whose marker never comes stays held. In `outbox_starved` the
same fairness holds; it is the order of the rows, not the channel, that starves the reply.

*Turn gate.* The clock and the event loop only: deadlines pass, `wait_for` ends. Threads
and Hermes may stop anywhere, and `TurnIsAnswered` holds all the same. Nothing is assumed of
the outbox: a repeated request for an operation handed to it may wait as long as it takes.

## 5. Findings

Each is a disagreement of the code with a line of the repository, shown by a violation run.

1. `outbox_starved`: a notice that the port refuses for want of authority goes back to
   `pending`, is the oldest row again and is claimed by every iteration
   (`work_runtime.py:928`); the direct reply behind it is never sent, against the comment at
   `wecom_outbox_port.py:88`.
2. `gate_refused`: a turn that ends late, empty or with an exception leaves its record in
   the session (`__init__.py:2837-2895` return without `clear_trusted_turn`). The next
   turn takes the record over (`__init__.py:1521`), is bound to the expired fence and has
   its Tools refused as late for up to 20 minutes, against "for one turn" at
   `runtime_contract.py:41`.
3. `gate_purge`: `_purge_expired_locked` uses the undefined name `ingress`
   (`runtime_contract.py:126`). Once an ingress record nobody claimed (a refused or
   timed-out submission) is 20 minutes old, every call of the contract raises, for WeCom
   turns as well.

Observations, in the models but not stated as properties:

- a 3xx/4xx that answers a *replayed* request goes back to `pending` and is replayed again
  (`holding_bridge.py:878`), against the comment at line 816, which the direct path honours;
- a receipt is claimed again after 900 s although its turn may run 1770 s
  (`inbound_receipts.py:138`), so two turns of a message can run at a time, against
  `docs/wecom-bootstrap-holding-bridge-v1.md:62`; this is why `OneCopy` asks for fresh claims;
- the `processing` mark of a dead turn survives `recover_pending` (`inbound_receipts.py:205`):
  a drain across a restart never counts zero, against the docstring of `_poll_loop`;
- an internal error of the Gateway is a 400 (`callback_adapter.py:818`), which the bridge
  takes for a rejection: it discards the row even if a duplicate was answered 2xx. This is
  the exception in `AckedIsSomewhere`;
- `mark_failed` may raise in the handler of `mark_processing` (`callback_adapter.py:888`):
  the poll task ends and nothing is dispatched until a reconnect (`PollLoopDies`);
- a ticket that expires while the toolsets are missing is acknowledged to the inbox as
  delivered (`agenda_service_work/adapter.py:835`), against the comment at line 547, which
  says that an unready runtime "must not consume the durable work fact"; `FactIsConsumed`
  therefore excepts the facts in `denied` and does not count this as consumption;
- `_complete` overwrites a terminal state; `disconnect` finds no active ticket to end,
  because cancelling the drain loop has emptied the map; a crash between
  `inbox.acknowledge` and the update of the ticket leaves the ticket deferred for good; the
  `expired` that `_claim_issued_ticket` writes is rolled back with its transaction;
- a send cut off by a crash, a disconnect or an SQLite error is repeated after its lease;
  a recovery claimed before the reply is linked fails the generation for good; a crash
  between staging and release of an Agenda reply leaves it held for good;
- an SQLite error in the second write of `finish_recovery` (`direct_reply_recovery.py:1008`)
  leaves the reply recorded and its chat correlated: a second turn of the reply may then
  finish it over the lease of its delivery, so that it is sent twice or with another text
  (`ReplyHalfRecovered`, the exception `torn`);
- an error of `note_tool_attempt` is swallowed (`__init__.py:2456`), so the text of a turn
  that tried a Tool is recorded (`TryToolUnnoted`, the exception `unnoted`);
- a robot submission refused as busy, or for want of a trusted turn, stays stored as
  `processing` with its future: its repetition awaits that future without a timeout
  (`robot_poc/adapter.py:466`, `Repeat`), the exception in `TurnIsAnswered`;
- an SQLite error in the recovery of `connect` leaves a poll loop behind, and rows claimed
  that nobody queued until the next reconnect (`ConnectFails`).

Seen while reading, outside the models: `observe_tool_result` reads only dict results
(`turn_fence.py:127`) while the Tool handlers return JSON text, so the failure reply may
deny a write that was made; the budget of a fence is clamped to 120 s (`turn_fence.py:71`)
while the callback waits 1770 s; the robot adapter mentions a turn fence installed on its
timeout (`robot_poc/adapter.py:581`) and installs none.

## 6. Proofs

All theorems hold for arbitrary constants that satisfy the named assumptions
(`BridgeConstants`, `GatewayConstants`, `ChainConstants`, `InboxConstants`, `WorkersConstants`,
`AgendaConstants`, `OutboxConstants`, `PathConstants`, `TurnConstants`, `GateConstants`): any
number of messages, handlers, facts, partitions, consumers,
attempts, operations, turns, chats and faults. The assumptions say only that the null values
differ from the real
ones, that counters are naturals, that operations and turns are finite and, for the Agenda,
that each fact has its own partition.

**Bridge.** `TypeCorrect`. `NothingAckedIsLost` (`AckedIsKept`) and `TombstonesAreEarned`
(`CompletedIsAccepted`) need `KeepInv`: besides the two properties, an answer "ok" at a sender
means the message
is accepted, so that the tombstone it leads to is true. `SendersDoNotCollide`
(`OneSendPerMessage`) and `ReplaysAreAttended` (`NoStrandedReplay`) need `OwnInv`: the row names
its sender - a
handler owns a `direct` row that is not due, the replay task a `replaying` one - so that
the WHERE clause of `mark_attempt` cannot select it and `persist_pending` cannot find the
row missing; and a stopped process has nothing in flight. `BridgeImplementsRelay` maps
`held` to the rows in a live state and shows each action to be a step of `DurableRelay` or
a stutter, from `KeepInv`. `CompletedIsNotSent` (`NoSendAfterCompletion`) follows from the
types alone once it is known which steps begin a forward (`ForwardsBegin`): a POST of a
message without a row, or a replay of a row that `mark_attempt` can claim.

**Gateway.** `GatewayTypeCorrect`. `TurnsBounded` rests on `PaidInv`: turns started plus
queue entries do not exceed attempts, attempts exceed claims by less than `MaxAttempts`,
and a row exists only after a claim. `ClaimHasWorker` is inductive as it stands
(`ClaimsHaveWorkers`). `OneWorker` (`OneCopy`) and `QuiescenceIsReal` (`QuiescedIsIdle`) rest on
`CalmInv`: a message with a copy has a fresh claim, so that `claim` refuses it; a running
turn has its mark, so that the controller counts it; a quiesced Gateway is drained and its
poller has not passed the gate; and a process that is down has no copies. `ProcessedStays`
(`ProcessedIsFinal`) needs only the types: every write of a receipt is conditional on a
status that is not `processed` (`ProcessedStep`), which is why a second copy
of a message that is still in the queue ends there.

**Inbox.** `WorkInboxProofs` proves, transaction by transaction, that `WakeInv` is kept: a
pending fact has an active batch, a scheduled batch has a pending fact, and a leased batch
has a leased fact with the same deadline (`LeaseShared`). `NoEmptyWake` is not inductive
without the last part: `recover` would otherwise reschedule a batch and release none of
its facts. `InboxWorkersProofs` adds that an envelope has facts, all of its own partition
(`EnvelopesFit`), and concludes `InboxTypeCorrect`, `PendingIsWoken`, `WakesHaveWork` and
`DeliveredForGood`. `AcknowledgementIsExact` needs `ExactInv`: a consumer that owns its
batch shares the batch's deadline with every fact of its envelope, so that `recover`
releases all of them or none. `InboxImplementsLedger` is proved by transaction, like the
invariant: `IngestArrives`, `ClaimIsTake`, `AcknowledgeSettles`, `RecoverReclaims` in
`WorkInboxProofs`, from `WakeInv`, which supplies that a waiting fact is watched.

**Chain.** `ChainRunsTheBridge` and `ChainRunsTheGateway`: a behaviour of the chain is one
of the bridge and one of the Gateway, each with the other in the place of its open
environment. So the invariants of both are available without a second proof:
`IngressChainProofs` extends the proofs of the bridge and instantiates those of the Gateway,
whose assumptions on the constants it has to discharge (`GatewayConstantsHold`), and
`ChainTurnsBounded`, `ChainProcessedStays` and `ChainQuiescence` carry the Gateway's results
over to a client that repeats itself. What the chain adds is `AcceptedHasReceipt`: `accepted`
grows only in a step that also claims, so that the records of the two processes cannot drift
apart. From it, `KeepInv` of the bridge and the Gateway's invariants follow
`DeliveredHasReceipt`, `AckedIsNeverLost` and `RepeatsDoNoHarm`.

**Agenda.** `OneTicket`, `OneTurn` and `DeliveryFollowsEnd` (`OneTicketPerFact`,
`OneTurnPerFact`, `DeliveredHasEnded`) rest on `TicketInv`: a ticket is issued once and a turn is counted
only for a ticket that has left `dispatched` for good (`Counted`); a leased fact and its
batch belong to the coordinator and share a deadline (`Leased`); a fact with a ticket is
leased until the ticket has ended and been acknowledged (`Ticketed`); a submission in
flight has a ticket (`Submitted`). The heart is `Progress`: at each point of a cycle, which
overdue leases are still to be renewed or acknowledged, so that none is left when
`recover` runs - the reason why the order of the steps of `run_once` matters.
`EndedForGood` is the action property `EndedStaysEnded` from the same invariant.
`AgendaImplementsLedger` reuses the refinement lemmas of `WorkInboxProofs` under the
coordinator, and `AgendaNeverWakesEmpty` the lemmas of `WakeInv`: every scheduled batch has a
pending fact, so the `agenda_envelope_empty` branch of `run_once` is never taken.

**Reply path.** The theorems of `ReplyPathProofs` rest on one invariant. A turn
keeps its reply held until its marker comes back (`Holds`), a held reply is idle and has a
lease only for generation (`HeldIsIdle`), and a turn answered with a text has at most a
held row (`ToldIsHeld`): `HeldStays`, `OneAnswer`. What is being sent has its text and its
lease (`SendsLeased`), and a recovery turn that is still correlated belongs to a row
without a text, to one that a late staging has overtaken and that is held for good, or to
one that is `torn` (`Regenerates`, `Overtaken`): `LeaseOutlivesSend`, `TextStays`. What the
channel has is recorded, about to be, or was cut off, unless the reply is `torn`
(`AcceptedIsKnown`): `DeliversOnce`, `DeliveryIsReal`; and what is delivered or left to the
operator has a text, torn or not (`DeliveredWasGenerated`). While one turn of a reply runs at a time and its note succeeds, its Tool
attempt is on record (`ToolsAreFlagged`): `RecoveryIsToolFree`. `PathKeepsPromise` is the refinement of
`ReplyPromise`, one lemma for each kind of step: stagings write (`StagingWrites`), hand-overs
release a reply whose user has no answer (`HandOffReleases`, from `ToldIsHeld`), the gateway
tells only where nothing is open (`GatewayTells`, from `Holds`), the channel gets what is open
and not yet its own (`ChannelSends`, from `SendsLeased` and `AcceptedIsKnown`), upsets cut
(`UpsetsCut`), outcomes and evidence confirm (`OutcomesConfirm`), recovery turns write what
nobody has or what is torn (`RecoveryWrites`, from `Regenerates`), and all else is silent.

**Turn gate.** `FenceIsExact` is inductive only with what ties a thread to its fence:
records of a session are of turns of its chat (`RowsAreOwn`), a turn acts under the
record the contract would name for it (`ActsAsRow`), and a running turn under its own record
has its session bound to its own fence (`OwnFence`) - which needs that Hermes runs one turn
of a session at a time (`OneRuns`). `ToolsRunOn` adds that a running Tool has its phase
marked (`ToolIsMarked`). `AuthorityIsOwn` needs that a queued submission still has its
ingress record (`QueuedIsPending`): so a refused one is never the only candidate.
`AuthorityStaysInChat` (`ActsInChat`) goes further, for any number of chats: a record names
the message of its own turn (`RowsAreOwn`), so what a turn reuses is the identity of a
turn of its chat that has started and nothing else. What it does not exclude is that reuse itself,
finding 2.

Only model-checked: all liveness properties (`AckedIsServed`, `HoldQuiesces`,
`ClaimIsFinished`, `AckedIsRun`, `FactIsDelivered`, `FactIsConsumed`, `ReleasedIsSettled`,
`TurnIsAnswered`), since fairness and ENABLED are out of the prover's reach, and that no
run without `CHECK_DEADLOCK FALSE` comes to a stop. Every invariant, action property and
refinement of a passing run is a theorem.

## 7. Running it

    tlc -workers 2 -config HoldingBridge_calm.cfg MCHoldingBridge
    tlapm HoldingBridgeProofs.tla

`PROJECT.json` lists every run with its module and configuration, the source lines each
definition stands for, the hazards behind the properties and the seeded faults that break
them.
