# Verification of smc-psip / PJSIP

smc-psip is a SIP softphone: a Windows GUI (`src/smc-psip`) over the PJSIP stack
(`src/pjsip`), which consists of pjlib (operating system, timers, locks, I/O),
pjlib-util, pjnath (STUN, TURN, ICE), pjmedia (SDP, RTP, audio) and pjsip
proper (messages, transports, transactions, dialogs, sessions). These TLA+
modules model the parts whose correctness depends on the order of events:
threads, timers, callbacks, failures. TLC checks them on small instances and
TLAPS proves the most important properties for instances of any size.

All paths below are relative to `src/pjsip/src` unless they start with `src/`.
Line numbers are in `PROJECT.json`, under `map`.

## How the program runs

There is one `pjsip_endpoint`. Worker threads call `pjsip_endpt_handle_events`
in a loop: each call polls the timer heap (`pj_timer_heap_poll`), which runs the
callbacks of expired timers with no lock held, and then the I/O queue
(`pj_ioqueue_poll`), which runs the callbacks of sockets. `pjsua_init` starts
one worker by default (`pjsip/src/pjsua-lib/pjsua_core.c:400`); the GUI asks for
four (`src/smc-psip/mainDlg.cpp:2507`). Application threads call the API at any
time. An object that several threads use has a *group lock*: a recursive mutex
with a reference count, whose destroy handlers run when the count drops to zero.
So the hard behaviours are: a callback that was taken out of the heap before the
object cancelled it; state tested before a lock is taken; a lock that is let go
around a call to the user; a send that completes before its call returns, later,
or after the object is gone; and references that each of these must hold.

## Inventory

| Component | State | Operations | Hard behaviour | What makes it correct |
|---|---|---|---|---|
| SIP transaction layer (`pjsip/sip_transaction.c`) | state, last message, two timers, transport, transport flags, reference count, table entry | create, receive, send, retransmit, terminate, set timeout, timer and send callbacks, layer stop | threads, popped timers, unlocked user callbacks, pending transport, fail-over | order of states, one notification per final state, retransmission starts and stops, every wait is bounded, memory outlives its users |
| Timer heap (`pj/timer.c`) | binary heap, slot of each id, free list of ids | schedule, cancel, poll | callbacks unlocked, entries re-scheduled and cancelled meanwhile | heap order, ids unique, each schedule fires or is cancelled once, a reference per armed entry |
| Group lock (`pj/lock.c`) | owner, count, list of locks, destroy handlers | acquire, release, add/dec ref, chain, destroy | chained locks, destruction by the last reference | mutual exclusion, destruction once and unlocked |
| I/O queue (`pj/ioqueue_*.c`, `activesock.c`) | keys, pending operations, closing list | register, read, write, accept, connect, poll, unregister | several threads on one key, unregister during a callback | one callback per completion, none after unregister |
| Transport manager (`pjsip/sip_transport*.c`) | hash of transports, reference count, idle timer, listeners | acquire, add/dec ref, shutdown, destroy, send | idle timer against acquire, listeners during disconnect | a transport in use is not destroyed, each listener hears of the end once |
| Stateless sends (`pjsip/sip_util.c`, `sip_resolve.c`) | addresses left, callback | resolve, send, next address | callback inline or later | one final callback |
| Dialog and UA layer (`pjsip/sip_dialog.c`, `sip_ua_layer.c`) | session and transaction counts, CSeq, dialog set | create, fork, send, receive, inc/dec session | lock order, destruction by the last transaction | destroyed exactly when unused, CSeq grows |
| INVITE session (`pjsip-ua/sip_inv.c`, `sip_timer.c`, `sip_100rel.c`) | session state, SDP state, pending CANCEL/BYE, session timer, PRACK list | answer, update, cancel, end, receive | crossing requests, CANCEL against 200, glare | both ends agree on confirmed/disconnected, one re-INVITE at a time |
| SDP negotiator (`pjmedia/sdp_neg.c`) | state, local and remote SDP | offer, answer, negotiate, cancel | offers that cross, roll-back | no offer is lost, active pair agreed by both |
| Registration (`pjsip-ua/sip_reg.c`) | current operation, refresh timer, CSeq | register, unregister, destroy | destroy during a response | one request outstanding |
| Event framework (`pjsip-simple/evsub.c`, `publishc.c`) | subscription state, timers, pending transactions | initiate, accept, notify, terminate | NOTIFY before the response, crossing un-SUBSCRIBE | both ends terminate |
| STUN (`pjnath/stun_*.c`) | transactions, retransmission timer | send, retransmit, cancel | response after cancel, destroy delay | one completion per request |
| TURN (`pjnath/turn_*.c`, `pjturn-srv`) | allocation, permissions, channels, lifetimes | allocate, refresh, bind, destroy | refresh against expiry | client never uses what the server has dropped |
| ICE (`pjnath/ice_*.c`) | check list, valid list, role | start checks, receive checks, nominate | role conflict, triggered checks, requests before the start, two timers | one agent controls, a pair is nominated only by the controlling agent, both agents succeed and are told |
| Jitter buffer, RTP (`pjmedia/jbuf.c`, `rtp.c`, `stream.c`, `vid_stream.c`) | ring of frames, burst measurement, discard schedule, sequence control | put, get, peek and remove, reset | late and repeated packets, 16-bit wrap, overflow, discards that come due late | ring and counters agree, frames in order, discards apart |
| Parser, messages, URIs; pools, hash, trees; codecs, conference, devices; pjsua-lib, pjsua2; GUI | - | - | sequential, or wrappers | not modelled |

## Modules

| Module | What it is |
|---|---|
| `SipTransaction` | one transaction, polled by several workers and used by application threads |
| `TransactionLifecycle` | what a transaction promises its user; implemented by `SipTransaction` with one worker |
| `MCSipTransaction` | the instances TLC checks |
| `SipTransaction_proofs` | the theorems about it and their proofs |
| `SipLifecycle_proofs` | the proofs for one polling thread: it implements `TransactionLifecycle`, and keeps no reference |
| `TimerHeap` | the timer heap as the code keeps it, and the threads that use it |
| `TimerService` | what the timer heap promises; implemented by `TimerHeap` |
| `MCTimerHeap` | the instances TLC checks |
| `TimerService_proofs` | the theorem about references and its proof |
| `GroupLock` | one group lock, its list of mutexes, and the threads that use it |
| `MCGroupLock` | the instances TLC checks |
| `GroupLock_proofs` | the theorems about it and their proofs |
| `SdpNegotiator` | the offer/answer negotiator, as operators on a record |
| `InviteSession` | both ends of one call: INVITE sessions, dialogs, negotiators, and the network between them |
| `CallLifecycle` | what the two ends promise each other; implemented by `InviteSession` |
| `MCInviteSession` | the instances TLC checks |
| `InviteSession_proofs` | the theorems about it and their proofs |
| `TransportManager` | the TCP connections to one address, and the threads and users that share them |
| `TransportManager_proofs` | the theorems about its references and timers and their proofs |
| `JitterBuffer` | the jitter buffer, as operators on its ring and its measurement |
| `RtpSession` | the sequence control of RTP, as operators on a record |
| `MediaReceiver` | the receiving half of an audio or video stream around the two, and the network |
| `MCMediaReceiver` | the instances TLC checks |
| `MediaReceiver_proofs` | the theorems about the jitter buffer and their proofs |
| `IceSession` | two ICE sessions that check candidate pairs against each other, and the network between them |
| `MCIceSession` | the instances TLC checks |
| `IceSession_proofs` | the theorems about roles and nominations and their proofs |

How they fit together: `InviteSession` is built from `SdpNegotiator`,
`MediaReceiver` from `JitterBuffer` and `RtpSession`. The other boundaries are
crossed by what the part below promises. `SipTransaction` uses the timer heap
and the group lock that way. Its timers may be popped at any time after they are armed and are then
called without a lock, once, with the reference the heap took for them: that is
`TimerService` without durations. Its group lock is a count and steps that do
not overlap: that is `HoldsWhatItUses`, `RefsExact` and `DestroyedOnce` of
`GroupLock`. `InviteSession` sees of each transaction only the states it
reports, forward and each once, which is `TransactionLifecycle`, and the
timeouts that end it. `TransportManager` is the transport of
`SipTransaction`: a send is called back, now or later, or not at all, and a
reference keeps the transport there. `IceSession` uses timers as
`SipTransaction` does, and its group lock as the same steps that do not overlap.

### SipTransaction

`tsx` is the `struct pjsip_transaction`, one record:

| field | in the code |
|---|---|
| `role`, `invite`, `handle200`, `reliable` | `role`, `method`, `handle_200resp`, `is_reliable` |
| `state`, `code`, `err` | `state`, `status_code`, `transport_err # 0` |
| `flags` | `transport_flag` |
| `transport`, `resTp` | `transport` (none, up, disconnected), `res_addr.transport` |
| `alt` | destination addresses left to fail over to |
| `lastTx`, `pendingTx` | `last_tx`, `pending_tx` (with `tdata->mod_data`) |
| `sends` | sends whose callback is still to come: `transport_callback` ("tp") or `send_msg_callback` ("sl") |
| `tm[RT]`, `tm[TO]` | `retransmit_timer`, `timeout_timer`: whether they are in the heap, and their `id` |
| `ref`, `terminating` | reference count of `grp_lock`, `terminating` |
| `user`, `heard` | `tsx_user` still set; the final states it was told |
| `registered`, `loaded` | in the hash table; `mod_tsx_layer.mod.id >= 0` |

Each function of `sip_transaction.c` is an operator on that record (`SetState`
is `tsx_set_state`, `SendMsg` is `tsx_send_msg`, `OnResponse` is
`tsx_on_state_proceeding_uac` and so on). A function that runs under the group
lock is one step. `pc[w]` is where worker `w` stands at each point at which it
is inside the transaction and does not hold the lock:

- `timer`, `event`: the entry has been popped; its id has been read; the handler
  waits for the lock.
- `tell`, `told`: `tsx_set_state` has let go of the lock around the notification.
- `terr`, `terrTell`, `terrSchedule`: the posted transport error, between its
  test, the locked part, the notification and the schedule.
- `rx`: `tsx` was looked up, `pjsip_tsx_recv_msg` waits for the lock.
- `sent`, `failed`: `send_msg_callback` before its lock, `transport_callback`
  after it.
- `final`: the one place where the group lock is held but the timer lock is not,
  so that `pjsip_tsx_set_timeout` may run in the middle of a final response.

Actions: `PopTimer` .. `ScheduleHandler` are the timer callback,
`Lookup` .. `RecvRequest` reception, `SendCallback` .. `TransportFailed` the
send callbacks, `TransportDown` the listener, `SendRequest` .. `SetTimeout` the
API, `LayerStop` the shutdown of the layer. `Over` only marks proper
termination.

What is abstracted: durations (an armed timer may fire at any time), the bytes
of messages, the contents of the hash table. A response is its status code.
The transaction's group lock may be that of its dialog; the count then is that
of the transaction's own contributions. What is left out: a user that calls back
into the transaction from inside `on_tsx_state`, and a stateless request that
fails before its callback is set up (its route set was validated when the
transaction was created).

### TransactionLifecycle

The promise: phases in the order of RFC 3261, TERMINATED told before DESTROYED
and before the memory goes. `ImplementsLifecycle` is the refinement with `phase`
mapped to `tsx.state`, `released` to `tsx.ref = 0`. It holds with one polling
thread. With two it does not: see "Where the code departs from its comments".

### TimerHeap and TimerService

`ht` is `struct pj_timer_heap_t` of `src/pjlib/src/pj/timer.c` together with the
fields the heap keeps in each entry:

| field | in the code |
|---|---|
| `max`, `heap` | `max_size`, `heap` (a function on the used slots 0 .. `cur_size` - 1) |
| `ids`, `free` | `timer_ids` (slot, or the next free id negated), `timer_ids_freelist` |
| `tid`, `value` | `_timer_id`, `_timer_value` of each entry |

Each function that works on the array is an operator on that record with the
function's name (`ReheapUp`, `ReheapDown`, `RemoveNode`, `GrowHeap`, ...). The
path a node takes through the array is computed first, by a recursive function
on slots, then the nodes along it are copied. What runs under the lock of the
heap is one step; `pc[t]` is where a thread holds no lock:

- `request`: `pj_timer_heap_schedule` has tested that the entry is not
  scheduled and has not taken the lock yet (`CheckSchedule`, then `Schedule`).
- `callback`: inside the callback of an expired entry, whose id stays out of the
  free list. A thread in a callback schedules and cancels like any other.
- `relock`: the callback has returned and its reference is given back; the lock
  is taken again, the id given back and the next entry looked at (`PollNext`).

`Serialised` says that the users of one entry take turns, as everyone in the
repository does by holding the lock of the object the entry is in. An id read past the end of
`timer_ids` sets `overrun`. What the program does after that is undefined, so
the model stops there, and the invariants of `timer_threads` speak of the
states before it; in `timer_array` it does not happen. `_grp_lock` may be none, as for entries scheduled with
`pj_timer_heap_schedule`.

`TimerService` has no array: a set of pending timers with their times, and what
each thread is calling. `ImplementsService` maps the entries in the array to
`pending` and threads in a callback to `calls`: every removal is by the earliest
entry's expiry or by a cancellation. `RefsExact` of `TimerHeap` is that of the service
under the same mapping, so what is checked is the count the heap's own functions keep.
What the service needs of its constants is named `Parameters`.

### GroupLock

One `struct pj_grp_lock_t` of `src/pjlib/src/pj/lock.c`:

| variable | in the code |
|---|---|
| `list` | `lock_list`, from the head; `PosOf` is `prio` |
| `ref`, `owner` | `ref_cnt`; `owner` and `owner_cnt` |
| `alive`, `handlers`, `called` | `pool # NULL`; `destroy_list`; those called by `grp_lock_destroy` |
| `mutex` | the recursive mutexes behind `own_lock` and the chained locks (external) |
| `grants`, `inside`, `outside` | what each thread is entitled to: references, acquisitions, external locks taken by hand |

`grp_lock_acquire`, `grp_lock_tryacquire` and `grp_lock_release` take one mutex
per step (`TakeNext`, `TryFails`, `GiveNext`). `pc[t].lck` is their pointer into
the list; it is followed by `After` and `Before` when it is used, so that the
list may change under a thread that waits, and an item that was taken out points
to itself (`pj_list_erase`). `Enter` is the end of an acquisition, with the
reference; `Leave` and `DecRef` are the beginning and the end of a release. The
functions that take the lock themselves (`ChainLock`, `UnchainLock`,
`AddHandler`, `DelHandler`) are an acquisition, a step inside, and a release.
Callers use the lock only while they have a reference or are inside (`MayUse`).
Owners of external locks keep to the documented order (`WantExternal`,
`InOrder`), and a lock that has left the list joins it again only when nobody is
at its old item (`MayChain`).

### SdpNegotiator and InviteSession

`SdpNegotiator` is `pjmedia_sdp_neg` of `src/pjmedia/src/pjmedia/sdp_neg.c`: a
record with its state and its six description pointers, and one operator per
function. A description is its origin version, an opaque body, and the pool its
memory is in, since the session swaps two pools with each negotiation and resets
one of them. Whether media lines and codecs match is an outcome (`Decisions` of
`InviteSession`).

`ses[a]` is one agent's `pjsip_inv_session` with its dialog:

| field | in the code |
|---|---|
| `st`, `cause` | `state`, `cause` |
| `neg` | `neg` |
| `itsx`, `tsx` | `invite_tsx`; the transactions of the dialog, each with its state, code and `tsx_inv_data` |
| `pcancel`, `pbye` | `pending_cancel`, `pending_bye` |
| `ackc`, `acksdp`, `last` | `last_ack_cseq`, the description of `last_ack`, that of the last answer |
| `lcs`, `rcs` | `local.cseq`, `remote.cseq` of the dialog |
| `hang` | pjsua: the application has hung up |
| `bodies`, `made`, `out` | bookkeeping: descriptions made, operations used, messages sent in this step |

Each state handler `inv_on_state_...` and each helper it calls is an operator
with a session, a transaction and an event as arguments. A step is an operation
of the application (`Invite`, `AnswerCall`, `HangUp`, `Reinvite`, `Update`,
`CancelReinvite`), the delivery of one message (`Deliver`: the dialog's tests of
CSeq, then the session, then what the dialog answers in its stead), or a timer of
a transaction (`Timeout`, `AckTimeout`, `EndTsx`, ...). `net` is a set: messages are
delayed and overtake each other. A message that is lost shows as the timeout of its
transaction, since retransmission is the business of `SipTransaction`.

Left out: reliable provisional responses (100rel, PRACK), forking,
authentication retries, redirection, the session timer, secure transport
checks, `on_send_ack`, UPDATE without a description, re-INVITEs that the
application answers later, repeated requests.

`CallLifecycle` is the promise: states only go forward, and an end is in a state
only when the other has come far enough ("confirmed" needs a peer that has
answered).

### TransportManager

`tp[i]` is one TCP connection: `pjsip_transport` (`ref`, `id` and `armed` for
`idle_timer.id` and its entry in the heap, `shut`, `dying`, `lock`) with the
`tcp_transport` (`conn`, `delayed`, and `wire` for the socket's own queue). `table`
and `listed` are the manager's hash table and the list of those that another took the
place of. `stack[t]` is what thread `t` is inside of: calls that are still to be
done, one step for each stretch between two points at which another thread
matters. So `pjsip_transport_dec_ref` is `DecRef` (the atomic counter), then
`StartIdle` (what it does under the manager's lock if it counted to zero), and
`tcp_send_msg` is `Enqueue` (the look at `has_pending_connect`), `Push` (the
second look under the lock), `Write`. Users acquire (`Find`, `Create`), send,
release and shut down; the world completes connects and sends, closes
connections, fires timers and receives messages. Two connections are made to the
same address, so one may take the place of the other in the table
(`pjsip_transport_register`).

When a transport is destroyed while somebody has a reference, works on it, or
its timer stays behind, `lost` is set and the model stops: what follows is
undefined. `CalledBack` and `ShutEnds` therefore end there. `UnusedEnds` and
`TimerDies` do not mention `lost`: they hold in the states in which the model stops, too, the first
of the transports that are still there. `raced` is history and not in the code: the timer
was set while a thread had popped an earlier firing of it and not begun the callback.

Left out: connections that were accepted and their initial timer, listeners,
factories and selectors, listeners that remove themselves in the callback, UDP,
TLS and loop transports, keep-alives, a `connect()` that succeeds at once,
destruction of the manager, calls of users from inside callbacks. The reference
that `pjsip_transport_shutdown2` takes and gives back is one step.

### JitterBuffer, RtpSession and MediaReceiver

A buffer is a record with the two structures of `jbuf.c`: the ring `l`
(`jb_framelist_t`: `slots` for `frame_type` with the frame, `head`, `size`,
`discarded` for `discarded_num`, `origin`) and the measurement `j` (`level`,
`eff`, `hist`, `stable`, `cycle`, `processing`, `prefetch`, `ref` and `dist` for
`jb_discard_ref` and `jb_discard_dist`, ...). Operators have the names of the
functions without their prefix. `PutWithRoom` writes the loop of
`pjmedia_jbuf_put_frame3` as one round; lemma `PutLoopOnce` proves that there is
never a second.

`RtpSession` is `pjmedia_rtp_seq_update` with what the stream makes of its
result. `MediaReceiver` has one action per entry of the stream, each under its
`jb_mutex`: `Receive` (`on_rx_rtp`), `GetAudio` and `GetVideo` (`get_frame`),
`Pause`. Whatever RTP makes of a packet, `Receive` may drop it after that (no payload,
a source that is not the peer, a payload that does not parse). `decoded` is
`dec_frame` of a video stream. The source numbers packets without bound and sends the number modulo `SeqMod`, so that the model can tell
order where the code sees sixteen bits.

What is abstracted: a packet holds one frame, and its RTP sequence number is the
frame number (an audio stream uses timestamp / frame length, which is the same up
to a constant); statistics are left out; the level of a burst is counted up to
`LevelCap`; excess packets of a picture are removed in one go. The network
(`Deliverable`) loses, repeats and delays packets; a late packet is late by less
than what the buffer takes for a new start, and belongs to the present cycle of
numbers. Both limits matter: see below.

### IceSession

`ses[a]` is the `pj_ice_sess` of agent `a`:

| field | in the code |
|---|---|
| `ph` | how far `pj_ice_strans_start_ice` has come: before, between and after its two steps; stopped (`is_destroying`) |
| `role`, `aggressive`, `nominating` | `role`, `opt.aggressive`, `is_nominating` |
| `list` | `clist`, in its order: pair, state, `nominated`, `prio` |
| `valid` | `valid_list`, by pair |
| `vc`, `nc` | `valid_check` and `nominated_check` of each component |
| `early` | `early_check` |
| `complete` | `is_complete` with `ice_status` |
| `timer`, `queued` | `timer.id`, and whether `timer` is in the heap |
| `tick` | whether `clist.timer` is in the heap |
| `work`, `told`, `out` | the callback each polling thread is about to run; what `on_ice_complete` was told; messages sent in this step |

A function of `ice_session.c` is an operator with its name on that record. All of
them hold the group lock, so each is one step. Two things happen without it and
are steps of their own: `pj_ice_strans_start_ice` lets the lock go between
`pj_ice_sess_create_check_list` (`CreateList`) and `pj_ice_sess_start_check`
(`Start`), and an expired timer is out of the heap before its callback has the lock
(`PollTick`, `PollTimer`, then `TickCallback`, `TimerCallback`). `on_timer` reads
the id of its entry before it takes the lock, which may have been at any time since
it was popped.

A pair is what two candidates at both ends make; `Comp`, `Foundation` and `Prio`
give its component, its foundation at each end, and its priority, which depends on
who is controlling. Who reaches whom, on which pairs, is part of the `world`, and so
are the roles, the options, the number of polling threads, and how much is lost. The
two tie-breakers are different numbers, and B has the lower one. The STUN layer is
taken from its use: a request reaches the session once (its retransmissions are
answered from the cache), a response reaches the check whose transaction is
pending, and a transaction whose request or response was lost fails, as does one
that the peer cannot answer.

Left out: gathering of candidates; local candidates that are learned from the
mapped address of a response (a remote one, from a request, is modelled: `Learned`);
pruning; the limits of the lists; the keep-alive, which sets only itself; failures
of TURN permissions between the two steps; the callbacks of `ice_strans.c`; data.
The long timers (nomination, its limit, completion) do not expire between the two steps.

## Runs

| Run | Instance | Shows |
|---|---|---|
| `one_worker` | every kind of transaction, 1 worker, 3 response classes, 1 alternative address, fair | type invariant, no reference leaks, no INVITE after a provisional response, the lifecycle is implemented, every state that a timer bounds is left, memory is released |
| `two_workers` | every kind, 2 workers, 4 response classes | reference count, memory safety, no transaction is stranded, a client's retransmissions stop with the final response, a server's stop early in one callback only |
| `timer_array` | every full array of 7 timers with 2 expiry times, 1 thread | heap order and ids survive every order of removals |
| `timer_threads` | 2 threads, 2 timers, 1 group lock, heap of the smallest size, which grows | `TimerService` is implemented, ids and free list are exact, nothing is scheduled twice, the references to the group lock are exact |
| `group_lock` | 3 threads, depth 2, one lock before the group's own, one after it that joins and leaves, 1 handler | all locks held, a failed try gives back its own, no deadlock, exact count, destruction once and unused |
| `call` | 2 operations of any kind at either end, offer in the INVITE, an answerer that may find no match, fair | agreement on the session, memory of descriptions, versions, glare, BYE after ACK, every request answered, nobody left alone in a call |
| `call_faults` | 1 operation, offer in the INVITE or in the 2xx, timeouts, transport errors, 2xx sent again, fair | the lifecycle is implemented, a call that is hung up ends |
| `transports` | 2 threads, 2 users with one use each, 2 connections, fair | references exact, no unused connection without a timer, no timer outlives its connection but in one race, senders called back, shut-down connections go |
| `media` | audio with progressive discard, audio with static discard, video; 4 slots, numbers modulo 16, packets 12 .. 20 | ring and counters agree, frames in order, discards apart |
| `ice` | 2 agents of either role and option, 1 or 2 pairs, 1 or 2 components; one path that does not work, one that is learned; 1 or 2 threads; 1 loss or refused send, stop; fair | role conflicts are repaired, nomination comes from the peer, the application is told, agents with working pairs succeed |
| `deferred_send_lost` | INVITE server, 1 worker | finding: a response put off is never sent |
| `uas_falls_silent` | INVITE server, 1 worker | finding: a final response that was pending is never retransmitted |

## Where the code departs from its comments

The findings `deferred_send_lost` and `uas_falls_silent` are in `PROJECT.json` with the
lines they contradict. Others show when a constant of a run is changed, or a property that is defined in the
module and checked by no run is added:

Transactions.
- `uas_falls_silent`: a 300 (or any final response but 2xx) whose send is pending in
  `pjsip_transport_send` puts the start of the retransmission timer off
  (`TSX_HAS_PENDING_TRANSPORT` and `TSX_HAS_PENDING_RESCHED`). When the transport calls back,
  `transport_callback` clears the first flag (`sip_transaction.c:2034-2036`) and never
  looks at the second; only `send_msg_callback` does (1917). The server waits for
  its ACK with no timer G until timer H ends it, and answers only when the INVITE
  is repeated. `UasRetransmits` says that timer G is armed, has just been popped, or is put off with
  a send still pending, and fails there. `FallsSilentOnlyInCallback` says that it fails nowhere
  else, and holds for two workers.
- Two workers, non-INVITE client, `TerminatedFirst`: a transaction may tell
  DESTROYED without having told TERMINATED, when its transport fails and a timer
  runs in the unlocked window of the notification.
- Two workers, INVITE server, `NoLeak`: a final response that fails at once in the
  stateless send terminates the transaction on a path
  (`sip_transaction.c:2247`) that may leave the table's reference with nobody to give it back.
- One worker, `NoListenerAfterFree`: a send callback that arrives when the
  transaction is detached returns early (1851), and the transport keeps a state
  listener that points at freed memory.
- `one_worker` with a second worker: `ImplementsLifecycle` fails. Besides
  telling DESTROYED first, a transport error that has passed the test of the state
  (`sip_transaction.c:1130`) before it takes the lock sets TERMINATED on a
  transaction that is DESTROYED by then ("New state must be greater than
  previous state", 1213). `ProvisionalStopsInvite` fails: a retransmission timer
  that has been popped before the 1xx is handled retransmits the INVITE after it
  and re-arms itself (2959-2965; "we should not retransmit request once response
  has been received", 2939).

Timers and locks.
- `TimerHeap` with `Entries = {e1, e2, e3}`, one thread, no group, `Size = 1`,
  `Delays = {0, 1}`, `MaxPerPoll = 2`, `MaxNow = 1`: `AlwaysAnId` fails. The growth
  test counts the timers in the heap, not the ids that running callbacks keep, so
  a callback that schedules two timers in a heap created for one makes
  `pop_freelist` read past the end of `timer_ids` (`timer.c:312` before 297;
  "the timer heap will resize", `timer.h:151`).
- `timer_threads` with `Serialised = FALSE`: `ScheduledOnce` fails, since
  `timer.c:505` tests before the heap is locked and not again.
- `group_lock` with `Chained = {}`, `Joining = {x}`: `NoDeadlock` fails, since
  `pj_grp_lock_chain_lock` takes a lock of negative pos after the group's own,
  the reverse of the order it documents; and, with deadlocks let pass,
  `HoldsWhatItUses` fails, since a thread that waits at the group's own lock has
  passed the place where the new one joins. Nothing in the repository chains
  locks.
- A group lock is said to start with a reference (`lock.h:205`) and starts with
  none (`lock.c:434`); everyone in the repository adds one, and so does `Init`.

Calls (`sip_inv.c` unless noted).
- "If state is confirmed, check that SDP negotiation is done, otherwise disconnect
  the session" (280): the check needs the data of `invite_tsx`, which the callee sets
  to NULL (588) before it becomes confirmed (604), so it never runs there. When the
  offer was in the 2xx and the caller finds no match, the callee is confirmed by an
  ACK without an answer, its offer still pending: `ConfirmedWithSdp` fails with
  `Ops = {"offerless invite"}`, `Events = {"mismatch at answerer"}`, `Accept = TRUE`.
- "overlapping offers" in `Events` (an application that starts an exchange before
  the last is over): `Agreement` fails. An ACK cancels the offer of an UPDATE
  that was sent before it came (578); a re-INVITE refused with 491 does the same
  (5160).
- "transport error" in `Events` of `call`: a re-INVITE that ends in 503 leaves its
  offer with the negotiator (4032), which accepts no other from then on.
- "timeout" in `Events` of `call`: `NoHalfCall` fails. A CANCEL that times out
  ends the caller's session; a 2xx that comes later is acknowledged and no BYE is
  sent.
- `AckKept` with `Ops = {"empty reinvite"}`, `Events = {"retransmission"}` fails:
  the ACK of a repeated 2xx is built anew, without the answer (3168, 682, 474).
- "answer again" in `Events`: `SdpAlive` fails when an answer is replaced and the
  negotiation then fails.
- A re-INVITE that reaches a session that is over, and a BYE that overtakes every
  response to the INVITE, are claimed and never answered (523); `Answered` names
  both.
- When the ACK that carries the answer of an offer in a 2xx to a re-INVITE never
  comes, the offer stays pending. A negotiation that fails at the offerer takes
  the version of the offer with it. `PJSIP_ACCEPT_MULTIPLE_SDP_ANSWERS` is documented as
  off by default (`sip_config.h:436`) and is on (439), so that a repeated answer in a
  2xx overwrites what an early UPDATE has agreed.

Transports (`pjsip/sip_transport.c`, `sip_transport_tcp.c`).
- `transports` with `UnusedWhenDestroyed` ("Must have no user", 1308): fails. A
  transport may be acquired between the idle callback's test of the count and
  its removal; two popped timers destroy twice; and a timer is left behind (next).
- `transports` with `\A i \in Transports : tp[i].st = "gone" => ~tp[i].armed`: fails, with
  the count at 0 and nobody else at work. A user shuts the transport down
  while another thread has counted to zero and not yet set the idle timer; the shutdown sets
  the timer, which is popped; the other thread sets it again; the popped callback then
  clears its id and destroys the transport, where "Unregister timer, if any" (1198) finds no id
  and leaves the timer in the heap, pointing at freed memory. An acquisition and a release
  between the popping and the callback do the same. `TimerDies` names that case (`raced`:
  set between the two) and holds for all others, whatever else goes wrong: a timer that was set in time,
  or after the callback has begun, is taken along.
- `transports` with `NoneUnheard` (#1898, tcp.c 1480): fails. A sender that is
  between the two looks at `has_pending_connect` adds its message after the list has been
  flushed or emptied (1476, 1497); a message that expired in the list is dropped
  with no callback (775).
- "Shutdown transport on closure/errors" (tcp.c 1343) does not happen for a send
  that fails at once, since the size is left as it was; the sender is told of success.

ICE (`src/pjnath/src/pjnath/ice_session.c`).
- `Succeeds` without its condition on `EarlyCheck` fails: a request that comes
  between the two steps of the start is checked before `is_nominating` is set. If that
  pair is the last, an aggressive controlling agent has all checks completed, is
  nominating and has nominated nothing, and fails (1533). The same way
  `start_nominated_check` may be scheduled first and `is_nominating` set afterwards,
  against the assertion of 1952.
- `Notified` without its condition on threads fails: a completion timer that is
  popped while another thread is in `on_timer` for an earlier use of the entry is
  left with the id TIMER_NONE that the other has written (1141), if it has not read
  the id before (1135), and does nothing. Without `Unsent` it fails too: the status
  of `perform_check` is ignored for a retry (2261) and for a triggered check (2851, 2927), and
  after the periodic timer has ended nobody sends such a check again.
- `NominatedByPeer` without its condition on the roles at the start fails: a
  controlling agent that has marked its check as nominated and is answered 487 keeps
  the mark as the controlled agent, and takes its own pair for nominated.
- `SamePairs` fails with two paths: while `is_nominating` is set, every triggered and
  periodic check is sent with USE-CANDIDATE (1892, 2847), so two pairs of a component are
  nominated; the agent that hears first of the one with the lower priority gives up
  the check of the other (1397), which its peer keeps using.

Media (`src/pjmedia/src/pjmedia`).
- `Deliverable` without its bound on lateness: `HeldInOrder` fails. `rtp.c:365`
  lets a packet pass that is late by 99; a drained buffer has its origin one
  above the last frame, takes the difference of 100 for a new start
  (`jbuf.c:477`), and the frame is played out of order.
- `Deliverable` without the bound to one cycle: a packet that is delayed across
  the wrap of the sixteen-bit number looks like a far jump and empties the whole
  buffer, or, late after the wrap, fills a gap among frames that have been numbered anew.
- "one frame will be discarded to make space" (`jbuf.h`): as many go as are
  needed (1029). The count of discarded frames misses those of the progressive
  algorithm (912). With frames of more than 200 ms the least gap is 0 and one slot
  may be discarded twice, which `GapAssumption` excludes. `rtp.c:324` does
  not reckon modulo 65536 while a source is on probation, so a source that
  starts at 0 loses its first packet. A full video buffer has a picture
  decoded over the one that waits; if that fails, the waiting one is gone
  (`vid_stream.c:795`).

## Bounds and fairness

Bounds. Two workers are enough for every interleaving of two callbacks with each
other and with an application thread (user actions need no worker); most races
above need them. `MaxAlt = 1` allows one fail-over, hence a send callback that
starts a send. `Codes` has one member of each class the handlers distinguish:
100, another 1xx, 2xx, the rest; `one_worker` leaves out 100. `Tell` keeps at most three notifications.
A message has at most one send of each kind in flight: `tsx_send_msg` looks at
`tdata->is_pending`, and the model counts a stateless send that is still being
resolved as pending too.

Seven entries fill three levels of the array: the last entry may replace one of
another branch and then has to rise as well as sink. Two
expiry times make every order of two entries and ties. `MaxNow` bounds the
clock and the times at which timers are scheduled; a timer may be due at once,
later, or after the clock has stopped, and nothing depends on more. `Size = 0`
makes the heap grow with its first timer. `timer_threads` has two calls per poll
and two timers, so that a poll may be cut short and may go on.
In `GroupLock` a depth of 2 makes an acquisition recursive, so that a lock
that joins is taken twice and one that leaves is given back twice; three threads
and three locks allow every cycle of waiting; `MaxGrants` bounds the references
each thread is given, and one is enough to pass the last reference between threads
in every order.

In `call` two operations cover each pair that may cross (re-INVITE against
re-INVITE, UPDATE, BYE or CANCEL, early UPDATE against the answer), since each is
followed to its end with every order of messages; a third meets the state that two
leave, which is one of those that one leaves. `call_faults` has one operation and
faults instead. One retransmission of a 2xx shows what every other does.

In `transports` two threads interleave at every point where the code is not under a
lock, two connections make one take the other's place, and two users make one
acquire what the other releases. One use each is enough for a count that goes from
zero up and back while timers fire.

In `media` the limits of the code (100, 3000, 65536, 200 ms, bursts of up to 100)
are constants, scaled so that each is reached with few packets: a buffer of four
slots overflows, far jumps, late packets and restarts are told apart by 4 and 5, and
nine packets cross the wrap at 16. Discards of both kinds happen, also two in one
buffer. The theorems hold for the limits of the code too.

In `ice` two pairs of one component make the agents choose, one pair each of two
components makes them wait for the other component, and one pair shows every
order of timers, requests and answers. Loss, two threads and both kinds of role are
combined where they meet the same code; each of the one hundred worlds is one such
combination.

Deadlock is checked wherever the program may not stop. `CHECK_DEADLOCK FALSE` is
set where it may: in `timer_array`, once all timers are gone and the clock is at
its bound; in `call` and `call_faults` when the call is over and the operations are used
up; in `transports` when all uses are over; in `ice` when the checks are over.

Fairness. Transactions: a worker goes on with what it began (threads are not stopped for
ever). An armed timeout timer is popped in the end (strong fairness over the
workers: the heap is ordered by expiry, every poll starts with what expired
first, and no timer is re-armed in the past). A send that was started is called
back in the end: a transport that never completes a send would keep its
transaction in the code too. Nothing is assumed of users, peers or the network:
`Ends` holds although no answer ever comes.

Calls: a message that is in the network is delivered (`Delivery`; losing it is the
timeout of its transaction), and transaction timers fire (`Timers`), both of which
`SipTransaction` shows under its own fairness. The applications need not do
anything. Both conditions are written without `ENABLED`, as weak fairness of
steps that only these actions take.

Transports: one weak fairness condition (`Progress`): threads go on, connects and
sends complete, timers fire, and who has its message back lets go. Uses are
bounded, so these steps cannot go on for ever and one condition is enough. Nobody need
acquire, close or shut down anything.

ICE: one weak fairness condition over `Progress`: the start goes on, timers expire and
are run, messages arrive, transactions without an answer fail. It is written with
`Quiet`, the state in which none of these is possible. Nobody need make a check list:
the properties speak of agents that have started.

`NoLeak`, `ProvisionalStopsInvite` and the lifecycle are checked with one worker
only, since with two they fail (above). `NoUseAfterFree` and `RefCovers` are checked
with two.

## Proofs

`SipTransaction_proofs` proves, for any finite set of workers, any set of codes
and any number of alternative addresses:

- `TypeCorrect`: `Spec => []TypeOK`
- `RefCounted`: `Spec => []RefCovers`
- `MemorySafe`: `Spec => []NoUseAfterFree`
- `NeverForgotten`: `Spec => []NeverStranded`
- `UasKeepsRetransmitting`: `Spec => FallsSilentOnlyInCallback`
- `FinalStops`: `Spec => []FinalStopsInvite`
- `ProvisionalStops`: `Workers = {w} => (Spec => []ProvisionalStopsInvite)`

The assumptions are those of the constants in `SipTransaction`. The argument:
`Weight(s)` is the number of parties outside the workers that rely on the count
(table, armed timers, sends in flight), `Held(s) == s.ref - Weight(s)` is what
is left for workers. Each operator on the record is shown *safe*: it keeps the
record well-formed and does not lower `Held` (lemmas `CancelSafe`, `ScheduleSafe`,
`ShutdownSafe`, ..., `OnTimeoutSafe`, chained by `SafeTrans` and `Then`). Then
each step is of one of four shapes: a worker comes in and `Held` grows by one, it
stays inside, it leaves and gives one back, or nobody moves. The inductive
invariant `IInv` is `Held(tsx) >= Cardinality(Busy)` with the well-formedness
`Good`: that `tsx_shutdown` gives the reference of the table back only once
(`registered => ~terminating`), and that the sends in flight are finite. Without
these `RefCovers` is not inductive. Memory safety follows: a count of zero leaves
neither weight nor workers.

The next two follow from one invariant, `Timely`: `NeverStranded`, `Retransmits` and `WInv`.
`Retransmits` is what is true of a server always: its timer is armed, has been popped, or
was put off, whether or not a send is still pending. What
`WInv` adds is where the code is tight. The timer that a transport error borrows
(`TRANSPORT_ERR_TIMER`) may find the transaction terminated when it runs, and is then dropped:
this strands nobody because somebody is between telling the user and restarting the timer
(`Warns`), and will restart it whatever the timer does. A client has no transport
of a response that could make a send fail without a callback; the worker that brings a final response and
lets go of the locks has a client in hand; a server that waits for its ACK has saved what it is to
retransmit. Every operator is shown to *tend*: from `s` to `t` it may stop the
timeout timer only if `t` does not wait (`Endures`), may stop a retransmission only if the server
does not wait for an ACK (`Repeats`), and takes nothing back that a worker elsewhere relies on (`Kin`).
Each step then is one of a few: nobody moves (`Passive`), a worker without a timer moves
(`Simply`), a worker is done with its timer (`TimerDone`), or it takes the timer along (`MoveDriven`).

A server for which `Retransmits` is all there is has fallen silent (`Silent`: put off, with no send
pending). `UasRetransmits` is `Retransmits` without that (`UasIs`), so what has to be shown is that
no step but `transport_callback` makes a server silent. Nearly every operator
leaves one that speaks speaking (`Lasts`; with the above, `Calm`); the exceptions are those
of a worker that has a popped timer, which sets the timer again before it is done (`Speaks`).

The last two are about the client of an INVITE, and their invariant is `ClientInv`. That no timer
runs once the final response is there depends on how far the request had got when it came:
cancelling the timer does not help if a send still under way starts it again when it is called back
(`PENDING_RESCHED`). So the invariant follows the request. As long as the address of the server
is not known (`Known`), nothing goes out by itself and no retransmission is started (`Reach`); the
only send under way is the first one, and it is called back by at most one worker (`Hangs`,
`Once`). After a response no callback to come starts a retransmission (`Still`): that is what the
flag cleared in `LeaveCalling` is for, and without it the invariant breaks. `Stands` gives
what is true of the record while a worker has it in hand; the worker that brings a final response
has let the locks go to tell the user, and the state is still the one it found. Each
operator either leads on (`Leads`: no further, no louder, or over), finds the server (`Found`), or
goes on after a response (`Onward`). That a provisional response silences the client follows from
the same steps (`Turns`), but only if no second worker can be on its way with a timer it has already
popped (`Hushed`).

`SipLifecycle_proofs` proves, if there is one polling thread, for any codes and any
number of alternative addresses:

- `LifecycleImplemented`: `Workers = {w} => (Spec => ImplementsLifecycle)`
- `NoneKept`: `Workers = {w} => (Spec => []NoLeak)`

One polling thread is the default of pjsua, and it is needed: with two workers both
properties fail.

The argument for the first goes along the code: each operator on the record either `Stays` where it is
in the life cycle or, if it sets a state, takes a step of it (`Fate`), and keeps
`Lives`. That is the invariant: a transaction that has been shut down, has lost its user or
is at its end has told the user that it terminated; one that is DESTROYED has no
message left that could be sent; a client whose server is not resolved has no
transport, so that only a stateless send keeps it waiting. Only between the setting of
a state and the call to the user, which the code makes without the lock, is less
true, and `Place` says what: `LInv` gives it for the place of the worker, and IInv,
by way of the reference count, that nothing follows the release (`Spent`,
`OnlyTransportDown`: of all the actions only a transport that is reported
down could, and it changes nothing). `OnResponse` and `Complete` are two steps with a
place of their own, at which the state still is the one the response was read in
(`final`).

`NoneKept` is the other half of `RefCovers`: `IInv` has `Held(tsx) >= Cardinality(Busy)`, and
here it is shown that as long as the layer is loaded it is not more either. The lower bound
may be proved of each operator without knowing when it runs; the upper one may not. A
send of a message that is in flight already adds no party but takes a reference, and a response that
fails at once in the stateless send keeps its own. So the invariant `Bounded` adds that a server has no alternative
addresses and that one which answers on a transport of its own loses that only at its end
(`Backed`), and `Unrepeated` that a client has nothing in flight before its request
goes out, and no message that a worker has in a callback is in flight again. With
these neither case arises. Each operator is then `Even`, it leaves the worker no more than it
had, or `Par`, if it does so before the state is set. That a client never answers on a transport of a response is `Timely`'s.

`TimerService_proofs` proves `RefsCounted`, `Spec => []RefsExact`, for any finite
sets of timers, threads and group locks and any set of times. The inductive
invariant is `RefsExact` with the type invariant. Each step adds a timer to the
pending ones of its group, takes one out, or moves it from them to the calls:
the lemmas `TakenOut` and `PendingCounted` give the cardinalities on both sides,
and the rest is arithmetic. The timers and threads have to be finite and `NoCall`
no call (`Parameters`, which the theorem assumes and `TimerHeap` satisfies: its threads call entries
or nothing). `TimerHeap` inherits the result as far as `ImplementsService` is checked, and
`timer_threads` checks the property of the heap itself.

`GroupLock_proofs` proves, for any finite sets of threads and locks and any bounds:

- `GroupLockTyped`: `Spec => []TypeOK`
- `GroupRefsExact`: `Spec => []RefsExact`
- `GroupHolds`: `FirstStays => (Spec => []HoldsWhatItUses)`
- `GroupDestroyedOnce`: `FirstStays => (Spec => []DestroyedOnce)`

`FirstStays` says that one lock of the list is there from the beginning, never
leaves it, and comes before all that ever join. Without it `HoldsWhatItUses` is
false: a thread that waits for the first lock of the list has none of
them, another may meanwhile chain a lock before that one, and the first goes on
without it. Nothing in the repository calls `pj_grp_lock_chain_lock`, so there
the own lock is the list and `FirstStays` is true; `group_lock` checks the more
general case of a lock that is always before the own one and another that joins
and leaves after it. The count is exact whatever the list is
(`Counted`). For the rest the invariant `Held(f)` follows a thread through the
list: of each mutex it has what `Times` says, once for every time it is inside
if the mutex is in the list, once more while it is on its way
and past that place (`Passing`), and once if it took it outside (`MutexExact`); whoever is inside is the
group's owner (`OwnerExact`); as the first lock is taken first and given back last, only its
owner moves in the list or changes it, so a step of the list under a thread that
waits concerns a thread with nothing in its hands. An item that leaves points to
itself, so nobody may be at it: its lock is held by the thread that takes it out.
`NoDeadlock` is about threads and locks outside as well and stays model-checked.

`TransportManager_proofs` proves, for any numbers of threads, users and connections:

- `TransportsUnusedEnd`: `Spec => []UnusedEnds`
- `TransportsTimerDies`: `Spec => []TimerDies`

For `TimerDies` the invariant is `Timed`: a timer in the heap is known by its id, or it was
set while an earlier firing was pending; such a firing is the only thing that clears the id of a timer that stays,
and a timer that is known is cancelled by whoever destroys the transport. Whether the transport
was in use then plays no part.

For `UnusedEnds` the inductive invariant has six parts. `Registered`: the manager knows the
transports that are there, each in one place. `Buried`: nothing is left of one that
is gone, no reference, timer or call, unless the model has stopped (`lost`). `Messages`: a message
is in one place, the queue, the wire or the hands of one thread, until its sender
is called back; this is what makes references come back once. `Counted`: the
count is exact, `Holders` and `Returning` being sets. `Ends`: a transport that is being
destroyed has a thread that removes it, and one whose count is zero has its
timer, or a thread that is about to see to it. `Typed` says of the calls a thread
is inside of what may be left to do behind each (`Fits`). `CalledBack` and `ShutEnds` are liveness.

`MediaReceiver_proofs` proves, for any capacity, any limits and any configuration of
the buffer, and for any packets, in any order:

- `RingAgrees`: `Spec => []RingConsistent`
- `DiscardsSpaced`: `Spec => []DiscardsApart`

Nothing is assumed of the network: of `Deliverable` only that packets have
numbers is used. The inductive invariant is `BufferOK`. Neither property is inductive alone:
the number of discarded frames is right only if no frame is discarded twice, and
that rests on the schedule, which is kept outside the ring. So `BufferOK` adds that
while a discard is scheduled (`dist # 0`) every mark in the ring lies at or before
`ref` (`Before`). Each operation of the ring is shown to keep it in order and to
move no mark up (`RemoveHeadOK`, `PlaceOK`, `RealignedOK`, `PutAtOK`, ...:
`Keeps`), so it keeps the schedule; `DiscardOK` marks a frame at least
`MinShrinkGap` behind `ref`, which is therefore unmarked and far enough from
every other mark (`DistanceOK`). The arithmetic of the ring is in `SlotValue` and
`SlotInjective`; `LeastNat` gives the first frame that is not discarded.
The assumptions are those of the constants, `GapAssumption` among them.

`IceSession_proofs` proves, for any finite set of candidate pairs, any components,
foundations and priorities, any number of threads, and whatever is lost, refused or
reordered:

- `TypeCorrect`: `Spec => []Typed`
- `RolesRepaired`: `Spec => []RolesDiffer`
- `NominationsAgreed`: `Spec => []NominatedByPeer`

The assumptions are those of `PairAssumption` and `WorldAssumption`. Most functions of
a session change no role and nominate nothing (`Same`); the others may nominate, in
the controlling role only, and then say so in the request (`Advances`). This is
proved once of each function. The inductive invariant is `Inv`: beside the types
(`Typed`), what the messages in flight say about their senders. `Roled`: the roles the agents will
have in the end are known from the start (`Final`: who switches if both start alike is the
tie-breaker's choice); a request carries the first role of its sender or the one it has
now; an answer that is not a conflict means that both have their final roles, and so does
a valid pair; a conflict is only reported to the one who has to switch. That an
answer is kept that long is what makes `RolesDiffer` inductive. `Nominating`: what
the controlled agent takes for nominated, or will when it handles its early requests, and
every request that says so, the controlling one has nominated (`Claims`, `Agreed`). The early
requests are handled by a recursive function (`HandleEarly`); that it does what one
request does is shown by the first index at which it would not (`LeastNat`, `Handled`).
`Notified` and `Succeeds` are liveness.

`InviteSession_proofs` proves, for any operations of the applications, any number of them
and any events:

- `TypeCorrect`: `Spec => []TypeOK`
- `LifecycleKept`: `Spec => ImplementsLifecycle`
- `DescriptionsAlive`: `AnsweredOnce => (Spec => []SdpAlive)`

`AnsweredOnce` says that "answer again" is no event, that is, that the application answers an offer
once; without it `SdpAlive` fails (above). In the inductive invariant `IInv` a session is
as it was made or `Ok`, and each message is `Vouched` for by the state of its sender: who
sent a provisional answer other than 100 is at least early, who sent a 2xx or an ACK to an INVITE at least connecting.
That is what makes the receiver right about the other end, whenever the message comes. `Ok`
has five parts: the types; `Placed`, which INVITE transaction a session in a given state
works on; `Tracked`, that a session whose INVITE transaction has ended, or which
has sent a 2xx, is connecting or beyond; `Sending`, what it says of itself in this step;
`Sound`, where its descriptions lie. Of a negotiator in use that is `Pooled`: what was
agreed before is never in the provisional pool, which a negotiation that fails resets, and
what is under negotiation never in the active one, which a negotiation that succeeds
resets before the two are swapped (`Old`, `New`, `NegotiationSound`). Of a session that is over it is only that nothing is
freed, for it negotiates no more. Each helper and each state handler of `sip_inv.c` is shown
once to take a session that is `Ok` to one that is, and forward to the states
it may enter (`To`); `Then` chains them. Only while a client
transaction ends is `Tracked` not true of it, so `Ok` has that transaction
as an argument. A handler that ends the INVITE transaction does not keep it (`Moves`,
`Handles`). The steps of both ends then follow from one lemma, `Lands`: what a session becomes
may change `ses` and `net` if the other end allows the state it enters (`MayEnter`).

Only model-checked: the array, ids and free list of `TimerHeap` (they are folds
along a path of any length, and reasoning about them needs induction over data) and
the refinement `ImplementsService`; `NoDeadlock` of `GroupLock`; of `InviteSession` what relates
the negotiators or transactions of both ends (`Agreement`, `VersionTells`, `GlareRejected`,
`ByeAfterAck`), and `NoHalfCall`; `HeldInOrder` of `MediaReceiver`, which
needs the network's limits; liveness everywhere. `HeldInOrder` is true only as long
as the network does not lose a whole cycle of numbers while older frames are still held: then
frames of two cycles lie among each other, `get_frame` passes over a gap between them, and a
repeated packet is taken for a new start. In `media` the packets span less than a cycle.

Only model-checked in `SipTransaction`: what rests on fairness (`Released`, `Ends`), which
is out of the prover's reach.

## Plan

1. `SipTransaction`, `TimerHeap`, `GroupLock`; `SdpNegotiator`, `InviteSession`;
   `TransportManager`; `JitterBuffer`, `RtpSession`, `MediaReceiver`; `IceSession` (done).
2. Proofs done: the references, the end, the timers and the client of `SipTransaction`, its life cycle and its leaks,
   `TimerService`, `GroupLock`, `TransportManager`, the ring of `MediaReceiver`,
   roles and nominations of `IceSession`, the life cycle and the descriptions of `InviteSession`.
   Left: `GlareRejected` and `ByeAfterAck` of `InviteSession`; `HeldInOrder`.
3. Modules left, in this order: `EventSubscription`, `Registration` and the session timer, `StunTransaction`,
   `TurnAllocation`, `IoQueue`.

## Not modelled

Text (parser, messages, URIs), signal processing, operating system wrappers, the
GUI: sequential code or wrappers without state that several events share.
Memory pools and containers: sequential. Everything else is on the plan above
and listed in `PROJECT.json` with its reason.
The hash table of the transaction layer is one entry: what two transactions with
the same key do to each other, and that the layer stop takes group locks while it
holds the table's mutex (`sip_transaction.c:724`), the reverse of
`mod_tsx_layer_unregister_tsx`, is out of the model; pjsua has joined its workers by then.
