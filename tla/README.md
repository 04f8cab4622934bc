# VFRS in TLA+

VFRS is a virtual frame relay switch: it joins UNI and NNI ports over UDP, TCP,
pipes or serial lines, switches permanent, switched and soft permanent virtual
circuits, and speaks the protocols of such ports (LMI, LAPF, SVC signalling,
CLLM, FRF.12). This directory holds TLA+ models of its parts, TLC runs over
small instances, and theorems proved with TLAPS. Paths are relative to the
repository; `PROJECT.json` maps each definition to the lines it models.

## 1. The system

Three threads share one `vfrs_ctx_t`:

- the **fast path** (`run_main_loop`, src/src/main.c) polls the ports, classifies
  each frame and either switches it at once or pushes it on the control queue;
- the **slow path** (`run_slow_path_thread`) drains that queue, then runs the
  timers of LMI, congestion, LAPF and SVC for every port, then sleeps 100 ms;
- the **console** reads commands, `reload` among them.

| Component | State | Operations | Hard behaviour | What makes it correct |
|---|---|---|---|---|
| LAPF entity (`ports/lapf`) | `vfr_lapf_state_t` per DLCI: state, V(S) V(R) V(A), window, backlog, T200, T203, working window V(k) | frames in, establish, release, send, timers, (re)initialisation | loss, colliding requests, restarts, arithmetic modulo 128 | window bounded, timers match the state, order kept, no wait for ever |
| LMI (`pvc/pvc_lmi_*`) | `vfr_lmi_state_t` per port: sequence numbers, error histories, link flags, full-status cycle | enquiry, status, asynchronous status, T391, T392 | two roles on one port, late answers, lost messages, wrap at 255 | a link is down exactly after n392 of n393 errors; status converges; New acknowledged before it is cleared |
| Switching (`fr_switch.c`) | none of its own; reads DLCI entries, LMI and congestion flags | classify, police, rewrite, fragment, replicate | two threads carry frames of one circuit | order of a circuit's frames; only active circuits carry |
| FRF.12 (`fr_fragment.c`) | sequence counter and reassembly context per circuit | fragment, reassemble | lost and reordered fragments | a delivered frame is a frame that was sent |
| PVC and DLCI tables (`fr_switch.c`, `port_common.c`) | `pvc_table`, `dlci_table`, per-port tables | add, delete, look up, propagate a port's status | lookups without lock, check-then-act | no duplicate, no use of a freed entry, both directions together |
| Locks (docs/LOCKING.md) | six kinds of mutex | every operation above | nesting across modules | a strict order, so no deadlock |
| Congestion, CLLM (`congestion/`) | token buckets, one congestion flag per port, CLLM timers | police, write results, rate check, notify | two causes of one flag, timers | committed rate bounded; a notification stops when congestion ends |
| SVC signalling (`svc/`) | call control blocks of a port, peer references, DLCI allocator, timers T301..T322 | setup, connect, release, restart, timeouts | two legs of one call cleared at once | no call, DLCI or data path leaks; both legs end |
| Soft PVC (`svc_spvc.c`) | table of SPVCs and their calls | trigger, retry, status change | a call outlives its circuit | one call at a time, retried until up |
| Routing, numbering | prefix and subscriber tables | insert, longest match | overlapping prefixes | longest match wins |
| Multicast (`pvc_mcast_*`) | groups and members | replicate | membership changes while frames are copied | every active member once, never the sender |
| Codec, IEs, transports, capture, configuration, logger | octets, sockets, files | | | covered by the repository's unit tests |

Interactions: the fast path hands control frames to the slow path through
`vfr_spsc_queue_t`. `lapf_handle_frame` defers layer 3 messages and link events
and calls SVC signalling once `port->mutex` is released; SVC sends through
`port_dl_send_data`. LMI results change the status of circuits
(`vfrs_propagate_port_status_change`), which sends asynchronous status on other
ports and wakes soft PVCs. The policer reads the entry the switch found, and
CLLM sets the peer-congestion flags the switch reads.

## 2. Modules

### LAPF (done)

`Lapf` holds no variable. It gives each routine of port_lapf.c as an operator on
a context `[s, out, up, event]`: the entity, the frames sent, the messages and
the event for layer 3. A routine holds `port->mutex` from its first to its last
access of the entity, so it is one step, and callbacks are what the step hands
out. The correspondence is by name: `SendL3` is `lapf_send_l3`, `HandleFrame` is
`lapf_handle_frame` with one operator per branch (`OnSabme`, `OnDisc`,
`OnAwaitingEstablishment`, `OnNumbered`, `OnRej`, ...), `OnT200` and `OnT203` are
the two halves of `lapf_poll_timer`. Loops are written in closed form: `Dequeue`
is the loop of `lapf_process_backlog`, `StepUp` that of the window recovery,
`OnRej` that of the retransmission.

A timer is the Boolean "it runs"; that it may expire is a choice. A frame is a
record of the fields the handlers read; its length is one of "ok", "short",
"long", its data a model value. `acknowledgement_pending` is 0 between two calls
and `own_receiver_busy` is only ever cleared, so neither is a variable. An entity
has the parameters of the configuration (k in 1..127, n200 at least 1). A mutated
operator (`..._OffByOne` and the like) stands before the operator it varies; the
models do not use it.

`LapfEnd` runs one entity against a peer that may send any frame of `Peer` at any
time, well formed or not. `LapfLink` joins two entities by a link that keeps order
and may lose frames, with the messages of each end numbered in the order layer 3
hands them over. `LapfService` is the abstract specification of that link: accept,
deliver in order, and give up the oldest messages on a restart; `LapfLink` implements
it with `Transit` (accepted, not delivered, not given up) as refinement mapping.

`LapfRoutines` has lemmas about the routines of `Lapf` that hold for one entity
whatever it is joined to; `LapfProofs` and `LinkProofs` rest on them.

### LMI (done)

`Lmi` gives the handlers of the Q.933 Annex A form as operators on a port's record,
which holds `vfr_lmi_state_t` and what LMI keeps per circuit: `OnEnquiry` and
`BuildStatus` are `send_lmi_status_response` with `lmi_q933a_build_status`,
`OnStatus` is `lmi_q933a_handle_frame` with the continued enquiry the switch sends
after it, `PollTimer` is `lmi_poll_timer` (`OnT392`, then `Supervise` and `Poll`),
`AsyncStatus` is `lmi_send_async_status`. A port has the network role always and the
user role when its configuration says so, and the two share `polls_since_full` and
`last_report_type` (`psf`, `report`). The bits of a history are a sequence of
Booleans, a report is the set of its items, a message that has the wrong protocol
discriminator or is too short never reaches a handler.

`LmiLink` joins two ports. Time passes in ticks: T391 and T392 are counted down and
expire at zero, and time does not go on while a timer has expired. Ordinarily a tick
finds no message under way, the intervals being seconds; a tick that overtakes a
message is a fault, like a lost message. A restart of a switch costs `RestartCost`
faults, since the other end can see it as several errors. `Add` and `Delete` are the
console's commands on a circuit, `Destination` the failure or recovery of what a
circuit leads to; all of them are bounded together with the faults by `MaxEvents`.
`streak` counts the events each role saw in a row and `seen` the New flags an end
accepted; both are history only. `LmiProofs` holds the proofs.

### Switched calls (done)

One switch, its ports of either kind, its calls. The modules extend each other in the
order of the table; an operator takes the switch `w`, a record, and returns it changed.

| Module | Code | What it gives |
|---|---|---|
| `DlciPool` | svc_routing_common.c | the DLCI allocator: `DlciAlloc`, `DlciFree`, the sorted list of intervals |
| `VcTable` | fr_switch.c, port_common.c | the tables frames are switched by: `AddEntry`, `DelEntries`, `AddPvc`, `DelPvc` |
| `Directory` | svc_numbering.c, svc_routing_common.c | numbers and routes: `Expand`, `AddSubscriber`, `AddRoute`, `PrimaryNumber`, `RouteLookup` |
| `SvcCalls` | svc_sig_common.c and the clearing procedures | legs, data path, `FreeCall`, `Clear`, and what each timer's expiry does |
| `Spvc` | svc_spvc.c | soft PVCs: `Dial`, `PollSpvc`, `SvcToPvc`, `IncomingSpvc`, `SpvcConnected`, `SpvcReleased` |
| `SvcUni` | svc_sig_uni.c | one operator per message of a user: `UniSetup` ... `UniRestart` |
| `SvcNni` | svc_sig_nni.c | the same for a neighbouring network: `NniSetup` ... `InitiateRestart` |
| `SvcSwitch` | the slow path, the console | the state machine: any message on any leg, expiries, polls, an operator |
| `FoldProofs` | | what a fold over a sequence does with one element more; induction over naturals and sequences |
| `SvcProofs` | | the lookup of routes and subscribers is right for every table; the allocator's list of intervals under `DlciAlloc` and `DlciFree`; types and DLCIs of the switch under every message and expiry |
| `CallProofs` | | every waiting call has a timer, no answered call is cleared at one end, and the entries of an answered call lead to its own other end |

A call control block is a *leg* `<<port, call reference, flag>>`; its peer is a name, as
in the code (`peer_port`, `peer_call_ref`, flag), not a pointer, and the model keeps what
follows from that: a leg may name a peer that is gone, or another call that has taken
the reference. The states are the code's numbers, which are the same for UNI and NNI.
The neighbour, user or network, may send any message about any leg it has, in any
state, correct or not: a lost, late, repeated or reordered message is one of those. Of
the information elements a message keeps what a handler decides by: the number called,
the network selected, the networks passed, the DLCI, and one "refused" for all elements
that are missing, invalid or out of range. A handler that rejects after it has allocated
keeps the order of the code: what was taken is given back by `Clear` and `FreeCall` or
stays taken. A configuration's numbers and tables are finite sequences
(`ConfigAssumption`), and a number is expanded symbol by symbol, as
svc_numbering_expand does (`Written`).

A neighbour of either kind may propose any DLCI in SETUP. The code takes it unchecked and
leaves it in the pool (`Claim` changes nothing but history), so two legs of a port may
hold it, each opens its path at the same table entry, and each gives it back. `w.shared`
is history: the points `<<port, DLCI>>` that were proposed though they are of the range
the switch hands out or another leg had them, and the access points of soft PVCs, of
which the pool does not know either. Both ends of an NNI hand out the same range by
default, so this is an ordinary case and not a misbehaving neighbour's. What is true
about DLCIs and table entries is said of the points that are not shared; what is true
of calls, timers and the pool is said of all.

`w.lapf` is the set of ports with a LAPF entity for DLCI 0. A configuration may make one,
and a user's SABME does (`Establish`); a port that never had one gets calls all the same.
`Offer` sends SETUP to a user and sets T303 only if there is one.

`mishap` is history. It becomes true when something happens after which this code does
leave the two legs of a call on their own: a reference used again while the far leg still
names it; CONNECT ACKNOWLEDGE in a state that does not expect it; RELEASE that crosses
the switch's own RELEASE of an answered call; a user's RESTART, which tells no peer; a
soft PVC's poll that clears another call with the same reference. Four properties
excuse behaviours with a mishap (and only in the part that concerns the two legs, which
for the timers are the two kinds named in `Untimed`: a leg in N3 of a call from a network,
and a leg in N6 at a user);
without that excuse TLC shows each of these cases.

### Data path (done)

| Module | Code | What it gives |
|---|---|---|
| `Fragment` | fr_fragment.c | `CutUp` and `Reassemble`, and how a fragment header is read as a control field |
| `Policer` | cgst_mgnt.c | `TbUpdate`, `Police`, and the congestion state with its two causes |
| `Multicast` | pvc_mcast_uni.c, pvc_mcast_nni.c, vfrs_switch_frame | groups, the state of an end, `Copies` |
| `CtrlQueue` | the promise of port_queue.c | abstract specification: a bounded FIFO |
| `DataPath` | fr_switch.c, main.c, cgst_cllm.c | two threads, the ring, timers, CLLM |
| `DataPathProofs` | | the ring implements `CtrlQueue`; token buckets; the types of the data path |

A payload is a sequence of pieces `<<frame, i>>`, so that it can be told afterwards which
frame each piece came from. Nothing in a frame says that it is a fragment. The code reads
the first two payload octets as a header when the circuit is set up for fragments, or
when they show B or E (`ReadAsPart`), whatever the frame is: `part` says what it really is,
`head` what its octets are as a header, `form` what the first one is as a control field. So
an XID, a FRMR or a late I-frame may be kept as the first fragment of a frame, DISC and UA
end one, and a whole UI frame may be joined with fragments whose number it fits. A whole
frame that is taken for a fragment loses two octets: its piece 1 becomes piece 0.

The fast thread takes a frame from a line (`FastReceive`) and works on it itself or pushes
it on the ring; the slow thread pops it (`SlowReceive`) and gives it to LMI, LAPF or CLLM,
or works on it too. No lock keeps the two off the same circuit, so the work on a user frame
is in steps, with what the thread has read in `job`: it reads the reassembly context
(`UserFrame`), writes it and reads the token bucket (`Join`, `Lookup`), writes the bucket and
sends the frame or reads the number for its fragments (`Forward`), writes that (`Number`),
and sends each fragment (`Transmit`); between any two the other thread may act. `Replicate`
is one step with the multicast bucket, which `mcast_mutex` guards. `Poll` is
`cgst_poll_timer` with `cllm_send`; `MarkPeers` is `cllm_handle_frame`. The ring has the
code's two indices (`Push`, `Pop`, `Full`) and implements `CtrlQueue` under the mapping `Held`.

Two threads in one piece of unlocked memory are a data race, of which a build may make
anything: a context copied half old, half new, a number taken twice. The model has one
outcome, in which each thread works on a snapshot and the last one to write wins; it is
not meant to say what else comes of it. `raced` holds the circuits on which the threads
met so in the reassembly or in the cutting, `torn` the buckets both had read before one
wrote, and the properties make no claim about these; they do about every other circuit,
and about these for as long as the threads do not meet.

`credit` and `over` are an ideal bucket beside the real one, `excused` the frames that
were lost for a reason the service allows: with `torn` and `raced` they are history only. The
bucket of a group without CIR is empty and never limits anything (`GroupBucket`), unlike
that of a circuit, which falls back to the access rate.

### Plan

Done: LAPF, LMI, switched calls with soft PVCs, routing and numbering, the data path
with fragmentation, policing, congestion and multicast; proofs about a LAPF entity, two
joined LAPF entities, the two-ended LMI link, routing, the DLCI allocator, the
accounting, supervision, clearing and data paths of calls, the ring, and the token
buckets.

Next, the theorems: the refinement of `LapfService`, for which the invariant of
`LinkProofs` has the numbers but not yet the messages they stand for; `Unmixed`, from
what the reassembly context holds and how fragments are numbered on a line.

## 3. Runs

| Run | Question | Bounds | Result |
|---|---|---|---|
| `lapf_end` | Is an entity consistent whatever its peer sends? | 4 sequence numbers, k = 2, N200 = 2, step 1, one backlog slot, two messages (symmetric), 87 frames | passes, 347,640 states |
| `lapf_link` | Do two entities provide the service? | the same numbers, step 2; two messages one way and one the other, three requests, one loss | passes, 71,243 states |
| `lapf_loss` | Does an accepted message arrive unless the link restarts? | as `lapf_link`, one request | violated |
| `lapf_reload` | Is a link up only after a handshake? | as `lapf_end`, with `Reload` | violated |
| `lmi_link` | Do two ports agree on the link and on a circuit? | both poll; N391 = 2, N392 = 2, N393 = 3, T391 = 2, T392 = 3 ticks, numbers 1..3, one circuit, two faults or changes | passes, 419,584 states |
| `lmi_segments` | Is a circuit taken down only when the far end lacks it? | the same timers, three circuits, one per STATUS, one fault | violated |
| `svc_calls` | Are calls, DLCIs and data paths accounted for, whatever comes? | a user and a network, two calls a port, two DLCIs, ten SETUPs, two of which propose a DLCI of the range, two soft PVCs, two configurations (one with LAPF at the user), four messages | passes, 370,552 states |
| `svc_leak` | Is every DLCI that no leg holds free? | three DLCIs, a list of one range; SETUP and RELEASE only | violated |
| `svc_t310` | Is an answered call safe from T310? | SETUP, CALL PROCEEDING and CONNECT only | violated |
| `svc_redial` | Is a soft PVC dialled again after a release? | SETUP, RELEASE and polls only | violated |
| `svc_crossed` | Does an installed path stay until its call is cleared? | three blocks a port, two calls through the switch and one that ends in it; SETUP, CONNECT and RELEASE only, seven messages | violated |
| `data_path` | Is a frame carried whole, once, in order and within its contract? | three ports, eleven scenarios of two to eleven frames, below | passes, 259,966 states |

Why the bounds suffice: with four numbers and a window of two, V(S) wraps after
four messages, a window can straddle the wrap and there are wrong N(R) on either
side of it; k = 2 lets the working window shrink to 1 and grow back; one backlog
slot can be empty and full; N200 = 2 has a retry and an exhaustion. In the link,
three requests let both ends ask at once and one of them release or restart, and
one loss can hit any frame of any exchange. Peer frames differ only in fields a
handler reads. The proofs below do not depend on these bounds.

Properties of `lapf_end`: `TypeOK` (among others, the working window stays at least
1 and the count below N200), `WindowBound` (no more than k unacknowledged frames),
`Supervised` (the timers that run are those the state calls for), `AnnouncedUp`
(layer 3 knows of every link that can carry data) and the action property
`UnackedKept` (a message leaves the retransmission store only when acknowledged,
oldest first). Of `lapf_link`: `NoFrameReject` (two entities of this code never
find fault with each other), `ImplementsService` (refinement of `LapfService`),
`WaitEnds` and `HalfOpenHeals` (liveness).

For LMI, the timers keep their default ratio (10 s and 15 s) and N392 of N393 leaves
room for one error in the window; numbers that wrap after three make an old STATUS
meet a new one of the same number; two faults reach N392, so links go down and come
up again, and one restart (which costs two) or two changes of the circuit fit too.

Properties of `lmi_link`: `LinkFollowsEvents` (N392 events of a kind in a row decide
the flag, whatever the window held), `NewIsSeen` (New is forgotten only when the far
end took it in; not for a switch that restarted, which numbers from 1 again and may
take an old echo for an acknowledgement), `ToleratesFaults` (fewer than N392 faults
take no link down: none is counted twice) and `Converges` (liveness: when faults and
changes end, both ends are up, each knows every circuit as the other sees it, and no
circuit is New any more).

For calls, `MaxMessages` bounds what neighbours and operator send, not the expiries of
timers: four is enough for a call to be set up, answered and cleared by one end while
the other end or a second call interferes, and for two calls to use one DLCI after each
other. Two DLCIs and two blocks a port are exhausted in the runs. The two
configurations have aliases, numbers given twice, the number of the switch itself,
routes that overlap in prefix, metric and network, and a route to a port that does not
exist. `Crvs` exceeds what the calls can hold, so that the search for a reference ends,
as it does with the code's 32,766.

Properties of `svc_calls`: `DlciAccounting` (a DLCI of the range is free or held by one leg,
unless it is shared; the free list stays sorted and joined, whatever is proposed),
`DlciReturned` (one that no leg holds is free: two DLCIs never need more than the list of
the run holds), `Supervised` (a leg that waits has a timer, or relies on that of its peer:
one of a call from a network, and one of a called user who may have no LAPF entity),
`PathJoinsTheCall` (while a call has a data path both legs are active, and an entry of one,
if it is there and not shared, leads to the other: frames go to the right end or nowhere;
that they go at all is `PathStays`, which fails), `ClearedTogether` (no message clears an
answered call at one end only), `Settles` (liveness: once the neighbours are silent every
call is up or gone, except the legs that a mishap leaves without the timer they rely on),
`DialledReaches` and `RouteIsBest` (the three-tier lookup against its definition by
quantifiers).

For the data path each scenario brings one mechanism to its limit: `Policed` (a bucket
with CIR, Bc and Be that both threads use), `Fragments` (lost fragments, on a port not set
up for fragments, with numbers that wrap, a middle fragment that looks like UI, and an XID
after them), `Recut` (rejoined and cut anew), `Lookalikes` (whole frames that show B, E or
both, one of which fits the XID before it), `Whole` (UI frames and others on ports set up
for fragments, of which one fits those around it), `Cut` (both threads cut up frames of one
circuit), `Busy` (more control frames than the ring holds), `Congested` (by rate
and by failing writes, with CLLM), and `Groups` in the three modes with a link that goes
up and down and writes that fail. Scaled down: `FragMod` 8 (4096), two fragments a frame
(16), a ring of 3 slots (256), `MaxIdle` 3 s (10), `CllmEvery` 2 s (10), `CllmLife` 1 s
(11). Fewer fragments in a row are lost than `FragMod`. A rate of 0 in a scenario stands for a
threshold its traffic does not reach (1000 frames a second by default). The fragment
size of a port and the limit of failed writes are set by no statement of the
configuration, only by a program that embeds the library.

A frame has one payload octet or more than two: with exactly two it could be a header and
nothing else.

Properties of `data_path`: `Unmixed` (pieces of different frames are never joined),
`InOrder` (frames of one class, UI or not, leave in order; the two classes do overtake
each other), `OneCopyEach`, `Conforms` (over any stretch of time no more than Bc + Be
and CIR, and without DE no more than Bc and CIR, unless the bucket was torn),
`Delivered` (a frame nothing excuses arrives whole at each of its ends),
`QueueIsFifo` (refinement of `CtrlQueue`), `CongestionEnds` and `NoticeEnds` (liveness).
`Unmixed` and `InOrder` are about frames that are not `Damaged`: the code does join a whole
frame it misreads with fragments it fits, and that frame is then short of two octets, by
which the result is told. They and `Delivered` leave out circuits that are `raced`.
`Delivered` is about the frames the code can carry (`Carried`): not the fragments among
which a misread frame comes, not a whole frame that shows B, nor one that shows E while
there is something it could be joined to; a whole frame on a port set up for fragments is
carried, since the reassembly refuses it, as long as nothing of the circuit begins a frame.

`CHECK_DEADLOCK FALSE` in the runs of calls and of the data path: with the messages sent
and the calls settled, or the lines empty and nothing marked, nothing remains to be done.
In the LAPF link run: with the budgets of messages and requests
spent and both ends disconnected, nothing remains to be done.

**Fairness.** `LapfLink` takes weak fairness of receiving and of timeouts at both
ends: the slow path drains the queue and then runs `lapf_poll_timer` for every port,
for ever. Losses are bounded, requests and messages have none. A timer expires only
when no frame is under way, since T200 and T203 are longer than a round trip.
`LapfEnd` has no fairness and no such assumption. `LmiLink` takes weak fairness of
receiving, of the timers and of the tick, from the same loop; it never deadlocks,
time going on for ever. `SvcSwitch` takes weak fairness of the expiry of timers
(`svc_poll_timers` in each round), none of messages: for `Settles` neighbours may fall
silent at any time. `DataPath` takes weak fairness of both threads' steps, of polling
and of time. In both modules the condition that enables an action is written out
instead of ENABLED, with the same meaning.

## 4. Disagreements found

- `AcceptedArrives`: t200 is documented as the I-frame retransmission timer. Its
  expiry sends a poll only, and the answer ends the recovery without sending the
  unacknowledged frames again; a lost last frame of a burst never arrives.
- `UpByHandshake`: re-initialising an existing entity on a reload puts it in
  TEI_ASSIGNED ("link disconnected") with its timers running, and T203 then moves
  it to TIMER_RECOVERY, where layer 3 may send.
- `OnlyAbsentOmitted`: the switch logs that it re-transmits a lost report. The index
  of a segmented report moved on when the lost segment was built, so the report is
  continued after it and the user side takes the missing circuits down as omitted.
  Deleting a circuit between two segments shifts the index with the same effect.
- `DlciReturned`: RELEASE COMPLETE is documented to return the DLCI to the pool. When
  the list of free ranges is full, `svc_dlci_free` warns and the DLCI is lost; it asks
  for room before it joins neighbours. The list has 64 entries and a port takes 512
  calls, so calls that end in another order than they began can bring it there.
- `AnsweredInTime`: T310 is documented as the wait for CONNECT. CONNECT from a network
  makes the caller's leg active and leaves its T310 running; the expiry does not look
  at the state and clears the answered call.
- `CanRedial`: soft PVCs are documented with "auto-teardown / auto-redial". The release
  of a soft PVC's call deletes the configured circuit at its access point, and the poll
  dials only while that circuit exists.
- `PathStays`: the console reports the data PVCs of a call as installed for as long as the
  call has them. `egress_dlci` of a UNI caller's leg is set to the DLCI allocated on the far
  port and then overwritten with the caller's own. When that leg is cleared first, the
  entry deleted on the far port is the one with the caller's number: none, or, when the
  DLCIs of two calls cross, the other call's. That call stays active and deaf, and the
  entry of the cleared one stays behind. `PathJoinsTheCall` says what remains true, and is
  proved: no frame goes to a call it does not belong to, unless two share a DLCI.

Met while modelling, kept in the models as the code has them, without a run of their
own. LAPF: `retransmission_count` survives establishment and recovery, and
`lapf_poll_timer` tests it before the state, so one expiry of T200 may reset an
established link unpolled. LMI: on a link where only one end polls, T392 expires at that
end for ever and each expiry resets `polls_since_full`, so with n391 large enough (6 by
default) full status is not asked for again; the recovery mask is looked at only when
fewer than N392 of the last N393 events are errors, so with N393 at least twice N392
"N392 consecutive error-free events" do not clear the error state. Calls: a DLCI that a
neighbour proposes is used and still in the pool, where svc_sig_common.h:121 speaks of
the "lowest unused" one, so the next call on the port is given it too; a called user
whose port has no LAPF entity is sent no SETUP and the leg has no T303 (README.md:245),
so T310 of the caller is what ends the call, and after a RESTART of the caller nothing
does; the allocator is not checked for the outgoing leg of a UNI call, which may get
DLCI 0; a call that a soft PVC cannot take leaves its control block behind; a call the
switch dials is in state N1, where CALL PROCEEDING and CONNECT are refused, so
`SpvcConnected` is never reached; a "svc_to_pvc" circuit takes a second call while it
has one; the second expiry of T303 or T308 tells no soft PVC. Data path: a UI frame and
a frame of another kind overtake each other; on a port set up for fragments, a middle
fragment numbered 0x300 to 0x3FF overtakes the first one, which is in the control queue,
and the frame is never completed; a frame in three or more fragments is not rejoined on
a port without a fragment size, since its middle fragments go past the reassembly, and
its first one is swallowed; a whole frame whose first octet has the bit of B is
swallowed too (XID, FRMR, I-frames from N(S) = 64 on), one with both bits loses two
octets, and one may be joined with fragments it fits; SABME on a user circuit makes LAPF
take every later frame of it; the write of a frame that was cut up always counts as a
success; with a rate threshold of 1 congestion never clears, hence `CongestionEnds` asks
for 2; marks on switched circuits are not among those the poll lets lapse.

## 5. Proofs

Each module of proofs EXTENDS the module it is about. A theorem holds for every value
of the constants that meets their named assumptions; hypotheses beyond these are given
here.

**A LAPF entity** (`LapfProofs`; every modulus, window, limit, backlog, message set and
set of peer frames): `TypeCorrect`, `WindowIsBounded`, `AlwaysSupervised` and
`AlwaysAnnounced`, the four invariants of `lapf_end`, as `Spec => []...`.
The inductive invariant is `IInv`: the entity is `Good` (typed, at most K frames
unacknowledged, timers right) and layer 3 was told of a link that carries data. None
of the four is inductive alone: `WindowBound` needs the type of V(k) and the position
of V(A); `Supervised` needs to know that a wait has no T203, which the disconnecting
branches do not cancel. Each routine has a lemma that says it takes a good entity to a
good one and what it may do to the announcement; `NextIInv` puts them together,
one step per action. `UnackedStay`, `Spec => UnackedKept`, is the action property of that
run: each routine moves V(A) only by an N(R) in range and V(S) only forward (`Extends`),
a number given to a new frame is none that a kept frame has (`NewNumbers`), and so what
is left in the store afterwards is the tail that the N(R) did not acknowledge. The
lemmas on single routines are in `LapfRoutines`.

**Two LAPF entities** (`LinkProofs`; every modulus, window, limit of retries and
backlog, every number of messages, requests and losses): `NeverRejected`, the invariant
`NoFrameReject` of `lapf_link`, and `LinkTypeCorrect`. The assumptions are those of the
model: two ends (`LinkAssumption`), a window smaller than the modulus
(`WindowAssumption`), a link that keeps the order of frames and may lose any of them,
timers that expire only when nothing is under way, and `Establish` only when `Settled`.

To know that an N(R) is in range when it is read, one must know of each frame under way
what its sender meant by it, through restarts and colliding SABMEs. The inductive
invariant `LinkInv` says this for each end and its peer (`Joined`), in two halves.

- The control half, `Ctl`. An end is down, calling, leaving or up (`Phase`), a frame is of
  one of seven kinds (`Kind`). `Ctl` says for each pair of phases which kinds may be on
  either wire, in which order, and which may cross. It excludes that an end which has
  begun a new link reads a UA or DM of the old one: that would set V(S) and V(R) back
  under the frames behind it. There is one lemma for each kind of step (`ReadSabme`,
  `CallingUa1`, `QuietPoll`, ...). They are propositional, since all they need of the
  wires is how `Has`, `Before`, `Third` and `Newest` change when a frame is added or read
  (`Grown`, `Shorter`).
- The numbers half, `DataInv`. `Data1`: the N(R)s on their way to an end that is up are in
  its window, in order. `Data2`: between two ends that are up, no N(R) under way is ahead
  of its sender's V(R), and the I-frames lie between the receiver's V(R) and the sender's
  V(S), in order once the one expected is under way or nothing was rejected; at most one
  REJ is under way, and the frame it asks for is not. `Data3`: what follows a SABME, or
  the UA an end waits for, counts from 0, so that the other two hold when that frame has
  been read.

`Data1` is not inductive without `Data2`: V(R) goes into the next N(R), so it must never
pass V(S), hence each I-frame under way must lie below V(S), hence, as V(R) moves, the
I-frames must come in order. A REJ has all frames from its N(R) on sent once more; they
join the others in order because the one asked for was not under way and no second REJ
will ask again. What a routine sends is stated apart from the invariant (`Says`,
`Replied`): a reply to a numbered frame moves V(A) to its N(R) and V(R) by what was
accepted, and adds frames with the new V(R) and the next N(S)s. `NoFrameReject` follows, since `LinkFrames` has no FRMR. TLC found `LinkInv` to
hold, on the instance of `lapf_link` and in simulation of larger ones, before it was
proved.

**Two LMI ends** (`LmiProofs`; every width of sequence numbers from 2 to 8 bits, all
intervals, circuits and numbers of faults): `TypeCorrect`, and `LinkFollows`, the
invariant `LinkFollowsEvents` under `N392 <= N393 < 2 * N392`. The
defaults 3 and 4 meet this; the configuration takes each value from 1 to 10 on its own,
and outside it the property is false on either side (section 6). `IInv` joins the types to `Linked`: a streak of n good events is n good
bits at the young end of the window, a streak of errors n bad ones, and a streak of
N392 decided the flag. The window holds N393 events, so that N392 good ones leave fewer
than N392 errors exactly when N393 < 2 * N392.

**Routing** (`SvcProofs`; every set of configurations, tables of any length):
`RoutesBest` and `DialledIsReached`. The invariant `Configured` says that the tables are
those of one configuration. The scans are folds, and each fold has an invariant of its
own: `Best` (what a scan has kept is a best route of those seen) and `Directories` with
`PrimaryFirst` (numbers stay unique, a port's last number has that port).

**DLCIs and calls** (`SvcProofs`; every set of ports, range of DLCIs,
limit of calls, configuration and message): `TypeCorrect`, `AccountingHolds`, and
`ReturnedIfRoomy`, the invariant `DlciReturned` under `Roomy`: the list of free ranges
can hold the most scattered set of free DLCIs. With the code's 64 entries this means
ranges of at most 126 DLCIs; beyond that the property fails, as `svc_leak` shows on a
small scale. `AllocWorks` and `FreeWorks` say what the allocator's two operations do to
the list: sorted and joined before and after, and exactly one DLCI taken or given. The inductive invariant is `Good`, in parts: `LegsTyped`, where a leg is
never its own peer, so that it is still there when its peer has been freed; `Limited`,
without which no fresh call reference need exist; `PortsTyped` and `SpvcsTyped`;
`Accounted`, where a free DLCI is held by no leg and two legs of a port hold different
ones, both for points that are not shared. Most handlers only edit legs and shed others (`Sheds`, `ButFor`); the lemmas go
from these through `FreeCall`, `Clear`, every message and expiry to `NextIInv`. The two
restarts are folds over the legs of a port.

**Legs and their peers** (`CallProofs`; the same generality): `SupervisedHolds`,
the invariant `Supervised`, and `ClearedAtBothEnds`, the action property
`ClearedTogether`. Neither follows from the types. The inductive invariant is `SInv`, on
top of `Good`: `Attended`, leg by leg, and until a mishap `Together`, which relates two
legs. `Attended` must also say that a leg in the null state has no peer: such a leg is
freed at once when it is cleared, and a leg that relied on its timer would wait for ever.
`Together` says that the peer of a leg, if it is there, names that leg too, and that a
leg which waits without a timer (`Relies`: an incoming one, in N3, or that of a called user
who was sent no SETUP, in N6) has a peer that has one. Without the first part a
message would be passed on to a leg of another call.

A step is one of three kinds: it moves a set X of legs to a waiting state or frees them
(`Moves`), makes them active (`Raises`) or adds them (`Enters`); all other legs keep
state, timers and peer. Each handler, expiry and console command has a lemma that names
its kind and its X: a leg and its peer (`Both`), one leg alone, none. `Attended` is kept
by all three kinds (`AttendedStays`). `Together` needs more (`Orderly`): X has the peer of
each leg it has, or leaves no leg that relies on another to one that is gone; a new leg is unknown to
those there are. Where a handler does part two legs, its action sets `mishap`, and the
proof of that action shows that this is the only case: it brought to light that a soft
PVC whose access PVC is gone can also clear a foreign call while its port is up, and
`Poll` now counts it. `ClearedAtBothEnds` follows from the same sets, since no step that
is `Lawful` takes one of two active peers and leaves the other (`Tells`).

**Data paths** (`CallProofs`; the same generality, without a condition on configurations
or neighbours): `PathsJoin`, the invariant `PathJoinsTheCall`. The inductive invariant is
`PInv`, on top of `SInv`: until a mishap the switch is `Sound`, leg by leg and for pairs
of legs. `PathAt` is the property for one leg. `EndsAt` says what the next path will
join: a leg the switch set up has the near end of its peer as its far end, so the path
it opens joins the two; for the caller's leg this is false (`svc_crossed`), and the
proof has to show that it never opens the path. So `CalledAt` says that legs in the
states in which an answer opens one are legs the switch set up. `Alone` says that no
other leg has a leg's port and DLCI, unless the point is shared, so that no new entry
overwrites one of another call; a fresh DLCI is apart from all legs by `Accounted`, and a
proposed one is either not of the range and held by nobody, or shared from then on
(`ClaimSound`). That the access points of soft PVCs are shared from the start keeps them
out of all this: the code takes no configured DLCI out of the pool.

Most steps thin the switch out (`Thins`): legs leave, paths close and entries go, whichever
entries those are, and `Sound` survives since an entry that is gone claims nothing. What
adds to it are a new leg, a pair of legs joined (`LegsJoined`), a path opened and a soft PVC
bridged, with one lemma each; every message, expiry and command is made of these.

**The ring** (`DataPathProofs`; every number of slots above one, every configuration and
sequence of frames): `RingIsQueue`, `Spec => QueueIsFifo`, the refinement `data_path`
checks on a ring of three slots. The ring with its two indices implements the abstract
queue `CtrlQueue`, which keeps the order and holds one frame less than the ring has
slots. The refinement mapping shows the frames from tail to head as a sequence. The
inductive invariant is `RingInv`: slots and indices are in range, and what is still to
come on a line came from its scenario (so that each frame pushed is one the abstract
queue may take). `SlotOf` says where the n-th frame stands and that the slot at the head
is none of them unless the ring is full; from it `PushAppends` and `PopRemoves` follow,
and `RingStep` has one step per action.

**Token buckets and the data path** (`DataPathProofs`; every set of ports and
scenarios): `BucketsConform` and `TypeCorrect`, the invariants `Conforms` and `TypeOK` of
`data_path`. The assumptions say what a configuration is: each circuit and each group
has a bucket, frames are not longer than `fr_parse_frame` lets them be. `Conforms`
compares the bucket of the code, which is brought up to date only when a frame comes and
then for `MaxIdle` at most, with an ideal one that gains CIR every second. The invariant
is `Covered`: the ideal bucket has at least what the real one would have after
`TbUpdate` (`Available`), and of Bc at least what that is more than Be. It is inductive
because a thread in the step "police" judges a frame of a circuit by what it read, which
still is what the bucket holds unless the bucket is torn (`JobInv`), whatever the other
thread's step is, and because the bucket of a group,
read and written in one step, is none of a circuit's (`GroupIs`). Best effort has
no bucket to conform to (`BestEffort`): with CIR 0 on a port whose access rate is not
known, Be limits nothing. The types need the reassembly (`ReassembleIs`), the loops over
the ends of a group, which are folds, and that each frame in the ring came from a line.

**Folds** (`FoldProofs`). The library states induction with an operator as a parameter,
which the provers cannot instantiate. Here it is derived from well-foundedness, for a
set instead of an operator (`SetInduction`), and from it what a fold does
with one element more. `FoldProofs` has the step of the fold as a constant operator and
each fold of the models is an instance of it.

Only model-checked: that two joined LAPF entities implement the service
(`ImplementsService`), which needs the messages behind the numbers; `NewIsSeen`
and `ToleratesFaults` of LMI; `Unmixed`, `InOrder`, `OneCopyEach` and `Delivered` of the data path, which
speak of the history of whole lines and of what a misread frame fits; all liveness, which, like ENABLED, is out of
the prover's reach.

## 6. Not modelled

Freeing entities at shutdown, the callback table of service access points, CLLM in
an XID, statistics, and what an octet looks like. `lapf_establish_link` and
`lapf_release_link` have no caller in src/: the models let the embedding program
call them. In `LapfLink` it does so only when nothing of an earlier link is under
way, since a UA cannot tell which SABME it answers.

Of LMI: Cisco LMI, the stricter test of ANSI for a missing sequence element,
multicast circuits in a report, the loopback warning, the totals of errors, changing
a port's LMI type at the console, and ports that go down. `Polling` is a constant: an
`lmi <port> dte` line of the configuration is what enables it. The configuration does
not check N392 against N393; with N392 above N393 a link never goes down, and with N393
at least twice N392 the part `GoodEventsRecover` of `LinkFollowsEvents` fails. With more
circuits than fit a STATUS, `NewIsSeen` fails: the first that does not fit is already
stamped with its number.

Of the calls: answers to messages that name no call (they change nothing), the contents
of elements and the service parameters, retry intervals of soft PVCs, timers that nothing
sets (T301, T317, T322), the trie of svc_routing_common.c and
`spvc_notify_pvc_status_change`, which have no caller, and deletion of a port. All calls
are handled by the slow path one message at a time; a console command is a step of its own.

Of the data path: FECN and BECN, statistics, capture, FCS, lengths of addresses, frames of
two payload octets (see section 3), what a data race in the reassembly or the cutting
leaves behind other than the snapshot of one thread, the limit of 128 DLCIs or 256 octets
of a CLLM message, and a circuit deleted while its frame is on the way, which is a use of
freed memory. A second does not pass while a frame is half way, and a poll comes when the
ring is drained: under a constant load of control frames the code's timers wait for ever.

Not modelled at all: the locks as such (handlers are taken as atomic under a port's
mutex; a model of their nesting would be the call graph written again), the codec,
information elements, transports, capture, the configuration's lexer and parser, and the
logger, being byte-level or pure I/O.
