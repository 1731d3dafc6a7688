# A TLA+ verification project for OpenURMA

OpenURMA is a NIC for the UB protocol, written as *elements* (`*.clnp`): each
element has a `.state`, an `.init`, a `.handler` that is called again and again,
and a `.signal` procedure for the host. Elements are wired by FIFO streams
(`src/examples/openurma/topology.clnp`). Two builds matter here. In the software
emulation and in hardware every element runs by itself, as a thread or a block.
In the TLM build (`topology_tlm.cpp`, generated from the same elements) passing a
flit on is a function call, and gem5 devices run the whole NIC inside a call.
Around the elements there are a verbs library, facades, a provider and a driver
for the UMDK stack, gem5 devices, and a RoCE baseline built in the same way.

This directory holds specifications of the elements by themselves, of whole NICs
and what surrounds them, the TLC models that check them, and proofs that TLAPS
checks.

## The parts of the system

A packet is a metadata flit (`sop`), usually an extension flit, and payload
flits; the last has `eop`. On the way out a request passes

    UB_Doorbell -> UB_Jetty_Sched -> UB_OrderTracker_Initiator -> UB_BTAH_Build
      -> UB_TPG_Group -> UB_TPChannel_TX -> UB_Cong_Window -> UB_Retrans_Buffer
      -> header builders -> UB_Eth_Encap -> wire

and on the way in

    wire -> UB_Eth_Decap -> header parsers -> UB_TPChannel_RX -> UB_PSN_Reorder
      -> UB_BTAH_Parse -> UB_OrderTracker_Target -> UB_MR_Table -> UB_Txn_Dispatch
      -> memory, UB_Jetty_Group, UB_Jetty_Recv -> UB_TAACK_Gen ... ;
      responses -> UB_Completion_Reorder -> completions

`UB_RTO_Timer` raises timeouts. `PROJECT.json` lists every part, modelled or
not, and the hazards of each.

| Part of the system | Module | Status |
| --- | --- | --- |
| `UB_Doorbell`, `UB_Jetty_Sched` | `JettySched`, `JettySchedProofs` | modelled, proved |
| `UB_OrderTracker_Initiator` | `OrderIni`, `OrderIniProofs` | modelled, proved |
| `UB_OrderTracker_Target` | `OrderTgt`, `OrderTgtProofs` | modelled, proved |
| `UB_Completion_Reorder` | `CompletionReorder`, `InitiatorProofs` | modelled, proved |
| `UB_TPChannel_RX`, `UB_PSN_Reorder` | `RtpReceive`, `RtpReceiveProofs` | modelled, composed, proved |
| `UB_TPChannel_TX`, `UB_Retrans_Buffer` | `RtpSend` | modelled, composed |
| `UB_RTO_Timer` | `RTOTimer`, `InitiatorProofs` | modelled, proved |
| all connected elements of a NIC in the TLM build, its facade | `UbNic` | modelled as wired |
| two gem5 `UBController`s and a link | `TwoNode` | modelled, composes two `UbNic` |
| RoCE baseline: all connected elements, `NICTopologyRoCE`, `WireLoopback` | `RoceNic` | modelled as wired |
| UMDK kernel provider and driver, `NICTopologySC` data plane | `GuestNic`, `GuestNicProofs` | partly; registration and order of receives proved |
| shared-memory ring of `NICTopologySC` | `PeerRing`, `GuestNicProofs`, `Channel` | modelled, refinement proved |
| UMDK provider and wire backend (`openurma_provider.c`, `openurma_nic.cpp`) | `Provider`, `ProviderOrderProofs`, `ProviderProofs` | partly; its invariants proved |
| transmit side of the wire backend, its release and shutdown (`openurma_nic.cpp`) | `TxDrain`, `InitiatorProofs` | modelled, proved |
| verbs (`urma_swemu.cpp`) | posting only, in `JettySched` | partly |

## How the modules are written

*One action per call.* An action does all that a call of a handler, a transaction
or a packet callback does: what is read, the state that changes, what is put out,
and the drain at the end. Where a handler reads two ports in one call, either the
action has the second input as a parameter (`JettySched`, `OrderIni`, `RTOTimer`
and the retransmission buffer), or the two are separate steps that may follow each
other directly (`TxAck` and `TxMeta` in `RtpSend`), which allows more than the code
does. A handler returns the ports it wants to read next; the element models let
any port be read at any call, which also allows more.

*One flit per port and call.* `set_output_port` overwrites what an earlier
`set_output_port` of the same call wrote. The models keep this: a call that
writes several times emits the last flit only (`LastOf`).

*Whole NICs.* In `UbNic` and `RoceNic` each element is an operator from a NIC and a
flit to the NIC after its handler and the flits put out; `Run` takes each flit to
the end before the next port's, as nested `b_transport` calls do, and `Drain` is
the sweep loop of `drain_synchronous`, with its idle threshold.

*Data.* A flit is reduced to the fields the handlers test, and to what says
which packet and which flit of it it is. Rings are sequences of at most
depth - 1 flits, or arrays where the slot matters. A stream is a sequence that
holds what has not been read. PSNs and TASSNs are numbers modulo a small
constant in place of 2^24 and 2^16 (`UbNic` keeps 2^24); because a number is
compared by its distance from another, packets and acknowledgements older than
half the space are left out, as the 24 bits justify. A frame is its header fields
and its length in bytes, cut into chunks of 32; a flit after the first is what its
bytes mean as an extension header and as data, because elements read one as the
other.

*History.* `out`, `got`, `answered`, `done` and the like record what a property
needs and are never read by a guard that models code.

*Environment.* Hosts, wires and the responding side are actions of their own,
with named bounds (`MaxWrs`, `MaxBacklog`, `MaxRepeats`, `MaxPkts`, `MaxUnacked`,
`Ahead`, ...). In the topology the acknowledgement ports of the sender and the
timer are not connected; `RtpSend` and `RTOTimer` follow the contract that the
elements document for these ports, `UbNic` leaves them unconnected.

*Mutants.* `X_Suffix` before a definition `X` is a variant of it with a mistake
such code could have. Each property is violated under one of them; they are used
by nothing else.

### JettySched

State: `queue`, `cur_input_ini`, `drain_active_ini`, `drain_in_packet`, the
round-robin cursor and the outstanding counters of `UB_Jetty_Sched`, as in its
`.state`. `HostPost` is a host posting a request through the doorbell, which
drops what is not valid; `Respond` the far side answering a read or atomic.
`SchedIdle`, `SchedFlit` and `SchedStray` are a call without a flit, with one,
and with a body flit before any first flit; each may read a notification first,
and each ends with the drain.

### OrderIni

A call without a flit (`Idle`), a first flit that passes or is queued (`SopPass`,
`SopQueue`), a later flit that passes or is queued (`NextPass`, `NextQueue`). A
call that passes a flit returns before the drain; the others end with it.

### OrderTgt

`MetaOther`, `MetaExecute`, `MetaBuffer`, `BodyAttach`, `BodyPass` and `Idle`:
each runs the drain of the current initiator unless it emitted. The arrivals are
one of the sequences in the constant `Orders`.

### CompletionReorder

`MetaBypass`, `MetaOrdered`, `BodyBypass`, `BodyOrdered`; the release at the end
of each belongs to it. Arrivals are one of the sequences in `Orders`.

### RtpReceive

Two elements and the stream between them. `Arrive` is the wire: any packet not
too far ahead, once, never, or again (`MaxRepeats` times in all). `RxInOrder`, `RxOutOfOrder`,
`RxDuplicate`, `RxNak` and `RxBody` are the receiver, `Provision` the host's
command; `ReorderMeta`, `ReorderPair`, `ReorderPass` and `ReorderDrop` are the
reorder buffer.

### RtpSend

`TxMeta`, `TxPass`, `TxAck`, `Provision` and `TearDown` are `UB_TPChannel_TX`.
`RtxEvent`, `RtxUno`, `RtxMeta` and `RtxBody` are the retransmission buffer, with
or without an event read in the same call. `Receive` is the far receiver: `ooo` says
whether it takes packets out of order. If it does it reports them, and if not it
refuses them with an answer that has the form of a TPACK of the expected packet.
Answers may be used late, repeatedly or never.

### RTOTimer

`Ack`, `Tick` and `AckTick` are the calls that read the one, the other or both
ports; `SetBase` the host's command. `sent` and `waiting` record packets
of the environment.

### Provider

Two threads of node A and a passive node B. `PostStart`, `PostRecord`, `PostSend`,
`PostFail` and `PostPump` are the parts of `ou_post_one` between which the lock is
free; `PollStart` and `PollComplete` those of `ou_poll_jfc`. The ring of requests
is kept slot by slot, because a slot keeps its status when it is used again.
`BgSwap`, `BgSend`, `BgSendFails` and `BgRecv` are `bg_run`; `OnWriteAck` and
`OnReadRsp` the callback at A; `OnWrite`, `OnReadReq` and `OnSend` the callback at
B, `PostRecv` and `PollRecv` B's application. `DeleteContext`, `ReleaseNic` and
`CreateContext` close a context and open the next on the same NIC. The SystemC
pipeline is outside: it may refuse a request, complete any that is outstanding at
any poll, and make the wire fail when a flit of its own finds the queue full;
these flits are not in the queue otherwise. B's transmit queue is part of the FIFO to A.
The transmit counter is left to `TxDrain`.

### TxDrain

The transmit side of `openurma_nic.cpp` with a step for each section under the lock
and each atomic load, store or update. `Call`, `SendTest`, `SendPush`, `SendCount` and
`SendRefuse` are `openurma_nic_data_send`, and `openurma_nic_pump` for a flit;
`PumpFull` and `PumpZero` are the failure of the wire that `pump` declares when the
queue is full. `BgSwap`, `BgTest`, `BgSendto`, `BgSub`, `BgFails`, `BgZero` and `BgLoop`
are `bg_run`, whose callbacks also send. `DrainedFatal` and `DrainedPending` are the
two loads of `openurma_nic_tx_drained`; `Destroy`, `Release` and `Reuse` are the release
of the NIC and its reuse, `Shutdown` and `Join` the final shutdown. Frames are alike and
the queues are first in, first out, so a queue is its length. Atomic accesses are
sequentially consistent; the code asks for relaxed ones, so on a weakly ordered
machine more could happen than is checked. `since`, `said` and `due` record what the
application was told.

### UbNic and TwoNode

`UbNic` has no variables: a NIC is a record with a field per element that keeps
state, named after the instance in the topology. `TwoNode` gives each of two
hosts one and adds the controllers and the link. `Write` is a store of one flit
to the aperture: the facade's doorbell, its drain, the completions and the chunks
that come out. `Read` pops a completion. `RecvPacket` is a chunk that arrives from
the link, with its drain. `Kernel` is the SystemC kernel running the armed drain
methods between calls, until they disarm. Hosts post one of the sequences in
`Programs`. Requests carry no fence and no order tag: the elements that act on
these need the feedback inputs, which the topology ties to null sources, and are
modelled by themselves.

### RoceNic

`Write` is a store of one flit to the doorbell slot of `NICTopologyRoCE`, and all
that follows: through the elements to the wire, over `WireLoopback` back into the
same NIC, and to the completion queue (`PumpWire` repeats until the wire is quiet).
`Read` is a load of the completion slot, which discards empty entries, takes one,
and clears the interrupt pin when none is left.

### GuestNic, PeerRing and Channel

`GuestNic` is the kernel-path provider, the driver's token sequence and the NIC's
data plane. `RegisterSeg` and `StoreMr` are the four stores of a registration, one by
one, into the slot that all processes of a node share; the last fires.
`PostWrite`, `PostRead`, `PostAtomic` and `PostSend` are the cases of the doorbell
that end on this node, `PostPending` a send kept for a later receive, `PostPeer`
and `PeerSent` the two halves of `peer_send`, between which the other node runs,
`PostUnsent` the requests that send nothing. `PostRecv` is the receive doorbell
with its delivery of a kept send. `PollDrain` is one packet of `peer_ring_drain`,
`PollCq` the rest of the poll. A memory cell stands for a 4 KB page, the unit in
which `ou_dma_mr` translates and `ou_copy_mr` copies. A segment may reach past the
pages that are mapped, so that a copy or a transfer fails half way and leaves what it
had written. Jetty and JFC ids are counted by each node, so processes of two nodes
have the same ones; the token sequences of the nodes start alike or apart (`Token0`).
`torn[p]` records that
another process stored into the slot during a registration of p.

`PeerRing` is the ring and its counters in shared memory: `Fill` and `Publish` on
one side, `Take` on the other. `Channel` is what it promises, a queue in each
direction. The mapping (`Queue`) reads the slots from `tail` up to `head`; `Fill` is
a stutter, `Publish` a send, `Take` a receive. Every step of `GuestNic` is a step of
`PeerRing` or leaves it alone.

## The runs

Runs that pass:

| Run | Checks | Distinct states |
| --- | --- | --- |
| `JettySched_paced` | fences, whole packets, the inductive invariant, progress | 60,662 |
| `OrderIni_paced` | strong order alone, progress | 265,110 |
| `OrderTgt_orders` | execution order, attachment, conservation up to a full ring, progress, across the TASSN wrap | 848 |
| `Initiator_parts` | completion reorder: release order for all arrival orders, progress for near ones, across the TASSN wrap; timer: bounds, acknowledgement before expiry, loss detected; wire backend: what `tx_drained`, destroy and shutdown tell is true | 762,701 |
| `RtpReceive_reorder` | truthful acknowledgements, order, agreement of the two windows, across the PSN wrap; delivery of in-order traffic of two peers | 362,085 |
| `RtpSend_paced` | the ring is what is unacknowledged; only what is missing is resent; receivers with and without out-of-order delivery | 119,861 |
| `Provider_rc` | one completion per request, in order; true status; progress | 511,704 |
| `TwoNode_oneway` | data lands as posted, acknowledgements mean done, atomics apply once, every request is scheduled and delivered | 63,787 |
| `RoceNic_loopback` | requests pass once and in order, exactly their acknowledgements come back, the pin, what is lost | 690,756 |
| `GuestNic_twonode` | receives, data, counters, registrations, the ring implements `Channel` and is emptied | 95,978 |

`Initiator_parts` runs three parts that share nothing, `CompletionReorder` (3,759 states),
`RTOTimer` (46,656) and `TxDrain` (712,286); in a behaviour one of them moves, because
interleaving them would show nothing about any.

Two runs check a sentence of the code that the code does not keep; `PROJECT.json`
quotes the lines.

*`GuestNic_pending`.* `NICTopologySC.cc:441` calls the receive queue "FIFO per jetty", and the header
says at line 226 what it holds. When a send waits for its receive, the receive
doorbell delivers it to the receive just posted and leaves that receive in the
queue (line 905 on). The next send completes the same receive a second time.

*`RoceNic_responses`.* `RoCE_Comp_Gen` and `RoCE_Comp_Stream` describe responses that
carry read data and the original value of an atomic. The header of such a response
waits in the encapsulation for its extension flit; the acknowledgement that
`RoCE_ACK_Gen` makes of the same request comes in between and starts a new frame
(`openroce_gen_fixed/topology_tlm.cpp:2488`). No response with data reaches the host.
`AcksExact` says what does.

### Limits of what the runs assume

The passing runs leave out the following, because there the code does not keep
the property, or does something a reader would not expect.

Elements:

* `UB_Jetty_Sched.clnp:92`, `UB_Retrans_Buffer.clnp:151`: more flits or packets than
  a ring holds. The host's pace is bounded (`MaxBacklog`, `MaxUnacked`). In the
  scheduler a dropped `eop` lets the next request be drained as the rest of that
  packet, its fence unread (`FenceSafe` alone, four requests, `MaxBacklog = 6`).
* `UB_OrderTracker_Initiator.clnp:88`: an SO that finds the counter at zero passes
  earlier SOs of its initiator that are still queued. `SoAlone` is about requests
  already issued. Line 97: a packet that passes straight through may leave
  between two flits of one being drained.
* `UB_OrderTracker_Target.clnp:136`: only the oldest arrival in the ring of the
  current initiator is looked at, an NO does not move the mark (line 78), and the
  second flit of a buffered transaction is not emitted (line 144). An RO that
  arrives early moves the mark past what has not executed (line 82). The arrival
  orders have one late transaction, or neighbours exchanged, of one initiator.
* `UB_Completion_Reorder.clnp:95`: one release per flit that is read, a completion
  that bypasses does not advance `next_tassn` (line 62), and second flits are not
  emitted (line 99). `AllReleased` asks for nearly ordered arrivals.
* `UB_TPChannel_RX.clnp:74`: an unprovisioned channel starts at the first PSN it
  sees. `FirstFirst` makes that packet 0. Line 135: the answer to a packet outside
  the window has the form of a TPACK of the expected PSN; `AckTruthful` sets these
  answers apart by `nak`, which no field on the wire carries. Line 156: signal 1
  leaves the bitmap, so `Late` is false.
* `UB_PSN_Reorder.clnp:63`: when the missing packet comes, the drain puts out several
  flits in one call, and only the last reaches the port. `OutInOrder` is about what
  leaves; `AllDelivered` is about traffic that comes in order. Line 56: 8 slots
  against a bitmap of 64; in the run `Window` and `BitmapBits` are equal.
* `UB_TPChannel_TX.clnp:80`, `UB_Retrans_Buffer.clnp:143`: destinations that share a
  channel index or a ring restart or overwrite each other; the runs have none that
  share.
* `UB_TPChannel_RX.clnp:135` at the sender: the retransmission ring takes a refusal for
  an acknowledgement of the expected packet and drops that packet, which the receiver
  still misses. `WindowRight` is about what the sender was told.
* `UB_Retrans_Buffer.clnp:112`, `:127`: an event puts one flit on the port, so not all
  missing packets are sent again. `SackExact` is about which ones may be.
* `UB_RTO_Timer.clnp:73`: a destination that was never acknowledged is unknown to the
  timer; `LossDetected` asks that it is known.

Whole NICs (lines of `topology_tlm.cpp` are those of `openurma_gen_fixed`):

* What the far side's `UB_TAACK_Gen` puts out never reaches the wire: the
  acknowledgement a host reads is made of the TPACK, which is sent when the
  metadata flit is received (line 824 on). A comment at `UBController.cc:321` says a
  genuine TAACK comes back. `AckMeansDone` shows that a host nevertheless sees no
  acknowledgement before the request was carried out, in one-way traffic.
* A negative or selective acknowledgement is not told from a positive one there.
* Acknowledgements and requests of one node meet in `UB_Eth_Encap`, which starts a new
  frame at every metadata flit: with traffic both ways a request may lose its rest.
  `TwoNode_oneway` has one posting host.
* A host that stops inside a request holds the scheduler's output (`Scheduled` sets
  this case apart).
* The padding of the last chunk reaches `UB_HBM_Atomic` as one more flit, applied to
  word 0 with operand 0; `AtomicsOnce` excludes word 0.
* The path that `UB_TPG_Group` chooses is overwritten by `UB_TPChannel_TX`, and a
  request that `UB_MR_Table` rejects loses only its extension flit.
* Chunks that `Kernel` puts out stay in the facade until the next call of the
  controller; `LinkDelivers` is about what reached the link.
* RoCE: the R_Key on the wire is 0 and write data is not on the wire. An
  acknowledgement means that the request was received, not that the MR table admitted
  it. QPs that share a table index alias, and the remote
  number of a QP is that of its first request; the run has neither. The pin may
  stay up when only empty entries are left.

Provider and guest:

* `openurma_provider.c:595`: the status of a slot is not reset when it is used again,
  so a send or an atomic may report the error of an earlier request. `StatusTrue` is
  about reads and writes, whose status comes with the answer. A `WRITE_IMM` does not
  wait for its answer (line 710), which may then meet the next context; the workload
  of `Provider_rc` has none.
* `openurma_provider.c:222`: request numbers start at 1 in each context, so a read of
  a new context may complete on the answer to a read left outstanding in the one
  before. `CleanClose` closes a context only when nothing is outstanding.
* `openurma_provider.c:269`: an answer that B cannot queue is lost, and A has no
  timeout for it. B's queue does not overflow and its wire does not fail.
* `openurma_nic.cpp:232`: `tx_drained` loads `fatal_errno` and then `pending_tx`. When the
  wire fails between the two, the failure has cleared the counter (line 95), and the call
  says yes of frames that are never sent, against the comment at line 230 ("True once
  all queued outbound frames have been shipped by the bg thread"). `SaidTrue` leaves
  this case out by looking at the wire when the call ends; without that TLC finds it.
* `openurma_nic.cpp:209`: destroy gives up after 20,000 looks at a queue that is not
  empty; `SaidTrue` is about a destroy that saw it empty. It does not see the frames
  that were swapped out, which the shutdown waits for.
* `NICTopologySC.cc:762`: a write or send to the other node completes with success when
  it is put into the ring, also when it is too big for a slot and nothing is put
  there, and a send also when its buffer cannot be read. What arrives without a
  receive, or for an address that is not mapped, is dropped.
* `NICTopologySC.cc:807`: on a node with a peer, a send before its receive goes to the
  other node even if the receive will be posted here.
* `NICTopologySC.cc:524`: `peer_send` never looks at `tail`; `Ahead` bounds how many
  packets the applications leave unread.
* `NICTopologySC.cc:632`: registrations of two processes that interleave in the shared
  slot disturb each other, and `openurma_ubcore.c:184` keeps 6 bits of the token
  sequence, so that tokens repeat. `MrIntact` sets both apart.
* `NICTopologySC.cc:643`: the page table of a registration is read from core 0. The
  model has one core per node, the default of the configuration; with more, the entry
  may get the page table of a process that runs elsewhere.
* `NICTopologySC.cc:740`: an address counts as local when its token is in the table of
  the node, so a write stays on the node when the tokens of the two nodes coincide. The
  applications register dummies to keep them apart (`twonode_write.c:51`); the run has
  both cases.
* Pages that are not mapped occur in segments larger than what registration pins
  (`OU_MR_PIN_CAP`).
* `NICTopologySC.cc:244`: a completion queue drops its oldest entry when it is full, and
  line 868 clears the one interrupt when one of the queues is empty. `GuestNic`
  states its properties about what was completed, not about what was polled.

### Bounds

Two initiators suffice for every interference between queues: the handlers never
compare more than the current one with the one being drained. Rings of four
(three usable places) hold a packet of two flits and half of another, so a ring
fills in the middle of a packet. Windows of three or four with PSN spaces of
four, six or eight let traffic wrap while packets are parked. The timer has three
channels and destinations that share one. The provider posts three
requests over rings of three slots (two usable) and a transmit queue of one frame,
so the ring fills, its indices wrap, and data is refused with the wire intact; the
backstop is one poll. `TxDrain` has two threads besides the background one, a queue of
two frames and four frames in all, so that the queue fills while as many are being
sent, and a counter modulo five, which passes below zero after a failure. Packets have one to three
flits: metadata, extension, and a payload flit beyond what the buffers keep.

`TwoNode` has three requests out of six kinds (writes of one and two payload
flits, atomics, a read, a send to a group; the service modes and UNO), the first a
two-flit write, a fetch-and-add or a send, and 16
initiators against four idle sweeps, so that the sweeps of a call do stop short
of a queue. `HbmSize` is 96 bytes, the length of three payload flits.
`RoceNic` has five requests of two QPs over four PSNs and six completion entries,
so that PSNs wrap and entries are pushed out. `GuestNic` has a ring of two slots
and counters that wrap at four, a completion queue of one entry and a receive
queue of three; its programs contain each verb, failing at each place it can, with
one of two pages of a write unmapped.

`CHECK_DEADLOCK FALSE` is set wherever the environment may have nothing left to
send.

### Fairness

An element's handler is called for ever by its thread, so the actions of an
element are weakly fair: a flit that can be read is read, and an idle call
happens again and again. Responses to issued requests are fair where a liveness
property is about what waits for them: the property is that the element
does not block what was answered. Posting, loss, duplication and host commands are never
fair; `AllDelivered` alone asks that a packet not yet arrived is repeated, which a
sender with a timer does. The timer's ticks are fair, being a clock's. In
`Provider` the two background
threads loop for ever, a post that was begun goes on, and the application keeps
polling, without which no completion is ever delivered. In `TwoNode` the simulator
delivers what is on the link and runs armed methods, and a host with completions
reads them; it need not post. `FairSpec` writes this weak fairness out (`Busy` is
when such a step is enabled), because evaluating
`ENABLED` would run both NICs once more for every state. In `GuestNic` an access that was begun ends, and some application of a
node polls while there is something to poll.

## The proofs

`JettySchedProofs` proves, for any number of initiators, ring depth, packet
length and number of requests:

* `TypeCorrect`: `Spec => []TypeOK`, with no further assumption;
* under `MaxBacklog < QueueDepth` (the host keeps fewer flits in the scheduler
  than a ring holds): `SchedCorrect` (`SchedInv`), and from it `FenceHolds`,
  `PacketsWhole` and `HeadsStartPackets`.

`FenceSafe`, `Contiguous` and `HeadIsSop` are not inductive: a queue that starts
with the rest of a packet satisfies them until the next drain. `SchedInv` adds
what makes them so: the unread input is the rest of one packet in order
(`FeedInv`); each queue is whole packets, except that the one being drained may
start, and the one being filled may end, in the middle (`QueueInv`); the drain
stands in the middle of the packet last emitted (`DrainInv`); and the counter of
an initiator is the number of its issued and unanswered reads and atomics
(`CountInv`). The proof has a lemma for each helper, then one per action and
conjunct. TLC checks `SchedInv` in `JettySched_paced`. The assumption on the
backlog is needed; see the limits above.

`InitiatorProofs` proves, of the timer, `TypeCorrect`, `WaitsAreBounded`, `StaticIsUniform`
and, as an action property, `AckWins`, for any number of channels and any timeouts.
The invariant adds to `TypeOK` that the base timeout is between 1 and the
maximum, on which the other bounds rest.

`GuestNicProofs` proves `RingIsQueue`: the ring implements `Channel` for any nodes,
packets and number of slots, any counter width that is a multiple of it
(`RingAssumption`; 2^32 and 64 in the code), and applications that leave at most a
ring of packets unread (`PacedAssumption`). The invariant `RingInv` says that the
counters are at most `Ahead` apart, less while a packet is in its slot and not yet
counted, and that this slot holds a packet. The refinement then is arithmetic:
that a wrap of a counter does not move a slot (`WrapShift`), that numbers less than
a ring apart have different slots (`ModInjective`), and from these that filling the
next slot changes nothing queued (`QFill`), counting it appends it (`QPublish`) and
counting a read removes the oldest (`QTake`).

It carries this to the two nodes (`StepOfRing`, `GuestQueued`), for any
processes and programs, and proves `RegistrationIntact`. `MrIntact` speaks of
finished registrations and is not inductive; `RegInv` adds what the shared slot
holds of one under way that no other process disturbed (`SlotHolds`), and that a
token in the slot belongs to a registration under way (`SlotToken`), so that a
store which fires writes no other entry.

And it proves `ReceivedInOrder` (`ReceivesInOrder`) for joined nodes (`has_peer`) and
programs that number the receives of a process as they are posted (`InPostOrder`, which
TLC evaluates on the programs of the run, an `ASSUME` of `MC_GuestNic`). Without a
peer a send may wait for its receive, which then stays queued and is completed a second
time: `GuestNic_pending` shows the property false there. The invariant `RecvInv` puts the
receives of a process in one line: those completed, those in the queue of its NIC,
those its program still posts (`Good`). Every step moves the front of one part to
the end of the part before, or drops it, so the line stays increasing. For this `find_recv`
must take the oldest of the jetty (`FindRecvIs`); a call under way and its target must
be what the program says (`Underway`); and nothing waits for a receive when nodes are
joined (`NonePend`).

`OrderIniProofs` proves `IssuedAlone` (`SoAlone`) for any number of initiators,
ring length, packet length and requests, under `MaxBacklog < QSize`. A ring that
drops the end of a packet would let the next request be drained as its rest,
without looking at the counter, so the assumption is needed. The invariant says
what is in the rings and on port 1 (`QueueOK`, `LastOK`, `FeedOK`: packets of SO
requests in order, of which only the one being filled may end and the one being
drained start in the middle), that the drain inside a packet finds its rest
(`DrainOK`), and that the counter is the number of issued, counted and unanswered
requests (`CountOK`). Its parts take the state as parameters, because the drain at
the end of a call starts from a state inside the call.

`OrderTgtProofs` proves, for any number of initiators, ring length, TASSN width and
arrival order:

* `Conservation` (`Conserved`), with no further assumption. The invariant counts
  the places of a transaction: slots, output and dropped (`Placed`), and says that
  the slots with a metadata flit are those from head to tail (`RingOK`).
* `Attachment` (`AttachedRight`), when an initiator that sends SOs of one flit sends
  nothing longer (`Uniform`). A one-flit SO leaves a slot that waits for a second
  flit for ever, and takes that of the next transaction. `AInv` adds that
  a slot without a second flit is that of the transaction being read, unless its
  initiator sends single flits only (`WaitOK`). The run also has one-flit SOs among longer ones, which are
  executed when they arrive and so take no slot.
* `ExecutionOrder` (`SoInOrder`), when numbers are distinct (`Distinct`), ROs and SOs of
  other service modes come before the SOs numbered after them (`OthersFirst`), and
  a TASSN comes again, or an RO comes, only when what was numbered before has
  executed (`Fresh`). The code compares TASSNs for equality and executes ROs and
  other service modes at once, so none of the three can be left out. `SInv` says
  that each initiator has a count `c` that the code does not keep:
  exactly the numbers below `c` have executed, `exec_complete` is `c - 1` modulo the
  width, and what waits is less than one period ahead (`CountOK`).

`InitiatorProofs` also proves `OrderedRelease` (`ReleasedInOrder`) of the completion
reorder ring, for any length of it, TASSN width and arrival order with distinct
numbers that does not use a TASSN again too early (`Fresh`). Here too the invariant is about a count `c`:
`next_tassn` and `head` are `c` modulo the width and modulo the length of the ring, and
a slot holds the completion between `c` and `c + Win` that belongs there.

And it proves `ToldIsTrue` (`SaidTrue`) of the wire backend, for any threads, any length
of the queue and a counter that can hold more than two queues (`DrainAssumption`; 2^64
and 65,536 in the code). `SaidTrue` says nothing about the counter and is not
inductive. `DrainInv` adds, for a wire that has not failed: the counter, and the frame
of a thread that has queued it and not counted it yet, make up the queue and the copy
being sent; what was accepted makes up these and the wire; and what destroy saw is on
the wire or in the copy (`DrainCounts`). It says where the threads may be: one holds the
lock while it counts, and the copy is empty when the background thread ends
(`DrainPlaces`). While the wire is intact the counter never passes below zero, because a
frame is counted before the lock under which it can be taken is released.

`RtpReceiveProofs` proves the three invariants of the receiver for any peers, packets
and packet lengths, any number of repeated arrivals and commands, any even PSN space,
and any bitmap of at most half of it (the wire brings no copy older than that, or the
code would take it for a new packet):

* `TruthfulAck` (`AckTruthful`), in a `Setting` where no two peers share a channel, a
  channel is provisioned before its first packet or opened by packet 0, and no
  packet is a whole PSN space ahead. The code starts an unprovisioned channel at the
  first PSN it sees, restarts one that another peer uses, keeps the bitmap when it is
  provisioned, and takes a packet a PSN space ahead for the expected one, so none of
  the four can be left out. `RxInv` says that what was accepted
  from a peer is all before a first missing packet and, after it, exactly what the
  bitmap shows (`GotIs`), that the expected PSN is that packet's, and that the rest of
  a packet on port 1 belongs to one that is near it (`Near`). That a copy is not taken
  for a new packet then is arithmetic (`DiffIs`).
* `AgreeingWindows` (`WindowsAgree`), when what is accepted also fits into the slots
  (`Fits`). With `BITMAP_BITS` 64 and `WINDOW` 8 this holds in the code while no packet
  overtakes as many as 8; one that does is accepted and acknowledged, and finds no slot.
  `LinkInv` is the agreement with a FIFO that is not empty: there is a count `b` that
  the code does not keep, with `base` its remainder, and the packets before `b`, in the
  slots and in the FIFO are together the ones accepted (`MidOK`); each in the FIFO is less
  than `Reach` after the first one missing before its turn (`Placed`), so it has
  a slot when it is read.
* `OrderedOutput` (`OutInOrder`), in the same setting. The metadata flits that left are
  before `b` (`Left`), so the next one is after them. That traffic without overtaking
  leaves whole needs `WholeInv`: the slots are empty, what left and what is in the FIFO
  form one line in which a flit follows the one before it in its packet or starts one
  after an end (`Chain`), and the flit on port 1 is due there (`Due`).

TLC evaluates `Setting` and `Fits` on the constants of `RtpReceive_reorder` (an `ASSUME`
of its MC module).

TLC evaluates `Distinct` and `OthersFirst` on the arrival orders of the two runs (the
`ASSUME`s of their MC modules), and `Fresh` holds in every state of both when it is
given as one more invariant: the hypotheses of the theorems hold where the runs
look, across the wrap of the TASSN.

`ProviderProofs` proves the two invariants of the provider for any workload, any
sizes of the rings, the queue and the lists, any number of contexts, and any
interleaving of the application, the background thread, the peer and the failure of
the wire. What it rests on is in `ProviderOrderProofs`: that the types (`Types`), the
copy being sent (`TxOK`), the order (`OrderInv`), what frames say (`FrameOK`) and the numbers
of a post under way (`PostOK`) are kept by every step.

* `EachCompletesOnce` (`CompletesOnce`), with no further assumption. `OrderInv` says
  that the slots of the ring, across its wrap, hold the requests after the completed
  ones (`InOrder`); that a post which was given room still has it, although the
  background thread came between, and that no context is deleted during a call
  (`CallOK`); that the receives that wait follow those completed (`RecvOK`); and that
  frames and answers form one line of increasing requests, from the callback in
  progress over both directions of the wire and the part taken for sending to the
  queue, with nothing newer than what was sent (`FlowOK`). The last is what makes the
  messages of the receives increase.
* `StatusIsTrue` (`StatusTrue`), if contexts do not meet in the request numbers
  (`Separate`): there is one context, or each is left with nothing outstanding and
  none posts a write with an immediate. `ou_create_context` starts the numbers again
  while the wire keeps the answers to the requests of the context before, and a
  write with an immediate completes without its acknowledgement, so neither condition
  can be left out: with either dropped TLC finds a completion that reports the fate
  of another request. `StatusInv` says that the numbers of
  frames and slots were given out and that of a request about to be sent is of no other
  (`ItemReqs`, `SlotReqs`, `LastOK`); that a slot and a frame with the same number
  belong to the same request (`Match`), and an answer kept as early is of no write in
  the ring (`PendOK`); that an answer tells what became of its data, and the data of a
  frame on its way is where it was (`FrameOK`); that, when contexts are left with nothing
  outstanding, a frame with a number is of a request in the ring that waits for it
  (`CloseOK`, `HeldOK`), so that a new context finds none; and that a status which was
  set is true, and no frame is left that could make it false (`TruthOK`).

TLC evaluates `Separate` on the constants of `Provider_rc` (an `ASSUME` of its MC
module), and both invariants held there as invariants of the run before they were proved.

That a set of natural numbers which is not empty has a least one is a fact of the
library. It is stated as a predicate (`LeastOf` in `GuestNicProofs`, `FirstOf` in
`ProviderOrderProofs`) that the invariants carry, and proved before the theorems; the
library's facts on sequences and orders are thus not in the context of every other step.

Only model-checked: liveness (outside this prover's reach); `UbNic`, `TwoNode` and
`RoceNic`, whose `Run` and `Drain` are recursive operators; `RtpSend`; and of `GuestNic`
`DataThere` and `CounterRight`, which need programs that use no buffer and no counter in
two ways, a condition on whole programs of both nodes that the run meets and the code
does not ask for.

## Not modelled

* The congestion window's and DCQCN's arithmetic, and the retransmission reactions
  inside a whole NIC: their inputs are tied to null sources in the topologies.
  `UB_Switch_CAQM` and `UB_LoadStore_Engine` belong to other topologies.
* `UB_UTPH_Build`, the notification tee, the Jetty and TP tables and the clock: present
  in the topology with an input that never carries a flit, or with no effect on
  one.
* Bit layouts of headers. What each header carries, its length and the padding are
  modelled; the packing is not.
* `UBController`: the loopback, self-loop and echo modes, and the timing-mode response
  queue. `NICTopologySC`: the copy through the SystemC pipeline, load/store accesses,
  the in-process peer transport. They are experiment modes beside the ones modelled.
* Creation and deletion of the UMDK objects, the shim, the self-loop mode of the
  provider, the responder's queue limits.
* The SystemC facades, which push and pop flits; guest drivers and workloads, which
  are benchmarks over the devices; the analytical simulators, which compute with
  floating-point time; HLS and Verilog generated from the elements.
